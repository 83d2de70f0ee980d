------------------------------- MODULE Staff -------------------------------
(***************************************************************************)
(* Departments, positions, employees and the record of the moves of an     *)
(* employee, after backend/app/organization/service.py and router.py, and  *)
(* the chart that build_org_chart draws of them.                           *)
(***************************************************************************)
EXTENDS Handlers, Integers, Sequences, FiniteSets

CONSTANTS
    Employees, Departments, Positions,  \* the primary keys the tables may hand out
    None,                               \* NULL in a foreign key
    Niks, Codes,                        \* values of the unique columns
    Levels,                             \* hierarchy levels, 1 the highest
    MaxChanges                          \* bound on the rows of org_changes

VARIABLES
    departments,   \* table departments: the code of each
    positions,     \* table positions
    employees,     \* tables employees and users, one row each per employee
    changes        \* table org_changes, in the order of insertion

staffTables == <<departments, positions, employees, changes>>
staffVars   == <<staffTables, alone, sess>>

PositionRow == [code: Codes, dept: Departments, level: Levels]
EmployeeRow == [nik: Niks, dept: Departments \cup {None}, position: Positions \cup {None},
                supervisor: Employees \cup {None}, status: {"ACTIVE", "ALUMNI"},
                live: BOOLEAN, login: BOOLEAN, seen: BOOLEAN]
NoRow == [code |-> "none", live |-> FALSE, nik |-> "none"]

TypeOK ==
    /\ departments \in [Departments -> [code: Codes] \cup {NoRow}]
    /\ positions \in [Positions -> PositionRow \cup {NoRow}]
    /\ employees \in [Employees -> EmployeeRow \cup {NoRow}]
    /\ \A i \in DOMAIN changes : changes[i].of \in Employees /\ changes[i].kind \in {"PROMOTION", "MUTATION"}
Init ==
    /\ departments = [d \in Departments |-> NoRow] /\ positions = [p \in Positions |-> NoRow]
    /\ employees = [e \in Employees |-> NoRow] /\ changes = << >>
    /\ AllIdle
-----------------------------------------------------------------------------
\* create_department, update_department, create_position, update_position: the
\* codes are unique constraints, met at the commit.
CreateDepartment(s, code) == Add(s, "departments", [code |-> code])
UpdateDepartment(s, d) ==
    departments[d] # NoRow /\ Edit(s, "departments", d, departments[d], departments[d])
CreatePosition(s, code, d, level) ==
    departments[d] # NoRow /\ Add(s, "positions", [code |-> code, dept |-> d, level |-> level])
UpdatePosition(s, p, level) ==
    positions[p] # NoRow /\ Edit(s, "positions", p, positions[p], [positions[p] EXCEPT !.level = level])
CodeFree(rows, code) == \A k \in DOMAIN rows : rows[k].code # code
-----------------------------------------------------------------------------
\* get_department, get_position, get_employee_by_id, for a foreign key that is set
KnownDept(d)       == d = None \/ (d \in Departments /\ departments[d] # NoRow)
KnownPosition(p)   == p = None \/ (p \in Positions /\ positions[p] # NoRow)
LiveEmployee(e)    == employees[e].live
KnownSupervisor(e) == e = None \/ (e \in Employees /\ LiveEmployee(e))

\* create_employee: the login and the employee in one transaction.
NikFree(nik) == \A e \in Employees : employees[e].nik # nik
CreateEmployee(s, nik, d, p, supervisor) ==
    /\ NikFree(nik) /\ KnownDept(d) /\ KnownPosition(p) /\ KnownSupervisor(supervisor)
    /\ Add(s, "employees", [nik |-> nik, dept |-> d, position |-> p, supervisor |-> supervisor,
                            status |-> "ACTIVE", live |-> TRUE, login |-> TRUE, seen |-> FALSE])
ChangeEmployee(s, e, new) == Edit(s, "employees", e, employees[e], new)
\* The supervisor that update_employee and mutate_employee accept.
MaySupervise(boss, e) == boss # e /\ KnownSupervisor(boss)
\* update_employee: a field left out keeps its value, a null clears it; neither
\* is looked up.
Accepted(e, d, p, boss) ==
    /\ d \in {employees[e].dept, None} \/ KnownDept(d)
    /\ p \in {employees[e].position, None} \/ KnownPosition(p)
    /\ boss \in {employees[e].supervisor, None} \/ MaySupervise(boss, e)
UpdateEmployee(s, e, d, p, boss, status) ==
    /\ LiveEmployee(e) /\ Accepted(e, d, p, boss)
    /\ ChangeEmployee(s, e, [employees[e] EXCEPT !.dept = d, !.position = p, !.supervisor = boss, !.status = status])
\* soft_delete_employee
Left(row) == [row EXCEPT !.live = FALSE, !.status = "ALUMNI", !.login = FALSE]
DeleteEmployee(s, e) == LiveEmployee(e) /\ ChangeEmployee(s, e, Left(employees[e]))
\* mark_welcome_seen also finds an employee who was deleted.
MarkWelcomeSeen(s, e) ==
    employees[e] # NoRow /\ ~employees[e].seen /\ ChangeEmployee(s, e, [employees[e] EXCEPT !.seen = TRUE])
-----------------------------------------------------------------------------
\* The snapshots of promote_employee and mutate_employee.
LevelOf(p)   == IF p \in Positions THEN positions[p].level ELSE 0
Rank(row)    == <<row.position, LevelOf(row.position)>>
Place(row)   == <<row.dept, row.position, row.supervisor>>
Move(s, e, kind, new, before, after) ==
    Begin(s, [op |-> "move", key |-> e, seen |-> employees[e], new |-> new,
              change |-> [of |-> e, kind |-> kind, before |-> before, after |-> after]])

MayPromoteAny(row, p) == positions[p] # NoRow
MayPromote(row, p) ==
    positions[p] # NoRow /\ (row.position # None => positions[p].level < LevelOf(row.position))
Promote(s, e, p) ==
    /\ LiveEmployee(e) /\ MayPromote(employees[e], p)
    /\ LET new == [employees[e] EXCEPT !.position = p] IN Move(s, e, "PROMOTION", new, Rank(employees[e]), Rank(new))
\* mutate_employee: None keeps what is there.
Given(new, old) == IF new = None THEN old ELSE new
SnapshotsLate(old, new) == <<Place(new), Place(new)>>
Snapshots(old, new)     == <<Place(old), Place(new)>>
Mutate(s, e, d, p, boss) ==
    /\ LiveEmployee(e) /\ KnownDept(d) /\ KnownPosition(p) /\ MaySupervise(boss, e)
    /\ LET old == employees[e]
           new == [old EXCEPT !.dept = Given(d, @), !.position = Given(p, @), !.supervisor = Given(boss, @)]
       IN Move(s, e, "MUTATION", new, Snapshots(old, new)[1], Snapshots(old, new)[2])
MoveCommit(s) ==
    /\ sess[s].op = "move" /\ Len(changes) < MaxChanges
    /\ employees' = Edited(s, employees)
    /\ changes' = Append(changes, sess[s].change)
    /\ Finish(s) /\ UNCHANGED <<departments, positions>>
-----------------------------------------------------------------------------
\* The commit of the other handlers; a violated constraint rolls them back (Abort).
Insert(s, table, rows) ==
    \E k \in DOMAIN rows : rows[k] = NoRow /\ Adding(s, table) /\ rows' = [rows EXCEPT ![k] = sess[s].new]
Commit(s) ==
    /\ \/ /\ \/ Editing(s, "departments") /\ departments' = Edited(s, departments)
             \/ Insert(s, "departments", departments) /\ CodeFree(departments, sess[s].new.code)
          /\ UNCHANGED <<positions, employees>>
       \/ /\ \/ Editing(s, "positions") /\ positions' = Edited(s, positions)
             \/ Insert(s, "positions", positions) /\ CodeFree(positions, sess[s].new.code)
          /\ UNCHANGED <<departments, employees>>
       \/ /\ \/ Editing(s, "employees") /\ employees' = Edited(s, employees)
             \/ Insert(s, "employees", employees) /\ NikFree(sess[s].new.nik)
          /\ UNCHANGED <<departments, positions>>
    /\ Finish(s) /\ UNCHANGED changes

Request(s) ==
    \/ \E code \in Codes : CreateDepartment(s, code)
    \/ \E d \in Departments :
          \/ UpdateDepartment(s, d)
          \/ \E code \in Codes, level \in Levels : CreatePosition(s, code, d, level)
    \/ \E p \in Positions, level \in Levels : UpdatePosition(s, p, level)
    \/ \E d \in Departments \cup {None}, p \in Positions \cup {None}, boss \in Employees \cup {None} :
          \/ \E nik \in Niks : CreateEmployee(s, nik, d, p, boss)
          \/ \E e \in Employees, status \in {"ACTIVE", "ALUMNI"} : UpdateEmployee(s, e, d, p, boss, status)
          \/ \E e \in Employees : Mutate(s, e, d, p, boss)
    \/ \E e \in Employees :
          \/ DeleteEmployee(s, e)
          \/ MarkWelcomeSeen(s, e)
          \/ \E p \in Positions : Promote(s, e, p)

Step(s) == ((Request(s) \/ Abort(s)) /\ UNCHANGED staffTables) \/ Commit(s) \/ MoveCommit(s)
Next == \E s \in Sessions : Step(s)
Spec == Init /\ [][Next]_staffVars
-----------------------------------------------------------------------------
\* build_org_chart: the nodes of a department (of all of them, for None), the
\* roots among them and the children of each.
Nodes(d) == {e \in Employees : employees[e].live /\ d \in {None, employees[e].dept}}
RootsUnled(nodes) == {e \in nodes : employees[e].supervisor = None}
Roots(nodes)      == {e \in nodes : employees[e].supervisor \notin nodes}
Children(nodes, e) == {c \in nodes : employees[c].supervisor = e}
Below(nodes, shown) == shown \cup UNION {Children(nodes, e) : e \in shown}
\* The nodes within n levels of the roots.
Drawn(nodes) ==
    LET f[n \in 0 .. Cardinality(Employees)] == IF n = 0 THEN Roots(nodes) ELSE Below(nodes, f[n - 1])
    IN f[Cardinality(Employees)]

\* The chart, of the company or of a department, shows every employee, those whose
\* supervisor has left or works elsewhere too; only a circle of supervisors, each
\* led by another of them, and who is below it can be missing.
ChartComplete ==
    \A d \in Departments \cup {None} :
        LET lost == Nodes(d) \ Drawn(Nodes(d)) IN
        \A e \in lost : employees[e].supervisor \in lost \ {e}

\* The record of a move says where the employee was and is, and a promotion climbs
\* (handlers that do not overlap).
MovesAreTrue ==
    [][alone /\ changes' # changes =>
        LET c == changes'[Len(changes')] IN
        IF c.kind = "MUTATION"
        THEN c.before = Place(employees[c.of]) /\ c.after = Place(employees'[c.of])
        ELSE /\ c.before = Rank(employees[c.of]) /\ c.after[1] = employees'[c.of].position
             /\ c.before[1] # None => c.after[2] < c.before[2]]_staffVars
=============================================================================
