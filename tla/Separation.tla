----------------------------- MODULE Separation -----------------------------
(***************************************************************************)
(* The separation of employees, after backend/app/separation: approved in  *)
(* two layers and then executed, which sets the employee's status, deletes *)
(* the employee softly and switches the login off, in one transaction.     *)
(***************************************************************************)
EXTENDS Handlers, Naturals, FiniteSets

CONSTANTS
    Employees,    \* employees.id, each with a login
    Users,        \* the users that initiate and approve
    Types,        \* separation_type
    Seps,         \* the primary keys employee_separations may hand out
    NoUser        \* NULL in a column that refers to users

VARIABLES
    seps,         \* table employee_separations
    staff         \* what a separation writes of employees and of their users

sepVars == <<seps, staff, alone, sess>>

Open == {"DRAFT", "PENDING_APPROVAL_L1", "PENDING_APPROVAL_L2", "APPROVED"}
Statuses == Open \cup {"EXECUTED", "REJECTED", "CANCELLED"}
\* executed stands for executed_at and executed_by_user_id, interview for the
\* two columns of the exit interview.
Row == [status: Statuses, employee: Employees, type: Types, initiator: Users,
        l1: Users \cup {NoUser}, l2: Users \cup {NoUser},
        executed: BOOLEAN, interview: BOOLEAN]
NoRow == [status |-> "NONE"]
Exists(x) == seps[x] # NoRow

Left == {"RESIGNED", "TERMINATED", "ALUMNI"}
StaffRow == [status: {"ACTIVE"} \cup Left, deleted: BOOLEAN, login: BOOLEAN]
\* status_map of execute_separation
TypeAsStatus(t) == t
StatusAfter(t) == CASE t = "RESIGNATION" -> "RESIGNED"
                    [] t = "TERMINATION" -> "TERMINATED"
                    [] OTHER -> "ALUMNI"

TypeOK == seps \in [Seps -> Row \cup {NoRow}] /\ staff \in [Employees -> StaffRow]
Init ==
    /\ seps  = [x \in Seps |-> NoRow]
    /\ staff = [e \in Employees |-> [status |-> "ACTIVE", deleted |-> FALSE, login |-> TRUE]]
    /\ AllIdle

\* A request about one row.  Of each operation below, May is the check of the
\* service and the past participle the row it leaves; the action is the endpoint.
Change(s, x, new) == Edit(s, "seps", x, seps[x], new) /\ UNCHANGED <<seps, staff>>
-----------------------------------------------------------------------------
\* create_separation: an employee that has not left, with none in progress.
\* With two in progress (created together) scalar_one_or_none raises.  The
\* endpoint keeps auto_submit, the default: no row is ever a DRAFT, and
\* submit_for_approval, which wants one, always refuses.
NoneOpenPending(e) ==
    \A x \in Seps : Exists(x) /\ seps[x].employee = e => seps[x].status \notin Open \ {"APPROVED"}
NoneOpen(e) == \A x \in Seps : Exists(x) /\ seps[x].employee = e => seps[x].status \notin Open
NewRow(e, t, u, opening) ==
    [status |-> opening, employee |-> e, type |-> t, initiator |-> u, l1 |-> NoUser,
     l2 |-> NoUser, executed |-> FALSE, interview |-> FALSE]
MayCreate(e) == ~staff[e].deleted /\ staff[e].status \notin Left /\ NoneOpen(e)
Create(s, e, t, u) ==
    /\ MayCreate(e)
    /\ Add(s, "seps", NewRow(e, t, u, "PENDING_APPROVAL_L1"))
    /\ UNCHANGED <<seps, staff>>

\* approve_l1
MayApproveL1(q, u) == q.status = "PENDING_APPROVAL_L1" /\ q.initiator # u
ApprovedL1(q, u) == [q EXCEPT !.status = "PENDING_APPROVAL_L2", !.l1 = u]
ApproveL1(s, x, u) == MayApproveL1(seps[x], u) /\ Change(s, x, ApprovedL1(seps[x], u))

\* approve_l2
MayApproveL2Same(q, u) == q.status = "PENDING_APPROVAL_L2" /\ u # q.initiator
MayApproveL2(q, u) == q.status = "PENDING_APPROVAL_L2" /\ u \notin {q.initiator, q.l1}
ApprovedL2(q, u) == [q EXCEPT !.status = "APPROVED", !.l2 = u]
ApproveL2(s, x, u) == MayApproveL2(seps[x], u) /\ Change(s, x, ApprovedL2(seps[x], u))

\* reject_separation
MayReject(q) == q.status \in {"PENDING_APPROVAL_L1", "PENDING_APPROVAL_L2"}
Rejected(q) == [q EXCEPT !.status = "REJECTED"]
Reject(s, x) == MayReject(seps[x]) /\ Change(s, x, Rejected(seps[x]))

\* cancel_separation: any time before the execution, a rejected one included.
MayCancel(q) == q.status \notin {"EXECUTED", "CANCELLED"}
Cancelled(q) == [q EXCEPT !.status = "CANCELLED"]
Cancel(s, x) == MayCancel(seps[x]) /\ Change(s, x, Cancelled(seps[x]))

\* record_exit_interview
MayInterview(q) == q.status \in {"APPROVED", "EXECUTED"}
Interviewed(q) == [q EXCEPT !.interview = TRUE]
Interview(s, x) == MayInterview(seps[x]) /\ Change(s, x, Interviewed(seps[x]))

\* execute_separation: the effective date is not compared with today.
MayExecutePending(q) == q.status \in {"PENDING_APPROVAL_L2", "APPROVED"}
MayExecute(q) == q.status = "APPROVED"
Executed(q) == [q EXCEPT !.status = "EXECUTED", !.executed = TRUE]
Execute(s, x) ==
    /\ MayExecute(seps[x])
    /\ Begin(s, [op |-> "execute", key |-> x, seen |-> seps[x], new |-> Executed(seps[x])])
    /\ UNCHANGED <<seps, staff>>
GoneWithLogin(t) == [status |-> StatusAfter(t), deleted |-> TRUE, login |-> TRUE]
Gone(t) == [status |-> StatusAfter(t), deleted |-> TRUE, login |-> FALSE]
ExecuteCommit(s) ==
    /\ sess[s].op = "execute"
    /\ seps' = Edited(s, seps)
    /\ staff' = [staff EXCEPT ![sess[s].seen.employee] = Gone(sess[s].seen.type)]
    /\ Finish(s)

Commit(s) ==
    /\ \/ Editing(s, "seps") /\ seps' = Edited(s, seps)
       \/ /\ Adding(s, "seps")
          /\ \E x \in Seps : ~Exists(x) /\ seps' = [seps EXCEPT ![x] = sess[s].new]
    /\ Finish(s)
    /\ UNCHANGED staff
-----------------------------------------------------------------------------
Step(s) ==
    \/ \E e \in Employees, t \in Types, u \in Users : Create(s, e, t, u)
    \/ \E x \in Seps : Exists(x) /\
          \/ \E u \in Users : ApproveL1(s, x, u) \/ ApproveL2(s, x, u)
          \/ Reject(s, x) \/ Cancel(s, x) \/ Interview(s, x) \/ Execute(s, x)
    \/ Commit(s) \/ ExecuteCommit(s)
    \/ Abort(s) /\ UNCHANGED <<seps, staff>>

Next == \E s \in Sessions : Step(s)
Spec == Init /\ [][Next]_sepVars
-----------------------------------------------------------------------------
\* An employee has at most one separation in progress, and none once gone (for
\* handlers that do not overlap: the check and the insert are two statements).
OneInProgress ==
    alone => \A e \in Employees :
        LET open == {x \in Seps : Exists(x) /\ seps[x].employee = e /\ seps[x].status \in Open}
        IN Cardinality(open) <= IF staff[e].deleted THEN 0 ELSE 1

\* No operation on separations ends an employment or a login (others do: Staff,
\* Accounts) before two people other than the initiator approved the separation, and
\* what that separation changes it changes whole, whatever the handlers interleave.
GoneOnlyByApproval ==
    \A e \in Employees :
        \/ staff[e] = [status |-> "ACTIVE", deleted |-> FALSE, login |-> TRUE]
        \/ /\ staff[e].status \in Left /\ staff[e].deleted /\ ~staff[e].login
           /\ \E x \in Seps :
                 /\ Exists(x) /\ seps[x].employee = e /\ seps[x].executed
                 /\ StatusAfter(seps[x].type) = staff[e].status
                 /\ NoUser \notin {seps[x].l1, seps[x].l2}
                 /\ seps[x].initiator \notin {seps[x].l1, seps[x].l2}

\* Seen through status, initiator and approvers a separation is a two-layer
\* approval that ends with its execution and can be withdrawn until then.
AbstractStatus(q) == CASE q.status = "PENDING_APPROVAL_L1" -> "PENDING_L1"
                       [] q.status = "PENDING_APPROVAL_L2" -> "PENDING_L2"
                       [] OTHER -> q.status
Approval == INSTANCE TwoLayerApproval WITH
    Requests <- Seps, People <- Users, Nobody <- NoUser,
    Opening <- {"PENDING_L1"},
    Withdrawable <- {"PENDING_L1", "PENDING_L2", "APPROVED", "REJECTED"},
    After  <- [o \in {"APPROVED"} |-> "EXECUTED"],
    status <- [x \in Seps |-> IF alone THEN AbstractStatus(seps[x]) ELSE "NONE"],
    owner  <- [x \in Seps |-> IF alone /\ Exists(x) THEN seps[x].initiator ELSE NoUser],
    first  <- [x \in Seps |-> IF alone /\ Exists(x) THEN seps[x].l1 ELSE NoUser],
    second <- [x \in Seps |-> IF alone /\ Exists(x) THEN seps[x].l2 ELSE NoUser]
=============================================================================
