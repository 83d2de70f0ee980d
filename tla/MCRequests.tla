----------------------------- MODULE MCRequests -----------------------------
(***************************************************************************)
(* The requests that are approved and then carried out, and what is paid   *)
(* by the calendar, side by side: Reimbursement, Procurement,              *)
(* ChangeRequest, Separation, Thr and Salaries.  They share no table, so a *)
(* behaviour exercises one of them (part), either with one handler after   *)
(* another (alone) or with handlers in flight together.  The parameters    *)
(* are constants; the values of a small instance are at the end.           *)
(***************************************************************************)
EXTENDS Integers, FiniteSets, TLC

CONSTANTS
    Sessions,        \* the handlers that may be in flight together
    Employees,       \* employees that are not deleted, each with a login
    Users, NoUser,   \* users.id, and NULL in a column that refers to users
    UserOf,          \* employees.user_id
    ReimbApprovers,  \* the users that hold reimbursement.approve
    Buyers,          \* the users that hold procurement.create
    ProcApprovers,   \* the users that hold procurement.approve
    Codes, NoVendor, \* vendor codes, and NULL in a column that refers to vendors
    Editors,         \* the users that hold project.edit
    Projects, ClientProjects, Costs,
    Officers,        \* the users that initiate and approve separations
    Types,           \* separation_type
    Reimbs, Procs, Crs, Seps,   \* the primary keys of the tables
    Eligible,        \* employees active or on probation, with a joined_date
    Joined, Years, References, SalaryAt,
    Configs, Pays, LastDay, WorkingDays, Dates, Overtimes

ASSUME RequestsAssumption ==
    /\ NoUser \notin Users \cup Editors \cup Officers
    /\ UserOf \in [Employees -> Users]
    /\ ReimbApprovers \subseteq Users
    /\ Buyers \subseteq Users
    /\ ProcApprovers \subseteq Users
    /\ IsFiniteSet(Crs)
    /\ IsFiniteSet(Seps)

Date == [y: Nat, m: 1 .. 12, d: 1 .. 31]
ASSUME CalendarAssumption ==
    /\ References \subseteq Date
    /\ Joined \in [Eligible -> Date]
    /\ SalaryAt \in [Eligible -> [References -> Nat]]
    /\ WorkingDays # {}
    /\ LastDay \in Nat
    /\ WorkingDays \subseteq 1 .. LastDay
    /\ Dates \subseteq Int
    /\ 0 \in Overtimes /\ Overtimes \subseteq Nat
    /\ Pays \subseteq [basic: Nat, allowance: Nat, health: Nat, jht: Nat]

VARIABLES part, alone, sess, reimbs, procs, vendors, crs, seps, staff, thr,
    configs, today, attendance, slip, leaving

pay    == <<configs, today, attendance, slip, leaving>>
tables == <<reimbs, procs, vendors, crs, seps, staff, thr, pay>>
vars   == <<part, alone, sess, tables>>

R == INSTANCE Reimbursement WITH Approvers <- ReimbApprovers
P == INSTANCE Procurement WITH Approvers <- ProcApprovers
C == INSTANCE ChangeRequest WITH Users <- Editors
S == INSTANCE Separation WITH Users <- Officers
T == INSTANCE Thr WITH Employees <- Eligible
Y == INSTANCE Salaries

Init ==
    /\ part \in {"reimbursement", "procurement", "change", "separation", "thr", "salary"}
    /\ R!Init /\ P!Init /\ C!Init /\ S!Init /\ T!Init /\ Y!Init

Next ==
    /\ UNCHANGED part
    /\ \/ part = "reimbursement" /\ R!Next /\ UNCHANGED <<procs, vendors, crs, seps, staff, thr, pay>>
       \/ part = "procurement"   /\ P!Next /\ UNCHANGED <<reimbs, crs, seps, staff, thr, pay>>
       \/ part = "change"        /\ C!Next /\ UNCHANGED <<reimbs, procs, vendors, seps, staff, thr, pay>>
       \/ part = "separation"    /\ S!Next /\ UNCHANGED <<reimbs, procs, vendors, crs, thr, pay>>
       \/ part = "thr"           /\ T!Next /\ UNCHANGED <<reimbs, procs, vendors, crs, seps, staff, pay>>
       \/ part = "salary"        /\ Y!Next /\ UNCHANGED <<alone, sess, reimbs, procs, vendors, crs, seps, staff, thr>>

Spec == Init /\ [][Next]_vars
-----------------------------------------------------------------------------
TypeOK == R!TypeOK /\ P!TypeOK /\ C!TypeOK /\ S!TypeOK /\ T!TypeOK /\ Y!TypeOK
\* Whatever the handlers interleave, money leaves and orders go out only after
\* both layers have approved, people other than the one who asked.
SpentAfterTwoLayers == R!PaidAfterTwoLayers /\ P!OrderedAfterTwoLayers
\* A change request keeps the content its approvers saw, and its number.
ChangesAsApproved == C!ApprovedAsSeen /\ C!NumbersUnique
\* Of separations, an employee goes by one, approved by two others.
OneApprovedSeparation == S!OneInProgress /\ S!GoneOnlyByApproval
\* The holiday allowance counts the months that have passed; slips count the working
\* days, the same by whichever operation they are made, and never below zero.
AgreesWithCalendar ==
    T!AgreesWithCalendar /\ Y!WholeMonthsAgree /\ Y!NothingOwed /\ Y!DaysDecide
\* An allowance that was paid stays as it was.
PaidStays == T!PaidStays
\* The four kinds of request are one protocol: each is a two-layer approval,
\* seen through its status, requester and approvers.
RequestsAreApprovals ==
    R!Approval!Spec /\ P!Approval!Spec /\ C!Approval!Spec /\ S!Approval!Spec

\* A month is paid with a salary of that month (false: see the README).
PaidAsOfMonth == Y!PaidAsOfMonth
\* Nobody is paid an allowance before a full month of work (false: see the README).
FirstMonthPaysNothing == T!FirstMonthPaysNothing
-----------------------------------------------------------------------------
\* A small instance.  Two handlers may be in flight.
CONSTANTS e1, e2, u0, u1, u2, w0, w1, w2, q1, q2, p1, p2, v1, s1, s2

MCUserOf == e1 :> u0
MCDay(y, m, d) == [y |-> y, m |-> m, d |-> d]
MCJoined == e1 :> MCDay(2024, 1, 28) @@ e2 :> MCDay(2024, 12, 15)
MCReferences == {MCDay(2024, 2, 27), MCDay(2025, 1, 14), MCDay(2025, 1, 28)}
MCSalaryAt == [e \in {e1, e2} |-> [r \in MCReferences |-> IF r.y = 2024 THEN 12 ELSE 24]]
\* A month of five days, three of them working days, that ends on a day off.
MCPays == {[basic |-> 100003, allowance |-> 20001, health |-> 100, jht |-> 200],
           [basic |-> 80009, allowance |-> 0, health |-> 100, jht |-> 3400]}

\* Where handlers overlap one row of each table is enough to show what they do
\* to each other; a second row is there for handlers that follow each other.
\* What is claimed of change requests is claimed of such handlers only, and one
\* of two change requests, there for its number, stays a draft.
Bounds ==
    /\ part = "salary" => alone
    /\ part = "change" => alone /\ \E c \in {q1, q2} : crs[c].status \in {"NONE", "DRAFT"}
    /\ ~alone => /\ R!Exists(q2) => ~R!Exists(q1)
                 /\ S!Exists(q2) => ~S!Exists(q1)

BoundedInit == Init /\ Bounds
BoundedNext == Next /\ Bounds'
BoundedSpec == BoundedInit /\ [][BoundedNext]_vars

Symmetry == Permutations({q1, q2}) \cup Permutations({w0, w1, w2}) \cup Permutations({s1, s2})
=============================================================================
