------------------------------- MODULE Leave -------------------------------
(***************************************************************************)
(* Leave requests with two-layer approval and yearly balances, after       *)
(* backend/app/payroll/leave_service.py.                                   *)
(*                                                                         *)
(* A request handler runs in its own database session.  It loads rows,     *)
(* checks them, changes the loaded objects and commits; the service takes  *)
(* no row lock, so two handlers may both load a row before either commits, *)
(* and the second commit overwrites the columns the first one wrote.  A    *)
(* handler is therefore a "load" step (its checks on what it read), a      *)
(* step for every further read it waits for, and a commit step that writes *)
(* the columns it changed.  Sessions is the set of handlers that may be in *)
(* flight together: with one session the handlers run one after another.   *)
(***************************************************************************)
EXTENDS Integers, FiniteSets, FiniteSetsExt, Sums

CONSTANTS
    Employees,    \* employees.id
    Eligible,     \* the employees that are ACTIVE or PROBATION
    Users,        \* users.id
    UserOf,       \* employees.user_id
    Approvers,    \* the users that hold the permission leave.approve
    LeaveTypes,   \* leave_types.id
    PaidTypes,    \* the leave types with is_paid
    DefaultDays,  \* leave_types.default_days_per_year
    Dates,        \* the calendar days considered, as numbers
    Workdays,     \* the days that are neither weekend nor holiday
    YearOf,       \* the year of a day
    Requests,     \* the primary keys leave_requests may hand out
    Sessions,     \* request handlers that may be in flight together
    NoUser        \* NULL in a column that refers to users

ASSUME LeaveAssumption ==
    /\ Eligible \subseteq Employees
    /\ UserOf \in [Employees -> Users]
    /\ Approvers \subseteq Users
    /\ PaidTypes \subseteq LeaveTypes
    /\ DefaultDays \in [LeaveTypes -> Nat]
    /\ Dates \subseteq Nat /\ IsFiniteSet(Dates)
    /\ Workdays \subseteq Dates
    /\ YearOf \in [Dates -> Nat]
    /\ NoUser \notin Users

VARIABLES
    requests,     \* table leave_requests
    balances,     \* table leave_balances, keyed by its unique constraint
    sess          \* what each handler has loaded and not yet committed

vars == <<requests, balances, sess>>

-----------------------------------------------------------------------------
Pending  == {"PENDING_L1", "PENDING_L2"}
Statuses == Pending \cup {"APPROVED", "REJECTED", "CANCELLED"}
Years    == {YearOf[d] : d \in Dates}
Keys     == Employees \X LeaveTypes \X Years

\* calculate_business_days: both ends count, weekends and holidays do not.
BusinessDays(from, to) == Cardinality({d \in Workdays : from <= d /\ d <= to})

Row == [status: Statuses, employee: Employees, type: LeaveTypes,
        from: Dates, to: Dates, days: Nat,
        l1: Users \cup {NoUser}, l2: Users \cup {NoUser}]
NoRow == [status |-> "NONE"]
BalanceRow == [allocated: Nat, used: Nat]
NoBalance  == [allocated |-> -1, used |-> 0]

Exists(r) == requests[r] # NoRow
\* The balance a request is charged to: the year is that of its first day.
KeyOf(q) == <<q.employee, q.type, YearOf[q.from]>>
IsPaid(q) == q.type \in PaidTypes
\* carried_over_days is 0 in every row the code writes.
Remaining(b) == b.allocated - b.used
Live(q) == q.status \in Pending \cup {"APPROVED"}
OverlapStrict(p, q) == p.employee = q.employee /\ p.to > q.from /\ p.from < q.to
Overlap(p, q) == p.employee = q.employee /\ p.to >= q.from /\ p.from <= q.to

Idle == [op |-> "idle"]
CreateStates == [op: {"create"}, pc: {"balance", "overlap", "insert"},
                 employee: Eligible, type: LeaveTypes, from: Dates, to: Dates]
Layer1States == [op: {"approve_l1"}, request: Requests, user: Approvers]
Layer2States == [op: {"approve_l2"}, pc: {"balance", "commit"},
                 request: Requests, user: Approvers, used: Nat]
RejectStates == [op: {"reject"}, request: Requests]
CancelStates == [op: {"cancel"}, pc: {"balance", "commit", "refund"},
                 request: Requests, used: Nat]
SessionStates == {Idle} \cup CreateStates \cup Layer1States
                 \cup Layer2States \cup RejectStates \cup CancelStates

TypeOK ==
    /\ requests \in [Requests -> Row \cup {NoRow}]
    /\ balances \in [Keys -> BalanceRow \cup {NoBalance}]
    /\ sess \in [Sessions -> SessionStates]
    /\ \A s \in Sessions :
          sess[s].op \notin {"idle", "create"} => Exists(sess[s].request)

Init ==
    /\ requests = [r \in Requests |-> NoRow]
    /\ balances = [k \in Keys |-> NoBalance]
    /\ sess = [s \in Sessions |-> Idle]

-----------------------------------------------------------------------------
\* get_or_create_balance: the row, or the one it inserts (and commits) first.
BalanceOrNew(k) ==
    IF balances[k] # NoBalance THEN balances[k]
    ELSE [allocated |-> DefaultDays[k[2]], used |-> 0]

\* GET /leave-balances creates the rows the employee does not have yet.
OpenBalance(k) ==
    /\ balances[k] = NoBalance
    /\ balances' = [balances EXCEPT ![k] = BalanceOrNew(k)]
    /\ UNCHANGED <<requests, sess>>

\* create_leave_request up to the day count.
CreateLoad(s, e, t, from, to) ==
    /\ sess[s] = Idle
    /\ e \in Eligible
    /\ from <= to
    /\ BusinessDays(from, to) # 0
    /\ sess' = [sess EXCEPT ![s] =
           [op |-> "create", pc |-> IF t \in PaidTypes THEN "balance" ELSE "overlap",
            employee |-> e, type |-> t, from |-> from, to |-> to]]
    /\ UNCHANGED <<requests, balances>>

\* The balance check of a paid request; a new balance row stays even if the
\* request is then refused.
CreateCheckBalance(s) ==
    /\ sess[s].op = "create" /\ sess[s].pc = "balance"
    /\ LET q == sess[s]
           b == BalanceOrNew(KeyOf(q))
       IN /\ balances' = [balances EXCEPT ![KeyOf(q)] = b]
          /\ sess' = [sess EXCEPT ![s] =
                 IF BusinessDays(q.from, q.to) > Remaining(b) THEN Idle
                 ELSE [q EXCEPT !.pc = "overlap"]]
    /\ UNCHANGED requests

\* No pending or approved request of the employee may touch the dates.
CreateCheckOverlap(s) ==
    /\ sess[s].op = "create" /\ sess[s].pc = "overlap"
    /\ LET q == sess[s]
           clash == \E r \in Requests : /\ Exists(r) /\ Live(requests[r])
                                        /\ Overlap(requests[r], q)
       IN sess' = [sess EXCEPT ![s] =
                      IF clash THEN Idle ELSE [q EXCEPT !.pc = "insert"]]
    /\ UNCHANGED <<requests, balances>>

\* add and commit; the L1 approver is notified afterwards.
CreateCommit(s, r) ==
    /\ sess[s].op = "create" /\ sess[s].pc = "insert"
    /\ ~Exists(r)
    /\ LET q == sess[s]
       IN requests' = [requests EXCEPT ![r] =
              [status |-> "PENDING_L1", employee |-> q.employee, type |-> q.type,
               from |-> q.from, to |-> q.to, days |-> BusinessDays(q.from, q.to),
               l1 |-> NoUser, l2 |-> NoUser]]
    /\ sess' = [sess EXCEPT ![s] = Idle]
    /\ UNCHANGED balances

-----------------------------------------------------------------------------
\* approve_l1: the requester may not approve their own request.
MayApproveL1Unchecked(q, u) == q.status = "PENDING_L1"
MayApproveL1(q, u) == q.status = "PENDING_L1" /\ UserOf[q.employee] # u

ApproveL1Load(s, r, u) ==
    /\ sess[s] = Idle
    /\ Exists(r)
    /\ MayApproveL1(requests[r], u)
    /\ sess' = [sess EXCEPT ![s] = [op |-> "approve_l1", request |-> r, user |-> u]]
    /\ UNCHANGED <<requests, balances>>

ApproveL1Commit(s) ==
    /\ sess[s].op = "approve_l1"
    /\ requests' = [requests EXCEPT ![sess[s].request].status = "PENDING_L2",
                                    ![sess[s].request].l1 = sess[s].user]
    /\ sess' = [sess EXCEPT ![s] = Idle]
    /\ UNCHANGED balances

\* approve_l2: the second approver is neither the first nor the requester.
MayApproveL2Again(q, u) == q.status = "PENDING_L2" /\ UserOf[q.employee] # u
MayApproveL2(q, u) == MayApproveL2Again(q, u) /\ q.l1 # u

ApproveL2Load(s, r, u) ==
    /\ sess[s] = Idle
    /\ Exists(r)
    /\ MayApproveL2(requests[r], u)
    /\ sess' = [sess EXCEPT ![s] =
           [op |-> "approve_l2", pc |-> IF IsPaid(requests[r]) THEN "balance" ELSE "commit",
            request |-> r, user |-> u, used |-> 0]]
    /\ UNCHANGED <<requests, balances>>

\* "Double-check saldo": what create_leave_request checked is checked again.
NotCheckedAgain(q, b) == TRUE
StillCovered(q, b) == q.days <= Remaining(b)

\* The balance is read again, after the request; used_days += days_count is
\* computed here and written, as a number, by the commit.
ApproveL2CheckBalance(s) ==
    /\ sess[s].op = "approve_l2" /\ sess[s].pc = "balance"
    /\ LET q == requests[sess[s].request]
           b == BalanceOrNew(KeyOf(q))
       IN /\ balances' = [balances EXCEPT ![KeyOf(q)] = b]
          /\ sess' = [sess EXCEPT ![s] =
                 IF ~StillCovered(q, b) THEN Idle
                 ELSE [@ EXCEPT !.pc = "commit", !.used = b.used + q.days]]
    /\ UNCHANGED requests

ApproveL2Commit(s) ==
    /\ sess[s].op = "approve_l2" /\ sess[s].pc = "commit"
    /\ LET r == sess[s].request
           k == KeyOf(requests[r])
       IN /\ requests' = [requests EXCEPT ![r].status = "APPROVED",
                                          ![r].l2 = sess[s].user]
          /\ balances' = IF IsPaid(requests[r])
                         THEN [balances EXCEPT ![k].used = sess[s].used]
                         ELSE balances
    /\ sess' = [sess EXCEPT ![s] = Idle]

\* reject_request
RejectLoad(s, r) ==
    /\ sess[s] = Idle
    /\ Exists(r)
    /\ requests[r].status \in Pending
    /\ sess' = [sess EXCEPT ![s] = [op |-> "reject", request |-> r]]
    /\ UNCHANGED <<requests, balances>>

RejectCommit(s) ==
    /\ sess[s].op = "reject"
    /\ requests' = [requests EXCEPT ![sess[s].request].status = "REJECTED"]
    /\ sess' = [sess EXCEPT ![s] = Idle]
    /\ UNCHANGED balances

\* cancel_request: allowed on an approved request too, whose days are then
\* given back.
CancelLoad(s, r) ==
    /\ sess[s] = Idle
    /\ Exists(r)
    /\ Live(requests[r])
    /\ LET refund == requests[r].status = "APPROVED" /\ IsPaid(requests[r])
       IN sess' = [sess EXCEPT ![s] =
              [op |-> "cancel", pc |-> IF refund THEN "balance" ELSE "commit",
               request |-> r, used |-> 0]]
    /\ UNCHANGED <<requests, balances>>

NoRefund(q, b)     == b.used
SignedRefund(q, b) == b.used - q.days
Refunded(q, b)     == Max({0, b.used - q.days})

\* The new value is written only when it differs from the one that was read.
CancelReadBalance(s) ==
    /\ sess[s].op = "cancel" /\ sess[s].pc = "balance"
    /\ LET q    == requests[sess[s].request]
           b    == balances[KeyOf(q)]
           back == Refunded(q, b)
       IN sess' = [sess EXCEPT ![s].pc = IF b = NoBalance \/ back = b.used
                                         THEN "commit" ELSE "refund",
                               ![s].used = back]
    /\ UNCHANGED <<requests, balances>>

CancelCommit(s) ==
    /\ sess[s].op = "cancel" /\ sess[s].pc \in {"commit", "refund"}
    /\ LET r == sess[s].request
           k == KeyOf(requests[r])
       IN /\ requests' = [requests EXCEPT ![r].status = "CANCELLED"]
          /\ balances' = IF sess[s].pc = "refund"
                         THEN [balances EXCEPT ![k].used = sess[s].used]
                         ELSE balances
    /\ sess' = [sess EXCEPT ![s] = Idle]

\* get_db: an exception, a lost client or a restart rolls the session back.
Abort(s) ==
    /\ sess[s] # Idle
    /\ sess' = [sess EXCEPT ![s] = Idle]
    /\ UNCHANGED <<requests, balances>>

-----------------------------------------------------------------------------
\* The endpoints of leave_router.py: what a request may name, and its steps.
Create(s) ==
    \/ \E e \in Employees, t \in LeaveTypes, from, to \in Dates :
          CreateLoad(s, e, t, from, to)
    \/ CreateCheckBalance(s)
    \/ CreateCheckOverlap(s)
    \/ \E r \in Requests : CreateCommit(s, r)

ApproveL1(s) ==
    (\E r \in Requests, u \in Approvers : ApproveL1Load(s, r, u)) \/ ApproveL1Commit(s)

ApproveL2(s) ==
    \/ \E r \in Requests, u \in Approvers : ApproveL2Load(s, r, u)
    \/ ApproveL2CheckBalance(s) \/ ApproveL2Commit(s)

Reject(s) == (\E r \in Requests : RejectLoad(s, r)) \/ RejectCommit(s)

\* Whoever may create a request may cancel any: ownership is not asked for.
Cancel(s) ==
    (\E r \in Requests : CancelLoad(s, r)) \/ CancelReadBalance(s) \/ CancelCommit(s)

Decide(s) == ApproveL1(s) \/ ApproveL2(s) \/ Reject(s) \/ Cancel(s)

Next ==
    \/ \E k \in Keys : OpenBalance(k)
    \/ \E s \in Sessions : Create(s) \/ Decide(s) \/ Abort(s)

Spec == Init /\ [][Next]_vars
-----------------------------------------------------------------------------
\* A balance is never overdrawn, whatever the handlers interleave: every value
\* written to used_days was checked against the allocation when it was
\* computed, and approve_l2 checks again what create_leave_request checked.
NoOverdraw ==
    \A k \in Keys : balances[k] # NoBalance => balances[k].used <= balances[k].allocated

\* No request is decided by the employee who asked for it: both approvers of an
\* approved request are other people, and a request that waits for its second
\* layer has passed the first.
IndependentApproval ==
    \A r \in Requests : Exists(r) =>
        LET q == requests[r]
        IN /\ q.status \in {"PENDING_L2", "APPROVED"} => q.l1 # NoUser
           /\ q.status = "APPROVED" => q.l2 # NoUser
           /\ UserOf[q.employee] \notin {q.l1, q.l2}

\* The days charged to a balance are those of the approved requests: approval
\* deducts once, cancelling an approved request gives the same days back.
Charged(k) == {r \in Requests : /\ Exists(r)
                                /\ requests[r].status = "APPROVED"
                                /\ IsPaid(requests[r])
                                /\ KeyOf(requests[r]) = k}
Days(some) == SumOn([r \in some |-> requests[r].days], some)
BalanceMatchesApproved == \A k \in Keys : balances[k].used = Days(Charged(k))

\* An employee never has two live requests for the same day.
NoOverlap ==
    \A r1, r2 \in Requests, d \in Dates :
        LET Covers(r) == Exists(r) /\ Live(requests[r]) /\ requests[r].from <= d /\ d <= requests[r].to
        IN r1 # r2 /\ Covers(r1) /\ Covers(r2) => requests[r1].employee # requests[r2].employee

\* A request that was rejected or cancelled is final (the services' own words):
\* no decision that is still in flight brings it back.
FinalIsFinal ==
    [][\A r \in Requests : Exists(r) /\ ~Live(requests[r])
          => requests'[r].status = requests[r].status]_vars

\* Seen through status, requester and approvers, leave is the two-layer
\* approval of TwoLayerApproval (checked for handlers that do not overlap).
Approval == INSTANCE TwoLayerApproval WITH
    People <- Users, Nobody <- NoUser, Opening <- {"PENDING_L1"},
    Withdrawable <- Pending \cup {"APPROVED"}, After <- << >>,
    status <- [r \in Requests |-> requests[r].status],
    owner  <- [r \in Requests |-> IF Exists(r) THEN UserOf[requests[r].employee] ELSE NoUser],
    first  <- [r \in Requests |-> IF Exists(r) THEN requests[r].l1 ELSE NoUser],
    second <- [r \in Requests |-> IF Exists(r) THEN requests[r].l2 ELSE NoUser]
ImplementsApproval == Approval!Spec
=============================================================================
