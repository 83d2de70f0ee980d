---------------------------- MODULE Reimbursement ----------------------------
(***************************************************************************)
(* Reimbursement requests, after backend/app/payroll/reimbursement_service *)
(* and the endpoints of reimbursement_router: two layers of approval and a *)
(* transfer.  A cancellation is open to an approved request.               *)
(***************************************************************************)
EXTENDS Handlers

CONSTANTS
    Employees,    \* employees.id of employees that are not deleted
    Users,        \* users.id
    UserOf,       \* employees.user_id
    Approvers,    \* the users that hold reimbursement.approve
    Reimbs,       \* the primary keys reimbursements may hand out
    NoUser        \* NULL in a column that refers to users

VARIABLE reimbs   \* table reimbursements

reimbVars == <<reimbs, alone, sess>>

Statuses == {"PENDING_L1", "PENDING_L2", "APPROVED", "TRANSFERRED", "REJECTED", "CANCELLED"}
\* paid stands for the columns transferred_at, transferred_by_user_id and
\* transfer_reference, which are set together.
Row == [status: Statuses, employee: Employees, l1: Users \cup {NoUser},
        l2: Users \cup {NoUser}, paid: BOOLEAN]
NoRow == [status |-> "NONE"]
Exists(r) == reimbs[r] # NoRow

TypeOK == reimbs \in [Reimbs -> Row \cup {NoRow}]
Init   == reimbs = [r \in Reimbs |-> NoRow] /\ AllIdle

\* A request about one row.  Of each operation below, May is the check of the
\* service and the past participle the row it leaves; the action is the endpoint.
Change(s, r, new) == Edit(s, "reimbs", r, reimbs[r], new) /\ UNCHANGED reimbs
-----------------------------------------------------------------------------
\* create_reimbursement: the employee exists; anybody may ask for anybody.
NewRow(e) == [status |-> "PENDING_L1", employee |-> e, l1 |-> NoUser, l2 |-> NoUser, paid |-> FALSE]
Create(s, e) == Add(s, "reimbs", NewRow(e)) /\ UNCHANGED reimbs

\* approve_reimbursement_l1
MayApproveL1(q, u) == q.status = "PENDING_L1" /\ UserOf[q.employee] # u
ApprovedL1(q, u) == [q EXCEPT !.status = "PENDING_L2", !.l1 = u]
ApproveL1(s, r, u) == MayApproveL1(reimbs[r], u) /\ Change(s, r, ApprovedL1(reimbs[r], u))

\* approve_reimbursement_l2
MayApproveL2Self(q, u) == q.status = "PENDING_L2" /\ q.l1 # u
MayApproveL2(q, u) == q.status = "PENDING_L2" /\ q.l1 # u /\ UserOf[q.employee] # u
ApprovedL2(q, u) == [q EXCEPT !.status = "APPROVED", !.l2 = u]
ApproveL2(s, r, u) == MayApproveL2(reimbs[r], u) /\ Change(s, r, ApprovedL2(reimbs[r], u))

\* reject_reimbursement
MayReject(q) == q.status \in {"PENDING_L1", "PENDING_L2"}
Rejected(q) == [q EXCEPT !.status = "REJECTED"]
Reject(s, r) == MayReject(reimbs[r]) /\ Change(s, r, Rejected(reimbs[r]))

\* cancel_reimbursement: by anybody with reimbursement.create.
MayCancelPaid(q) == q.status \notin {"REJECTED", "CANCELLED"}
MayCancel(q) == q.status \notin {"REJECTED", "CANCELLED", "TRANSFERRED"}
Cancelled(q) == [q EXCEPT !.status = "CANCELLED"]
Cancel(s, r) == MayCancel(reimbs[r]) /\ Change(s, r, Cancelled(reimbs[r]))

\* mark_transferred
MayTransferEarly(q) == q.status \in {"PENDING_L2", "APPROVED"}
MayTransfer(q) == q.status = "APPROVED"
Transferred(q) == [q EXCEPT !.status = "TRANSFERRED", !.paid = TRUE]
Transfer(s, r) == MayTransfer(reimbs[r]) /\ Change(s, r, Transferred(reimbs[r]))

Commit(s) ==
    /\ \/ Editing(s, "reimbs") /\ reimbs' = Edited(s, reimbs)
       \/ /\ Adding(s, "reimbs")
          /\ \E r \in Reimbs : ~Exists(r) /\ reimbs' = [reimbs EXCEPT ![r] = sess[s].new]
    /\ Finish(s)
-----------------------------------------------------------------------------
Step(s) ==
    \/ \E e \in Employees : Create(s, e)
    \/ \E r \in Reimbs : Exists(r) /\
          \/ \E u \in Approvers : ApproveL1(s, r, u) \/ ApproveL2(s, r, u)
          \/ Reject(s, r) \/ Cancel(s, r) \/ Transfer(s, r)
    \/ Commit(s)
    \/ Abort(s) /\ UNCHANGED reimbs

Next == \E s \in Sessions : Step(s)
Spec == Init /\ [][Next]_reimbVars
-----------------------------------------------------------------------------
\* Money leaves only after two layers of approval by other people than the one
\* who gets it, whatever the handlers interleave: a row whose transfer columns
\* are set has both approvers, and neither is the employee.
PaidAfterTwoLayers ==
    \A r \in Reimbs : Exists(r) =>
        /\ reimbs[r].paid => NoUser \notin {reimbs[r].l1, reimbs[r].l2}
        /\ UserOf[reimbs[r].employee] \notin {reimbs[r].l1, reimbs[r].l2}

\* Seen through status, requester and approvers a reimbursement is a two-layer
\* approval that ends with its transfer (for handlers that do not overlap).
Approval == INSTANCE TwoLayerApproval WITH
    Requests <- Reimbs, People <- Users, Nobody <- NoUser,
    Opening <- {"PENDING_L1"},
    Withdrawable <- {"PENDING_L1", "PENDING_L2", "APPROVED"},
    After  <- [o \in {"APPROVED"} |-> "TRANSFERRED"],
    status <- [r \in Reimbs |-> IF alone THEN reimbs[r].status ELSE "NONE"],
    owner  <- [r \in Reimbs |-> IF alone /\ Exists(r) THEN UserOf[reimbs[r].employee] ELSE NoUser],
    first  <- [r \in Reimbs |-> IF alone /\ Exists(r) THEN reimbs[r].l1 ELSE NoUser],
    second <- [r \in Reimbs |-> IF alone /\ Exists(r) THEN reimbs[r].l2 ELSE NoUser]
=============================================================================
