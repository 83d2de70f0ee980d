---------------------------- MODULE ChangeRequest ----------------------------
(***************************************************************************)
(* Change requests of a project, after backend/app/project/cr_service and  *)
(* cr_router: drafted, submitted, approved in two layers.  The content may *)
(* be edited until the first approval.                                     *)
(***************************************************************************)
EXTENDS Handlers, Naturals, FiniteSets

CONSTANTS
    Users,        \* the users that hold project.edit (they ask and decide)
    Projects,     \* projects.id
    ClientProjects, \* the projects of type CLIENT
    Costs,        \* the values of cost_delta, 0 among them
    Crs,          \* the primary keys project_change_requests may hand out
    NoUser        \* NULL in a column that refers to users

VARIABLE crs      \* table project_change_requests

crVars == <<crs, alone, sess>>

Statuses == {"DRAFT", "PENDING_L1", "PENDING_L2", "APPROVED", "REJECTED", "CANCELLED"}
\* agreed is not a column: the cost the first approver saw.
Row == [status: Statuses, project: Projects, number: Nat, cost: Costs,
        requester: Users, l1: Users \cup {NoUser}, l2: Users \cup {NoUser},
        toFinance: BOOLEAN, toSales: BOOLEAN, deleted: BOOLEAN, agreed: Costs]
NoRow == [status |-> "NONE"]
Stored(c) == crs[c] # NoRow
\* get_cr hides the deleted ones.
Exists(c) == Stored(c) /\ ~crs[c].deleted

TypeOK == crs \in [Crs -> Row \cup {NoRow}]
Init   == crs = [c \in Crs |-> NoRow] /\ AllIdle

\* A request about one row.  Of each operation below, May is the check of the
\* service and the past participle the row it leaves; the action is the endpoint.
Change(s, c, new) == Edit(s, "crs", c, crs[c], new) /\ UNCHANGED crs
-----------------------------------------------------------------------------
\* _next_cr_number: one more than the change requests the project ever had.
NextNumberLive(p) == 1 + Cardinality({c \in Crs : Exists(c) /\ crs[c].project = p})
NextNumber(p)     == 1 + Cardinality({c \in Crs : Stored(c) /\ crs[c].project = p})

\* create_cr
NewRow(p, u, cost) ==
    [status |-> "DRAFT", project |-> p, number |-> NextNumber(p), cost |-> cost,
     requester |-> u, l1 |-> NoUser, l2 |-> NoUser, toFinance |-> FALSE,
     toSales |-> FALSE, deleted |-> FALSE, agreed |-> cost]
Create(s, p, u, cost) == Add(s, "crs", NewRow(p, u, cost)) /\ UNCHANGED crs

\* update_cr
MayUpdateLate(q) == q.status \in {"DRAFT", "PENDING_L1", "PENDING_L2"}
MayUpdate(q) == q.status \in {"DRAFT", "PENDING_L1"}
Updated(q, cost) == [q EXCEPT !.cost = cost]
Update(s, c, cost) == MayUpdate(crs[c]) /\ Change(s, c, Updated(crs[c], cost))

\* submit_cr
MaySubmit(q) == q.status = "DRAFT"
Submitted(q) == [q EXCEPT !.status = "PENDING_L1"]
Submit(s, c) == MaySubmit(crs[c]) /\ Change(s, c, Submitted(crs[c]))

\* approve_l1
MayApproveL1(q, u) == q.status = "PENDING_L1" /\ q.requester # u
ApprovedL1(q, u) == [q EXCEPT !.status = "PENDING_L2", !.l1 = u, !.agreed = q.cost]
ApproveL1(s, c, u) == MayApproveL1(crs[c], u) /\ Change(s, c, ApprovedL1(crs[c], u))

\* approve_l2: Finance is told of a cost, Sales of a client's project.
MayApproveL2(q, u) == q.status = "PENDING_L2" /\ u \notin {q.requester, q.l1}
ApprovedL2(q, u) == [q EXCEPT !.status = "APPROVED", !.l2 = u,
                              !.toFinance = (q.cost # 0),
                              !.toSales = (q.project \in ClientProjects)]
ApproveL2(s, c, u) == MayApproveL2(crs[c], u) /\ Change(s, c, ApprovedL2(crs[c], u))

\* reject_cr: not by the requester.
MayReject(q, u) == q.status \in {"PENDING_L1", "PENDING_L2"} /\ q.requester # u
Rejected(q) == [q EXCEPT !.status = "REJECTED"]
Reject(s, c, u) == MayReject(crs[c], u) /\ Change(s, c, Rejected(crs[c]))

\* cancel_cr: by the requester only.
MayCancelLate(q, u) == q.requester = u /\ q.status \in {"DRAFT", "PENDING_L1", "PENDING_L2"}
MayCancel(q, u) == q.requester = u /\ q.status \in {"DRAFT", "PENDING_L1"}
Cancelled(q) == [q EXCEPT !.status = "CANCELLED"]
Cancel(s, c, u) == MayCancel(crs[c], u) /\ Change(s, c, Cancelled(crs[c]))

\* soft_delete_cr: in any status.
Deleted(q) == [q EXCEPT !.deleted = TRUE]
Delete(s, c) == Change(s, c, Deleted(crs[c]))

Commit(s) ==
    /\ \/ Editing(s, "crs") /\ crs' = Edited(s, crs)
       \/ /\ Adding(s, "crs")
          /\ \E c \in Crs : ~Stored(c) /\ crs' = [crs EXCEPT ![c] = sess[s].new]
    /\ Finish(s)
-----------------------------------------------------------------------------
Step(s) ==
    \/ \E p \in Projects, u \in Users, cost \in Costs : Create(s, p, u, cost)
    \/ \E c \in Crs : Exists(c) /\
          \/ \E cost \in Costs : Update(s, c, cost)
          \/ Submit(s, c) \/ Delete(s, c)
          \/ \E u \in Users : \/ ApproveL1(s, c, u) \/ ApproveL2(s, c, u)
                              \/ Reject(s, c, u) \/ Cancel(s, c, u)
    \/ Commit(s)
    \/ Abort(s) /\ UNCHANGED crs

Next == \E s \in Sessions : Step(s)
Spec == Init /\ [][Next]_crVars
-----------------------------------------------------------------------------
\* What was approved is what is on record: the cost of an approved change is
\* the cost its first approver saw, Finance was told exactly when there is one,
\* and Sales exactly when the project is a client's.  (For handlers that do not
\* overlap: an edit that loaded PENDING_L1 may commit after the approvals.)
ApprovedAsSeen ==
    alone => \A c \in Crs : Stored(c) /\ crs[c].status = "APPROVED" =>
        /\ crs[c].cost = crs[c].agreed
        /\ crs[c].toFinance <=> crs[c].cost # 0
        /\ crs[c].toSales <=> crs[c].project \in ClientProjects

\* The numbers of a project's change requests are never given twice, deleted
\* ones included (for handlers that do not overlap: the number is counted
\* before the insert).
NumbersUnique ==
    alone => \A c, d \in Crs : c # d /\ Stored(c) /\ Stored(d) /\ crs[c].project = crs[d].project
        => crs[c].number # crs[d].number

\* Seen through status, requester and approvers a change request is a two-layer
\* approval that starts as a draft and is withdrawn before its first approval.
Approval == INSTANCE TwoLayerApproval WITH
    Requests <- Crs, People <- Users, Nobody <- NoUser,
    Opening <- {"DRAFT"}, Withdrawable <- {"DRAFT", "PENDING_L1"}, After <- << >>,
    status <- [c \in Crs |-> IF alone THEN crs[c].status ELSE "NONE"],
    owner  <- [c \in Crs |-> IF alone /\ Stored(c) THEN crs[c].requester ELSE NoUser],
    first  <- [c \in Crs |-> IF alone /\ Stored(c) THEN crs[c].l1 ELSE NoUser],
    second <- [c \in Crs |-> IF alone /\ Stored(c) THEN crs[c].l2 ELSE NoUser]
=============================================================================
