----------------------------- MODULE Procurement -----------------------------
(***************************************************************************)
(* Vendors and procurement requests, after backend/app/payroll             *)
(* reimbursement_service and the endpoints of reimbursement_router: two    *)
(* layers of approval, then an order and a delivery.  A cancellation is    *)
(* open until the delivery.                                                *)
(***************************************************************************)
EXTENDS Handlers

CONSTANTS
    Users,        \* users.id
    Buyers,       \* the users that hold procurement.create
    Approvers,    \* the users that hold procurement.approve
    Codes,        \* vendor codes
    Procs,        \* the primary keys procurement_requests may hand out
    NoUser,       \* NULL in a column that refers to users
    NoVendor      \* NULL in a column that refers to vendors

VARIABLES
    procs,        \* table procurement_requests
    vendors       \* table vendors, as the set of codes (unique)

procVars == <<procs, vendors, alone, sess>>

Statuses == {"PENDING_L1", "PENDING_L2", "APPROVED", "ORDERED", "DELIVERED",
             "REJECTED", "CANCELLED"}
\* ordered stands for po_number and ordered_at, delivered for
\* actual_delivery_date.
Row == [status: Statuses, requester: Buyers, l1: Users \cup {NoUser},
        l2: Users \cup {NoUser}, vendor: Codes \cup {NoVendor},
        ordered: BOOLEAN, delivered: BOOLEAN]
NoRow == [status |-> "NONE"]
Exists(p) == procs[p] # NoRow

TypeOK ==
    /\ procs \in [Procs -> Row \cup {NoRow}]
    /\ vendors \subseteq Codes
    /\ \A p \in Procs : Exists(p) => procs[p].vendor \in vendors \cup {NoVendor}
Init == procs = [p \in Procs |-> NoRow] /\ vendors = {} /\ AllIdle

\* A request about one row.  Of each operation below, May is the check of the
\* service and the past participle the row it leaves; the action is the endpoint.
Change(s, p, new) == Edit(s, "procs", p, procs[p], new) /\ UNCHANGED <<procs, vendors>>
-----------------------------------------------------------------------------
\* create_vendor: one statement; a code in use is refused by its constraint.
CreateVendor(c) ==
    /\ c \notin vendors
    /\ vendors' = vendors \cup {c}
    /\ UNCHANGED <<procs, alone, sess>>

\* create_procurement, for the user that sends it.
NewRow(u, v) == [status |-> "PENDING_L1", requester |-> u, l1 |-> NoUser, l2 |-> NoUser,
                 vendor |-> v, ordered |-> FALSE, delivered |-> FALSE]
Create(s, u, v) == Add(s, "procs", NewRow(u, v)) /\ UNCHANGED <<procs, vendors>>

\* approve_procurement_l1
MayApproveL1(q, u) == q.status = "PENDING_L1" /\ q.requester # u
ApprovedL1(q, u) == [q EXCEPT !.status = "PENDING_L2", !.l1 = u]
ApproveL1(s, p, u) == MayApproveL1(procs[p], u) /\ Change(s, p, ApprovedL1(procs[p], u))

\* approve_procurement_l2
MayApproveL2(q, u) == q.status = "PENDING_L2" /\ q.l1 # u /\ q.requester # u
ApprovedL2(q, u) == [q EXCEPT !.status = "APPROVED", !.l2 = u]
ApproveL2(s, p, u) == MayApproveL2(procs[p], u) /\ Change(s, p, ApprovedL2(procs[p], u))

\* reject_procurement
MayReject(q) == q.status \in {"PENDING_L1", "PENDING_L2"}
Rejected(q) == [q EXCEPT !.status = "REJECTED"]
Reject(s, p) == MayReject(procs[p]) /\ Change(s, p, Rejected(procs[p]))

\* cancel_procurement: an order may still be cancelled, a delivery not.
MayCancelAny(q) == q.status \notin {"REJECTED", "CANCELLED"}
MayCancel(q) == q.status \notin {"REJECTED", "CANCELLED", "DELIVERED"}
Cancelled(q) == [q EXCEPT !.status = "CANCELLED"]
Cancel(s, p) == MayCancel(procs[p]) /\ Change(s, p, Cancelled(procs[p]))

\* order_procurement: the vendor is replaced when the payload names one.
MayOrderEarly(q) == q.status \in {"PENDING_L2", "APPROVED"}
MayOrder(q) == q.status = "APPROVED"
Ordered(q, v) == [q EXCEPT !.status = "ORDERED", !.ordered = TRUE,
                           !.vendor = IF v = NoVendor THEN @ ELSE v]
Order(s, p, v) == MayOrder(procs[p]) /\ Change(s, p, Ordered(procs[p], v))

\* deliver_procurement
MayDeliver(q) == q.status = "ORDERED"
Delivered(q) == [q EXCEPT !.status = "DELIVERED", !.delivered = TRUE]
Deliver(s, p) == MayDeliver(procs[p]) /\ Change(s, p, Delivered(procs[p]))

\* A vendor that does not exist fails the foreign key and the handler with it.
Commit(s) ==
    /\ \/ Editing(s, "procs") /\ procs' = Edited(s, procs)
       \/ /\ Adding(s, "procs")
          /\ \E p \in Procs : ~Exists(p) /\ procs' = [procs EXCEPT ![p] = sess[s].new]
    /\ Finish(s)
    /\ UNCHANGED vendors
-----------------------------------------------------------------------------
Step(s) ==
    \/ \E c \in Codes : CreateVendor(c)
    \/ \E u \in Buyers, v \in vendors \cup {NoVendor} : Create(s, u, v)
    \/ \E p \in Procs : Exists(p) /\
          \/ \E u \in Approvers : ApproveL1(s, p, u) \/ ApproveL2(s, p, u)
          \/ Reject(s, p) \/ Cancel(s, p) \/ Deliver(s, p)
          \/ \E v \in vendors \cup {NoVendor} : Order(s, p, v)
    \/ Commit(s)
    \/ Abort(s) /\ UNCHANGED <<procs, vendors>>

Next == \E s \in Sessions : Step(s)
Spec == Init /\ [][Next]_procVars
-----------------------------------------------------------------------------
\* Nothing is ordered without two approvals by people other than the one who
\* asked, and nothing arrives that was not ordered, whatever the handlers
\* interleave.
OrderedAfterTwoLayers ==
    \A p \in Procs : Exists(p) =>
        /\ procs[p].delivered => procs[p].ordered
        /\ procs[p].ordered => NoUser \notin {procs[p].l1, procs[p].l2}
        /\ procs[p].requester \notin {procs[p].l1, procs[p].l2}

\* Seen through status, requester and approvers a procurement is a two-layer
\* approval that goes on to an order and a delivery.
Approval == INSTANCE TwoLayerApproval WITH
    Requests <- Procs, People <- Users, Nobody <- NoUser,
    Opening <- {"PENDING_L1"},
    Withdrawable <- {"PENDING_L1", "PENDING_L2", "APPROVED", "ORDERED"},
    After  <- [o \in {"APPROVED", "ORDERED"} |->
                  IF o = "APPROVED" THEN "ORDERED" ELSE "DELIVERED"],
    status <- [p \in Procs |-> IF alone THEN procs[p].status ELSE "NONE"],
    owner  <- [p \in Procs |-> IF alone /\ Exists(p) THEN procs[p].requester ELSE NoUser],
    first  <- [p \in Procs |-> IF alone /\ Exists(p) THEN procs[p].l1 ELSE NoUser],
    second <- [p \in Procs |-> IF alone /\ Exists(p) THEN procs[p].l2 ELSE NoUser]
=============================================================================
