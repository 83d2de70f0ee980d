-------------------------- MODULE TwoLayerApproval --------------------------
(***************************************************************************)
(* What the portal promises of every request that needs two approvals      *)
(* (knowledge.md section 2): one person approves first, then another; a    *)
(* request is refused or withdrawn at most once, and the person who asked  *)
(* never decides.  What kinds of request differ in is a constant: where a  *)
(* request starts, until when it can be withdrawn, and what becomes of it  *)
(* once it is approved.                                                    *)
(***************************************************************************)
CONSTANTS
    Requests, People, Nobody,
    Opening,        \* the statuses a request may be created in
    Withdrawable,   \* the statuses it may be withdrawn from
    After           \* the steps that follow the approval, status to status

VARIABLES status, owner, first, second

vars == <<status, owner, first, second>>

Init ==
    /\ status = [r \in Requests |-> "NONE"]
    /\ owner  = [r \in Requests |-> Nobody]
    /\ first  = [r \in Requests |-> Nobody]
    /\ second = [r \in Requests |-> Nobody]

Ask(r) ==
    /\ status[r] = "NONE"
    /\ \E o \in Opening : status' = [status EXCEPT ![r] = o]
    /\ \E p \in People : owner' = [owner EXCEPT ![r] = p]
    /\ UNCHANGED <<first, second>>

Submit(r) ==
    /\ status[r] = "DRAFT"
    /\ status' = [status EXCEPT ![r] = "PENDING_L1"]
    /\ UNCHANGED <<owner, first, second>>

ApproveFirst(r) ==
    /\ status[r] = "PENDING_L1"
    /\ status' = [status EXCEPT ![r] = "PENDING_L2"]
    /\ \E p \in People \ {owner[r]} : first' = [first EXCEPT ![r] = p]
    /\ UNCHANGED <<owner, second>>

ApproveSecond(r) ==
    /\ status[r] = "PENDING_L2"
    /\ status' = [status EXCEPT ![r] = "APPROVED"]
    /\ \E p \in People \ {owner[r], first[r]} : second' = [second EXCEPT ![r] = p]
    /\ UNCHANGED <<owner, first>>

Reject(r) ==
    /\ status[r] \in {"PENDING_L1", "PENDING_L2"}
    /\ status' = [status EXCEPT ![r] = "REJECTED"]
    /\ UNCHANGED <<owner, first, second>>

Withdraw(r) ==
    /\ status[r] \in Withdrawable
    /\ status' = [status EXCEPT ![r] = "CANCELLED"]
    /\ UNCHANGED <<owner, first, second>>

Carry(r) ==
    /\ status[r] \in DOMAIN After
    /\ status' = [status EXCEPT ![r] = After[status[r]]]
    /\ UNCHANGED <<owner, first, second>>

Next == \E r \in Requests :
    \/ Ask(r) \/ Submit(r)
    \/ ApproveFirst(r) \/ ApproveSecond(r)
    \/ Reject(r) \/ Withdraw(r) \/ Carry(r)

Spec == Init /\ [][Next]_vars
=============================================================================
