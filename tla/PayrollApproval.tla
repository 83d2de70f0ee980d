-------------------------- MODULE PayrollApproval --------------------------
(***************************************************************************)
(* The life of a payroll period as the model PayrollPeriod documents it:   *)
(* calculated, submitted by Finance, approved by somebody else or sent     *)
(* back, and immutable once locked.  A final payroll opens its period      *)
(* directly for review.                                                    *)
(***************************************************************************)
CONSTANTS Periods, Preparers, Approvers, Nobody

VARIABLES status, submitter, approver

vars == <<status, submitter, approver>>

Init ==
    /\ status    = [p \in Periods |-> "NONE"]
    /\ submitter = [p \in Periods |-> Nobody]
    /\ approver  = [p \in Periods |-> Nobody]

Move(p, from, to) == status[p] \in from /\ status' = [status EXCEPT ![p] = to]

Open(p) ==
    /\ Move(p, {"NONE"}, "DRAFT") \/ Move(p, {"NONE"}, "REVIEWING")
    /\ UNCHANGED <<submitter, approver>>

Calculate(p) ==
    /\ Move(p, {"DRAFT"}, "REVIEWING")
    /\ UNCHANGED <<submitter, approver>>

Submit(p) ==
    /\ Move(p, {"REVIEWING"}, "PENDING_APPROVAL")
    /\ \E u \in Preparers : submitter' = [submitter EXCEPT ![p] = u]
    /\ UNCHANGED approver

Approve(p) ==
    /\ Move(p, {"PENDING_APPROVAL"}, "APPROVED")
    /\ \E u \in Approvers \ {submitter[p]} : approver' = [approver EXCEPT ![p] = u]
    /\ UNCHANGED submitter

Reject(p) ==
    /\ Move(p, {"PENDING_APPROVAL"}, "REVIEWING")
    /\ submitter' = [submitter EXCEPT ![p] = Nobody]
    /\ UNCHANGED approver

Lock(p) ==
    /\ status[p] # "NONE"
    /\ status' = [status EXCEPT ![p] = "LOCKED"]
    /\ UNCHANGED <<submitter, approver>>

Next == \E p \in Periods :
    Open(p) \/ Calculate(p) \/ Submit(p) \/ Approve(p) \/ Reject(p) \/ Lock(p)

Spec == Init /\ [][Next]_vars
=============================================================================
