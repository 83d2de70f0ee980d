-------------------------- MODULE SalesCommission --------------------------
(***************************************************************************)
(* From a won lead to a line on a payslip, after                           *)
(* backend/app/sales/service.py and the parts of                           *)
(* backend/app/payroll/payroll_service.py it meets: winning a lead makes a *)
(* commission, which goes at once onto the slip of the running period or,  *)
(* if there is none yet, onto the slip that is generated next.             *)
(*                                                                         *)
(* Amounts do not matter here: every lead has a value and a percentage.    *)
(* Every sales user has an employee record.  mark_commission_paid is left  *)
(* out: no endpoint calls it.                                              *)
(***************************************************************************)
EXTENDS Integers, Sequences, FiniteSets, UnitOfWork

CONSTANTS
    Leads,
    Users,      \* sales users
    Periods,    \* payroll periods, numbered by month
    Sessions,   \* request handlers that may be in flight together
    MaxCommissions,  \* bound: no lead is won once there are that many
    NoUser, NoPeriod

ASSUME SalesAssumption ==
    /\ Periods \subseteq Nat
    /\ NoPeriod \notin Periods
    /\ NoUser \notin Users
    /\ MaxCommissions \in Nat

VARIABLES
    leads,        \* table leads
    commissions,  \* table sales_commissions, in the order of insertion
    status,       \* payroll_periods.status
    slips,        \* table payroll_slips: who has one in a period
    lines,        \* payroll_components of commissions: the commissions on the slips of a period
    sess

vars == <<leads, commissions, status, slips, lines, sess>>
tables == <<leads, commissions, status, slips, lines>>
-----------------------------------------------------------------------------
Stages == {"PROSPECT", "QUALIFIED", "PROPOSAL", "NEGOTIATION", "CLOSED_WON", "CLOSED_LOST"}
Closed == {"CLOSED_WON", "CLOSED_LOST"}

\* _STAGE_FLOW
Flow(stage) ==
    CASE stage = "PROSPECT"    -> {"QUALIFIED", "CLOSED_LOST"}
      [] stage = "QUALIFIED"   -> {"PROPOSAL", "CLOSED_LOST"}
      [] stage = "PROPOSAL"    -> {"NEGOTIATION", "CLOSED_LOST", "CLOSED_WON"}
      [] stage = "NEGOTIATION" -> {"CLOSED_WON", "CLOSED_LOST", "PROPOSAL"}
      [] OTHER                 -> {}

NoLead == [stage |-> "NONE", owner |-> NoUser, direktur |-> FALSE]
Lead == [stage: Stages, owner: Users \cup {NoUser}, direktur: BOOLEAN]
Commission == [lead: Leads, user: Users, status: {"PENDING", "APPLIED"},
               target: Periods \cup {NoPeriod}]

\* DRAFT and REVIEWING are OPEN; PENDING_APPROVAL and APPROVED are SUBMITTED.
PeriodStatuses == {"NONE", "OPEN", "SUBMITTED", "LOCKED"}

Idle == [op |-> "idle"]
EditStates       == [op: {"edit"}, lead: Leads, seen: Lead, new: Lead]
TransitionStates == [op: {"transition"}, pc: {"slip", "commit"}, lead: Leads,
                     seen: Lead, new: Lead, slip: Periods \cup {NoPeriod}]
GenerateStates   == [op: {"generate"}, period: Periods, paid: SUBSET Users,
                     found: SUBSET (DOMAIN commissions)]
LineStates       == [op: {"delete"}, period: Periods, commission: DOMAIN commissions]
PeriodStates     == [op: {"period"}, period: Periods, to: PeriodStatuses]

TypeOK ==
    /\ leads \in [Leads -> Lead \cup {NoLead}]
    /\ commissions \in Seq(Commission)
    /\ status \in [Periods -> PeriodStatuses]
    /\ slips \in [Periods -> SUBSET Users]
    /\ lines \in [Periods -> SUBSET (DOMAIN commissions)]
    /\ sess \in [Sessions -> {Idle} \cup EditStates \cup TransitionStates \cup GenerateStates
                             \cup LineStates \cup PeriodStates]

Init ==
    /\ leads = [l \in Leads |-> NoLead]
    /\ commissions = <<>>
    /\ status = [p \in Periods |-> "NONE"]
    /\ slips = [p \in Periods |-> {}]
    /\ lines = [p \in Periods |-> {}]
    /\ sess = [s \in Sessions |-> Idle]

Begin(s, h) == sess[s] = Idle /\ sess' = [sess EXCEPT ![s] = h] /\ UNCHANGED tables
Finish(s) == sess' = [sess EXCEPT ![s] = Idle]
-----------------------------------------------------------------------------
CreateLead(l, u, direktur) ==
    /\ leads[l] = NoLead
    /\ leads' = [leads EXCEPT ![l] = [stage |-> "PROSPECT", owner |-> u, direktur |-> direktur]]
    /\ UNCHANGED <<commissions, status, slips, lines, sess>>

\* update_lead
MayEditClosed(lead) == lead # NoLead
MayEdit(lead) == lead # NoLead /\ lead.stage \notin Closed

EditLead(s, l, u, direktur) ==
    /\ MayEdit(leads[l])
    /\ Begin(s, [op |-> "edit", lead |-> l, seen |-> leads[l],
                 new |-> [leads[l] EXCEPT !.owner = u, !.direktur = direktur]])

CommitLead(s) ==
    /\ sess[s].op = "edit"
    /\ LET h == sess[s] IN leads' = [leads EXCEPT ![h.lead] = Merge(@, h.seen, h.new)]
    /\ Finish(s)
    /\ UNCHANGED <<commissions, status, slips, lines>>

\* transition_stage: the checks
EarnsUnowned(lead) == lead.stage = "CLOSED_WON" /\ ~lead.direktur
EarnsCommission(lead) ==
    lead.stage = "CLOSED_WON" /\ ~lead.direktur /\ lead.owner # NoUser

Transition(s, l, to) ==
    /\ to \in Flow(leads[l].stage)
    /\ LET new == [leads[l] EXCEPT !.stage = to]
       IN /\ EarnsCommission(new) => Len(commissions) < MaxCommissions
          /\ Begin(s, [op |-> "transition",
                       pc |-> IF EarnsCommission(new) THEN "slip" ELSE "commit",
                       lead |-> l, seen |-> leads[l], new |-> new, slip |-> NoPeriod])

\* _try_inject_commission_to_active_slip: only the latest open period counts.
RunningSlip(u) ==
    {p \in Periods : /\ status[p] = "OPEN" /\ u \in slips[p]
                     /\ \A q \in Periods : status[q] = "OPEN" => q <= p}

FindSlip(s) ==
    /\ sess[s].op = "transition" /\ sess[s].pc = "slip"
    /\ LET found == RunningSlip(sess[s].new.owner)
       IN sess' = [sess EXCEPT ![s].pc = "commit",
                               ![s].slip = IF found = {} THEN NoPeriod
                                           ELSE CHOOSE p \in found : TRUE]
    /\ UNCHANGED tables

\* The new row of sales_commissions
KeptPending(h) == [lead |-> h.lead, user |-> h.new.owner, status |-> "PENDING", target |-> h.slip]
NewCommission(h) ==
    [lead |-> h.lead, user |-> h.new.owner,
     status |-> IF h.slip = NoPeriod THEN "PENDING" ELSE "APPLIED", target |-> h.slip]

CommitTransition(s) ==
    /\ sess[s].op = "transition" /\ sess[s].pc = "commit"
    /\ LET h == sess[s]
       IN /\ leads' = [leads EXCEPT ![h.lead] = Merge(@, h.seen, h.new)]
          /\ commissions' = IF EarnsCommission(h.new)
                            THEN Append(commissions, NewCommission(h)) ELSE commissions
          /\ lines' = [p \in Periods |->
                          IF p = h.slip THEN lines[p] \cup {Len(commissions')} ELSE lines[p]]
    /\ Finish(s)
    /\ UNCHANGED <<status, slips>>
-----------------------------------------------------------------------------
\* generate_slips_for_period, and calculate_payroll on a draft: slips for the
\* configured employees who have none, with the commissions that wait for them.
AnyOf(users) == {c \in DOMAIN commissions : commissions[c].user \in users}
WaitingOf(users) ==
    {c \in DOMAIN commissions : /\ commissions[c].user \in users
                                /\ commissions[c].status = "PENDING"
                                /\ commissions[c].target = NoPeriod}

MayGenerateAnyTime(p) == status[p] # "NONE"
MayGenerate(p) == status[p] \in {"OPEN", "SUBMITTED"}

Generate(s, p, configured) ==
    /\ MayGenerate(p)
    /\ LET paid == configured \ slips[p]
       IN Begin(s, [op |-> "generate", period |-> p, paid |-> paid, found |-> WaitingOf(paid)])

\* slip_no is unique: a slip that somebody else made takes everything back.
CommitGenerate(s) ==
    /\ sess[s].op = "generate"
    /\ LET h == sess[s]
       IN IF h.paid \cap slips[h.period] # {}
          THEN UNCHANGED <<slips, lines, commissions>>
          ELSE /\ slips' = [slips EXCEPT ![h.period] = @ \cup h.paid]
               /\ lines' = [lines EXCEPT ![h.period] = @ \cup h.found]
               /\ commissions' =
                     [c \in DOMAIN commissions |->
                        IF c \in h.found
                        THEN [commissions[c] EXCEPT !.status = "APPLIED", !.target = h.period]
                        ELSE commissions[c]]
    /\ Finish(s)
    /\ UNCHANGED <<leads, status>>

\* delete_component: the commission does not hear of it.
DeleteLine(s, p, c) ==
    /\ c \in lines[p]
    /\ status[p] # "LOCKED"
    /\ Begin(s, [op |-> "delete", period |-> p, commission |-> c])

CommitDelete(s) ==
    /\ sess[s].op = "delete"
    /\ lines' = [lines EXCEPT ![sess[s].period] = @ \ {sess[s].commission}]
    /\ Finish(s)
    /\ UNCHANGED <<leads, commissions, status, slips>>

\* The life of a period (PayrollPeriod), as far as it matters here.
PeriodMoves(now) ==
    CASE now = "NONE"      -> {"OPEN"}
      [] now = "OPEN"      -> {"SUBMITTED", "LOCKED"}
      [] now = "SUBMITTED" -> {"OPEN", "LOCKED"}
      [] now = "LOCKED"    -> {"LOCKED"}

MovePeriod(s, p, to) ==
    /\ to \in PeriodMoves(status[p])
    /\ Begin(s, [op |-> "period", period |-> p, to |-> to])

CommitPeriod(s) ==
    /\ sess[s].op = "period"
    /\ status' = [status EXCEPT ![sess[s].period] = sess[s].to]
    /\ Finish(s)
    /\ UNCHANGED <<leads, commissions, slips, lines>>
-----------------------------------------------------------------------------
\* The endpoints of sales/router.py: what a request may ask for, and its steps.
PostLead == \E l \in Leads, u \in Users \cup {NoUser}, direktur \in BOOLEAN : CreateLead(l, u, direktur)

UpdateLead(s) ==
    \/ \E l \in Leads, u \in Users \cup {NoUser}, direktur \in BOOLEAN : EditLead(s, l, u, direktur)
    \/ CommitLead(s)

TransitionLead(s) ==
    \/ \E l \in Leads, to \in Stages : Transition(s, l, to)
    \/ FindSlip(s) \/ CommitTransition(s)

Sales(s) == UpdateLead(s) \/ TransitionLead(s)

Payroll(s) ==
    \/ \E p \in Periods, configured \in SUBSET Users : Generate(s, p, configured)
    \/ \E p \in Periods : \E c \in lines[p] : DeleteLine(s, p, c)
    \/ \E p \in Periods, to \in PeriodStatuses : MovePeriod(s, p, to)
    \/ CommitGenerate(s) \/ CommitDelete(s) \/ CommitPeriod(s)

Next ==
    \/ PostLead
    \/ \E s \in Sessions : Sales(s) \/ Payroll(s)

Spec == Init /\ [][Next]_vars
-----------------------------------------------------------------------------
CommissionsOf(l) == {c \in DOMAIN commissions : commissions[c].lead = l}

\* A commission on a slip is not offered to another slip: however the handlers
\* interleave, it is no longer PENDING.
NotPendingOnSlip ==
    \A p \in Periods : \A c \in lines[p] : commissions[c].status # "PENDING"

\* A won lead has one commission if a sales user won it and none if a director
\* did or nobody owns it; other leads have none.
OneCommissionPerWin ==
    \A l \in Leads : Cardinality(CommissionsOf(l)) = IF EarnsCommission(leads[l]) THEN 1 ELSE 0

\* A commission is paid on one slip.
PaidOnOneSlip ==
    \A p, q \in Periods : p # q => lines[p] \cap lines[q] = {}

\* Every win makes the one commission its lead gives it, and the commission
\* reaches the slip of one month.
WinsPaidOnce == OneCommissionPerWin /\ PaidOnOneSlip

\* The commissions on the slips of a locked period do not change.
LockedLinesStay ==
    [][\A p \in Periods : status[p] = "LOCKED" => lines'[p] = lines[p]]_vars

\* A commission that no slip will take any more is on one: "Closed Won" creates
\* a line in the payroll (knowledge.md, section 7).
AppliedIsOnSlip ==
    \A c \in DOMAIN commissions :
        commissions[c].status = "APPLIED" => c \in lines[commissions[c].target]
=============================================================================
