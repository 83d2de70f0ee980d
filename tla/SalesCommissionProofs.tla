----------------------- MODULE SalesCommissionProofs -----------------------
(***************************************************************************)
(* Proofs about SalesCommission for every set of leads, users, periods and *)
(* concurrent handlers.                                                    *)
(***************************************************************************)
EXTENDS SalesCommission, FiniteSetTheorems, TLAPS

\* The state h of a handler, of the stored leads: its lead exists, and it found
\* a slip only if it has a commission for it.
Sound(h, rows) ==
    /\ h.op \in {"edit", "transition"} => rows[h.lead] \in Lead
    /\ h.op = "transition" /\ ~EarnsCommission(h.new) => h.pc = "commit" /\ h.slip = NoPeriod

IInv ==
    /\ TypeOK
    /\ NotPendingOnSlip
    /\ \A s \in Sessions : Sound(sess[s], leads)

SessionStates == {Idle} \cup EditStates \cup TransitionStates \cup GenerateStates
                        \cup LineStates \cup PeriodStates

USE DEF SessionStates

\* Leads stay; commissions are added and applied, none is dropped and none is
\* offered again.
Kept ==
    /\ \A l \in Leads : leads[l] \in Lead => leads'[l] \in Lead
    /\ commissions' \in Seq(Commission)
    /\ DOMAIN commissions \subseteq DOMAIN commissions'
    /\ \A c \in DOMAIN commissions :
          commissions'[c].status = "PENDING" => commissions[c].status = "PENDING"

\* What a handler remembers stays well typed when commissions are added.
LEMMA StaysTyped ==
    ASSUME Kept, NEW h, h \in SessionStates
    PROVE  h \in SessionStates'
  BY DEF Kept, GenerateStates, LineStates, Idle, EditStates, TransitionStates, PeriodStates

\* A step of one handler that keeps the commissions.
LEMMA HandlerStep ==
    ASSUME IInv, Kept, NEW s \in Sessions, NEW h,
           sess' = [sess EXCEPT ![s] = h], h \in SessionStates', Sound(h, leads'),
           leads' \in [Leads -> Lead \cup {NoLead}],
           status' \in [Periods -> PeriodStatuses],
           slips' \in [Periods -> SUBSET Users],
           lines' \in [Periods -> SUBSET DOMAIN commissions'],
           NotPendingOnSlip'
    PROVE  IInv'
<1>1. \A t \in Sessions : sess[t] \in SessionStates
  BY DEF IInv, TypeOK
<1>2. \A t \in Sessions : sess[t] \in SessionStates'
  BY <1>1, StaysTyped
<1>3. sess' \in [Sessions -> SessionStates']
  BY <1>2 DEF IInv, TypeOK
<1>4. ASSUME NEW t \in Sessions PROVE Sound(sess'[t], leads')
  <2>1. CASE t = s
    BY <2>1 DEF IInv, TypeOK
  <2>2. CASE t # s
    BY <1>1, <2>2 DEF IInv, TypeOK, Sound, Kept, EditStates, TransitionStates, GenerateStates,
                      LineStates, PeriodStates, Idle
  <2> QED
    BY <2>1, <2>2
<1> QED
  BY <1>3, <1>4 DEF IInv, TypeOK, Kept, Idle, EditStates, TransitionStates, GenerateStates,
              LineStates, PeriodStates

LEMMA Unchanged ==
    ASSUME IInv, UNCHANGED <<leads, commissions>>
    PROVE  Kept
  BY DEF IInv, TypeOK, Kept

\* A handler that begins, or reads, leaves the tables alone.
LEMMA ReadStep ==
    ASSUME IInv, NEW s \in Sessions, NEW h \in SessionStates,
           sess' = [sess EXCEPT ![s] = h], UNCHANGED tables, Sound(h, leads)
    PROVE  IInv'
<1>1. Kept /\ h \in SessionStates'
  BY Unchanged, StaysTyped DEF tables
<1> QED
  BY <1>1, HandlerStep DEF tables, IInv, TypeOK, NotPendingOnSlip

LEMMA MergeLead ==
    ASSUME NEW now \in Lead, NEW seen \in Lead, NEW new \in Lead
    PROVE  Merge(now, seen, new) \in Lead
<1>1. DOMAIN now = {"stage", "owner", "direktur"}
  BY DEF Lead
<1>2. Merge(now, seen, new) = [stage    |-> Merge(now, seen, new).stage,
                               owner    |-> Merge(now, seen, new).owner,
                               direktur |-> Merge(now, seen, new).direktur]
  BY <1>1 DEF Merge
<1>3. \A c \in DOMAIN now : Merge(now, seen, new)[c] \in {now[c], new[c]}
  BY DEF Merge
<1> QED
  BY <1>1, <1>2, <1>3 DEF Lead

LEMMA IdleSound == Idle \in SessionStates /\ Idle \in SessionStates' /\ Sound(Idle, leads) /\ Sound(Idle, leads')
  BY DEF Sound, Idle

LEMMA InitInv == Init => IInv
<1> SUFFICES ASSUME Init PROVE IInv
  OBVIOUS
<1>1. TypeOK
  BY DEF Init, TypeOK, PeriodStatuses
<1> QED
  BY <1>1 DEF Init, IInv, NotPendingOnSlip, Sound, Idle

LEMMA CreateInv ==
    ASSUME IInv, NEW l \in Leads, NEW u \in Users \cup {NoUser}, NEW direktur \in BOOLEAN,
           CreateLead(l, u, direktur)
    PROVE  IInv'
<1>1. leads' \in [Leads -> Lead \cup {NoLead}] /\ \A k \in Leads : leads[k] \in Lead => leads'[k] \in Lead
  BY DEF CreateLead, IInv, TypeOK, Lead, Stages, NoLead
<1>2. \A t \in Sessions : Sound(sess'[t], leads')
  BY <1>1 DEF CreateLead, IInv, TypeOK, Sound, EditStates, TransitionStates, GenerateStates,
              LineStates, PeriodStates, Idle
<1> QED
  BY <1>1, <1>2 DEF CreateLead, IInv, TypeOK, NotPendingOnSlip, GenerateStates, LineStates

\* Editing a lead.
LEMMA EditInv ==
    ASSUME IInv, NEW s \in Sessions,
           \/ CommitLead(s)
           \/ \E l \in Leads, u \in Users \cup {NoUser}, direktur \in BOOLEAN :
                 EditLead(s, l, u, direktur)
    PROVE  IInv'
<1>1. ASSUME NEW l \in Leads, NEW u \in Users \cup {NoUser}, NEW direktur \in BOOLEAN,
             EditLead(s, l, u, direktur)
      PROVE  IInv'
  <2> DEFINE new == [leads[l] EXCEPT !.owner = u, !.direktur = direktur]
             h == [op |-> "edit", lead |-> l, seen |-> leads[l], new |-> new]
  <2>1. leads[l] \in Lead /\ new \in Lead
    BY <1>1 DEF EditLead, MayEdit, IInv, TypeOK, Lead
  <2>2. h \in SessionStates /\ Sound(h, leads)
    BY <2>1 DEF EditStates, Sound
  <2> QED
    BY <1>1, <2>2, ReadStep DEF EditLead, Begin
<1>2. CASE CommitLead(s)
  <2> DEFINE h == sess[s]
             row == Merge(leads[h.lead], h.seen, h.new)
  <2>1. h \in EditStates /\ leads[h.lead] \in Lead
    BY <1>2 DEF CommitLead, IInv, TypeOK, Sound, Idle, EditStates, TransitionStates,
                GenerateStates, LineStates, PeriodStates
  <2>2. row \in Lead /\ h.lead \in Leads
    BY <2>1, MergeLead DEF EditStates
  <2>3. leads' = [leads EXCEPT ![h.lead] = row]
    BY <1>2 DEF CommitLead
  <2> HIDE DEF row
  <2>4. leads' \in [Leads -> Lead \cup {NoLead}] /\ Kept
    BY <1>2, <2>2, <2>3 DEF CommitLead, IInv, TypeOK, Kept
  <2> QED
    BY <1>2, <2>4, IdleSound, HandlerStep DEF CommitLead, Finish, IInv, TypeOK, NotPendingOnSlip
<1> QED
  BY <1>1, <1>2

LEMMA TransitionInv ==
    ASSUME IInv, NEW s \in Sessions,
           FindSlip(s) \/ \E l \in Leads, to \in Stages : Transition(s, l, to)
    PROVE  IInv'
<1>1. ASSUME NEW l \in Leads, NEW to \in Stages, Transition(s, l, to) PROVE IInv'
  <2> DEFINE new == [leads[l] EXCEPT !.stage = to]
  <2>1. leads[l] \in Lead
    BY <1>1 DEF Transition, Flow, NoLead, IInv, TypeOK
  <2>2. new \in Lead
    BY <2>1 DEF Lead
  <2> DEFINE pc == IF EarnsCommission(new) THEN "slip" ELSE "commit"
             h == [op |-> "transition", pc |-> pc, lead |-> l, seen |-> leads[l], new |-> new,
                   slip |-> NoPeriod]
  <2>3. Begin(s, h)
    BY <1>1 DEF Transition
  <2>4. h \in SessionStates
    BY <2>1, <2>2 DEF TransitionStates
  <2>5. Sound(h, leads)
    <3> HIDE DEF new
    <3> QED
      BY <2>1 DEF Sound
  <2> QED
    BY <2>3, <2>4, <2>5, ReadStep DEF Begin
<1>2. CASE FindSlip(s)
  <2> DEFINE found == RunningSlip(sess[s].new.owner)
             slip == IF found = {} THEN NoPeriod ELSE CHOOSE p \in found : TRUE
             h == [sess[s] EXCEPT !.pc = "commit", !.slip = slip]
  <2>1. sess[s] \in TransitionStates /\ Sound(sess[s], leads)
    BY <1>2 DEF FindSlip, IInv, TypeOK, Idle, EditStates, TransitionStates,
                GenerateStates, LineStates, PeriodStates
  <2>2. found \subseteq Periods
    BY DEF RunningSlip
  <2>3. slip \in Periods \cup {NoPeriod}
    BY <2>2
  <2> HIDE DEF slip
  <2>4. h \in SessionStates /\ Sound(h, leads)
    <3>1. /\ h \in TransitionStates /\ h.new = sess[s].new /\ h.lead = sess[s].lead
          /\ h.op = "transition"
      BY <2>1, <2>3 DEF TransitionStates
    <3>2. sess[s].op = "transition" /\ sess[s].pc = "slip"
      BY <1>2 DEF FindSlip
    <3>3. EarnsCommission(sess[s].new)
      BY <2>1, <3>2 DEF Sound
    <3> HIDE DEF h
    <3> QED
      BY <2>1, <3>1, <3>2, <3>3 DEF Sound
  <2>5. sess' = [sess EXCEPT ![s] = h]
    BY <1>2 DEF FindSlip, slip
  <2> QED
    BY <1>2, <2>4, <2>5, ReadStep DEF FindSlip
<1> QED
  BY <1>1, <1>2

\* Winning a lead: the commission and, if a slip was found, its line.
LEMMA CommitTransitionInv ==
    ASSUME IInv, NEW s \in Sessions, CommitTransition(s)
    PROVE  IInv'
<1> DEFINE h == sess[s]
           row == Merge(leads[h.lead], h.seen, h.new)
<1>1. h \in TransitionStates /\ leads[h.lead] \in Lead
  BY DEF CommitTransition, IInv, TypeOK, Sound, Idle, EditStates, TransitionStates,
         GenerateStates, LineStates, PeriodStates
<1>2. row \in Lead /\ h.lead \in Leads /\ h.new \in Lead /\ h.slip \in Periods \cup {NoPeriod}
  BY <1>1, MergeLead DEF TransitionStates
<1>3. leads' = [leads EXCEPT ![h.lead] = row]
  BY DEF CommitTransition
<1> HIDE DEF row
<1>4. /\ leads' \in [Leads -> Lead \cup {NoLead}]
      /\ \A l \in Leads : leads[l] \in Lead => leads'[l] \in Lead
  BY <1>2, <1>3 DEF IInv, TypeOK
<1>5. commissions \in Seq(Commission)
  BY DEF IInv, TypeOK
<1>6. CASE EarnsCommission(h.new)
  <2>1. NewCommission(h) \in Commission
    BY <1>2, <1>6 DEF NewCommission, Commission, EarnsCommission, Lead
  <2>2. commissions' = Append(commissions, NewCommission(h))
    BY <1>6 DEF CommitTransition
  <2>3. /\ commissions' \in Seq(Commission)
        /\ Len(commissions') = Len(commissions) + 1
        /\ DOMAIN commissions' = 1..Len(commissions) + 1
        /\ DOMAIN commissions = 1..Len(commissions)
        /\ Len(commissions) \in Nat
        /\ \A c \in 1..Len(commissions) : commissions'[c] = commissions[c]
        /\ commissions'[Len(commissions) + 1] = NewCommission(h)
    BY <1>5, <2>1, <2>2
  <2>4. Kept
    BY <1>4, <2>3 DEF Kept
  <2>5. \A p \in Periods : /\ lines'[p] \subseteq lines[p] \cup {Len(commissions) + 1}
                           /\ Len(commissions) + 1 \in lines'[p]
                                => p = h.slip \/ Len(commissions) + 1 \in lines[p]
    BY <2>3 DEF CommitTransition
  <2>6. \A p \in Periods : lines[p] \subseteq 1..Len(commissions)
    BY <2>3 DEF IInv, TypeOK
  <2>7. lines' \in [Periods -> SUBSET DOMAIN commissions']
    <3>1. \A p \in Periods : lines'[p] \subseteq DOMAIN commissions'
      BY <2>3, <2>5, <2>6
    <3> QED
      BY <3>1 DEF CommitTransition
  <2>8. NotPendingOnSlip'
    <3> SUFFICES ASSUME NEW p \in Periods, NEW c \in lines'[p]
                 PROVE  commissions'[c].status # "PENDING"
      BY DEF NotPendingOnSlip
    <3>1. CASE c \in lines[p]
      BY <2>3, <2>6, <3>1 DEF IInv, NotPendingOnSlip
    <3>2. CASE c \notin lines[p]
      <4>1. c = Len(commissions) + 1 /\ h.slip = p
        BY <2>5, <3>2
      <4>2. h.slip # NoPeriod
        BY <4>1, SalesAssumption
      <4> QED
        BY <2>3, <4>1, <4>2 DEF NewCommission
    <3> QED
      BY <3>1, <3>2
  <2> QED
    BY <1>4, <2>4, <2>7, <2>8, IdleSound, HandlerStep DEF CommitTransition, Finish, IInv, TypeOK
<1>7. CASE ~EarnsCommission(h.new)
  <2>1. UNCHANGED commissions /\ h.slip = NoPeriod
    BY <1>1, <1>7 DEF CommitTransition, IInv, Sound
  <2>2. lines' = lines
    BY <2>1, SalesAssumption DEF CommitTransition, IInv, TypeOK
  <2>3. Kept
    BY <1>4, <2>1, <1>5 DEF Kept
  <2> QED
    BY <1>4, <2>1, <2>2, <2>3, IdleSound, HandlerStep
       DEF CommitTransition, Finish, IInv, TypeOK, NotPendingOnSlip
<1> QED
  BY <1>6, <1>7
\* Generating slips: what is put on them is applied, and it was on record.
LEMMA GenerateInv ==
    ASSUME IInv, NEW s \in Sessions,
           \/ CommitGenerate(s)
           \/ \E p \in Periods, configured \in SUBSET Users : Generate(s, p, configured)
    PROVE  IInv'
<1>1. ASSUME NEW p \in Periods, NEW configured \in SUBSET Users, Generate(s, p, configured)
      PROVE  IInv'
  <2> DEFINE paid == configured \ slips[p]
             h == [op |-> "generate", period |-> p, paid |-> paid, found |-> WaitingOf(paid)]
  <2>1. h \in SessionStates /\ Sound(h, leads)
    BY DEF GenerateStates, WaitingOf, Sound
  <2> QED
    BY <1>1, <2>1, ReadStep DEF Generate, Begin
<1>2. CASE CommitGenerate(s)
  <2> DEFINE h == sess[s]
  <2>1. h \in GenerateStates
    <3>1. h \in SessionStates
      BY DEF IInv, TypeOK
    <3>2. h.op = "generate"
      BY <1>2 DEF CommitGenerate
    <3> QED
      BY <3>1, <3>2 DEF Idle, EditStates, TransitionStates, GenerateStates, LineStates,
                        PeriodStates
  <2>2. CASE UNCHANGED <<slips, lines, commissions>>
    BY <1>2, <2>2, IdleSound, Unchanged, HandlerStep
       DEF CommitGenerate, Finish, IInv, TypeOK, NotPendingOnSlip
  <2>3. CASE /\ slips' = [slips EXCEPT ![h.period] = @ \cup h.paid]
             /\ lines' = [lines EXCEPT ![h.period] = @ \cup h.found]
             /\ commissions' =
                   [c \in DOMAIN commissions |->
                      IF c \in h.found
                      THEN [commissions[c] EXCEPT !.status = "APPLIED", !.target = h.period]
                      ELSE commissions[c]]
    <3>1. /\ h.period \in Periods /\ h.paid \subseteq Users
          /\ h.found \subseteq DOMAIN commissions
      BY <2>1 DEF GenerateStates
    <3>2. /\ commissions \in Seq(Commission) /\ DOMAIN commissions = 1..Len(commissions)
          /\ Len(commissions) \in Nat
          /\ \A c \in DOMAIN commissions : commissions[c] \in Commission
      BY DEF IInv, TypeOK
    <3>3. /\ DOMAIN commissions' = DOMAIN commissions
          /\ \A c \in DOMAIN commissions : commissions'[c] \in Commission
          /\ \A c \in h.found : commissions'[c].status = "APPLIED"
          /\ \A c \in DOMAIN commissions \ h.found : commissions'[c] = commissions[c]
      BY <2>3, <3>1, <3>2 DEF Commission
    <3>4. commissions' \in Seq(Commission)
      <4>1. commissions' = [c \in 1..Len(commissions) |-> commissions'[c]]
        BY <2>3, <3>2
      <4>2. \A c \in 1..Len(commissions) : commissions'[c] \in Commission
        BY <3>2, <3>3
      <4> QED
        BY <3>2, <4>1, <4>2
    <3>5. Kept
      BY <1>2, <3>3, <3>4 DEF Kept, CommitGenerate
    <3>6. NotPendingOnSlip'
      <4>1. \A p \in Periods : lines'[p] \subseteq lines[p] \cup h.found
        BY <2>3 DEF IInv, TypeOK
      <4>2. \A p \in Periods : lines[p] \subseteq DOMAIN commissions
        BY DEF IInv, TypeOK
      <4> QED
        BY <3>3, <4>1, <4>2 DEF IInv, NotPendingOnSlip
    <3>7. /\ slips' \in [Periods -> SUBSET Users]
          /\ lines' \in [Periods -> SUBSET DOMAIN commissions']
      BY <2>3, <3>1, <3>3 DEF IInv, TypeOK
    <3> QED
      BY <1>2, <3>5, <3>6, <3>7, IdleSound, HandlerStep DEF CommitGenerate, Finish, IInv, TypeOK
  <2> QED
    BY <1>2, <2>2, <2>3 DEF CommitGenerate
<1> QED
  BY <1>1, <1>2

\* Deleting a line and moving a period.
LEMMA OtherInv ==
    ASSUME IInv, NEW s \in Sessions,
           \/ CommitDelete(s) \/ CommitPeriod(s)
           \/ \E p \in Periods : \E c \in lines[p] : DeleteLine(s, p, c)
           \/ \E p \in Periods, to \in PeriodStatuses : MovePeriod(s, p, to)
    PROVE  IInv'
<1>1. ASSUME NEW p \in Periods, NEW c \in lines[p], DeleteLine(s, p, c) PROVE IInv'
  <2> DEFINE h == [op |-> "delete", period |-> p, commission |-> c]
  <2>1. h \in SessionStates /\ Sound(h, leads)
    BY DEF LineStates, Sound, IInv, TypeOK
  <2> QED
    BY <1>1, <2>1, ReadStep DEF DeleteLine, Begin
<1>2. ASSUME NEW p \in Periods, NEW to \in PeriodStatuses, MovePeriod(s, p, to) PROVE IInv'
  <2> DEFINE h == [op |-> "period", period |-> p, to |-> to]
  <2>1. h \in SessionStates /\ Sound(h, leads)
    BY DEF PeriodStates, Sound
  <2> QED
    BY <1>2, <2>1, ReadStep DEF MovePeriod, Begin
<1>3. CASE CommitDelete(s)
  <2>1. /\ \A p \in Periods : lines'[p] \subseteq lines[p]
        /\ lines' \in [Periods -> SUBSET DOMAIN commissions]
    BY <1>3 DEF CommitDelete, IInv, TypeOK
  <2> QED
    BY <1>3, <2>1, IdleSound, Unchanged, HandlerStep
       DEF CommitDelete, Finish, IInv, TypeOK, NotPendingOnSlip
<1>4. CASE CommitPeriod(s)
  <2>1. sess[s] \in PeriodStates
    BY <1>4 DEF CommitPeriod, IInv, TypeOK, Idle, EditStates, TransitionStates,
                GenerateStates, LineStates, PeriodStates
  <2>2. status' \in [Periods -> PeriodStatuses]
    BY <1>4, <2>1 DEF CommitPeriod, PeriodStates, IInv, TypeOK
  <2> QED
    BY <1>4, <2>2, IdleSound, Unchanged, HandlerStep
       DEF CommitPeriod, Finish, IInv, TypeOK, NotPendingOnSlip
<1> QED
  BY <1>1, <1>2, <1>3, <1>4

LEMMA StepInv == IInv /\ [Next]_vars => IInv'
<1> SUFFICES ASSUME IInv, [Next]_vars PROVE IInv'
  OBVIOUS
<1>1. ASSUME NEW s \in Sessions, Sales(s) PROVE IInv'
  BY <1>1, EditInv, TransitionInv, CommitTransitionInv DEF Sales, UpdateLead, TransitionLead
<1>2. ASSUME NEW s \in Sessions, Payroll(s) PROVE IInv'
  BY <1>2, GenerateInv, OtherInv DEF Payroll
<1>3. CASE UNCHANGED vars
  BY <1>3 DEF vars, IInv, TypeOK, NotPendingOnSlip, Sound, GenerateStates, LineStates
<1> QED
  BY <1>1, <1>2, <1>3, CreateInv DEF Next, PostLead

\* Leads, commissions and slip lines keep their types, however transition_stage,
\* generate_slips_for_period and delete_component interleave.
THEOREM TypeCorrect == Spec => []TypeOK
<1>1. IInv => TypeOK
  BY DEF IInv
<1> QED
  BY InitInv, StepInv, <1>1, PTL DEF Spec

\* A commission that has come onto a slip is not PENDING, so no later generation
\* picks it up, whatever the handlers in flight do.
THEOREM NotOfferedAgain == Spec => []NotPendingOnSlip
<1>1. IInv => NotPendingOnSlip
  BY DEF IInv
<1> QED
  BY InitInv, StepInv, <1>1, PTL DEF Spec

-----------------------------------------------------------------------------
\* With one handler at a time what a handler has read still holds when it commits.
OneAtATime == \A s, t \in Sessions : s = t

\* The state h of a handler, of the stored leads, commissions and period statuses.
Current(h, rows, made, periods) ==
    /\ h.op \in {"edit", "transition"} => h.seen = rows[h.lead] /\ h.seen.stage \notin Closed
    /\ h.op = "edit" => h.new.stage = h.seen.stage
    /\ h.op = "transition" /\ h.slip # NoPeriod => periods[h.slip] = "OPEN"
    /\ h.op = "generate" => /\ periods[h.period] # "LOCKED"
                            /\ \A c \in h.found : made[c].status = "PENDING"
    /\ h.op = "delete" => periods[h.period] # "LOCKED"

AllCurrent == \A s \in Sessions : Current(sess[s], leads, commissions, status)

\* OneCommissionPerWin without Cardinality
EachWin ==
    \A l \in Leads : IF EarnsCommission(leads[l])
                     THEN \E c \in DOMAIN commissions : CommissionsOf(l) = {c}
                     ELSE CommissionsOf(l) = {}

\* A slip holds the commissions that are aimed at its period.
OnItsSlip == \A p \in Periods : \A c \in lines[p] : commissions[c].target = p

SerialInv == IInv /\ AllCurrent /\ EachWin /\ OnItsSlip

LockedStays == \A p \in Periods : status[p] = "LOCKED" => lines'[p] = lines[p]

LEMMA KindOfHandler ==
    ASSUME TypeOK, NEW s \in Sessions
    PROVE  /\ sess[s].op = "edit" => sess[s] \in EditStates
           /\ sess[s].op = "transition" => sess[s] \in TransitionStates
           /\ sess[s].op = "generate" => sess[s] \in GenerateStates
           /\ sess[s].op = "delete" => sess[s] \in LineStates
           /\ sess[s].op = "period" => sess[s] \in PeriodStates
           /\ sess[s] = Idle \/ sess[s].op \in {"edit", "transition", "generate", "delete", "period"}
  BY DEF TypeOK, Idle, EditStates, TransitionStates, GenerateStates, LineStates, PeriodStates

LEMMA SerialPosition ==
    ASSUME OneAtATime, TypeOK, NEW s \in Sessions, NEW h, sess' = [sess EXCEPT ![s] = h],
           Current(h, leads', commissions', status')
    PROVE  AllCurrent'
  BY DEF OneAtATime, TypeOK, AllCurrent

LEMMA SerialFinish ==
    ASSUME OneAtATime, TypeOK, NEW s \in Sessions, Finish(s)
    PROVE  AllCurrent'
<1>1. Current(Idle, leads', commissions', status')
  BY DEF Current, Idle
<1> QED
  BY <1>1, SerialPosition DEF Finish

\* A handler that begins, or reads.
LEMMA SerialRead ==
    ASSUME OneAtATime, SerialInv, NEW s \in Sessions, NEW h, sess' = [sess EXCEPT ![s] = h],
           UNCHANGED tables, Current(h, leads, commissions, status)
    PROVE  AllCurrent' /\ EachWin' /\ OnItsSlip' /\ LockedStays
<1>1. AllCurrent'
  BY SerialPosition DEF SerialInv, IInv, tables
<1> QED
  BY <1>1 DEF SerialInv, EachWin, CommissionsOf, OnItsSlip, LockedStays, tables

LEMMA MergeFresh ==
    ASSUME NEW now \in Lead, NEW new \in Lead
    PROVE  Merge(now, now, new) = new
  BY DEF Merge, Lead

LEMMA SerialCreate ==
    ASSUME SerialInv, NEW l \in Leads, NEW u \in Users \cup {NoUser}, NEW direktur \in BOOLEAN,
           CreateLead(l, u, direktur)
    PROVE  AllCurrent' /\ EachWin' /\ OnItsSlip' /\ LockedStays
<1>1. ASSUME NEW s \in Sessions PROVE Current(sess'[s], leads', commissions', status')
  <2>1. CASE sess[s].op \in {"edit", "transition"}
    <3>1. sess[s].lead \in Leads /\ leads[sess[s].lead] \in Lead
      BY <2>1, KindOfHandler DEF SerialInv, IInv, Sound, EditStates, TransitionStates
    <3>2. sess[s].lead # l
      BY <3>1 DEF CreateLead, NoLead, Lead, Stages
    <3>3. leads'[sess[s].lead] = leads[sess[s].lead]
      BY <3>1, <3>2 DEF CreateLead, SerialInv, IInv, TypeOK
    <3> QED
      BY <3>3 DEF CreateLead, SerialInv, AllCurrent, Current
  <2>2. CASE sess[s].op \notin {"edit", "transition"}
    BY <2>2 DEF CreateLead, SerialInv, AllCurrent, Current
  <2> QED
    BY <2>1, <2>2
<1>2. EachWin'
  BY DEF CreateLead, SerialInv, IInv, TypeOK, EachWin, CommissionsOf, EarnsCommission, NoLead
<1> QED
  BY <1>1, <1>2 DEF CreateLead, SerialInv, AllCurrent, OnItsSlip, LockedStays

LEMMA SerialEdit ==
    ASSUME OneAtATime, SerialInv, NEW s \in Sessions, UpdateLead(s)
    PROVE  AllCurrent' /\ EachWin' /\ OnItsSlip' /\ LockedStays
<1>1. ASSUME NEW l \in Leads, NEW u \in Users \cup {NoUser}, NEW direktur \in BOOLEAN,
             EditLead(s, l, u, direktur)
      PROVE  AllCurrent' /\ EachWin' /\ OnItsSlip' /\ LockedStays
  <2> DEFINE new == [leads[l] EXCEPT !.owner = u, !.direktur = direktur]
             h == [op |-> "edit", lead |-> l, seen |-> leads[l], new |-> new]
  <2>1. leads[l] \in Lead /\ leads[l].stage \notin Closed
    BY <1>1 DEF EditLead, MayEdit, SerialInv, IInv, TypeOK
  <2>2. new.stage = leads[l].stage
    BY <2>1 DEF Lead
  <2> HIDE DEF new
  <2>3. Current(h, leads, commissions, status)
    BY <2>1, <2>2 DEF Current
  <2> QED
    BY <1>1, <2>3, SerialRead DEF EditLead, Begin, new
<1>2. CASE CommitLead(s)
  <2> DEFINE h == sess[s]
  <2>1. /\ h \in EditStates /\ h.lead \in Leads /\ h.new \in Lead /\ h.seen \in Lead
        /\ leads[h.lead] = h.seen /\ h.seen.stage \notin Closed /\ h.new.stage = h.seen.stage
    BY <1>2, KindOfHandler DEF CommitLead, SerialInv, IInv, AllCurrent, Current, EditStates
  <2>2. leads' = [leads EXCEPT ![h.lead] = h.new]
    BY <1>2, <2>1, MergeFresh DEF CommitLead
  <2>3. EachWin'
    BY <1>2, <2>1, <2>2 DEF CommitLead, SerialInv, IInv, TypeOK, EachWin, CommissionsOf,
                            EarnsCommission, Closed
  <2> QED
    BY <1>2, <2>3, SerialFinish DEF CommitLead, SerialInv, IInv, OnItsSlip, LockedStays
<1> QED
  BY <1>1, <1>2 DEF UpdateLead

LEMMA SerialTransition ==
    ASSUME OneAtATime, SerialInv, NEW s \in Sessions,
           FindSlip(s) \/ \E l \in Leads, to \in Stages : Transition(s, l, to)
    PROVE  AllCurrent' /\ EachWin' /\ OnItsSlip' /\ LockedStays
<1>1. ASSUME NEW l \in Leads, NEW to \in Stages, Transition(s, l, to)
      PROVE  AllCurrent' /\ EachWin' /\ OnItsSlip' /\ LockedStays
  <2> DEFINE new == [leads[l] EXCEPT !.stage = to]
             pc == IF EarnsCommission(new) THEN "slip" ELSE "commit"
             h == [op |-> "transition", pc |-> pc, lead |-> l, seen |-> leads[l], new |-> new,
                   slip |-> NoPeriod]
  <2>1. Begin(s, h)
    BY <1>1 DEF Transition
  <2>2. leads[l].stage \notin Closed
    BY <1>1 DEF Transition, Flow, Closed
  <2>3. Current(h, leads, commissions, status)
    BY <2>2 DEF Current
  <2> QED
    BY <2>1, <2>3, SerialRead DEF Begin
<1>2. CASE FindSlip(s)
  <2> DEFINE found == RunningSlip(sess[s].new.owner)
             slip == IF found = {} THEN NoPeriod ELSE CHOOSE p \in found : TRUE
             h == [sess[s] EXCEPT !.pc = "commit", !.slip = slip]
  <2>1. sess[s] \in TransitionStates /\ Current(sess[s], leads, commissions, status)
    BY <1>2, KindOfHandler DEF FindSlip, SerialInv, IInv, AllCurrent
  <2>2. slip # NoPeriod => status[slip] = "OPEN"
    BY DEF RunningSlip
  <2> HIDE DEF slip
  <2>3. h.op = "transition" /\ h.seen = sess[s].seen /\ h.lead = sess[s].lead /\ h.slip = slip
    BY <2>1 DEF TransitionStates
  <2> HIDE DEF h
  <2>4. Current(h, leads, commissions, status)
    BY <1>2, <2>1, <2>2, <2>3 DEF Current, FindSlip
  <2>5. sess' = [sess EXCEPT ![s] = h]
    BY <1>2 DEF FindSlip, slip, h
  <2> QED
    BY <1>2, <2>4, <2>5, SerialRead DEF FindSlip
<1> QED
  BY <1>1, <1>2

\* Winning a lead: it had no commission, and the one it gets is on the slip it
\* is aimed at, or on none.
LEMMA SerialWin ==
    ASSUME OneAtATime, SerialInv, NEW s \in Sessions, CommitTransition(s)
    PROVE  AllCurrent' /\ EachWin' /\ OnItsSlip' /\ LockedStays
<1>0. PICK h : h = sess[s]
  OBVIOUS
<1> DEFINE n == Len(commissions) + 1
<1>1. /\ h \in TransitionStates /\ h.lead \in Leads /\ h.new \in Lead /\ h.seen \in Lead
      /\ leads[h.lead] = h.seen /\ h.seen.stage \notin Closed
      /\ h.slip # NoPeriod => h.slip \in Periods /\ status[h.slip] = "OPEN"
      /\ ~EarnsCommission(h.new) => h.slip = NoPeriod
  BY <1>0, KindOfHandler
     DEF CommitTransition, SerialInv, IInv, Sound, AllCurrent, Current, TransitionStates
<1>2. leads' = [leads EXCEPT ![h.lead] = h.new]
  BY <1>0, <1>1, MergeFresh DEF CommitTransition
<1>3. CommissionsOf(h.lead) = {}
  BY <1>1 DEF SerialInv, EachWin, EarnsCommission, Closed
<1>4. AllCurrent'
  BY SerialFinish DEF CommitTransition, SerialInv, IInv
<1>5. /\ commissions \in Seq(Commission) /\ DOMAIN commissions = 1..Len(commissions)
      /\ Len(commissions) \in Nat /\ \A p \in Periods : lines[p] \subseteq DOMAIN commissions
  BY DEF SerialInv, IInv, TypeOK
<1>6. LockedStays
  BY <1>0, <1>1, SalesAssumption DEF CommitTransition, LockedStays
<1>7. CASE EarnsCommission(h.new)
  <2>1. NewCommission(h) \in Commission /\ NewCommission(h).lead = h.lead /\ NewCommission(h).target = h.slip
    BY <1>1, <1>7 DEF NewCommission, Commission, EarnsCommission, Lead, TransitionStates
  <2>2. commissions' = Append(commissions, NewCommission(h))
    BY <1>0, <1>7 DEF CommitTransition
  <2>3. /\ DOMAIN commissions' = DOMAIN commissions \cup {n} /\ n \notin DOMAIN commissions
        /\ Len(commissions') = n /\ n # 0
        /\ \A c \in DOMAIN commissions : commissions'[c] = commissions[c]
        /\ commissions'[n].lead = h.lead /\ commissions'[n].target = h.slip
    BY <1>5, <2>1, <2>2
  <2>4. EachWin'
    <3>1. \A l \in Leads : CommissionsOf(l)' = IF l = h.lead THEN CommissionsOf(l) \cup {n}
                                                             ELSE CommissionsOf(l)
      BY <2>3 DEF CommissionsOf
    <3>2. \A l \in Leads : leads'[l] = IF l = h.lead THEN h.new ELSE leads[l]
      BY <1>2 DEF SerialInv, IInv, TypeOK
    <3>3. CommissionsOf(h.lead)' = {n} /\ n \in DOMAIN commissions'
      BY <1>1, <1>3, <2>3, <3>1
    <3> QED
      BY <1>7, <2>3, <3>1, <3>2, <3>3 DEF SerialInv, EachWin
  <2>5. OnItsSlip'
    <3>1. \A p \in Periods : lines'[p] = IF p = h.slip THEN lines[p] \cup {n} ELSE lines[p]
      BY <1>0, <2>3 DEF CommitTransition
    <3> SUFFICES ASSUME NEW p \in Periods, NEW c \in lines'[p] PROVE commissions'[c].target = p
      BY DEF OnItsSlip
    <3>2. CASE c \in lines[p]
      <4>1. c \in DOMAIN commissions /\ commissions[c].target = p
        BY <1>5, <3>2 DEF SerialInv, OnItsSlip
      <4> QED
        BY <2>3, <4>1
    <3>3. CASE p = h.slip /\ c = n
      BY <2>3, <3>3
    <3> QED
      BY <3>1, <3>2, <3>3
  <2> QED
    BY <1>4, <1>6, <2>4, <2>5
<1>8. CASE ~EarnsCommission(h.new)
  <2>1. UNCHANGED commissions
    BY <1>0, <1>8 DEF CommitTransition
  <2>2. \A p \in Periods : lines'[p] = lines[p]
    BY <1>0, <1>1, <1>8, SalesAssumption DEF CommitTransition
  <2>3. EachWin'
    <3>1. \A l \in Leads : leads'[l] = IF l = h.lead THEN h.new ELSE leads[l]
      BY <1>2 DEF SerialInv, IInv, TypeOK
    <3>2. \A l \in Leads : CommissionsOf(l)' = CommissionsOf(l)
      BY <2>1 DEF CommissionsOf
    <3> QED
      BY <1>3, <1>8, <2>1, <3>1, <3>2 DEF SerialInv, EachWin
  <2> QED
    BY <1>4, <1>6, <2>1, <2>2, <2>3 DEF SerialInv, OnItsSlip
<1> QED
  BY <1>7, <1>8

\* Generation takes commissions that wait, so they are on no other slip.
LEMMA SerialGenerate ==
    ASSUME OneAtATime, SerialInv, NEW s \in Sessions,
           \/ CommitGenerate(s)
           \/ \E p \in Periods, configured \in SUBSET Users : Generate(s, p, configured)
    PROVE  AllCurrent' /\ EachWin' /\ OnItsSlip' /\ LockedStays
<1>1. ASSUME NEW p \in Periods, NEW configured \in SUBSET Users, Generate(s, p, configured)
      PROVE  AllCurrent' /\ EachWin' /\ OnItsSlip' /\ LockedStays
  <2> DEFINE paid == configured \ slips[p]
             h == [op |-> "generate", period |-> p, paid |-> paid, found |-> WaitingOf(paid)]
  <2>1. Current(h, leads, commissions, status)
    BY <1>1 DEF Current, Generate, MayGenerate, WaitingOf
  <2> QED
    BY <1>1, <2>1, SerialRead DEF Generate, Begin
<1>2. CASE CommitGenerate(s)
  <2> DEFINE h == sess[s]
  <2>1. /\ h \in GenerateStates /\ h.period \in Periods /\ h.found \subseteq DOMAIN commissions
        /\ status[h.period] # "LOCKED" /\ \A c \in h.found : commissions[c].status = "PENDING"
    BY <1>2, KindOfHandler DEF CommitGenerate, SerialInv, IInv, AllCurrent, Current, GenerateStates
  <2>2. AllCurrent'
    BY <1>2, SerialFinish DEF CommitGenerate, SerialInv, IInv
  <2>3. LockedStays
    BY <1>2, <2>1 DEF CommitGenerate, LockedStays, SerialInv, IInv, TypeOK
  <2>4. CASE UNCHANGED <<slips, lines, commissions>>
    <3>1. UNCHANGED leads /\ \A l \in Leads : CommissionsOf(l)' = CommissionsOf(l)
      BY <1>2, <2>4 DEF CommitGenerate, CommissionsOf
    <3>2. EachWin'
      BY <2>4, <3>1 DEF SerialInv, EachWin
    <3> QED
      BY <2>2, <2>3, <2>4, <3>2 DEF SerialInv, OnItsSlip
  <2>5. CASE /\ slips' = [slips EXCEPT ![h.period] = @ \cup h.paid]
             /\ lines' = [lines EXCEPT ![h.period] = @ \cup h.found]
             /\ commissions' =
                   [c \in DOMAIN commissions |->
                      IF c \in h.found
                      THEN [commissions[c] EXCEPT !.status = "APPLIED", !.target = h.period]
                      ELSE commissions[c]]
    <3>1. \A c \in DOMAIN commissions : commissions[c] \in Commission
      BY DEF SerialInv, IInv, TypeOK
    <3>2. /\ DOMAIN commissions' = DOMAIN commissions
          /\ \A c \in DOMAIN commissions : commissions'[c].lead = commissions[c].lead
          /\ \A c \in h.found : commissions'[c].target = h.period
          /\ \A c \in DOMAIN commissions \ h.found : commissions'[c] = commissions[c]
      BY <2>1, <2>5, <3>1 DEF Commission
    <3>3. \A l \in Leads : CommissionsOf(l)' = CommissionsOf(l)
      BY <3>2 DEF CommissionsOf
    <3>4. EachWin'
      BY <1>2, <3>2, <3>3 DEF CommitGenerate, SerialInv, EachWin
    <3>5. OnItsSlip'
      <4> SUFFICES ASSUME NEW p \in Periods, NEW c \in lines'[p] PROVE commissions'[c].target = p
        BY DEF OnItsSlip
      <4>1. c \in lines[p] \/ (p = h.period /\ c \in h.found)
        BY <2>5 DEF SerialInv, IInv, TypeOK
      <4>2. CASE c \in h.found
        <5>1. \A q \in Periods : c \notin lines[q]
          BY <2>1, <4>2 DEF SerialInv, IInv, NotPendingOnSlip
        <5> QED
          BY <3>2, <4>1, <4>2, <5>1
      <4>3. CASE c \notin h.found
        BY <3>2, <4>1, <4>3 DEF SerialInv, IInv, TypeOK, OnItsSlip
      <4> QED
        BY <4>2, <4>3
    <3> QED
      BY <2>2, <2>3, <3>4, <3>5
  <2> QED
    BY <1>2, <2>4, <2>5 DEF CommitGenerate
<1> QED
  BY <1>1, <1>2

LEMMA SerialOther ==
    ASSUME OneAtATime, SerialInv, NEW s \in Sessions,
           \/ CommitDelete(s) \/ CommitPeriod(s)
           \/ \E p \in Periods : \E c \in lines[p] : DeleteLine(s, p, c)
           \/ \E p \in Periods, to \in PeriodStatuses : MovePeriod(s, p, to)
    PROVE  AllCurrent' /\ EachWin' /\ OnItsSlip' /\ LockedStays
<1>1. ASSUME NEW p \in Periods, NEW c \in lines[p], DeleteLine(s, p, c)
      PROVE  AllCurrent' /\ EachWin' /\ OnItsSlip' /\ LockedStays
  <2> DEFINE h == [op |-> "delete", period |-> p, commission |-> c]
  <2>1. Current(h, leads, commissions, status)
    BY <1>1 DEF Current, DeleteLine
  <2> QED
    BY <1>1, <2>1, SerialRead DEF DeleteLine, Begin
<1>2. ASSUME NEW p \in Periods, NEW to \in PeriodStatuses, MovePeriod(s, p, to)
      PROVE  AllCurrent' /\ EachWin' /\ OnItsSlip' /\ LockedStays
  <2> DEFINE h == [op |-> "period", period |-> p, to |-> to]
  <2>1. Current(h, leads, commissions, status)
    BY DEF Current
  <2> QED
    BY <1>2, <2>1, SerialRead DEF MovePeriod, Begin
<1>3. CASE CommitDelete(s)
  <2> DEFINE h == sess[s]
  <2>1. h.period \in Periods /\ status[h.period] # "LOCKED"
    BY <1>3, KindOfHandler DEF CommitDelete, SerialInv, IInv, AllCurrent, Current, LineStates
  <2>2. /\ \A p \in Periods : lines'[p] \subseteq lines[p]
        /\ \A p \in Periods : p # h.period => lines'[p] = lines[p]
    BY <1>3 DEF CommitDelete, SerialInv, IInv, TypeOK
  <2> QED
    BY <1>3, <2>1, <2>2, SerialFinish
       DEF CommitDelete, SerialInv, IInv, EachWin, CommissionsOf, OnItsSlip, LockedStays
<1>4. CASE CommitPeriod(s)
  BY <1>4, SerialFinish
     DEF CommitPeriod, SerialInv, IInv, EachWin, CommissionsOf, OnItsSlip, LockedStays
<1> QED
  BY <1>1, <1>2, <1>3, <1>4

LEMMA SerialStep ==
    ASSUME OneAtATime, SerialInv, [Next]_vars
    PROVE  SerialInv' /\ LockedStays
<1>1. ASSUME NEW s \in Sessions, Sales(s) PROVE AllCurrent' /\ EachWin' /\ OnItsSlip' /\ LockedStays
  BY <1>1, SerialEdit, SerialTransition, SerialWin DEF Sales, TransitionLead
<1>2. ASSUME NEW s \in Sessions, Payroll(s) PROVE AllCurrent' /\ EachWin' /\ OnItsSlip' /\ LockedStays
  BY <1>2, SerialGenerate, SerialOther DEF Payroll
<1>3. ASSUME UNCHANGED vars PROVE AllCurrent' /\ EachWin' /\ OnItsSlip' /\ LockedStays
  <2>1. EachWin'
    BY <1>3 DEF vars, SerialInv, EachWin, CommissionsOf
  <2> QED
    BY <1>3, <2>1 DEF vars, SerialInv, AllCurrent, OnItsSlip, LockedStays
<1>4. AllCurrent' /\ EachWin' /\ OnItsSlip' /\ LockedStays
  BY <1>1, <1>2, <1>3, SerialCreate DEF Next, PostLead
<1> QED
  BY <1>4, StepInv DEF SerialInv

LEMMA SerialInit == Init => SerialInv
<1> SUFFICES ASSUME Init PROVE SerialInv
  OBVIOUS
<1>1. AllCurrent
  BY DEF Init, AllCurrent, Current, Idle
<1>2. EachWin /\ OnItsSlip
  BY DEF Init, EachWin, CommissionsOf, EarnsCommission, NoLead, OnItsSlip
<1> QED
  BY <1>1, <1>2, InitInv DEF SerialInv

LEMMA SerialWins == SerialInv => WinsPaidOnce
<1> SUFFICES ASSUME SerialInv PROVE OneCommissionPerWin /\ PaidOnOneSlip
  BY DEF WinsPaidOnce
<1>1. OneCommissionPerWin
  BY FS_EmptySet, FS_Singleton DEF SerialInv, EachWin, OneCommissionPerWin
<1>2. PaidOnOneSlip
  BY DEF SerialInv, OnItsSlip, PaidOnOneSlip
<1> QED
  BY <1>1, <1>2

\* If no two handlers overlap, a won lead has the one commission it earns and no
\* other lead has any, and no commission is on the slips of two months: whatever
\* the order of transition_stage, generate_slips_for_period, delete_component
\* and the moves of the periods.
THEOREM SerialWinsPaidOnce ==
    ASSUME OneAtATime PROVE Spec => []WinsPaidOnce
  BY SerialInit, SerialStep, SerialWins, PTL DEF Spec

\* If no two handlers overlap, no step changes the commissions on the slips of a
\* locked period.
THEOREM SerialLockedLines ==
    ASSUME OneAtATime PROVE Spec => LockedLinesStay
<1>1. SerialInv /\ [Next]_vars =>
         SerialInv' /\ [\A p \in Periods : status[p] = "LOCKED" => lines'[p] = lines[p]]_vars
  BY SerialStep DEF LockedStays
<1> QED
  BY <1>1, SerialInit, PTL DEF Spec, LockedLinesStay
=============================================================================
