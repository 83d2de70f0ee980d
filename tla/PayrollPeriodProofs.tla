------------------------ MODULE PayrollPeriodProofs ------------------------
(***************************************************************************)
(* Proofs about PayrollPeriod for every set of periods, employees, users   *)
(* and concurrent handlers, whether or not handlers are cut off.           *)
(***************************************************************************)
EXTENDS PayrollPeriod, TLAPS

\* What a handler that has loaded the row seen may write in its place.
Moves(seen, new) ==
    \/ /\ seen.status = "DRAFT"
       /\ \E d \in PayDates : new = [seen EXCEPT !.payDate = d]
    \/ /\ seen.status # "NONE"
       /\ new = [seen EXCEPT !.status = "LOCKED"]
    \/ /\ seen.status = "REVIEWING"
       /\ \E u \in Preparers : new = [seen EXCEPT !.status = "PENDING_APPROVAL",
                                                  !.submittedBy = u]
    \/ \E u \in Approvers : MayApprove(seen, u) /\ new = Approved(seen, u)
    \/ seen.status = "PENDING_APPROVAL" /\ new = Rejected(seen)

\* A waiting handler h of the stored rows: it makes one of those moves, and the
\* approver that it saw on record is never taken off the record again.
Sound(h, rows) ==
    /\ h.op = "period" => /\ Moves(h.seen, h.new)
                          /\ h.seen.approvedBy # NoUser => rows[h.period].approvedBy # NoUser
    /\ h.op = "calculate" => h.seen.status = "DRAFT"

IInv ==
    /\ TypeOK
    /\ ApprovalRecorded
    /\ \A s \in Sessions : Sound(sess[s], periods)

SessionStates == {Idle} \cup PeriodStates \cup AttendanceStates \cup SlipsStates \cup FinalStates

LEMMA MovesType ==
    ASSUME NEW seen \in Row, NEW new, Moves(seen, new)
    PROVE  new \in Row
  BY DEF Moves, Row, Statuses, Approved, Rejected

LEMMA MergeType ==
    ASSUME NEW now \in Row, NEW seen \in Row, NEW new \in Row
    PROVE  /\ Merge(now, seen, new) \in Row
           /\ \A c \in {"status", "payDate", "submittedBy", "approvedBy"} :
                 Merge(now, seen, new)[c] = IF new[c] = seen[c] THEN now[c] ELSE new[c]
<1>1. DOMAIN now = {"status", "payDate", "submittedBy", "approvedBy"}
  BY DEF Row
<1>2. \A c \in DOMAIN now :
          Merge(now, seen, new)[c] = IF new[c] = seen[c] THEN now[c] ELSE new[c]
  BY DEF Merge
<1>3. Merge(now, seen, new) =
         [status      |-> Merge(now, seen, new).status,
          payDate     |-> Merge(now, seen, new).payDate,
          submittedBy |-> Merge(now, seen, new).submittedBy,
          approvedBy  |-> Merge(now, seen, new).approvedBy]
  BY <1>1 DEF Merge
<1> QED
  BY <1>1, <1>2, <1>3 DEF Row

\* An attendance commit keeps the type of the rows.
LEMMA MergeAttendanceType ==
    ASSUME NEW now \in AttendanceRows, NEW seen \in AttendanceRows, NEW new \in AttendanceRows
    PROVE  Merge(now, seen, new) \in AttendanceRows
  BY DEF Merge, AttendanceRows

\* What every step does to the approver and the status of a period.
Steady ==
    \A p \in Periods : periods[p].approvedBy # NoUser => periods'[p].approvedBy # NoUser

\* A step of one handler: the others stay sound if no approver goes off record.
LEMMA HandlerStep ==
    ASSUME IInv, Steady, NEW s \in Sessions, NEW h \in SessionStates,
           sess' = [sess EXCEPT ![s] = h], Sound(h, periods'),
           periods' \in [Periods -> Row],
           attendance' \in [Periods -> AttendanceRows],
           slips' \in [Periods -> SlipRows],
           finals' \in [Periods -> SUBSET Configured],
           ApprovalRecorded'
    PROVE  IInv'
<1>1. sess' \in [Sessions -> SessionStates] /\ TypeOK'
  BY DEF IInv, TypeOK, SessionStates
<1>2. ASSUME NEW t \in Sessions PROVE Sound(sess'[t], periods')
  <2>1. CASE t = s
    BY <2>1 DEF IInv, TypeOK
  <2>2. CASE t # s
    <3>1. sess'[t] = sess[t] /\ Sound(sess[t], periods)
      BY <2>2 DEF IInv, TypeOK
    <3>2. sess[t].op = "period" => sess[t].period \in Periods
      BY DEF IInv, TypeOK, Idle, PeriodStates, AttendanceStates, SlipsStates, FinalStates
    <3> QED
      BY <3>1, <3>2 DEF Sound, Steady
  <2> QED
    BY <2>1, <2>2
<1> QED
  BY <1>1, <1>2 DEF IInv

\* A handler that begins reads and leaves the tables alone.
LEMMA ReadStep ==
    ASSUME IInv, NEW s \in Sessions, NEW h \in SessionStates,
           sess' = [sess EXCEPT ![s] = h], UNCHANGED tables, Sound(h, periods)
    PROVE  IInv'
<1>1. Steady /\ ApprovalRecorded'
  BY DEF Steady, IInv, ApprovalRecorded, tables
<1> QED
  BY <1>1, HandlerStep DEF tables, IInv, TypeOK

\* A commit that leaves the periods alone.
LEMMA OtherStep ==
    ASSUME IInv, NEW s \in Sessions, NEW h \in SessionStates,
           sess' = [sess EXCEPT ![s] = h], UNCHANGED periods, Sound(h, periods),
           attendance' \in [Periods -> AttendanceRows],
           slips' \in [Periods -> SlipRows],
           finals' \in [Periods -> SUBSET Configured]
    PROVE  IInv'
<1>1. Steady /\ ApprovalRecorded'
  BY DEF Steady, IInv, ApprovalRecorded
<1> QED
  BY <1>1, HandlerStep DEF IInv, TypeOK

LEMMA IdleSound == Idle \in SessionStates /\ Sound(Idle, periods) /\ Sound(Idle, periods')
  BY DEF SessionStates, Sound, Idle

LEMMA InitInv == Init => IInv
<1> SUFFICES ASSUME Init PROVE IInv
  OBVIOUS
<1>1. TypeOK
  BY PayrollAssumption DEF Init, TypeOK, Row, Statuses, AttendanceRows, SlipRows
<1>2. ApprovalRecorded
  BY DEF Init, ApprovalRecorded
<1>3. \A s \in Sessions : Sound(sess[s], periods)
  BY DEF Init, Sound, Idle
<1> QED
  BY <1>1, <1>2, <1>3 DEF IInv

\* Each handler loads its period and plans one of the moves.
LEMMA LoadInv ==
    ASSUME IInv, NEW s \in Sessions, NEW p \in Periods, NEW new,
           Moves(periods[p], new), LoadPeriod(s, p, new)
    PROVE  IInv'
<1> DEFINE h == [op |-> "period", period |-> p, seen |-> periods[p], new |-> new]
<1>1. periods[p] \in Row /\ new \in Row
  BY MovesType DEF IInv, TypeOK
<1>2. h \in SessionStates
  BY <1>1 DEF SessionStates, PeriodStates
<1>3. Sound(h, periods)
  BY DEF Sound
<1> QED
  BY <1>2, <1>3, ReadStep DEF LoadPeriod, Begin

\* The commit of a planned move, onto a row that may have changed since.
LEMMA CommitPeriodInv ==
    ASSUME IInv, NEW s \in Sessions, CommitPeriod(s)
    PROVE  IInv'
<1> DEFINE h == sess[s]
<1>1. h \in PeriodStates /\ Sound(h, periods)
  BY DEF CommitPeriod, IInv, TypeOK, Idle, PeriodStates, AttendanceStates, SlipsStates, FinalStates
<1>2. /\ h.period \in Periods /\ h.seen \in Row /\ h.new \in Row
      /\ periods[h.period] \in Row
      /\ Moves(h.seen, h.new)
      /\ h.seen.approvedBy # NoUser => periods[h.period].approvedBy # NoUser
  BY <1>1 DEF PeriodStates, Sound, IInv, TypeOK, CommitPeriod
<1> DEFINE row == Merge(periods[h.period], h.seen, h.new)
<1>3. /\ row \in Row
      /\ row.status = IF h.new.status = h.seen.status
                      THEN periods[h.period].status ELSE h.new.status
      /\ row.approvedBy = IF h.new.approvedBy = h.seen.approvedBy
                          THEN periods[h.period].approvedBy ELSE h.new.approvedBy
  BY <1>2, MergeType
<1>4. periods' = [periods EXCEPT ![h.period] = row]
  BY DEF CommitPeriod
<1>5. /\ h.new.approvedBy # h.seen.approvedBy => h.new.approvedBy # NoUser
      /\ h.new.status = "APPROVED" /\ h.new.status # h.seen.status => h.new.approvedBy # NoUser
  BY <1>2, PayrollAssumption DEF Moves, Row, Approved, Rejected
<1> HIDE DEF row
<1>6. Steady
  BY <1>3, <1>4, <1>5 DEF Steady, IInv, TypeOK
<1>7. ApprovalRecorded'
  BY <1>2, <1>3, <1>4, <1>5 DEF ApprovalRecorded, IInv, TypeOK
<1>8. periods' \in [Periods -> Row]
  BY <1>3, <1>4 DEF IInv, TypeOK
<1> QED
  BY <1>6, <1>7, <1>8, IdleSound, HandlerStep DEF CommitPeriod, Finish, IInv, TypeOK

\* The actions that load a period and plan a move for it.
LEMMA LoadActionsInv ==
    ASSUME IInv, NEW s \in Sessions, NEW p \in Periods,
           \/ UpdateConfig(s, p) \/ LockPeriod(s, p) \/ Reject(s, p)
           \/ \E u \in Preparers : Submit(s, p, u)
           \/ \E u \in Approvers : Approve(s, p, u)
    PROVE  IInv'
<1>1. CASE UpdateConfig(s, p)
  BY <1>1, LoadInv DEF UpdateConfig, Moves
<1>2. CASE LockPeriod(s, p)
  BY <1>2, LoadInv DEF LockPeriod, Moves, Exists
<1>3. CASE Reject(s, p)
  BY <1>3, LoadInv DEF Reject, Moves
<1>4. ASSUME NEW u \in Preparers, Submit(s, p, u) PROVE IInv'
  BY <1>4, LoadInv DEF Submit, Moves
<1>5. ASSUME NEW u \in Approvers, Approve(s, p, u) PROVE IInv'
  BY <1>5, LoadInv DEF Approve, Moves
<1> QED
  BY <1>1, <1>2, <1>3, <1>4, <1>5

\* Opening a period changes the row of one that did not exist.
LEMMA OpenedPeriod ==
    ASSUME IInv, NEW p \in Periods, ~Exists(p), NEW d \in PayDates,
           NEW status \in {"DRAFT", "REVIEWING"},
           periods' = [periods EXCEPT ![p].status = status, ![p].payDate = d]
    PROVE  periods' \in [Periods -> Row] /\ Steady /\ ApprovalRecorded'
<1>1. periods[p] \in Row
  BY DEF IInv, TypeOK
<1>2. periods' \in [Periods -> Row]
  BY <1>1 DEF IInv, TypeOK, Row, Statuses
<1>3. \A q \in Periods : periods'[q].approvedBy = periods[q].approvedBy
  BY <1>1 DEF IInv, TypeOK, Row
<1>4. \A q \in Periods : periods'[q].status = "APPROVED" => periods[q].status = "APPROVED"
  BY <1>1 DEF IInv, TypeOK, Row
<1> QED
  BY <1>2, <1>3, <1>4 DEF Steady, ApprovalRecorded, IInv

LEMMA CreateInv ==
    ASSUME IInv, NEW p \in Periods, CreatePeriod(p)
    PROVE  IInv'
<1>1. periods' \in [Periods -> Row] /\ Steady /\ ApprovalRecorded'
  BY OpenedPeriod DEF CreatePeriod
<1>2. TypeOK'
  BY <1>1 DEF CreatePeriod, IInv, TypeOK
<1>3. ASSUME NEW s \in Sessions PROVE Sound(sess'[s], periods')
  <2>1. sess'[s] = sess[s] /\ Sound(sess[s], periods)
    BY DEF CreatePeriod, IInv
  <2>2. sess[s].op = "period" => sess[s].period \in Periods
    BY DEF IInv, TypeOK, Idle, PeriodStates, AttendanceStates, SlipsStates, FinalStates
  <2> QED
    BY <1>1, <2>1, <2>2 DEF Sound, Steady
<1> QED
  BY <1>1, <1>2, <1>3 DEF IInv

\* Attendance, read and committed.
LEMMA AttendanceInv ==
    ASSUME IInv, NEW s \in Sessions,
           \/ CommitAttendance(s)
           \/ \E p \in Periods, some \in SUBSET Employees :
                 \E rows \in [some -> Days] : InputAttendance(s, p, rows)
    PROVE  IInv'
<1>1. ASSUME NEW p \in Periods, NEW some \in SUBSET Employees, NEW rows \in [some -> Days],
             InputAttendance(s, p, rows)
      PROVE  IInv'
  <2> DEFINE new == [e \in Employees |-> IF e \in DOMAIN rows THEN rows[e]
                                         ELSE attendance[p][e]]
             h == [op |-> "attendance", period |-> p, seen |-> attendance[p], new |-> new]
  <2>1. attendance[p] \in AttendanceRows /\ new \in AttendanceRows
    BY DEF IInv, TypeOK, AttendanceRows
  <2>2. h \in SessionStates /\ Sound(h, periods)
    BY <2>1 DEF SessionStates, AttendanceStates, Sound
  <2>3. sess' = [sess EXCEPT ![s] = h] /\ UNCHANGED tables
    BY <1>1 DEF InputAttendance, Begin
  <2> QED
    BY <2>2, <2>3, ReadStep
<1>2. CASE CommitAttendance(s)
  <2>1. sess[s] \in AttendanceStates
    BY <1>2 DEF CommitAttendance, IInv, TypeOK, Idle, PeriodStates, AttendanceStates,
                SlipsStates, FinalStates
  <2> DEFINE p == sess[s].period
             row == Merge(attendance[p], sess[s].seen, sess[s].new)
  <2>2. p \in Periods /\ row \in AttendanceRows
    BY <2>1, MergeAttendanceType DEF AttendanceStates, IInv, TypeOK
  <2>3. attendance' = attendance \/ attendance' = [attendance EXCEPT ![p] = row]
    BY <1>2 DEF CommitAttendance
  <2> HIDE DEF row
  <2>4. attendance' \in [Periods -> AttendanceRows]
    BY <2>2, <2>3 DEF IInv, TypeOK
  <2> QED
    BY <1>2, <2>4, IdleSound, OtherStep DEF CommitAttendance, Finish, IInv, TypeOK
<1> QED
  BY <1>1, <1>2

\* Slips, planned and inserted.
LEMMA SlipsInv ==
    ASSUME IInv, NEW s \in Sessions,
           CommitSlips(s) \/ \E p \in Periods : Calculate(s, p) \/ Generate(s, p)
    PROVE  IInv'
<1>1. ASSUME NEW p \in Periods, Calculate(s, p) PROVE IInv'
  <2>1. PICK h : /\ h \in SlipsStates /\ h.op = "calculate" /\ h.seen = periods[p]
                 /\ Begin(s, h)
    <3> DEFINE paid == {e \in Configured : attendance[p][e] # NoRow}
               new == [e \in Employees |-> IF e \in paid THEN attendance[p][e] ELSE NoRow]
               h == [op |-> "calculate", pc |-> "slips", period |-> p, seen |-> periods[p],
                     new |-> new]
    <3>1. new \in SlipRows
      BY DEF IInv, TypeOK, AttendanceRows, SlipRows
    <3>2. h \in SlipsStates
      BY <3>1 DEF SlipsStates, IInv, TypeOK
    <3> QED
      BY <1>1, <3>2 DEF Calculate
  <2>2. Sound(h, periods)
    BY <1>1, <2>1 DEF Sound, Calculate, CanProceed
  <2> QED
    BY <2>1, <2>2, ReadStep DEF Begin, SessionStates
<1>2. ASSUME NEW p \in Periods, Generate(s, p) PROVE IInv'
  <2>1. PICK h : h \in SlipsStates /\ h.op = "generate" /\ Begin(s, h)
    <3> DEFINE new == [e \in Employees |-> IF e \in Configured /\ ~HasSlip(p, e)
                                           THEN FullMonth ELSE NoRow]
               h == [op |-> "generate", pc |-> "slips", period |-> p, seen |-> periods[p],
                     new |-> new]
    <3>1. h \in SlipsStates
      BY DEF SlipsStates, SlipRows, IInv, TypeOK
    <3> QED
      BY <1>2, <3>1 DEF Generate
  <2>2. Sound(h, periods)
    BY <2>1 DEF Sound
  <2> QED
    BY <2>1, <2>2, ReadStep DEF Begin, SessionStates
<1>3. CASE CommitSlips(s)
  <2>1. sess[s] \in SlipsStates /\ Sound(sess[s], periods)
    BY <1>3 DEF CommitSlips, IInv, TypeOK, Idle, PeriodStates, AttendanceStates,
                SlipsStates, FinalStates
  <2>2. slips' \in [Periods -> SlipRows]
    <3> DEFINE p == sess[s].period
               add == {e \in Employees : sess[s].new[e] # NoRow}
               row == [e \in Employees |-> IF e \in add THEN sess[s].new[e] ELSE slips[p][e]]
    <3>1. p \in Periods /\ row \in SlipRows
      BY <2>1 DEF SlipsStates, SlipRows, IInv, TypeOK
    <3>2. slips' = slips \/ slips' = [slips EXCEPT ![p] = row]
      BY <1>3, <3>1 DEF CommitSlips, IInv, TypeOK
    <3> QED
      BY <3>1, <3>2 DEF IInv, TypeOK
  <2>3. PICK h : h \in {Idle, [sess[s] EXCEPT !.pc = "status"]} /\ sess' = [sess EXCEPT ![s] = h]
    <3>1. [sess EXCEPT ![s].pc = "status"]
             = [sess EXCEPT ![s] = [sess[s] EXCEPT !.pc = "status"]]
      OBVIOUS
    <3> QED
      BY <1>3, <3>1 DEF CommitSlips, Finish
  <2>4. h \in SessionStates /\ Sound(h, periods)
    <3>1. CASE h = Idle
      BY <3>1, IdleSound
    <3>2. CASE h = [sess[s] EXCEPT !.pc = "status"]
      BY <2>1, <3>2 DEF SlipsStates, SessionStates, Sound
    <3> QED
      BY <2>3, <3>1, <3>2
  <2> QED
    BY <1>3, <2>2, <2>3, <2>4, OtherStep DEF CommitSlips, IInv, TypeOK
<1> QED
  BY <1>1, <1>2, <1>3

\* The second commit of the calculation: a draft, as it was loaded, moves on.
LEMMA ReviewingInv ==
    ASSUME IInv, NEW s \in Sessions, CommitReviewing(s)
    PROVE  IInv'
<1> DEFINE h == sess[s]
           new == [h.seen EXCEPT !.status = "REVIEWING"]
           row == Merge(periods[h.period], h.seen, new)
<1>1. h \in SlipsStates /\ h.seen.status = "DRAFT"
  BY DEF CommitReviewing, IInv, TypeOK, Sound, Idle, PeriodStates, AttendanceStates,
         SlipsStates, FinalStates
<1>2. h.period \in Periods /\ h.seen \in Row /\ new \in Row /\ periods[h.period] \in Row
  BY <1>1 DEF SlipsStates, Row, Statuses, IInv, TypeOK
<1>3. row \in Row /\ row.status = "REVIEWING" /\ row.approvedBy = periods[h.period].approvedBy
  BY <1>1, <1>2, MergeType DEF Row
<1>4. periods' = [periods EXCEPT ![h.period] = row]
  BY DEF CommitReviewing
<1> HIDE DEF row
<1>5. Steady /\ ApprovalRecorded' /\ periods' \in [Periods -> Row]
  BY <1>2, <1>3, <1>4 DEF Steady, ApprovalRecorded, IInv, TypeOK
<1> QED
  BY <1>5, IdleSound, HandlerStep DEF CommitReviewing, Finish, IInv, TypeOK

\* Final payrolls.
LEMMA FinalInv ==
    ASSUME IInv, NEW s \in Sessions,
           \/ CommitFinal(s) \/ RefuseFinal(s)
           \/ \E p \in Periods, e \in Configured : OpenFinal(s, p, e)
    PROVE  IInv'
<1>1. ASSUME NEW p \in Periods, NEW e \in Configured, OpenFinal(s, p, e) PROVE IInv'
  <2> DEFINE h == [op |-> "final", period |-> p, employee |-> e]
  <2>1. h \in SessionStates /\ Sound(h, periods')
    BY DEF SessionStates, FinalStates, Sound
  <2>2. periods' \in [Periods -> Row] /\ Steady /\ ApprovalRecorded'
    <3>1. CASE Exists(p)
      BY <1>1, <3>1 DEF OpenFinal, Steady, IInv, TypeOK, ApprovalRecorded
    <3>2. CASE ~Exists(p)
      BY <1>1, <3>2, OpenedPeriod DEF OpenFinal
    <3> QED
      BY <3>1, <3>2
  <2> QED
    BY <1>1, <2>1, <2>2, HandlerStep DEF OpenFinal, IInv, TypeOK
<1>2. CASE CommitFinal(s)
  <2>1. sess[s] \in FinalStates
    BY <1>2 DEF CommitFinal, IInv, TypeOK, Idle, PeriodStates, AttendanceStates,
                SlipsStates, FinalStates
  <2>2. finals' \in [Periods -> SUBSET Configured]
    BY <1>2, <2>1 DEF CommitFinal, FinalStates, IInv, TypeOK
  <2> QED
    BY <1>2, <2>2, IdleSound, OtherStep DEF CommitFinal, Finish, IInv, TypeOK
<1>3. CASE RefuseFinal(s)
  BY <1>3, IdleSound, ReadStep DEF RefuseFinal, Finish
<1> QED
  BY <1>1, <1>2, <1>3

LEMMA StepInv == IInv /\ [Next]_vars => IInv'
<1> SUFFICES ASSUME IInv, [Next]_vars PROVE IInv'
  OBVIOUS
<1>1. ASSUME NEW p \in Periods, CreatePeriod(p) PROVE IInv'
  BY <1>1, CreateInv
<1>2. ASSUME NEW s \in Sessions, Commit(s) PROVE IInv'
  BY <1>2, CommitPeriodInv, AttendanceInv, SlipsInv, ReviewingInv, FinalInv DEF Commit
<1>3. ASSUME NEW s \in Sessions, NEW p \in Periods, Handle(s, p) PROVE IInv'
  BY <1>3, LoadActionsInv, AttendanceInv, SlipsInv, FinalInv DEF Handle, SubmitForApproval, ApprovePayroll, BulkUpsert,
         GenerateFinalPayroll
<1>4. ASSUME NEW s \in Sessions, Fail(s) PROVE IInv'
  BY <1>4, IdleSound, ReadStep DEF Fail, Finish
<1>5. CASE UNCHANGED vars
  BY <1>5 DEF vars, IInv, TypeOK, ApprovalRecorded, Sound
<1> QED
  BY <1>1, <1>2, <1>3, <1>4, <1>5 DEF Next

\* Statuses, submitters, approvers and slips keep their types, whatever the
\* handlers of payroll_service.py and attendance_service.py interleave.
THEOREM TypeCorrect == Spec => []TypeOK
<1>1. IInv => TypeOK
  BY DEF IInv
<1> QED
  BY InitInv, StepInv, <1>1, PTL DEF Spec

\* However the handlers interleave and wherever they are cut off, a period that
\* is APPROVED has the approver that approve_payroll wrote on record.
THEOREM ApproverOnRecord == Spec => []ApprovalRecorded
<1>1. IInv => ApprovalRecorded
  BY DEF IInv
<1> QED
  BY InitInv, StepInv, <1>1, PTL DEF Spec
-----------------------------------------------------------------------------
(***************************************************************************)
(* With one handler at a time the row a handler loaded is still the stored *)
(* one when it commits, and the periods follow the documented workflow.    *)
(***************************************************************************)
OneAtATime == \A s, t \in Sessions : s = t

Fresh == \A s \in Sessions : sess[s].op \in {"period", "calculate"}
                              => sess[s].seen = periods[sess[s].period]

SerialInv == IInv /\ Fresh

LEMMA FreshStep ==
    ASSUME OneAtATime, IInv, Fresh, [Next]_vars
    PROVE  Fresh'
<1>1. ASSUME NEW p \in Periods, CreatePeriod(p) PROVE Fresh'
  <2> SUFFICES ASSUME NEW s \in Sessions, sess[s].op \in {"period", "calculate"}
               PROVE  sess[s].seen = periods'[sess[s].period]
    BY <1>1 DEF CreatePeriod, Fresh
  <2>1. sess[s].seen.status # "NONE"
    BY DEF IInv, Sound, Moves, MayApprove
  <2>2. sess[s].period # p
    BY <1>1, <2>1 DEF CreatePeriod, Exists, Fresh
  <2>3. sess[s].period \in Periods
    BY DEF IInv, TypeOK, Idle, PeriodStates, AttendanceStates, SlipsStates, FinalStates
  <2>4. periods'[sess[s].period] = periods[sess[s].period]
    BY <1>1, <2>2, <2>3 DEF CreatePeriod, IInv, TypeOK
  <2> QED
    BY <2>4 DEF Fresh
<1>2. ASSUME NEW s \in Sessions, sess' = [sess EXCEPT ![s] = Idle] PROVE Fresh'
  BY <1>2 DEF OneAtATime, Fresh, Idle, IInv, TypeOK
<1>3. ASSUME NEW s \in Sessions, Commit(s) \/ Fail(s) PROVE Fresh'
  <2>1. CASE sess' = [sess EXCEPT ![s] = Idle]
    BY <2>1, <1>2
  <2>2. CASE CommitSlips(s) /\ sess' = [sess EXCEPT ![s].pc = "status"]
    <3>1. \A t \in Sessions : t = s
      BY DEF OneAtATime
    <3>2. sess[s] \in SlipsStates
      BY <2>2 DEF CommitSlips, IInv, TypeOK, Idle, PeriodStates, AttendanceStates,
                  SlipsStates, FinalStates
    <3>3. /\ sess'[s].op = sess[s].op /\ sess'[s].seen = sess[s].seen
          /\ sess'[s].period = sess[s].period
      BY <2>2, <3>2 DEF SlipsStates, IInv, TypeOK
    <3> QED
      BY <2>2, <3>1, <3>3 DEF Fresh, CommitSlips
  <2> QED
    BY <1>3, <2>1, <2>2 DEF Commit, Fail, Finish, CommitPeriod, CommitAttendance, CommitSlips,
                            CommitReviewing, CommitFinal, RefuseFinal
<1>4. ASSUME NEW s \in Sessions, NEW h, sess' = [sess EXCEPT ![s] = h],
             h.op \in {"period", "calculate"} => h.seen = periods'[h.period]
      PROVE  Fresh'
  BY <1>4 DEF OneAtATime, Fresh, IInv, TypeOK
<1>5. ASSUME NEW s \in Sessions, NEW p \in Periods, Handle(s, p) PROVE Fresh'
  <2>1. ASSUME NEW new, LoadPeriod(s, p, new) PROVE Fresh'
    BY <2>1, <1>4 DEF LoadPeriod, Begin, tables
  <2>2. CASE Calculate(s, p)
    BY <2>2, <1>4 DEF Calculate, Begin, tables
  <2>3. CASE Generate(s, p)
    BY <2>3, <1>4 DEF Generate, Begin, tables
  <2>4. ASSUME NEW some \in SUBSET Employees, NEW rows \in [some -> Days],
               InputAttendance(s, p, rows)
        PROVE  Fresh'
    BY <2>4, <1>4 DEF InputAttendance, Begin, tables
  <2>5. ASSUME NEW e \in Configured, OpenFinal(s, p, e) PROVE Fresh'
    BY <2>5, <1>4 DEF OpenFinal
  <2> QED
    BY <1>5, <2>1, <2>2, <2>3, <2>4, <2>5
       DEF Handle, SubmitForApproval, ApprovePayroll, BulkUpsert,
           GenerateFinalPayroll, UpdateConfig, LockPeriod, Reject, Submit, Approve
<1>6. CASE UNCHANGED vars
  BY <1>6 DEF vars, Fresh
<1> QED
  BY <1>1, <1>3, <1>5, <1>6 DEF Next

\* Nothing in the workflow happens in a step that keeps status, submitter and approver.
LEMMA Stutters ==
    ASSUME \A p \in Periods : /\ periods'[p].status = periods[p].status
                              /\ periods'[p].submittedBy = periods[p].submittedBy
                              /\ periods'[p].approvedBy = periods[p].approvedBy
    PROVE  UNCHANGED Workflow!vars
  BY DEF Workflow!vars

LEMMA OpensWorkflow ==
    ASSUME IInv, NEW p \in Periods, ~Exists(p), NEW d \in PayDates,
           NEW status \in {"DRAFT", "REVIEWING"},
           periods' = [periods EXCEPT ![p].status = status, ![p].payDate = d]
    PROVE  Workflow!Open(p)
<1>1. \A q \in Periods : /\ periods'[q].status = IF q = p THEN status ELSE periods[q].status
                         /\ periods'[q].submittedBy = periods[q].submittedBy
                         /\ periods'[q].approvedBy = periods[q].approvedBy
  <2>1. periods \in [Periods -> Row]
    BY DEF IInv, TypeOK
  <2>2. periods'[p] = [periods[p] EXCEPT !.status = status, !.payDate = d]
    BY <2>1
  <2>3. \A q \in Periods : q # p => periods'[q] = periods[q]
    BY <2>1
  <2> QED
    BY <2>1, <2>2, <2>3 DEF Row
<1>2. periods[p].status = "NONE"
  BY DEF Exists
<1>3. [q \in Periods |-> periods'[q].status]
         = [[q \in Periods |-> periods[q].status] EXCEPT ![p] = status]
  <2>1. \A q \in Periods : periods'[q].status = IF q = p THEN status ELSE periods[q].status
    BY <1>1
  <2> QED
    BY <2>1
<1>4. /\ [q \in Periods |-> periods'[q].submittedBy] = [q \in Periods |-> periods[q].submittedBy]
      /\ [q \in Periods |-> periods'[q].approvedBy] = [q \in Periods |-> periods[q].approvedBy]
  BY <1>1
<1>5. Workflow!Move(p, {"NONE"}, status)
  BY <1>2, <1>3 DEF Workflow!Move
<1> QED
  BY <1>4, <1>5 DEF Workflow!Open

\* What the replacement of one row is to the workflow.
LEMMA Replaces ==
    ASSUME NEW p \in Periods, NEW new,
           \A q \in Periods : periods'[q] = IF q = p THEN new ELSE periods[q]
    PROVE  /\ [q \in Periods |-> periods'[q].status]
                = [[q \in Periods |-> periods[q].status] EXCEPT ![p] = new.status]
           /\ [q \in Periods |-> periods'[q].submittedBy]
                = [[q \in Periods |-> periods[q].submittedBy] EXCEPT ![p] = new.submittedBy]
           /\ [q \in Periods |-> periods'[q].approvedBy]
                = [[q \in Periods |-> periods[q].approvedBy] EXCEPT ![p] = new.approvedBy]
           /\ new.submittedBy = periods[p].submittedBy
                => [q \in Periods |-> periods'[q].submittedBy]
                      = [q \in Periods |-> periods[q].submittedBy]
           /\ new.approvedBy = periods[p].approvedBy
                => [q \in Periods |-> periods'[q].approvedBy]
                      = [q \in Periods |-> periods[q].approvedBy]
  OBVIOUS

\* Each planned move, made on the stored row, is a step of the workflow.
LEMMA MoveImplements ==
    ASSUME NEW p \in Periods, NEW new, periods[p] \in Row,
           \A q \in Periods : periods'[q] = IF q = p THEN new ELSE periods[q],
           \/ Moves(periods[p], new)
           \/ periods[p].status = "DRAFT" /\ new = [periods[p] EXCEPT !.status = "REVIEWING"]
    PROVE  Workflow!Next \/ UNCHANGED Workflow!vars
<1>1. \A q \in Periods : periods'[q] = IF q = p THEN new ELSE periods[q]
  OBVIOUS
<1> DEFINE now(c)  == [q \in Periods |-> periods[q][c]]
           then(c) == [q \in Periods |-> periods'[q][c]]
<1>2. /\ then("status") = [now("status") EXCEPT ![p] = new.status]
      /\ then("submittedBy") = [now("submittedBy") EXCEPT ![p] = new.submittedBy]
      /\ then("approvedBy") = [now("approvedBy") EXCEPT ![p] = new.approvedBy]
      /\ new.submittedBy = periods[p].submittedBy => then("submittedBy") = now("submittedBy")
      /\ new.approvedBy = periods[p].approvedBy => then("approvedBy") = now("approvedBy")
      /\ now("status")[p] = periods[p].status
      /\ now("submittedBy")[p] = periods[p].submittedBy
  BY Replaces
<1>3. ASSUME NEW d \in PayDates, new = [periods[p] EXCEPT !.payDate = d]
      PROVE  UNCHANGED Workflow!vars
  BY <1>1, <1>3, Stutters DEF Row
<1>4. CASE periods[p].status # "NONE" /\ new = [periods[p] EXCEPT !.status = "LOCKED"]
  <2>1. new.status = "LOCKED" /\ new.submittedBy = periods[p].submittedBy
        /\ new.approvedBy = periods[p].approvedBy
    BY <1>4 DEF Row
  <2> QED
    BY <1>2, <1>4, <2>1 DEF Workflow!Next, Workflow!Lock
<1>5. ASSUME NEW u \in Preparers, periods[p].status = "REVIEWING",
             new = [periods[p] EXCEPT !.status = "PENDING_APPROVAL", !.submittedBy = u]
      PROVE  Workflow!Next
  <2>1. new.status = "PENDING_APPROVAL" /\ new.submittedBy = u
        /\ new.approvedBy = periods[p].approvedBy
    BY <1>5 DEF Row
  <2>2. Workflow!Move(p, {"REVIEWING"}, "PENDING_APPROVAL")
    BY <1>2, <1>5, <2>1 DEF Workflow!Move
  <2>3. Workflow!Submit(p)
    BY <1>2, <2>1, <2>2 DEF Workflow!Submit
  <2> QED
    BY <2>3 DEF Workflow!Next
<1>6. ASSUME NEW u \in Approvers, MayApprove(periods[p], u), new = Approved(periods[p], u)
      PROVE  Workflow!Next
  <2>1. /\ new.status = "APPROVED" /\ new.submittedBy = periods[p].submittedBy
        /\ new.approvedBy = u
        /\ periods[p].status = "PENDING_APPROVAL" /\ u # periods[p].submittedBy
    BY <1>6 DEF Row, MayApprove, Approved
  <2>2. Workflow!Move(p, {"PENDING_APPROVAL"}, "APPROVED")
    BY <1>2, <2>1 DEF Workflow!Move
  <2>3. /\ u \in Approvers \ {now("submittedBy")[p]}
        /\ then("approvedBy") = [now("approvedBy") EXCEPT ![p] = u]
        /\ then("submittedBy") = now("submittedBy")
    BY <1>2, <2>1
  <2>4. Workflow!Approve(p)
    BY <2>2, <2>3 DEF Workflow!Approve
  <2> QED
    BY <2>4 DEF Workflow!Next
<1>7. CASE periods[p].status = "PENDING_APPROVAL" /\ new = Rejected(periods[p])
  <2>1. new.status = "REVIEWING" /\ new.submittedBy = NoUser
        /\ new.approvedBy = periods[p].approvedBy
    BY <1>7 DEF Row, Rejected
  <2> QED
    BY <1>2, <1>7, <2>1 DEF Workflow!Next, Workflow!Reject, Workflow!Move
<1>8. CASE periods[p].status = "DRAFT" /\ new = [periods[p] EXCEPT !.status = "REVIEWING"]
  <2>1. new.status = "REVIEWING" /\ new.submittedBy = periods[p].submittedBy
        /\ new.approvedBy = periods[p].approvedBy
    BY <1>8 DEF Row
  <2> QED
    BY <1>2, <1>8, <2>1 DEF Workflow!Next, Workflow!Calculate, Workflow!Move
<1> QED
  BY <1>3, <1>4, <1>5, <1>6, <1>7, <1>8 DEF Moves

\* A fresh commit makes the planned move and no other.
LEMMA CommitImplements ==
    ASSUME IInv, Fresh, NEW s \in Sessions, CommitPeriod(s)
    PROVE  Workflow!Next \/ UNCHANGED Workflow!vars
<1> DEFINE h == sess[s]
<1>1. h \in PeriodStates /\ Moves(h.seen, h.new)
  BY DEF CommitPeriod, IInv, TypeOK, Sound, Idle, PeriodStates, AttendanceStates,
         SlipsStates, FinalStates
<1>2. /\ h.period \in Periods /\ h.seen \in Row /\ h.new \in Row
      /\ h.seen = periods[h.period]
  BY <1>1 DEF PeriodStates, Fresh, CommitPeriod
<1>3. Merge(periods[h.period], h.seen, h.new) = h.new
  BY <1>2 DEF Merge, Row
<1>4. periods' = [periods EXCEPT ![h.period] = h.new]
  BY <1>3 DEF CommitPeriod
<1>5. \A q \in Periods : periods'[q] = IF q = h.period THEN h.new ELSE periods[q]
  BY <1>4 DEF IInv, TypeOK
<1> QED
  BY <1>1, <1>2, <1>5, MoveImplements

LEMMA StepImplements ==
    ASSUME OneAtATime, IInv, Fresh, [Next]_vars
    PROVE  Workflow!Next \/ UNCHANGED Workflow!vars
<1>1. ASSUME NEW p \in Periods, CreatePeriod(p) PROVE Workflow!Next
  BY <1>1, OpensWorkflow DEF CreatePeriod, Workflow!Next
<1>2. ASSUME UNCHANGED periods PROVE UNCHANGED Workflow!vars
  BY <1>2, Stutters
<1>3. ASSUME NEW s \in Sessions, CommitReviewing(s)
      PROVE  Workflow!Next \/ UNCHANGED Workflow!vars
  <2> DEFINE h == sess[s]
             p == h.period
             new == [h.seen EXCEPT !.status = "REVIEWING"]
  <2>1. h \in SlipsStates /\ h.seen.status = "DRAFT"
    BY <1>3 DEF CommitReviewing, IInv, TypeOK, Sound, Idle, PeriodStates, AttendanceStates,
                SlipsStates, FinalStates
  <2>2. p \in Periods /\ h.seen \in Row /\ h.seen = periods[p] /\ periods[p] \in Row
    BY <1>3, <2>1 DEF SlipsStates, Fresh, CommitReviewing, IInv, TypeOK
  <2>3. Merge(periods[p], h.seen, new) = new
    BY <2>2 DEF Merge, Row
  <2>4. \A q \in Periods : periods'[q] = IF q = p THEN new ELSE periods[q]
    BY <1>3, <2>2, <2>3 DEF CommitReviewing, IInv, TypeOK
  <2> QED
    BY <2>1, <2>2, <2>4, MoveImplements
<1>4. ASSUME NEW s \in Sessions, NEW p \in Periods, NEW e \in Configured, OpenFinal(s, p, e)
      PROVE  Workflow!Next \/ UNCHANGED Workflow!vars
  BY <1>2, <1>4, OpensWorkflow DEF OpenFinal, Workflow!Next
<1>5. ASSUME NEW s \in Sessions, Commit(s) \/ Fail(s)
      PROVE  Workflow!Next \/ UNCHANGED Workflow!vars
  BY <1>2, <1>3, <1>5, CommitImplements
     DEF Commit, Fail, CommitAttendance, CommitSlips, CommitFinal, RefuseFinal, tables
<1>6. ASSUME NEW s \in Sessions, NEW p \in Periods, Handle(s, p)
      PROVE  Workflow!Next \/ UNCHANGED Workflow!vars
  BY <1>2, <1>4, <1>6
     DEF Handle, SubmitForApproval, ApprovePayroll, BulkUpsert,
           GenerateFinalPayroll, UpdateConfig, LockPeriod, Reject, Submit, Approve, LoadPeriod,
         InputAttendance, Calculate, Generate, Begin, tables
<1>7. CASE UNCHANGED vars
  BY <1>2, <1>7 DEF vars
<1> QED
  BY <1>1, <1>5, <1>6, <1>7 DEF Next

\* If no two handlers overlap, the periods implement PayrollApproval whatever the
\* operations, their order and the points where they are cut off.
THEOREM SerialWorkflow ==
    ASSUME OneAtATime PROVE Spec => ImplementsWorkflow
<1>1. Init => SerialInv /\ Workflow!Init
  BY InitInv DEF SerialInv, Fresh, Init, Idle, Workflow!Init
<1>2. SerialInv /\ [Next]_vars => SerialInv' /\ [Workflow!Next]_(Workflow!vars)
  BY StepInv, FreshStep, StepImplements DEF SerialInv
<1> QED
  BY <1>1, <1>2, PTL DEF Spec, ImplementsWorkflow, Workflow!Spec

-----------------------------------------------------------------------------
\* With one handler at a time a slip is planned for a period that is not locked
\* when it is inserted either.
Unlocked == \A s \in Sessions : sess[s].op \in {"generate", "final"}
                                => periods[sess[s].period].status # "LOCKED"

LockedStays ==
    \A p \in Periods : periods[p].status = "LOCKED"
        => /\ periods'[p] = periods[p]
           /\ slips'[p] = slips[p]
           /\ finals'[p] = finals[p]

LEMMA UnlockedPosition ==
    ASSUME OneAtATime, TypeOK, NEW s \in Sessions, NEW h, sess' = [sess EXCEPT ![s] = h],
           h.op \in {"generate", "final"} => periods'[h.period].status # "LOCKED"
    PROVE  Unlocked'
  BY DEF OneAtATime, TypeOK, Unlocked

LEMMA IdlePosition ==
    ASSUME OneAtATime, TypeOK, NEW s \in Sessions, Finish(s)
    PROVE  Unlocked'
  BY UnlockedPosition DEF Finish, Idle

LEMMA KindOfHandler ==
    ASSUME TypeOK, NEW s \in Sessions
    PROVE  /\ sess[s].op = "period" => sess[s] \in PeriodStates
           /\ sess[s].op = "attendance" => sess[s] \in AttendanceStates
           /\ sess[s].op \in {"calculate", "generate"} => sess[s] \in SlipsStates
           /\ sess[s].op = "final" => sess[s] \in FinalStates
           /\ sess[s] # Idle => sess[s].period \in Periods
  BY DEF TypeOK, Idle, PeriodStates, AttendanceStates, SlipsStates, FinalStates

LEMMA CommitLocked ==
    ASSUME OneAtATime, IInv, Fresh, Unlocked, NEW s \in Sessions, Commit(s) \/ Fail(s)
    PROVE  Unlocked' /\ LockedStays
<1> DEFINE h == sess[s]
<1>1. CASE CommitPeriod(s)
  <2>1. /\ h \in PeriodStates /\ Moves(h.seen, h.new) /\ h.period \in Periods
        /\ h.seen \in Row /\ h.new \in Row /\ h.seen = periods[h.period]
    BY <1>1, KindOfHandler DEF CommitPeriod, IInv, Sound, PeriodStates, Fresh
  <2>2. Merge(periods[h.period], h.seen, h.new) = h.new
    BY <2>1 DEF Merge, Row
  <2>3. periods' = [periods EXCEPT ![h.period] = h.new]
    BY <1>1, <2>2 DEF CommitPeriod
  <2>4. h.seen.status = "LOCKED" => h.new = h.seen
    BY <2>1 DEF Moves, MayApprove, Row
  <2>5. LockedStays
    BY <1>1, <2>1, <2>3, <2>4 DEF LockedStays, CommitPeriod, IInv, TypeOK
  <2> QED
    BY <1>1, <2>5, IdlePosition DEF CommitPeriod, IInv
<1>2. CASE CommitAttendance(s)
  BY <1>2, IdlePosition DEF CommitAttendance, LockedStays, IInv
<1>3. CASE CommitSlips(s)
  <2>1. h \in SlipsStates /\ h.period \in Periods /\ periods[h.period].status # "LOCKED"
    BY <1>3, KindOfHandler DEF CommitSlips, IInv, Sound, SlipsStates, Fresh, Unlocked
  <2>2. LockedStays
    BY <1>3, <2>1 DEF CommitSlips, LockedStays, IInv, TypeOK
  <2>3. CASE Finish(s)
    BY <2>2, <2>3, IdlePosition DEF IInv
  <2>4. CASE h.op = "calculate" /\ sess' = [sess EXCEPT ![s] = [h EXCEPT !.pc = "status"]]
    <3>1. [h EXCEPT !.pc = "status"].op = "calculate"
      BY <2>1, <2>4 DEF SlipsStates
    <3> QED
      BY <2>2, <2>4, <3>1, UnlockedPosition DEF IInv
  <2> QED
    BY <1>3, <2>3, <2>4 DEF CommitSlips, ThenReviewing
<1>4. CASE CommitReviewing(s)
  <2>1. h.period \in Periods /\ periods[h.period].status = "DRAFT"
    BY <1>4, KindOfHandler DEF CommitReviewing, IInv, Sound, SlipsStates, Fresh
  <2>2. LockedStays
    BY <1>4, <2>1 DEF CommitReviewing, LockedStays, IInv, TypeOK
  <2> QED
    BY <1>4, <2>2, IdlePosition DEF CommitReviewing, IInv
<1>5. CASE CommitFinal(s)
  <2>1. h.period \in Periods /\ periods[h.period].status # "LOCKED"
    BY <1>5, KindOfHandler DEF CommitFinal, IInv, FinalStates, Unlocked
  <2>2. LockedStays
    BY <1>5, <2>1 DEF CommitFinal, LockedStays, IInv, TypeOK
  <2> QED
    BY <1>5, <2>2, IdlePosition DEF CommitFinal, IInv
<1>6. CASE RefuseFinal(s) \/ Fail(s)
  BY <1>6, IdlePosition DEF RefuseFinal, Fail, tables, LockedStays, IInv
<1> QED
  BY <1>1, <1>2, <1>3, <1>4, <1>5, <1>6 DEF Commit

LEMMA HandleLocked ==
    ASSUME OneAtATime, IInv, Fresh, Unlocked, NEW s \in Sessions, NEW p \in Periods, Handle(s, p)
    PROVE  Unlocked' /\ LockedStays
<1>1. ASSUME NEW h, Begin(s, h), h.op \in {"generate", "final"} => periods[h.period].status # "LOCKED"
      PROVE  Unlocked' /\ LockedStays
  BY <1>1, UnlockedPosition DEF Begin, tables, LockedStays, IInv
<1>2. ASSUME NEW new, LoadPeriod(s, p, new) PROVE Unlocked' /\ LockedStays
  BY <1>1, <1>2 DEF LoadPeriod
<1>3. CASE Calculate(s, p)
  BY <1>1, <1>3 DEF Calculate
<1>4. CASE Generate(s, p)
  BY <1>1, <1>4 DEF Generate, MayGenerate
<1>5. ASSUME NEW some \in SUBSET Employees, NEW rows \in [some -> Days], InputAttendance(s, p, rows)
      PROVE  Unlocked' /\ LockedStays
  BY <1>1, <1>5 DEF InputAttendance
<1>6. ASSUME NEW e \in Configured, OpenFinal(s, p, e) PROVE Unlocked' /\ LockedStays
  <2>1. periods'[p].status # "LOCKED" /\ LockedStays
    BY <1>6 DEF OpenFinal, LockedStays, Exists, IInv, TypeOK, Row
  <2> QED
    BY <1>6, <2>1, UnlockedPosition DEF OpenFinal, IInv
<1> QED
  BY <1>2, <1>3, <1>4, <1>5, <1>6
     DEF Handle, UpdateConfig, LockPeriod, SubmitForApproval, Submit, ApprovePayroll, Approve,
         Reject, BulkUpsert, GenerateFinalPayroll

LEMMA StepLocked ==
    ASSUME OneAtATime, IInv, Fresh, Unlocked, [Next]_vars
    PROVE  Unlocked' /\ LockedStays
<1>1. ASSUME NEW p \in Periods, CreatePeriod(p) PROVE Unlocked' /\ LockedStays
  <2>1. \A q \in Periods : periods'[q].status = "LOCKED" => periods[q].status = "LOCKED"
    BY <1>1 DEF CreatePeriod, Exists, IInv, TypeOK, Row
  <2>2. \A s \in Sessions : sess[s].op \in {"generate", "final"} => sess[s].period \in Periods
    BY KindOfHandler DEF IInv, Idle
  <2> QED
    BY <1>1, <2>1, <2>2 DEF CreatePeriod, Exists, Unlocked, LockedStays, IInv, TypeOK
<1>2. CASE UNCHANGED vars
  BY <1>2 DEF vars, Unlocked, LockedStays
<1> QED
  BY <1>1, <1>2, CommitLocked, HandleLocked DEF Next

\* If no two handlers overlap, nothing changes a locked period or its slips any
\* more ("immutable", PayrollPeriod in models.py), wherever handlers are cut off.
THEOREM SerialLocked ==
    ASSUME OneAtATime PROVE Spec => LockedIsFinal
<1>1. Init => SerialInv /\ Unlocked
  BY InitInv DEF SerialInv, Fresh, Unlocked, Init, Idle
<1>2. SerialInv /\ Unlocked /\ [Next]_vars => SerialInv' /\ Unlocked' /\ [LockedStays]_vars
  BY StepInv, FreshStep, StepLocked DEF SerialInv
<1> QED
  BY <1>1, <1>2, PTL DEF Spec, LockedIsFinal, LockedStays

-----------------------------------------------------------------------------
\* With one handler at a time, never cut off, attendance is open only while the
\* period has no calculated slips, and a calculation plans the attendance on
\* record.
Calculating(p) == \E s \in Sessions : /\ sess[s].op = "calculate" /\ sess[s].pc = "status"
                                      /\ sess[s].period = p
NoneCalculated(p) == \A e \in Employees : slips[p][e] \notin Days
Drafts == \A p \in Periods : periods[p].status \in {"NONE", "DRAFT"} /\ ~Calculating(p)
                             => NoneCalculated(p)

Planned(h) ==
    /\ h.op = "attendance" => periods[h.period].status = "DRAFT"
    /\ h.op = "calculate" => /\ periods[h.period].status = "DRAFT"
                             /\ \A e \in Employees : h.new[e] # NoRow
                                   => h.new[e] = attendance[h.period][e]
    /\ h.op = "generate" => /\ periods[h.period].status # "NONE"
                            /\ \A e \in Employees : h.new[e] \notin Days
AllPlanned == \A s \in Sessions : Planned(sess[s])

AgreeInv == SlipMatchesAttendance /\ Drafts /\ AllPlanned

LEMMA DaysAreNumbers == NoRow \notin Days /\ FullMonth \notin Days
  BY PayrollAssumption DEF NoRow, FullMonth

\* With one handler, its position after the step is all there is to check.
LEMMA AlonePlanned ==
    ASSUME OneAtATime, TypeOK, NEW s \in Sessions, NEW h, sess' = [sess EXCEPT ![s] = h]
    PROVE  /\ Planned(h)' => AllPlanned'
           /\ \A p \in Periods : Calculating(p)' <=> /\ h.op = "calculate" /\ h.pc = "status"
                                                     /\ h.period = p
  BY DEF OneAtATime, TypeOK, AllPlanned, Planned, Calculating

LEMMA IdlePlanned ==
    ASSUME OneAtATime, TypeOK, NEW s \in Sessions, Finish(s)
    PROVE  AllPlanned' /\ \A p \in Periods : ~Calculating(p)'
<1>1. Planned(Idle)' /\ Idle.op # "calculate"
  BY DEF Planned, Idle
<1> QED
  BY <1>1, AlonePlanned DEF Finish

\* A handler that begins.
LEMMA BeginAgrees ==
    ASSUME OneAtATime, IInv, AgreeInv, NEW s \in Sessions, NEW h, Begin(s, h), Planned(h),
           h.op = "calculate" => h.pc = "slips"
    PROVE  AgreeInv'
<1>1. AllPlanned' /\ \A p \in Periods : ~Calculating(p)'
  BY AlonePlanned DEF Begin, tables, Planned, IInv
<1>2. \A p \in Periods : ~Calculating(p)
  BY DEF OneAtATime, Begin, Calculating, Idle
<1> QED
  BY <1>1, <1>2 DEF Begin, tables, AgreeInv, SlipMatchesAttendance, Drafts, NoneCalculated

\* A status that is written once and for all keeps the slips agreed.
LEMMA MovedPeriods ==
    ASSUME IInv, AgreeInv, UNCHANGED <<attendance, slips>>, AllPlanned',
           \A p \in Periods : periods'[p].status \in {"NONE", "DRAFT"} /\ ~Calculating(p)'
                              => periods[p].status \in {"NONE", "DRAFT"} /\ ~Calculating(p)
    PROVE  AgreeInv'
  BY DEF AgreeInv, SlipMatchesAttendance, Drafts, NoneCalculated

LEMMA HandleAgrees ==
    ASSUME OneAtATime, IInv, Fresh, AgreeInv, NEW s \in Sessions, NEW p \in Periods, Handle(s, p)
    PROVE  AgreeInv'
<1>1. ASSUME NEW new, LoadPeriod(s, p, new) PROVE AgreeInv'
  <2> DEFINE h == [op |-> "period", period |-> p, seen |-> periods[p], new |-> new]
  <2>1. Planned(h) /\ h.op = "period" /\ Begin(s, h)
    BY <1>1 DEF LoadPeriod, Planned
  <2> HIDE DEF h
  <2> QED
    BY <2>1, BeginAgrees
<1>2. CASE Calculate(s, p)
  <2> DEFINE paid == {e \in Configured : attendance[p][e] # NoRow}
             h == [op |-> "calculate", pc |-> "slips", period |-> p, seen |-> periods[p],
                   new |-> [e \in Employees |-> IF e \in paid THEN attendance[p][e] ELSE NoRow]]
  <2>1. Planned(h) /\ h.pc = "slips" /\ Begin(s, h)
    BY <1>2 DEF Calculate, CanProceed, Planned
  <2> HIDE DEF h
  <2> QED
    BY <2>1, BeginAgrees
<1>3. CASE Generate(s, p)
  <2> DEFINE h == [op |-> "generate", pc |-> "slips", period |-> p, seen |-> periods[p],
                   new |-> [e \in Employees |-> IF e \in Configured /\ ~HasSlip(p, e)
                                                THEN FullMonth ELSE NoRow]]
  <2>1. Planned(h) /\ h.op = "generate" /\ Begin(s, h)
    BY <1>3, DaysAreNumbers DEF Generate, MayGenerate, Exists, Planned
  <2> HIDE DEF h
  <2> QED
    BY <2>1, BeginAgrees
<1>4. ASSUME NEW some \in SUBSET Employees, NEW rows \in [some -> Days], InputAttendance(s, p, rows)
      PROVE  AgreeInv'
  <2>1. PICK h : h.op = "attendance" /\ h.period = p /\ Begin(s, h)
    BY <1>4 DEF InputAttendance
  <2>2. Planned(h)
    BY <1>4, <2>1 DEF InputAttendance, AttendanceOpen, Planned
  <2> QED
    BY <2>1, <2>2, BeginAgrees
<1>5. ASSUME NEW e \in Configured, OpenFinal(s, p, e) PROVE AgreeInv'
  <2> DEFINE h == [op |-> "final", period |-> p, employee |-> e]
  <2>1. h.op = "final" /\ sess' = [sess EXCEPT ![s] = h] /\ sess[s] = Idle
    BY <1>5 DEF OpenFinal
  <2> HIDE DEF h
  <2>2. AllPlanned' /\ \A q \in Periods : ~Calculating(q)'
    BY <2>1, AlonePlanned DEF Planned, IInv
  <2>3. \A q \in Periods : ~Calculating(q)
    BY <2>1 DEF OneAtATime, Calculating, Idle
  <2>4. \A q \in Periods : periods'[q].status \in {"NONE", "DRAFT"}
                           => periods[q].status \in {"NONE", "DRAFT"}
    BY <1>5 DEF OpenFinal, Exists, IInv, TypeOK, Row
  <2> QED
    BY <1>5, <2>2, <2>3, <2>4, MovedPeriods DEF OpenFinal
<1> QED
  BY <1>1, <1>2, <1>3, <1>4, <1>5
     DEF Handle, UpdateConfig, LockPeriod, SubmitForApproval, Submit, ApprovePayroll, Approve,
         Reject, BulkUpsert, GenerateFinalPayroll

LEMMA CommitAgrees ==
    ASSUME OneAtATime, IInv, Fresh, AgreeInv, NEW s \in Sessions, Commit(s)
    PROVE  AgreeInv'
<1> DEFINE h == sess[s]
<1>1. \A p \in Periods : Calculating(p) <=> h.op = "calculate" /\ h.pc = "status" /\ h.period = p
  BY DEF OneAtATime, Calculating
<1>2. Planned(h)
  BY DEF AgreeInv, AllPlanned
<1>3. CASE CommitPeriod(s)
  <2>1. /\ h \in PeriodStates /\ Moves(h.seen, h.new) /\ h.period \in Periods
        /\ h.seen \in Row /\ h.new \in Row /\ h.seen = periods[h.period]
    BY <1>3, KindOfHandler DEF CommitPeriod, IInv, Sound, PeriodStates, Fresh
  <2>2. Merge(periods[h.period], h.seen, h.new) = h.new
    BY <2>1 DEF Merge, Row
  <2>3. periods' = [periods EXCEPT ![h.period] = h.new]
    BY <1>3, <2>2 DEF CommitPeriod
  <2>4. h.new.status \in {"NONE", "DRAFT"} => h.seen.status \in {"NONE", "DRAFT"}
    BY <2>1 DEF Moves, MayApprove, Approved, Rejected, Row
  <2>5. \A p \in Periods : periods'[p].status \in {"NONE", "DRAFT"}
                           => periods[p].status \in {"NONE", "DRAFT"}
    BY <2>1, <2>3, <2>4 DEF IInv, TypeOK
  <2> QED
    BY <1>1, <1>3, <2>5, IdlePlanned, MovedPeriods DEF CommitPeriod, IInv
<1>4. CASE CommitAttendance(s)
  <2>1. h.period \in Periods /\ periods[h.period].status = "DRAFT"
    BY <1>2, <1>4, KindOfHandler DEF CommitAttendance, Planned, IInv, AttendanceStates
  <2>2. NoneCalculated(h.period)
    BY <1>1, <1>4, <2>1 DEF CommitAttendance, AgreeInv, Drafts
  <2>3. \A p \in Periods : p # h.period => attendance'[p] = attendance[p]
    BY <1>4 DEF CommitAttendance, IInv, TypeOK
  <2>4. SlipMatchesAttendance'
    BY <1>4, <2>2, <2>3 DEF CommitAttendance, NoneCalculated, AgreeInv, SlipMatchesAttendance
  <2>5. AllPlanned' /\ \A p \in Periods : ~Calculating(p)'
    BY <1>4, IdlePlanned DEF CommitAttendance, IInv
  <2>6. Drafts'
    BY <1>1, <1>4, <2>5 DEF CommitAttendance, AgreeInv, Drafts, NoneCalculated
  <2> QED
    BY <2>4, <2>5, <2>6 DEF AgreeInv
<1>5. CASE CommitSlips(s)
  <2> DEFINE p == h.period
             add == {e \in Employees : h.new[e] # NoRow}
             row == [e \in Employees |-> IF e \in add THEN h.new[e] ELSE slips[p][e]]
  <2>1. /\ h \in SlipsStates /\ p \in Periods /\ h.op \in {"calculate", "generate"}
        /\ \A q \in Periods : ~Calculating(q)
    BY <1>1, <1>5, KindOfHandler DEF CommitSlips, IInv, SlipsStates
  <2>2. CASE UNCHANGED slips /\ Finish(s)
    <3>1. AllPlanned' /\ \A q \in Periods : ~Calculating(q)'
      BY <2>2, IdlePlanned DEF IInv
    <3> QED
      BY <1>5, <2>1, <2>2, <3>1, MovedPeriods DEF CommitSlips
  <2>3. CASE slips' = [slips EXCEPT ![p] = row]
    <3>1. slips'[p] = row /\ \A q \in Periods : q # p => slips'[q] = slips[q]
      BY <2>1, <2>3 DEF IInv, TypeOK
    <3>2. \A e \in Employees : row[e] \in Days => row[e] = attendance[p][e]
      BY <1>2, <2>1 DEF Planned, AgreeInv, SlipMatchesAttendance
    <3> HIDE DEF row, p
    <3>3. SlipMatchesAttendance'
      BY <1>5, <2>1, <3>1, <3>2 DEF CommitSlips, AgreeInv, SlipMatchesAttendance
    <3> USE DEF p
    <3>4. ASSUME Finish(s), ~ThenReviewing(h, add) PROVE AgreeInv'
      <4>1. AllPlanned' /\ \A q \in Periods : ~Calculating(q)'
        BY <3>4, IdlePlanned DEF IInv
      <4>2. periods[p].status \in {"NONE", "DRAFT"} => \A e \in Employees : slips'[p][e] \notin Days
        <5>1. CASE h.op = "calculate"
          <6>1. \A e \in Employees : slips'[p][e] = slips[p][e]
            BY <3>1, <3>4, <5>1 DEF ThenReviewing, row
          <6> QED
            BY <2>1, <6>1 DEF AgreeInv, Drafts, NoneCalculated
        <5>2. CASE h.op = "generate"
          <6>1. \A e \in Employees : h.new[e] \notin Days
            BY <1>2, <5>2 DEF Planned
          <6>2. periods[p].status \in {"NONE", "DRAFT"} => \A e \in Employees : slips[p][e] \notin Days
            BY <2>1 DEF AgreeInv, Drafts, NoneCalculated
          <6> QED
            BY <3>1, <6>1, <6>2 DEF row
        <5> QED
          BY <2>1, <5>1, <5>2
      <4>3. Drafts'
        BY <1>5, <2>1, <3>1, <4>1, <4>2 DEF CommitSlips, AgreeInv, Drafts, NoneCalculated
      <4> QED
        BY <3>3, <4>1, <4>3 DEF AgreeInv
    <3>5. ASSUME sess' = [sess EXCEPT ![s].pc = "status"], h.op = "calculate" PROVE AgreeInv'
      <4>1. PICK g : /\ sess' = [sess EXCEPT ![s] = g]
                     /\ g.op = "calculate" /\ g.pc = "status" /\ g.period = p /\ g.new = h.new
        <5>1. /\ [h EXCEPT !.pc = "status"].op = "calculate"
              /\ [h EXCEPT !.pc = "status"].pc = "status"
              /\ [h EXCEPT !.pc = "status"].period = p
              /\ [h EXCEPT !.pc = "status"].new = h.new
          BY <2>1, <3>5 DEF SlipsStates
        <5> QED
          BY <3>5, <5>1
      <4>2. Planned(g)'
        <5>1. UNCHANGED <<periods, attendance>>
          BY <1>5 DEF CommitSlips
        <5> QED
          BY <1>2, <3>5, <4>1, <5>1 DEF Planned
      <4>3. AllPlanned'
        BY <4>1, <4>2, AlonePlanned DEF IInv
      <4>4. \A q \in Periods : Calculating(q)' <=> q = p
        BY <4>1, AlonePlanned DEF IInv
      <4>5. Drafts'
        BY <1>5, <2>1, <3>1, <4>4 DEF CommitSlips, AgreeInv, Drafts, NoneCalculated
      <4> QED
        BY <3>3, <4>3, <4>5 DEF AgreeInv
    <3> QED
      BY <1>5, <2>2, <3>4, <3>5 DEF CommitSlips, ThenReviewing
  <2> QED
    BY <1>5, <2>1, <2>2, <2>3 DEF CommitSlips, IInv, TypeOK
<1>6. CASE CommitReviewing(s)
  <2> DEFINE p == h.period
             new == [h.seen EXCEPT !.status = "REVIEWING"]
  <2>1. h \in SlipsStates /\ p \in Periods /\ h.seen \in Row /\ h.seen = periods[p]
        /\ h.seen.status = "DRAFT"
    BY <1>6, KindOfHandler DEF CommitReviewing, IInv, Sound, SlipsStates, Fresh
  <2>2. Merge(periods[p], h.seen, new) = new /\ new.status = "REVIEWING"
    BY <2>1 DEF Merge, Row
  <2>3. \A q \in Periods : periods'[q] = IF q = p THEN new ELSE periods[q]
    BY <1>6, <2>2 DEF CommitReviewing, IInv, TypeOK
  <2>4. AllPlanned' /\ \A q \in Periods : ~Calculating(q)'
    BY <1>6, IdlePlanned DEF CommitReviewing, IInv
  <2> HIDE DEF new
  <2>5. \A q \in Periods : periods'[q].status \in {"NONE", "DRAFT"}
                           => periods[q].status \in {"NONE", "DRAFT"} /\ ~Calculating(q)
    BY <1>1, <2>2, <2>3
  <2> QED
    BY <1>6, <2>4, <2>5, MovedPeriods DEF CommitReviewing
<1>7. CASE CommitFinal(s) \/ RefuseFinal(s)
  <2>1. AllPlanned' /\ \A p \in Periods : ~Calculating(p)' /\ ~Calculating(p)
    BY <1>1, <1>7, IdlePlanned DEF CommitFinal, RefuseFinal, IInv
  <2> QED
    BY <1>7, <2>1, MovedPeriods DEF CommitFinal, RefuseFinal, tables
<1> QED
  BY <1>3, <1>4, <1>5, <1>6, <1>7 DEF Commit

LEMMA StepAgrees ==
    ASSUME OneAtATime, ~MayFail, IInv, Fresh, AgreeInv, [Next]_vars
    PROVE  AgreeInv'
<1>1. ASSUME NEW p \in Periods, CreatePeriod(p) PROVE AgreeInv'
  <2>1. \A q \in Periods : /\ periods'[q].status \in {"NONE", "DRAFT"}
                              => periods[q].status \in {"NONE", "DRAFT"}
                           /\ Calculating(q)' <=> Calculating(q)
    BY <1>1 DEF CreatePeriod, Exists, Calculating, IInv, TypeOK, Row
  <2>2. AllPlanned'
    <3> SUFFICES ASSUME NEW s \in Sessions PROVE Planned(sess[s])'
      BY DEF AllPlanned
    <3>1. Planned(sess[s]) /\ sess'[s] = sess[s]
      BY <1>1 DEF AgreeInv, AllPlanned, CreatePeriod
    <3>2. sess[s] # Idle => sess[s].period \in Periods
      BY KindOfHandler DEF IInv
    <3>3. \A q \in Periods : q # p => periods'[q] = periods[q]
      BY <1>1 DEF CreatePeriod, IInv, TypeOK
    <3>4. periods[p].status = "NONE" /\ attendance' = attendance
      BY <1>1 DEF CreatePeriod, Exists
    <3> QED
      BY <3>1, <3>2, <3>3, <3>4 DEF Planned, Idle
  <2> QED
    BY <1>1, <2>1, <2>2, MovedPeriods DEF CreatePeriod
<1>2. CASE UNCHANGED vars
  BY <1>2 DEF vars, AgreeInv, SlipMatchesAttendance, Drafts, NoneCalculated, Calculating,
              AllPlanned, Planned
<1>3. ASSUME NEW s \in Sessions, Fail(s) PROVE FALSE
  BY <1>3 DEF Fail
<1> QED
  BY <1>1, <1>2, <1>3, CommitAgrees, HandleAgrees DEF Next

\* If no two handlers overlap and none is cut off between its two commits, the
\* slips of a calculation are those of the attendance on record, and a period
\* with calculated slips is not a draft.
THEOREM SerialCalculation ==
    ASSUME OneAtATime, ~MayFail PROVE Spec => []CalculationAgrees
<1>1. Init => SerialInv /\ AgreeInv
  BY InitInv, DaysAreNumbers DEF SerialInv, Fresh, AgreeInv, SlipMatchesAttendance, Drafts,
     NoneCalculated, AllPlanned, Planned, Init, Idle
<1>2. SerialInv /\ AgreeInv /\ [Next]_vars => SerialInv' /\ AgreeInv'
  BY StepInv, FreshStep, StepAgrees DEF SerialInv
<1>3. AgreeInv => CalculationAgrees
  BY DEF AgreeInv, CalculationAgrees, CalculatedLeavesDraft, Drafts, NoneCalculated,
         Calculating, Idle
<1> QED
  BY <1>1, <1>2, <1>3, PTL DEF Spec
=============================================================================
