--------------------------- MODULE PayrollPeriod ---------------------------
(***************************************************************************)
(* Payroll periods: attendance, the calculation of the month's slips, the  *)
(* approval workflow and the lock, after                                   *)
(* backend/app/payroll/payroll_service.py and attendance_service.py.       *)
(*                                                                         *)
(* A handler loads its period once; the object it holds is never refreshed *)
(* and the commit merges its changes (UnitOfWork).  What a slip contains   *)
(* is the subject of PayrollSlips; here a slip is the attendance it was    *)
(* computed from.                                                          *)
(***************************************************************************)
EXTENDS Integers, UnitOfWork

CONSTANTS
    Periods,      \* (year, month)
    Employees,    \* the employees with status ACTIVE or PROBATION
    Active,       \* those with status ACTIVE
    Configured,   \* those with a payroll_configs row in force
    Days,         \* the paid days an attendance row may record
    LeastDays,    \* paid days below which the deductions exceed the income
    PayDates,     \* payroll_periods.pay_date
    Preparers,    \* the users that hold payroll.create
    Approvers,    \* the users that hold payroll.approve
    Sessions,     \* request handlers that may be in flight together
    MayFail,      \* whether a handler may be cut off before it has finished
    NoUser

ASSUME PayrollAssumption ==
    /\ Active \subseteq Employees
    /\ Configured \subseteq Employees
    /\ Days \subseteq Nat
    /\ LeastDays \in [Employees -> Nat]
    /\ NoUser \notin Preparers \cup Approvers
    /\ MayFail \in BOOLEAN

VARIABLES
    periods,      \* table payroll_periods
    attendance,   \* table monthly_attendances: paid days by period, employee
    slips,        \* table payroll_slips, the SLIP- ones: what they were computed from
    finals,       \* table payroll_slips, the FINAL- ones
    sess

vars == <<periods, attendance, slips, finals, sess>>
tables == <<periods, attendance, slips, finals>>
-----------------------------------------------------------------------------
NoRow     == -1    \* no attendance, no slip
FullMonth == -2    \* a slip that did not look at the attendance

Statuses == {"NONE", "DRAFT", "REVIEWING", "PENDING_APPROVAL", "APPROVED", "LOCKED"}
Row == [status: Statuses, payDate: PayDates,
        submittedBy: Preparers \cup {NoUser}, approvedBy: Approvers \cup {NoUser}]
AttendanceRows == [Employees -> Days \cup {NoRow}]
SlipRows       == [Employees -> Days \cup {NoRow, FullMonth}]

Idle == [op |-> "idle"]
PeriodStates     == [op: {"period"}, period: Periods, seen: Row, new: Row]
AttendanceStates == [op: {"attendance"}, period: Periods,
                     seen: AttendanceRows, new: AttendanceRows]
SlipsStates      == [op: {"calculate", "generate"}, pc: {"slips", "status"},
                     period: Periods, seen: Row, new: SlipRows]
FinalStates      == [op: {"final"}, period: Periods, employee: Configured]

TypeOK ==
    /\ periods \in [Periods -> Row]
    /\ attendance \in [Periods -> AttendanceRows]
    /\ slips \in [Periods -> SlipRows]
    /\ finals \in [Periods -> SUBSET Configured]
    /\ sess \in [Sessions -> {Idle} \cup PeriodStates \cup AttendanceStates
                             \cup SlipsStates \cup FinalStates]

Init ==
    /\ \E d \in PayDates :
          periods = [p \in Periods |-> [status |-> "NONE", payDate |-> d,
                                        submittedBy |-> NoUser, approvedBy |-> NoUser]]
    /\ attendance = [p \in Periods |-> [e \in Employees |-> NoRow]]
    /\ slips  = [p \in Periods |-> [e \in Employees |-> NoRow]]
    /\ finals = [p \in Periods |-> {}]
    /\ sess   = [s \in Sessions |-> Idle]

Exists(p) == periods[p].status # "NONE"
HasSlip(p, e) == slips[p][e] # NoRow \/ e \in finals[p]
Begin(s, h) == sess[s] = Idle /\ sess' = [sess EXCEPT ![s] = h] /\ UNCHANGED tables
Finish(s) == sess' = [sess EXCEPT ![s] = Idle]
-----------------------------------------------------------------------------
\* create_period: the unique (year, month) makes check and insert one step.
CreatePeriod(p) ==
    /\ ~Exists(p)
    /\ \E d \in PayDates :
          periods' = [periods EXCEPT ![p].status = "DRAFT", ![p].payDate = d]
    /\ UNCHANGED <<attendance, slips, finals, sess>>

\* A handler that loads a period, checks it and changes some of its columns.
LoadPeriod(s, p, new) ==
    Begin(s, [op |-> "period", period |-> p, seen |-> periods[p], new |-> new])

\* update_period_config
UpdateConfig(s, p) ==
    /\ periods[p].status = "DRAFT"
    /\ \E d \in PayDates : LoadPeriod(s, p, [periods[p] EXCEPT !.payDate = d])

\* lock_period looks at no status.
LockPeriod(s, p) ==
    /\ Exists(p)
    /\ LoadPeriod(s, p, [periods[p] EXCEPT !.status = "LOCKED"])

\* submit_payroll_for_approval
Submit(s, p, u) ==
    /\ periods[p].status = "REVIEWING"
    /\ LoadPeriod(s, p, [periods[p] EXCEPT !.status = "PENDING_APPROVAL", !.submittedBy = u])

\* approve_payroll
MayApproveOwn(row, u) == row.status = "PENDING_APPROVAL"
MayApprove(row, u) == row.status = "PENDING_APPROVAL" /\ row.submittedBy # u
ApprovedBySomebody(row, u) == [row EXCEPT !.status = "APPROVED"]
Approved(row, u) == [row EXCEPT !.status = "APPROVED", !.approvedBy = u]

Approve(s, p, u) ==
    /\ MayApprove(periods[p], u)
    /\ LoadPeriod(s, p, Approved(periods[p], u))

\* reject_payroll sends the period back to Finance.
RejectedForGood(row) == [row EXCEPT !.status = "REJECTED", !.submittedBy = NoUser]
Rejected(row) == [row EXCEPT !.status = "REVIEWING", !.submittedBy = NoUser]

Reject(s, p) ==
    /\ periods[p].status = "PENDING_APPROVAL"
    /\ LoadPeriod(s, p, Rejected(periods[p]))

CommitPeriod(s) ==
    /\ sess[s].op = "period"
    /\ LET h == sess[s]
       IN periods' = [periods EXCEPT ![h.period] = Merge(@, h.seen, h.new)]
    /\ Finish(s)
    /\ UNCHANGED <<attendance, slips, finals>>
-----------------------------------------------------------------------------
\* bulk_upsert and update_attendance: valid rows for some employees.
AttendanceUnlocked(p) == Exists(p) /\ periods[p].status # "LOCKED"
AttendanceOpen(p) == periods[p].status = "DRAFT"

InputAttendance(s, p, rows) ==
    /\ AttendanceOpen(p)
    /\ Begin(s, [op |-> "attendance", period |-> p, seen |-> attendance[p],
                 new |-> [e \in Employees |-> IF e \in DOMAIN rows THEN rows[e]
                                              ELSE attendance[p][e]]])

\* A row that was new when it was read must still be new (uq_attendance).
CommitAttendance(s) ==
    /\ sess[s].op = "attendance"
    /\ LET h == sess[s]
           duplicate == \E e \in Employees : /\ h.seen[e] = NoRow /\ h.new[e] # NoRow
                                             /\ attendance[h.period][e] # NoRow
       IN attendance' = IF duplicate THEN attendance
                        ELSE [attendance EXCEPT ![h.period] = Merge(@, h.seen, h.new)]
    /\ Finish(s)
    /\ UNCHANGED <<periods, slips, finals>>
-----------------------------------------------------------------------------
\* calculate_payroll_preview: what blocks the calculation.  Completeness asks
\* for the attendance of ACTIVE employees only.
AttendanceComplete(p) == \A e \in Active : attendance[p][e] # NoRow
CanProceed(p) ==
    /\ periods[p].status = "DRAFT"
    /\ \A e \in Employees : ~HasSlip(p, e)
    /\ AttendanceComplete(p)

\* calculate_payroll up to the first commit: a slip for every employee with a
\* configuration and attendance; one negative net pay stops them all.
Calculate(s, p) ==
    /\ CanProceed(p)
    /\ LET paid == {e \in Configured : attendance[p][e] # NoRow}
       IN /\ \A e \in paid : attendance[p][e] >= LeastDays[e]
          /\ Begin(s, [op |-> "calculate", pc |-> "slips", period |-> p, seen |-> periods[p],
                       new |-> [e \in Employees |-> IF e \in paid THEN attendance[p][e]
                                                    ELSE NoRow]])

\* generate_slips_for_period: whole salaries for whoever has no slip.  It fails
\* on an employee with a regular and a final slip (scalar_one_or_none).
MayGenerateAnyTime(p) == Exists(p)
MayGenerate(p) == Exists(p) /\ periods[p].status # "LOCKED"

Generate(s, p) ==
    /\ MayGenerate(p)
    /\ \A e \in finals[p] : slips[p][e] = NoRow
    /\ Begin(s, [op |-> "generate", pc |-> "slips", period |-> p, seen |-> periods[p],
                 new |-> [e \in Employees |-> IF e \in Configured /\ ~HasSlip(p, e)
                                              THEN FullMonth ELSE NoRow]])

\* The slips of both are inserted together; slip_no is unique.  A calculation
\* that made slips goes on to a second commit.
StaysDraft(h, add) == FALSE
ThenReviewing(h, add) == h.op = "calculate" /\ add # {}

CommitSlips(s) ==
    /\ sess[s].op \in {"calculate", "generate"} /\ sess[s].pc = "slips"
    /\ LET h   == sess[s]
           add == {e \in Employees : h.new[e] # NoRow}
           duplicate == \E e \in add : slips[h.period][e] # NoRow
       IN IF duplicate
          THEN slips' = slips /\ Finish(s)
          ELSE /\ slips' = [slips EXCEPT ![h.period] =
                               [e \in Employees |-> IF e \in add THEN h.new[e] ELSE @[e]]]
               /\ IF ThenReviewing(h, add)
                  THEN sess' = [sess EXCEPT ![s].pc = "status"]
                  ELSE Finish(s)
    /\ UNCHANGED <<periods, attendance, finals>>

\* calculate_payroll: the status as loaded at the start is DRAFT.
CommitReviewing(s) ==
    /\ sess[s].op = "calculate" /\ sess[s].pc = "status"
    /\ LET h == sess[s]
       IN periods' = [periods EXCEPT ![h.period] =
                         Merge(@, h.seen, [h.seen EXCEPT !.status = "REVIEWING"])]
    /\ Finish(s)
    /\ UNCHANGED <<attendance, slips, finals>>
-----------------------------------------------------------------------------
\* generate_final_payroll: the month's period, opened if there is none, and
\* that commit stays whatever follows.
OpenFinal(s, p, e) ==
    /\ sess[s] = Idle
    /\ periods[p].status # "LOCKED"
    /\ e \notin finals[p]
    /\ \E d \in PayDates :
          periods' = IF Exists(p) THEN periods
                     ELSE [periods EXCEPT ![p].status = "REVIEWING", ![p].payDate = d]
    /\ sess' = [sess EXCEPT ![s] = [op |-> "final", period |-> p, employee |-> e]]
    /\ UNCHANGED <<attendance, slips, finals>>

\* A second FINAL- slip of the employee violates the unique slip_no.
CommitFinal(s) ==
    /\ sess[s].op = "final"
    /\ finals' = [finals EXCEPT ![sess[s].period] = @ \cup {sess[s].employee}]
    /\ Finish(s)
    /\ UNCHANGED <<periods, attendance, slips>>

\* The net pay of the final slip is negative: an error, after OpenFinal.
RefuseFinal(s) ==
    /\ sess[s].op = "final"
    /\ LeastDays[sess[s].employee] > 0
    /\ Finish(s)
    /\ UNCHANGED tables

\* The process or the client goes away: what is not committed is rolled back.
Fail(s) ==
    /\ MayFail
    /\ sess[s] # Idle
    /\ Finish(s)
    /\ UNCHANGED tables
-----------------------------------------------------------------------------
\* The endpoints: who may ask, and with what.
SubmitForApproval(s, p) == \E u \in Preparers : Submit(s, p, u)
ApprovePayroll(s, p)    == \E u \in Approvers : Approve(s, p, u)
BulkUpsert(s, p) ==
    \E some \in SUBSET Employees : \E rows \in [some -> Days] : InputAttendance(s, p, rows)
GenerateFinalPayroll(s, p) == \E e \in Configured : OpenFinal(s, p, e)

Handle(s, p) ==
    \/ UpdateConfig(s, p) \/ LockPeriod(s, p)
    \/ SubmitForApproval(s, p) \/ ApprovePayroll(s, p) \/ Reject(s, p)
    \/ BulkUpsert(s, p) \/ Calculate(s, p) \/ Generate(s, p)
    \/ GenerateFinalPayroll(s, p)

Commit(s) ==
    \/ CommitPeriod(s) \/ CommitAttendance(s)
    \/ CommitSlips(s) \/ CommitReviewing(s)
    \/ CommitFinal(s) \/ RefuseFinal(s)

Next ==
    \/ \E p \in Periods : CreatePeriod(p)
    \/ \E s \in Sessions : Commit(s) \/ Fail(s) \/ \E p \in Periods : Handle(s, p)

Spec == Init /\ [][Next]_vars
-----------------------------------------------------------------------------
\* However the handlers interleave, an approved period has a recorded approver.
ApprovalRecorded ==
    \A p \in Periods : periods[p].status = "APPROVED" => periods[p].approvedBy # NoUser

\* A slip of the calculation shows the attendance that is on record for it:
\* attendance is not edited once the period has left DRAFT.
SlipMatchesAttendance ==
    \A p \in Periods, e \in Employees :
        slips[p][e] \in Days => slips[p][e] = attendance[p][e]

\* The calculation is over once it has made its slips: when no handler is at
\* work, a period with calculated slips is not a draft any more ("On success:
\* period status -> REVIEWING", payroll_router.py).
CalculatedLeavesDraft ==
    (\A s \in Sessions : sess[s] = Idle) =>
        \A p \in Periods : (\E e \in Employees : slips[p][e] \in Days)
                              => periods[p].status # "DRAFT"

\* A calculation that is over has left DRAFT, and its slips are those of the
\* attendance on record.
CalculationAgrees == SlipMatchesAttendance /\ CalculatedLeavesDraft

\* A locked period is immutable (PayrollPeriod in models.py).
LockedIsFinal ==
    [][\A p \in Periods : periods[p].status = "LOCKED"
          => /\ periods'[p] = periods[p]
             /\ slips'[p] = slips[p]
             /\ finals'[p] = finals[p]]_vars

\* Employees see the slips of APPROVED and LOCKED periods: none that nobody
\* approved ("approval mandatory before finalization", payroll_router.py).
PublishedWasApproved ==
    \A p \in Periods : periods[p].status \in {"APPROVED", "LOCKED"} =>
        \/ periods[p].approvedBy # NoUser
        \/ \A e \in Employees : ~HasSlip(p, e)

\* A calculated period pays everybody who has a configuration: the calculation
\* "validates attendance completeness" first.
EverybodyPaid ==
    \A p \in Periods : periods[p].status = "PENDING_APPROVAL"
                       /\ (\E e \in Employees : slips[p][e] \in Days)
        => \A e \in Configured : HasSlip(p, e)

\* One period pays an employee once: the prorated final slip replaces the
\* monthly one.
PaidOnce ==
    \A p \in Periods, e \in Employees : ~(slips[p][e] # NoRow /\ e \in finals[p])

\* Nobody approves the payroll they submitted.
SubmitterDoesNotApprove ==
    \A p \in Periods : periods[p].status = "APPROVED"
                       => periods[p].approvedBy # periods[p].submittedBy

\* Without overlapping handlers the period follows the documented workflow.
Workflow == INSTANCE PayrollApproval WITH
    Nobody    <- NoUser,
    status    <- [p \in Periods |-> periods[p].status],
    submitter <- [p \in Periods |-> periods[p].submittedBy],
    approver  <- [p \in Periods |-> periods[p].approvedBy]
ImplementsWorkflow == Workflow!Spec
=============================================================================
