# Verification of the IDEA portal

The IDEA portal is the internal system of a software house: leave, payroll, commissions, projects,
hiring, outsourcing and the approvals that connect them. Its backend (`src/backend/app`) is a FastAPI
application over PostgreSQL, with Redis for token lists and a daily scheduler; the web client
(`src/frontend`) only speaks HTTP to it. This directory holds TLA+ models of the backend,
the configurations that model-check them with TLC, and proofs that TLAPS checks.

Contents

1. How the backend runs, and what that means for a model
2. Inventory of the components
3. The modules
4. What the runs check, their bounds, and what they show
5. What the code does not keep
6. What is proved
7. What is not modelled
8. Plan

To repeat a check: `tlc -config MCLeave_serial.cfg MCLeave`, or `tlapm LeaveProofs.tla`.

## 1. How the backend runs, and what that means for a model

Every HTTP request is served by one coroutine with a database session of its own
(`database.py`, `get_db`). Requests run concurrently: a coroutine gives way at every `await`, and
there may be several server processes. Three facts shape all the models.

* **No row is locked.** Except for the counter of task slugs (`project/service.py`,
  `with_for_update`), a service selects a row, checks its columns in Python, assigns attributes and
  commits. Isolation is PostgreSQL's READ COMMITTED. Two requests may therefore both load a row and
  both pass their checks before either commits. The models split a handler accordingly: a *load*
  step with the checks on what was read, a step for each later read it waits for, and a *commit*.
* **A commit writes columns, not rows.** The session is configured with `autoflush=False` and
  `expire_on_commit=False`: a loaded object is not refreshed, and its commit sends an UPDATE with
  the attributes whose value differs from the loaded one. A second commit overwrites the columns
  it changed and leaves the others. Module `UnitOfWork` states this once (`Merge`).
* **One request may be several transactions.** Services commit in helper functions
  (`get_or_create_balance`, `add_component`, `_recompute_slip_totals`, ...), so an endpoint that
  calls several of them is not atomic. Each commit is a step, and a request may end between two of
  them: an exception, a client that goes away, a restart. The session then rolls back what is not
  committed, and what is committed stays.

A model has a set `Sessions`: the handlers that may be in flight together. In `Leave`,
`PayrollPeriod`, `SalesCommission` and `PayrollSlips` one session makes the handlers run one after
another, and two explore every interleaving of two handlers; which of the two a result is about is
a matter of the run. The other modules build on `Handlers`, where the initial state chooses
(`alone`): a behaviour either runs the handlers one after another or lets two overlap, one run
explores both, and a property that only a sequential program keeps says so (`alone => ...`). The
properties without that premise hold whatever interleaves.

## 2. Inventory of the components

For each component: its state; its operations; whom it meets; what is hard about it; what would
make it correct. Those marked * are modelled, by the modules section 3 names.

### Payroll

* ***Leave** (`payroll/leave_service.py`). State: `leave_requests` (status, dates, day count, two
  approvers), `leave_balances` (allocated and used days by employee, type and year). Operations:
  submit, approve at layer 1 and 2, reject, cancel, open a balance. Meets: organisation (who is
  whose superior), holidays, notifications; attendance asks it for leave days. Hard: the balance is
  checked at submission and deducted at the second approval, a cancellation refunds, and each of
  these reads in one statement and writes in another; overlap is check-then-insert. Correct: the
  used days are those of the approved requests, never more than the allocation; no two live
  requests of an employee on a day; nobody decides on their own request; a decision is final.
* ***Payroll periods, attendance and approval** (`payroll/payroll_service.py`,
  `payroll/attendance_service.py`). State: a period's status, pay date, submitter and approver;
  attendance by period and employee; salary configurations; regular and final slips. Operations:
  create, configure, lock, enter attendance, calculate, generate, final payroll, submit, approve,
  reject. Hard: four operations make slips and know little of each other, each with its own way of
  counting days; calculation commits slips and status separately; every operation decides on the
  period it loaded. Correct: slips show the attendance on record, and the same working days
  whichever operation made them; an approved period has its approver, who is not the submitter; a
  locked period does not change; nobody is paid twice or forgotten.
* ***Slip contents and PPh 21** (`payroll/payroll_service.py`). State: component lines, and the
  stored totals of a slip. Operations: add and delete a component, set the tax of one slip or of
  many, inject a commission, suggest a tax. Hard: the totals are derived data that each change
  computes anew, in a transaction of its own, from what it reads then. Correct: totals are the sums
  of the lines; a tax is refused that takes more than the net pay; a bulk call is all or nothing; a
  higher income leaves more after tax.
* ***Reimbursement and procurement** (`payroll/reimbursement_service.py`). State: requests with two
  approval layers, then transfer, or order and delivery; vendors. Hard: a cancellation beside a
  transfer. Correct: money is transferred and orders go out for approved requests only.
* ***THR, the holiday allowance** (`payroll/thr_service.py`). State: an amount and a payment status
  by employee and year. Hard: months worked across month ends; an overwrite beside a payment.
  Correct: the months are those that have passed; a paid amount stays.

### Sales

* ***Leads and commissions** (`sales/service.py`). State: a lead's stage and owner, commissions and
  the slip each was put on. Operations: create, edit, move a stage; on a win, a commission is made
  and put on the running slip, or left for the next one (`_apply_pending_commissions_to_slip`).
  Meets: payroll, from both sides. Hard: a commission has two ways onto a slip and must take one.
  Correct: one commission per won lead, on one slip, never in a locked period.
* ***Proposals, activities, targets.** A proposal's stored total beside its items' subtotals, each
  rounded by itself. Correct: the total is that of the items up to that rounding; numbers are unique.

### Projects and finance

* ***Projects, tasks, members, comments** (`project/service.py`). State: projects and their status,
  task trees with slugs counted per project. Hard: one slug counter takes a row lock and the other
  does not; what is deleted can be edited by who loaded it before. Correct: slugs are unique; what
  is deleted or closed stays so.
* ***Phases and invoices** (`project/service.py`, `finance/service.py`). State: a phase's status,
  its completion date and invoice trigger, epics, invoices with payments. Hard: completing a phase
  sends its invoices in a second transaction. Correct: the signs of completion agree, finance
  is told of invoices of completed phases, what is paid or cancelled is not sent again.
* ***Change requests** (`project/cr_service.py`). Two approval layers over content that may be edited
  until the first approval. Correct: what was approved is what is on record; numbers are unique.
* ***Documents** (`project/document_service.py`). Versions counted by reading the last one, and an
  object in storage for each. Correct: a version number is given once.

### People

* ***Employees, organisation changes** (`organization/service.py`). State: departments, positions,
  employees and their superiors, the record of moves. Hard: the superior graph is edited one edge at
  a time. Correct: the chart shows everybody; what is recorded of a move is what happened.
* ***Contracts** (`organization/service.py`). Intervals of an employee. Hard: renewal and editing do
  not check the overlap that creation checks. Correct: a contract that starts fits the others.
* ***Hiring and offers** (`hiring/service.py`, `hiring/offer_service.py`). Two state machines, the
  stage of an application and the status of its offer, write one row; a hire fills a slot of the
  opening. Correct: offers that go out were approved by somebody else; the opening is filled when
  its slots are.
* ***Onboarding** (`onboarding/service.py`). Templates and tasks, assignments, task completions.
  Hard: the assignment is completed in a second transaction after the last task. Correct: an
  assignment is completed when its required tasks are done.
* ***Probation and articles** (`onboarding/probation_router.py`, `cms_router.py`). Reviews decided
  once, with an end date they move; articles stored under a slug that must be free.
* ***Separation** (`separation/service.py`). Approval, execution and cancellation; execution switches
  the employee and the login off. Correct: one pending separation per employee; nobody goes without
  the approval of two.
* ***Assessment and letters** (`assessment/service.py`). Monthly scores by a weighted configuration,
  warning letters by level. Correct: letters are suggested after three low months and escalate one
  level at a time; the scores of a closed month stay.
* ***Outsourcing** (`outsource/service.py`). Clients, placements and their amendments, timesheets
  with a stored day count, a report per timesheet, the client's KPI form by link, warning letters,
  complaints. Correct: the count is that of the days; an approved timesheet does not change; a
  rating is given once; an amendment keeps what it replaced; levels come in order.

### Shared services

* ***Database sessions** (`database.py`), see section 1.
* ***Accounts** (`identity/service.py`, `identity/password_reset.py`). Passwords, a lock after five
  failures that ends by itself, reset links. Correct: five failures lock; nobody gets in while
  locked; a reset link works once.
* ***Tokens** (`identity/service.py`, `identity/blacklist.py`, `core/security.py`). Access and refresh tokens, a
  blacklist in Redis, rotation. Correct: a refresh token is exchanged once, as long as the blacklist has
  an entry for it; a pair nobody handed in works; who is deactivated stays out.
* ***Permissions** (`identity/admin_router.py`, `core/deps.py`). Grants of roles, with an audit
  trail. Correct: the trail explains the grants; no change locks the executives out.
* ***Notifications and alert rules** (`notification/`, the scheduler in `main.py`). A daily scan that
  notifies once per dedupe key, which names the rule and the recipient's role. Correct: who is to be
  told is told, and once as long as nothing changes between two scans; one failure loses one.
* **Audit log** (`core/audit.py`). Rows added to a session after the service has committed; where
  the router does not commit again they are rolled back. The rows of the identity routers are modelled.
* **Dashboard, storage, PDF generators, frontend, migrations.** Read-only queries, input and output,
  layout, configuration.

## 3. The modules

```
                Leave -----------> TwoLayerApproval    MCLeave              LeaveProofs
  UnitOfWork <- PayrollPeriod ---> PayrollApproval     MCPayrollPeriod      PayrollPeriodProofs
             <- SalesCommission                        MCSalesCommission    SalesCommissionProofs
             <- PayrollSlips -> Sums                   MCPayrollSlips       PayrollSlipsProofs
             <- Handlers
                  <- Reimbursement, Procurement,
                     ChangeRequest, Separation ---> TwoLayerApproval
                  <- Thr (with Salaries)               MCRequests           RequestsProofs
                  <- Projects, PhaseBilling, Documents,
                     Placements, Timesheets, Proposals MCDelivery  \
                  <- Hiring, Staff, Contracts,                      >       RecordsProofs
                     Onboarding, Probation, Assessments MCPeople   /
                  <- Accounts, Tokens, Permissions,
                     Alerts                            MCAccess             AccessProofs
```

`A <- B` says that B extends A, `--->` that it refines it. The last four MC modules instantiate all
modules of their group; a variable, chosen in the initial state, says which of them a behaviour
exercises (`part`; `branch` in `MCDelivery`, since `RecordsProofs` extends both). Each of the four has
its parameters as constants, and a specification that the theorems are about (`Spec`,
`DeliverySpec`, `PeopleSpec`); the values of a small instance and the bounded specification that the
run checks are at the module's end. `Sums` has, with its two definitions, the lemmas about them that
the proofs share, and some about finite sets and bounds.

### Leave, payroll and sales

**UnitOfWork** has no state. `Merge(now, seen, new)` is the row an UPDATE leaves: the columns in
which `new` differs from `seen` are written over `now`, the others stay.

**TwoLayerApproval** is the abstract two-layer approval of `knowledge.md`, section 2: submitted,
approved by a first and a second person who are neither the requester nor each other, rejected
while pending, withdrawn while pending or approved. **PayrollApproval** is the abstract life of a
period as the model `PayrollPeriod` in `payroll/models.py` documents it. In which statuses a request
opens or may be withdrawn and what follows its approval are parameters of the former (`Opening`,
`Withdrawable`, `After`): they are what distinguishes the five kinds of request that refine it.

**Handlers** is the life of a handler that loads one row, checks it, and commits (`Edit`), or
inserts a row (`Add`), with `Merge` in the commit and `Abort` at any point before. The modules built on
it share a convention: `MayApproveL1` is what the service checks, `ApprovedL1` the row it leaves, and
`ApproveL1` the endpoint; `Step` is a handler's next step, `Commit` its commit. `NoRow` is a row not
yet inserted.

**Leave** has the tables `requests` and `balances` and the handlers `sess`. `Create`,
`ApproveL1`, `ApproveL2`, `Reject` and `Cancel` are the endpoints, each the disjunction of its steps.

| code (`leave_service.py`) | actions |
| --- | --- |
| `get_or_create_balance` from the balance list | `OpenBalance` |
| `create_leave_request` | `CreateLoad`, `CreateCheckBalance`, `CreateCheckOverlap`, `CreateCommit` |
| `approve_l1` | `ApproveL1Load`, `ApproveL1Commit` |
| `approve_l2` | `ApproveL2Load`, `ApproveL2CheckBalance`, `ApproveL2Commit` |
| `reject_request` | `RejectLoad`, `RejectCommit` |
| `cancel_request` | `CancelLoad`, `CancelReadBalance`, `CancelCommit` |
| a session that ends early (`get_db`) | `Abort` |

`used_days += days_count` is computed when the balance is read and written as a number by the
commit, which is why a handler carries `used`. A cancellation writes the balance only if the
refunded number differs from the one it read. Reasons, notes and notifications are left out; the
superiors who may approve are the set `Approvers` (the permission the router asks for), since the
services check the identity of the approver and not the chain.

**PayrollPeriod** has `periods`, `attendance`, `slips`, `finals`. A slip is the paid days it was
computed from, or `FullMonth` for `generate_slips_for_period`, which does not look at attendance.
`LoadPeriod`/`CommitPeriod` serve the operations that change columns of the period
(`UpdateConfig`, `LockPeriod`, `Submit`, `Approve`, `Reject`); `InputAttendance`/`CommitAttendance`
both attendance endpoints; `Calculate`, `CommitSlips`, `CommitReviewing` the calculation with its
two commits; `Generate` shares `CommitSlips`; `OpenFinal`, then `CommitFinal` or `RefuseFinal`, the
final payroll. Unique constraints (`year, month`; `slip_no`; `uq_attendance`) are in the commits: a
duplicate rolls the transaction back. `LeastDays` is the number of paid days below which an
employee's deductions exceed the income, which makes the calculation fail for everybody. `Fail` is
a handler cut off between steps, if `MayFail`. `SubmitForApproval`, `ApprovePayroll`,
`BulkUpsert`, `GenerateFinalPayroll` are named for the endpoints that start these operations.

**SalesCommission** has `leads`, `commissions` (a sequence, in the order of insertion), and the part
of payroll it meets: a period's `status`, who has a slip (`slips`), the commission `lines`.
`CreateLead`; `EditLead`/`CommitLead`; `Transition`, `FindSlip`, `CommitTransition` for a stage
transition with the injection into the running slip; `Generate`/`CommitGenerate` for the slip
generation that collects pending commissions; `DeleteLine`/`CommitDelete` for the deletion of a
component; `MovePeriod`/`CommitPeriod` for the period's life. DRAFT and REVIEWING are `OPEN`,
PENDING_APPROVAL and APPROVED are `SUBMITTED`: the code tests no finer. `mark_commission_paid` is
left out because no endpoint calls it.

**PayrollSlips** has `lines`, `totals`, and the `status` of their period. A handler is a record of
what it will delete and insert and of the totals it was loaded with. `AddComponent`,
`DeleteComponent`, `Inject`, `SetPph21`, `BulkSetPph21` begin one; `CheckTax` checks an item,
`CommitRemoval`, `CommitInsert`, `ReadLines`, `CommitTotals` are the transactions that follow,
`CommitInject` the injection's single one. A bulk call checks all items first and then runs
`set_pph21` for each; the session's identity map keeps the slip object of the last item from the
first pass alive, so that one is checked against the totals loaded then (`held`). `Exclusive` says
that requests about one slip never overlap. A line has a kind and a code, and the endpoint takes any
pair of them: `Entries` are the lines that are entered by hand, `Taxes` the amounts that are set as
taxes. `set_pph21` looks for the code alone. Amounts are in sen, hundredths of a rupiah. The module also
has the progressive tax (`compute_pph21_progressive`, `suggest_pph21_for_slip`) with both of its
roundings, half to even as Python's `quantize` has it: the tax of a year to the sen, and a twelfth of that. The
marginal-rate form (`MarginalTax`) is its reference, before rounding. **Sums**
adds the amounts of a set of rows.

### Requests and what is paid by the calendar (`MCRequests`)

| module | code | state | actions, besides `Create`, `Commit`, `Abort` |
| --- | --- | --- | --- |
| `Reimbursement` | `payroll/reimbursement_service.py` | `reimbs` | `ApproveL1`, `ApproveL2`, `Reject`, `Cancel`, `Transfer` |
| `Procurement` | the same file | `procs`, `vendors` | the same four, `Order`, `Deliver`, `CreateVendor` |
| `ChangeRequest` | `project/cr_service.py` | `crs` | the same four, `Submit`, `Update`, `Delete` |
| `Separation` | `separation/service.py` | `seps`, `staff` | the same four, `Interview`, `Execute` |
| `Thr` | `payroll/thr_service.py` | `thr` | `Generate` (with and without overwriting), `MarkPaid` |
| `Salaries` | `payroll/payroll_service.py`, `attendance_service.py` | `configs`, `today`, `attendance`, `slip`, `leaving` | `UpsertConfig`, `UpdateConfig`, `EnterAttendance`, `Calculate`, `Generate`, `GenerateFinal`, `Pass` |

The first four are the same protocol with their own exceptions. A change request is drafted first,
its content (`cost`, which stands for all of it) may be edited until the first approval, and it may
be deleted in any status; `agreed` is a history column, the cost the first approver
saw. A procurement is cancelled until its delivery, a separation even after a rejection.
`submit_for_approval` of a separation wants a DRAFT, which no endpoint creates, and is left out.
`ExecuteCommit` is one transaction over the separation, the employee and the login. Amounts, texts
and attachments are left out.

In `Thr` a date is a record of year, month and day, months worked are counted in hundredths because
the code rounds them to two decimals, and a row keeps the reference date it was computed for (`ref`,
a history column). `Payable` is the code's condition, that some part of a month was worked; section 5 has
what the docstring says. In `Salaries` amounts are in hundredths with the rounding of Python's `Decimal`. It
computes one slip of one month by the three operations of the code, each a step, since
`PayrollPeriod` has their interleavings; and it justifies the latter's constant `LeastDays`:
`DaysDecide` says that paying fewer days never pays more.

### Projects, finance, outsourcing, proposals (`MCDelivery`)

| module | code | state | actions, besides `Commit`, `Abort` |
| --- | --- | --- | --- |
| `Projects` | `project/service.py` | `projects`, `tasks`, `subtasks`, `comments`, `members` | create, `UpdateProject`, `Activate`, `Close`; create, update and delete a task, a subtask, a comment; `AddMember`, `RemoveMember` |
| `PhaseBilling` | `project/service.py`, `finance/service.py` | `phases`, `epics`, `invoices` | `CreatePhase`, `UpdatePhase`, `DeletePhase`, the same for epics and invoices; `Trigger` |
| `Documents` | `project/document_service.py` | `documents`, `files` | `Register`, `Upload`, `UploadRegister`, `Insert`, `Delete`, `DeleteCommit`, `Cleanup` |
| `Placements` | `outsource/service.py` | `placements`, `amendments`, `complaints`, `spos`, `kpis`, `clients` | `CreateClient`, `CreatePlacement`, `UpdatePlacement`, `DeletePlacement`, `Renew`, `CreateComplaint`, `ResolveComplaint`, `CreateSpo`, `CreateKpi`, `SubmitKpi`, `Expire` |
| `Timesheets` | `outsource/service.py` | `sheets`, `items`, `reports` | `CreateSheet`, `UpsertItem`, `DeleteItem`, `FlushItem`, `ItemCommit`, `Submit`, `Approve`, `Reject`, `GenerateReport`, `RegenerateReport` |
| `Proposals` | `sales/service.py` | `proposals`, `items`, `activities`, `targets` | `CreateProposal`, `Send`, `LogActivity`, `CreateTarget` |

`CreateTask` holds the row lock of the counter (`Locked`) from its read to its commit; nothing else in
the backend takes a lock. `UpdatePhaseCommit` hands over to `Trigger`, the second transaction in which
the phase's invoices are sent to finance; an abort in between is the case that matters. `UpdateProject`
stores fields that the model does not have; it is the commit over what other handlers did that counts. A
document's object is named by the document's name, `_` for its spaces, and the version that was *asked
for*, whatever the folder, and uploaded before the row is inserted: hence the three steps. A name is
therefore a pair, of what the object is named by and of the rest. `Register` takes any object, stored or
not, since `file_url` is what the request says. `Cleanup` is the deletion of the object that follows the
deletion of a row (`soft_delete_document`); an upload whose row is not inserted leaves its object.
`FlushItem` counts the days within the transaction of the edit, where the rows of other transactions are
not seen yet. A placement's end, rate and levels are small numbers, and a rate of 0 is recorded in an
amendment as none (`Recorded`), as the code does; one score stands for the client's five. `Expire` is a
link that grows old. Quantities and prices have two decimals, as in the code.

### People (`MCPeople`)

| module | code | state | actions, besides `Commit`, `Abort` |
| --- | --- | --- | --- |
| `Hiring` | `hiring/service.py`, `offer_service.py` | `openings`, `applications` | create, update, submit, decide, close an opening; create, update, `Transition` an application; `Complete`, `GenerateLetter`, submit, approve, reject, send, `Respond` for the offer |
| `Staff` | `organization/service.py` | `departments`, `positions`, `employees`, `changes` | create and update each; `DeleteEmployee`, `MarkWelcomeSeen`, `Promote`, `Mutate`; `Drawn` is the chart |
| `Contracts` | `organization/service.py` | `contracts`, `employed` | `CreateContract`, `UpdateContract`, `RenewContract`, `TerminateContract`; `Leave` of an employee |
| `Onboarding` | `onboarding/service.py` | `templates`, `tasks`, `assignments`, `completions` | templates and tasks; `CreateAssignment`, `UpdateAssignment`, `UpdateCompletion`, `Check` |
| `Probation` | `onboarding/probation_router.py`, `cms_router.py` | `reviews`, `endDate`, `articles` | `CreateProbation`, `DecideProbation`, `SetEndDate`; articles |
| `Assessments` | `assessment/service.py` | `periods`, `configs`, `scores`, `letters`, `results` | `CreatePeriod`, `ClosePeriod`, `CreateConfig`, `Submit`, `IssueLetter`, `CreateObjective`, `UpdateResult` |

`TransitionCommit` writes the application and the opening's `slots_filled` together. `Check` is the
second transaction of a completion (`CompletionCommit`), which completes the assignment. `Nodes`,
`Roots`, `Children` and `Drawn` are `build_org_chart`: the trees below those without a living
superior, so that a circle of superiors is not drawn. `NextSlug` is the search for a free slug with
its counter. `SetEndDate` stands for the employee form, the one other writer of that column. What a
BLOCKED completion gives as its reason is left out. Weights are in hundredths of a percent and add up to
100 within one of these (`AddUp`); a score is computed from them as `submit_assessment` does
(`Weighted`, `WeightedPart`, `Final`), and a configuration is in effect from a date that is compared with the
first of the month (`FirstOf`).
`Recent` are the sets of rows that may be the three latest: those of a month that is recorded twice
come in any order.

### Access and notifications (`MCAccess`)

| module | code | state | actions |
| --- | --- | --- | --- |
| `Accounts` | `identity/service.py`, `password_reset.py`, `admin_router.py` | `now`, `accounts`, `resets`, `trail` | login in its four outcomes, `ForgotPassword`, `IssueReset`, `ConsumeReset`, `ResetPassword`, `ChangePassword`, `UnlockUser`, `Deactivate`; `Store`, `Audit`, `Answer`, `Cut`; `Tick` |
| `Tokens` | `identity/service.py`, `blacklist.py`, `core/security.py` | `now`, `active`, `revoked` (until when), `logged`, the pairs handed out | `Login`, `Refresh`, `LoadUser`, `RevokeOld`, `AuditPair`, `HandOut`, `Logout`, `Deactivate`, `Tick` |
| `Permissions` | `identity/admin_router.py`, `core/deps.py` | `granted`, `trail` | `Toggle`, `ToggleCommit`, `AuditCommit`, `Cut`; `MayUse`, `ReachesLevel`, `Personas` say who is let in |
| `Alerts` | `notification/alert_rules.py`, `service.py`, `approver_chain.py`, `main.py` | `day`, `setting`, `changed`, `open`, `notes`, `scanned`, `hurt` | `NewDay`, `RunAlertRules`, `Select`, `Notify`, `NotifyFails`, `Conclude`, `Cut`; `MarkRead`, `MarkAllRead`, `RetryFailed`; `Close`, `Change` |

A handler of `Accounts` goes through the stages *store*, *audit*, *answer*: two transactions and the
response, and it may be cut off between any two. `misses`, `entries`, `resetsDone`, `cut` and in
`Tokens` `issued`, `held`, `spent`, `twice`, `repeated` are history variables the properties
are stated with. A token is a user and the second it was issued in, because that is all the code puts
into it. A token is accepted through the second in which it expires; revoking it puts an entry on the
blacklist for the *whole* seconds that are left, and none when there are none. To tell the two apart the
clock has half seconds. A scan of `Alerts` is one session that goes through `Passes`, of which a rule has
one or several (a month, a fortnight and a week ahead): `Select` takes up the next one and the rows it is
about, `Notify` inserts a notice unless its key is there, `NotifyFails` rolls back the session, and
`Conclude` commits the pass. A notice is a user and the dedupe key: thing, day, label and role. What the
rules read, the dates, the supervisors and who holds which permission, is `setting`, one of `Settings`;
`Change` is another handler that edits it, and a pass reads it in one step. `hurt` are the rules of which
rows were lost on the day. `NewDay` with `up = FALSE` is a morning the server was down.

## 4. What the runs check, their bounds, and what they show

States are distinct states found. All runs use `CHECK_DEADLOCK FALSE`: requests, commissions and
component ids run out and a locked period is the end, so the system may stop. Symmetry is used for
interchangeable requests, users, sessions, slips and ids where the properties are invariants or step
properties; the run with a liveness property uses none.

| run | states | properties |
| --- | --- | --- |
| `leave_serial` | 1,247,340 | BalanceMatchesApproved, NoOverlap, ImplementsApproval |
| `leave_races` | 918,490 | TypeOK, NoOverdraw, IndependentApproval |
| `period_serial` | 5,568 | CalculationAgrees, LockedIsFinal, ImplementsWorkflow |
| `period_races` | 1,439,916 | TypeOK, ApprovalRecorded |
| `period_published` | violation | PublishedWasApproved |
| `sales_serial` | 486,866 | WinsPaidOnce, LockedLinesStay |
| `sales_races` | 3,638,548 | TypeOK, NotPendingOnSlip |
| `slips_apart` | 797,973 | TypeOK, TotalsMatchLines, MoreLeavesMore, TaxesBorne |
| `requests` | 402,436 | TypeOK, SpentAfterTwoLayers, ChangesAsApproved, OneApprovedSeparation, AgreesWithCalendar, PaidStays, RequestsAreApprovals |
| `delivery` | 767,514 | DeliveryTypeOK, NumberedOnce, SheetsAddUp, SentWhenDue, SettledStays |
| `people` | 1,213,410 | PeopleTypeOK, HiredInOrder, NothingLost, WarnedInOrder, RecordsHold |
| `access` | 956,517 | TypeOK, AccessHolds, AccessSteps, DueIsTold |

CalculationAgrees is SlipMatchesAttendance and CalculatedLeavesDraft; WinsPaidOnce is
OneCommissionPerWin and PaidOnOneSlip; TaxesBorne is TaxLeavesNet and AllTaxesOrNone. The last four
runs check the properties of several modules under one name; the tables below take them apart.

### Leave, payroll and sales

**leave_serial** runs the leave handlers one after another: one employee who asks, three users who
may approve (the employee's own user among them), a paid type with one day a year and an unpaid
one, two requests, three days of which the second is a holiday and the third lies in the next year.
Two requests are enough for every pair to compete for the one day or to overlap; the days give a
request of no working day (refused), one across the year (charged to the first year), and one that
exceeds the balance. It shows that, sequentially, the used days are exactly those of the approved
requests through any order of approvals, rejections, cancellations and aborted handlers; that no
two live requests share a day; and that leave implements the two-layer approval.

**leave_races** lets two handlers overlap freely, with one paid type of two days a year and two
working days. The balance is never overdrawn, although each approval writes a number it computed
earlier: any two approvals that both passed the check write numbers below the allocation. And
nobody decides on their own leave: requester and approvers are compared again at each layer, and
no handler changes the columns that comparison rests on.

**period_serial** runs the period's handlers one after another: one month, an active employee and
one on probation whose deductions exceed a month without paid days, two pay dates, a preparer, a
GM, and a director who may both submit and approve. Slips show the attendance on record, a finished
calculation leaves DRAFT, a locked period stays as it is, and the period implements
`PayrollApproval`. **period_races** repeats it with two overlapping handlers, each of which may be
cut off: an approved period has an approver on record all the same, since approval is the only
handler that writes the status APPROVED and writes the approver with it.

**sales_serial** has two leads of one user, two months and at most two commissions
(`MaxCommissions`); so a win before, while and after the slips of its month are made occurs, in
both months. A won lead has exactly one commission, a commission is on at most one slip, and the
lines of a locked period do not change. **sales_races**, with one lead and two handlers, shows that
a commission on a slip is never PENDING again. Two overlapping generations, injections and wins
are the cases that matter and one commission shows them.

**slips_apart** has two slips, two handlers that never work on the same slip, four component ids
(`Ids`: two salaries and two more lines at a time), amounts of 5 and 45 million a month and a tax
of 45. The lines entered by hand are a plain income, a plain deduction, an income that carries the
code PPH21 and a tax (`MCEntries`), so that a tax is set where there is none, where there is one,
and where the line of that code is an income. `Jt` is 1: a million shrinks to one sen, which keeps
the brackets and lets both roundings bite at nearly every income. Twelve such months, alone or
with lines added, are taxed in the first, the second, the third or the fourth bracket; a slip
whose income was deleted is below the untaxed 54. Totals are the sums of the lines whenever no
handler is at work on the slip; a stored tax leaves a net pay that is not negative, unless the
line it replaced was an income; a bulk call does all items or none; who earns more keeps no less
after tax, and more from two sen on, since two roundings may take one. A handler may be dropped
before its first commit, not after it (`MayFail = FALSE`): section 5 says what happens otherwise.

### Requests (`MCRequests`)

| property of the run | parts | handlers |
| --- | --- | --- |
| SpentAfterTwoLayers | Reimbursement: PaidAfterTwoLayers; Procurement: OrderedAfterTwoLayers | any |
| ChangesAsApproved | ChangeRequest: ApprovedAsSeen, NumbersUnique | alone |
| OneApprovedSeparation | Separation: OneInProgress | alone |
| | Separation: GoneOnlyByApproval | any |
| AgreesWithCalendar | Thr: AgreesWithCalendar | alone |
| | Salaries: WholeMonthsAgree, NothingOwed, DaysDecide | one step each |
| PaidStays | Thr: PaidStays | alone |
| RequestsAreApprovals | Reimbursement, Procurement, ChangeRequest, Separation implement TwoLayerApproval | alone |

"Any" is whatever interleaves, "alone" handlers that do not overlap; the same in the tables below.
The refinement mappings are trivial where handlers overlap (every request is `NONE`), so
RequestsAreApprovals is a statement about behaviours in which they do not.

Two requests of each kind (one where handlers overlap, which is enough for a transfer, a
cancellation and two approvals to meet on it), three users, two projects, one of them a client's. A
second change request gives the counting of numbers something to count and stays a draft. The
holiday allowance has an employee who joined on the 28th, with references just short of a month, and
one with less than a year. Salaries has a month of five days, three of them working days, that ends
on a day off, two configurations with amounts that round, and overtime that is recorded or not. Of
the 402,436 states 6,802 are of reimbursements, 23,578 procurement, 279,002 change requests, 46,512
separations, 26,844 THR and 19,698 salaries.

### Delivery (`MCDelivery`)

| property of the run | parts | handlers |
| --- | --- | --- |
| NumberedOnce | Projects: TaskSlugsUnique (the row lock); Placements: AmendmentsNumbered (a unique constraint) | any |
| | Projects: SubtaskSlugsUnique; Documents: VersionsUnique; Placements: LevelsInOrder | alone |
| SheetsAddUp | Timesheets: NoDuplicates, CountIsPresent, ReportOfApproved | alone |
| | Proposals: TotalsNear | any |
| SentWhenDue | PhaseBilling: SignsAgree, SentWhenDone, SendingKeepsSettled | alone |
| SettledStays | Projects: DeletedStays | any |
| | Projects: ClosedStaysClosed; Timesheets: ApprovedFrozen; Placements: RatingFinal, AmendmentRecordsOld | alone |

AmendmentRecordsOld speaks of the old rate unless that was 0. Of RatingFinal only one half, that a score
is given once, needs handlers that do not overlap: that the link had not expired when the request came
holds of any.

VersionsUnique holds as long as nobody asks for a version other than v1.0; TotalsNear allows the stored
total to differ from the sum of the subtotals by what rounding each item can move; LevelsInOrder is
about letters dated one after another. One project, two tasks, two subtasks, a comment and a member; two
phases and an invoice of two units, half or wholly paid; three documents (`MaxDocuments`) of one name in
two folders, asking for v1.0 or v1.2, whose uploads share objects; a placement with two amendments and
four letters (`MaxAmendments`, `MaxLetters`: a fourth letter must be refused); two timesheets, two days,
two reports; two proposals with three items whose products round down, up or not at all (`MaxItems`). Of
the 767,514 states 100,461 are of projects, 3,819 phases and invoices, 237,740 documents, 150,412
placements, 115,023 timesheets and 160,059 proposals.

### People (`MCPeople`)

| property of the run | parts |
| --- | --- |
| HiredInOrder | Hiring: OfferApprovedByOther, SlotsDecideStatus |
| NothingLost | Staff: ChartComplete; Probation: SlugAccepted |
| WarnedInOrder | Assessments: ScoreWithin, SuggestedWhenDue, LettersEscalate |
| RecordsHold | Staff: MovesAreTrue; Contracts: NewContractsFit; Onboarding: TickCompletes; Probation: DecidedOnce; Assessments: ClosedScoresStay |

Everything here is checked of handlers that do not overlap; section 7 lists what overlapping ones do to
it. One opening with one or two slots and two applications; three employees, the fewest among whom a
circle of superiors has somebody below it, and one recorded move (`MaxChanges`); two contracts of one
employee over four days (`MaxDay`); two templates, three tasks, two assignments; two probation reviews,
three articles of two titles (a third makes the slug search go past a deleted one); four months, so that
three low ones can be the last three or not, with scores below and above the threshold of 60, five
configurations, one of which has weights that miss 100 by the tolerated hundredth and two of which are
refused, at most three letters; ScoreWithin is about forms that name no item twice, and bounds them by
100.02, which the tolerated weights reach. States: hiring 185,885, staff 194,873, contracts 254,750,
onboarding 313,861, probation 10,105, assessments 253,936.

### Access and notifications (`MCAccess`)

| property of the run | parts | handlers |
| --- | --- | --- |
| AccessHolds | Accounts: LockedAfterFive, ResetOnce; Tokens: ExchangedOnce; Permissions: TrailReplays; Alerts: NotifiedOnce | alone |
| | Accounts: EntriesAudited; Tokens: HeldPairsWork, PairsLogged; Permissions: NoLockOut, PersonaExplicit | any |
| AccessSteps | Accounts: NoEntryWhileLocked; Tokens: DeactivatedStaysOut | alone |
| | Alerts: RowsStay | any |
| DueIsTold | Alerts: DueIsTold (liveness) | alone |

One user with two passwords and one reset link; time is counted in ticks, of some twenty minutes in
Accounts (a lock and a reset link live two of them, `MaxTime` is three) and of half a second in Tokens
(an access token lives one second, a refresh token two, the clock goes on to the second's expiry and half a
second beyond, `MaxHalves`): what matters is which of two limits comes first.
ExchangedOnce is claimed up to the last whole second of a token's life. NotifiedOnce says that no dedupe key is
notified twice, and that a user hears of a thing once a day if nothing the rules read was changed on that day.
PersonaExplicit ties the role a change is put down under to those of the user who made it.
Three roles, of which two are executive, one permission and up to three changes of it (`MaxTrail`).
Four things to be told of by four kinds of rule, three employees in a line of superiors, two settings, of
which the second has the contract end earlier and its employee without a supervisor, the days 0
to 2 (`LastDay`), so that a contract's pass of four days and of two days falls due, and two retries
of a delivery (`MaxRetries`). States: accounts 427,800, tokens 271,186, permissions 79,784, alerts
177,747.

**Liveness.** DueIsTold says that on a day on which a scan was started everybody who is to be told of
something due is told, whatever other rule of that scan failed. It excepts the rules in `hurt`, of which
rows were lost, things closed meanwhile and days on which what the rules read was changed. It assumes
weak fairness of `Alerts!ScanStep`, each session's next step of a scan under way, and nothing else: the
event loop runs a started coroutine to its end. Days are not fair, the server may be down on any
morning, a scan may be cut off (which the property excepts, since the code does not resume it), and days
pass only when no handler is in flight. No other run assumes fairness: the backend promises progress
nowhere else, a pending request waits for a person.

### Bounds and sensitivity

Where a run has several parts, its MC module names its bounds in one definition, `Bounds`, applied
to the initial states and to every step. They say which tables are small while another is looked at:
where handlers overlap, one row of each table is enough to show what they do to each other, and a
second row is there for handlers in sequence; a table that no property relates to another one is
filled while that one is nearly empty. Tables that only grow have a limit of their own: `MaxTrail`,
`MaxChanges` (one recorded move), `MaxConfigs` (two), `MaxLetters`, `MaxAmendments`, `MaxDocuments`,
`MaxActivities` and `MaxItems`. Edits, decisions and deletions of a row are not counted.

Each property of a passing run is known to be sensitive to the code: `PROJECT.json` lists, under
`mutants`, a plausible slip in a modelled definition (a dropped guard, a missing refund, a
forgotten column) for which TLC refutes it.

## 5. What the code does not keep

The run `period_published` refutes a statement made in the repository; `PROJECT.json`, under
`findings`, quotes it. `lock_period` (`payroll_service.py:234`) asks for no status, and employees
see the slips of locked periods (`payroll_router.py:580`, `:674`): generate, lock, and the slips are
out without an approval. One handler at a time suffices.

The modules state further properties that a reader may expect and that the code does not have. Each
can be seen: put the property in the place of the properties of the configuration, and TLC gives a
counterexample.

| property | in | what happens |
| --- | --- | --- |
| FinalIsFinal | `MCLeave_races.cfg` | an approval that loaded a request before a rejection or cancellation commits after it: the request is approved although it was final |
| BalanceMatchesApproved | the same | two approvals at once compute the used days from the same number |
| NoOverlap | the same | two submissions both find no overlap |
| LockedIsFinal | `MCPayrollPeriod_races.cfg` | a generation that loaded the period before the lock inserts its slips after it; an approval in flight even changes the status back |
| SlipMatchesAttendance | the same | attendance is committed after the calculation read it |
| CalculatedLeavesDraft | the same | the calculation is cut off between slips and status; it cannot be repeated, for the slips exist |
| SubmitterDoesNotApprove | the same | a submission overwrites the submitter the approval was checked against |
| EverybodyPaid | `MCPayrollPeriod_serial.cfg` | completeness asks for ACTIVE employees only; one on PROBATION without attendance gets no slip |
| PaidOnce | the same | a final payroll does not look for the regular slip of the month |
| OneCommissionPerWin | `MCSalesCommission_races.cfg` | two transitions of one lead both win it |
| PaidOnOneSlip | the same | the generations for two months both find the same commission pending and both pay it |
| AppliedIsOnSlip | `MCSalesCommission_serial.cfg` | deleting a commission's line leaves the commission APPLIED, on no slip |
| TotalsMatchLines | `MCPayrollSlips_apart.cfg`, `Exclusive = FALSE` | two changes of one slip each read the lines and store the sums; those read first may be stored last |
| TotalsMatchLines | the same, `MayFail = TRUE` | cut off after the old tax line is deleted, a slip keeps totals its lines do not add up to |
| PaidAsOfMonth | `MCRequests.cfg` (PROPERTY) | the salary is the one in force on the day of the calculation (`get_active_config`, `payroll_service.py:87`), not in the month |
| TaxNeverTakesAll | `MCPayrollSlips_apart.cfg` (PROPERTY) | the docstring of `set_pph21` (`payroll_service.py:515`) has the net pay never negative; the check takes the line coded PPH21 for a deduction, and when it is an income (`add_component` takes any kind with any code) replacing it takes the income away |
| FirstMonthPaysNothing | `MCRequests.cfg` | the docstring (`thr_service.py:41`) and the error text (`:121`) have nobody paid before a full month; the code pays a first month in part (`:119` asks for more than zero) |
| LiveHaveFiles | `MCDelivery.cfg` (PROPERTY) | every upload of a name that asks for v1.0 stores the same object, in whichever folder; deleting one version deletes the file of the others |
| TotalIsSum | `MCDelivery.cfg` | the docstring (`sales/service.py:14`) has the total as the sum of the subtotals; each is rounded by itself |
| OverRangeOverridden | `MCPeople.cfg` | the salary of an approved offer may be edited beyond the range |

`Thr` also states FullYearPaysFull, the promise of the docstring at `thr_service.py:39`. An employee
who joined on 31 January 2024 has worked eleven months and a fraction on 1 February 2025, because
the missing days are borrowed from the shorter month.

The modules follow the code in these points too, where a docstring or a sibling operation would let
one expect otherwise; no property is claimed of them.

* **Payroll.** `generate_final_payroll` is documented to prorate BPJS and takes it from the whole
  salary. `PayrollConfigUpdate` has no bounds, and a generation does not refuse a negative net pay.
  `execute_separation` does not wait for the effective date. A win whose owner has both a regular and a
  final slip in the month ends in `MultipleResultsFound` (`sales/service.py:244`). A second line coded
  PPH21 makes every later `set_pph21` of the slip fail in the same way.
* **Delivery.** A renewal is documented to snapshot the current rate (`outsource/service.py:880`); a rate
  of 0 is put down as none (`:898`). A document's object is named without its folder, so that two
  documents may share one. An edited invoice may lose its payment date, and a status in the payload overrides
  the one the amounts imply. A task may belong to an epic of another project. Two items of a
  timesheet on one day, two timesheets of one month and two reports of one timesheet are kept apart
  by a check only, no constraint.
* **People.** A sent offer moves a rejected or withdrawn application back to OFFERING, and an
  accepted one sets HIRED without filling a slot; NEGOTIATING has no exit. Editing a contract may
  clear the end of a fixed term, reactivate it, or extend it over others, and a renewal that starts
  before the old contract ends the old one before its start. Editing an employee moves them without
  a record. Tasks added to a template later belong to no completion, so a running assignment never
  completes by itself, and a task taken back leaves it COMPLETED. An extension may shorten a
  probation. Weights "must be 100" by the error text, and
  may miss it by 0.01 each (`assessment/service.py:199`, `:206`), so that a score may reach 100.02. A letter is
  suggested after three months that are ORANGE or RED, below 60 (`:484`), where the docstring of
  `check_employee_threshold` has "< ORANGE" (`:462`), and the answer the threshold 50 (`:518`).
  Low months count as consecutive across a month without assessment, an item code given
  twice counts twice (and the score passes that), and a back-dated letter repeats or skips a level.
* **Access.** Wrong passwords that overlap count as one. Two overlapping refreshes with one token, and
  two resets with one link, both succeed. Two tokens of one user and one second are equal, so that a
  refresh within the second of the login returns a token that is already revoked; and one cut off after
  the revocation loses the client's session. The docstring (`blacklist.py:30`) has a revocation last for
  the rest of the token's life; it lasts for the whole seconds of it, and in the last one before the
  expiry and in that of the expiry, in which `decode_token` still accepts, there are none (`:42`): there
  a token can be exchanged again, or after a logout. Changing a password revokes no refresh token, and
  `logout` revokes whichever token it is handed. Of 162 calls of `audit_log` 149 do not commit their
  row, which is then rolled back.
* **Notifications.** The dedupe key has the rule's label and the recipient's role in it
  (`alert_rules.py:104`, `:120`), so that who becomes a superior, or whose contract is given another
  end, between two scans of a day is told twice. A day without a scan loses its alerts, since the rules
  compare with the exact day. Overlapping scans write a notice twice, after which a later scan of its
  key raises `MultipleResultsFound`. The last rule (`pre_join`) returns without a commit when nobody
  joins, and with it go rows left in the session by a rule before it that raised.

## 6. What is proved

The theorems hold for every value of the constants that satisfies the named assumptions
(`LeaveAssumption`, `PayrollAssumption`, `SalesAssumption`, `SlipsAssumption`, `Pph21Assumption`,
`RequestsAssumption`, `CalendarAssumption`, `AccountsAssumption`, `TokensAssumption`,
`RightsAssumption`, `AlertsAssumption`, `DeliveryAssumption`, `PeopleAssumption`): any number of
employees, periods, requests and concurrent handlers. The assumptions say what the constants are (a
subset, a function, a natural number, a calendar date, a month with a working day in it; an executive's
role is one of level 1 or 11; a failed delivery may be retried once; the passes of a rule look different
numbers of days ahead; `Sessions` is finite for `Alerts`; a table is finite where its rows are counted;
quantities and prices are not negative; weights and scores are percentages; an opening asks for one
person at least); none restricts an interleaving. A theorem that does says so in its statement: those
named `Serial...` assume `OneAtATime` (any two sessions are equal), those named `Apart...` assume
`Exclusive` and not `MayFail`. In `MCRequests`, `MCDelivery` and `MCAccess` the initial state chooses,
and the properties have the premise `alone` where they need it; `MCPeople` has `alone` in its initial
states.

| module | theorem | for |
| --- | --- | --- |
| `LeaveProofs` | `TypeCorrect`, `NeverOverdrawn`, `ApprovedByOthers` | TypeOK, NoOverdraw, IndependentApproval |
| | `SerialBalance`, `SerialNoOverlap`, `SerialApproval` | BalanceMatchesApproved, NoOverlap, ImplementsApproval |
| `PayrollPeriodProofs` | `TypeCorrect`, `ApproverOnRecord` | TypeOK, ApprovalRecorded |
| | `SerialWorkflow`, `SerialLocked` | ImplementsWorkflow, LockedIsFinal |
| | `SerialCalculation` | CalculationAgrees, if besides no handler is cut off |
| `SalesCommissionProofs` | `TypeCorrect`, `NotOfferedAgain` | TypeOK, NotPendingOnSlip |
| | `SerialWinsPaidOnce`, `SerialLockedLines` | WinsPaidOnce, LockedLinesStay |
| `PayrollSlipsProofs` | `TypeCorrect`, `EarningMorePays` | TypeOK, MoreLeavesMore |
| | `ApartTotalsMatch`, `ApartTaxesBorne` | TotalsMatchLines, TaxesBorne |
| | `BracketsAreMarginal`, `NoCliff`, `SuggestionTakesAPart` | the tax is the marginal one, has no step at a cap |
| `RequestsProofs` | `RequestsType`, `RequestsSpend`, `RequestsSeparate` | TypeOK, SpentAfterTwoLayers, OneApprovedSeparation |
| | `RequestsChange`, `RequestsPaid`, `RequestsApprove` | ChangesAsApproved, PaidStays, RequestsAreApprovals |
| | `SalariesAreBorne` | NothingOwed and DaysDecide, of AgreesWithCalendar |
| `AccessProofs` | `AccessType`, `AccessKept`, `AccessStepsKept` | TypeOK, AccessHolds, AccessSteps |
| `RecordsProofs` | `DeliveryTyped`, `NumberedOnceHolds` | DeliveryTypeOK, NumberedOnce |
| | `SheetsAddUpHolds`, `SentWhenDueHolds` | SheetsAddUp, SentWhenDue |
| | `SettledStaysHolds` | SettledStays |
| | `PeopleTyped`, `HiredInOrderHolds` | PeopleTypeOK, HiredInOrder |
| | `NothingLostHolds`, `WarnedInOrderHolds` | NothingLost, WarnedInOrder |
| | `RecordsHoldTrue` | RecordsHold |

`Sums` has the lemmas on sums over finite sets of rows that these rest on (`SumOnType`, `SumWithout`,
`SumWithRow`, `SumOfSame`, `SumOfWithRow`, `SumScaled`, `ShareUpTo`, `Divided`).

**Leave.** The properties are not inductive: what a handler commits was checked some steps ago,
against tables that have changed. `IInv` adds `Sound` for each session: what may still be relied on.
For a second approval at its commit that is: the number it will write is at most the allocation, the
first approver is on record, and the user is not the requester. It stays true because no step changes
a request's employee, type or first day, takes a first approver off the record, drops a balance or
changes an allocation (`Steady`); lemma `StaysSound` says so once, and the lemmas per handler use it.
`used` of a refund is `Max({0, ...})`, so a number never goes negative even when two cancellations
refund the same days.

Of handlers in sequence `SerialInv` says more: what a handler has loaded is what the table has, and
the number it will write is the sum it has to be (`Current`). A balance is then a sum over the
approved requests that are charged to it, of which a step adds or takes away one: `SameCharges`
says which steps leave the sum alone, `SumWithRow` what one request does to it. `NoOverlap` is kept
because a request that becomes live was compared with all others, and the other steps only end requests.

**Payroll periods.** `IInv` is TypeOK, ApprovalRecorded and, for each session that holds a
period, that what it will write is one of the `Moves` of what it loaded. The subtle case
is `Merge`: an approval writes its columns over a row that may have changed meanwhile, and writes
the approver only if it differs from the one it loaded. `Sound` adds what is needed then: an
approver a handler has seen on record is never taken off it. For handlers in sequence `SerialInv` adds
`Fresh`: what a handler has loaded is what the table has, so the merge is the new row, each commit is one
step of `PayrollApproval`, and a handler that found the period unlocked commits before it is locked.
`SerialCalculation` needs a second invariant, `AgreeInv`: the slips a calculation will insert are
those of the attendance on record (`Planned`), and a period in DRAFT has slips only while the
calculation that made them is at its second commit (`Drafts`).

**Commissions.** `IInv` adds that the lead of a handler exists and that a transition has found a slip
only if it has a commission to put there. A line is added only together with the status APPLIED, and no
step makes a commission PENDING again; the sequence of commissions only grows (`Kept`).
`WinsPaidOnce` needs in addition that a commission is on a slip only if it was applied
to it (`OnItsSlip`), that each win has its commission already (`EachWin`), and that the pending
commissions a generation has collected still are the pending ones (`Current`).

**Slips.** `ApartTotalsMatch` rests on `Apart`: the slips two sessions have
touched are disjoint, and `Working` says what each handler's position means for the slip it is on:
before its first commit the stored totals are the sums; when the sums have been read, they are those
of the lines; and the loaded totals are the stored ones, so that the merge writes all that changed.
`ApartTaxesBorne` carries the check to the commits that follow it: `TaxFits` says that the net pay
without the old tax bears the new one, of the slip at hand, if the line it replaces is a deduction (an
income coded PPH21 is the exception that the property names); `Ahead` says it of the items of a bulk
call that are still to come, whose slips nobody else touches. The sums
need finite-set reasoning: `Sums` derives how a sum changes when a row is added or taken
away from the fold that defines it, by minimal counterexamples, because the
library's induction theorems take an operator as a parameter, which the installed provers cannot
instantiate.

**Tax.** `BracketsAreMarginal` equates the bracket loop with the marginal rates for every income,
unit and untaxed amount; `NoCliff` bounds the difference of the taxes of two incomes by 35 percent
of the difference. The rounding of the year's tax adds at most one sen to such a difference, a twelfth of
one to that of the months, and the rounding of the twelfth one more (`SuggestionTakesAPart`). Hence
`EarningMorePays`: of a difference of one sen the tax may take all, of a larger one it takes less.

**Requests.** The argument is the same for the six parts, and the lemmas are named alike (`Reimb`,
`Proc`, `Sep`, `Cr`, `Thr`). A part's invariant has three conjuncts:
its rows are of their type and sound (`ReimbSound`: a request past its second layer has two approvers
on record, who are neither each other nor the requester); each handler's planned row is one
of the moves the service makes from the row it loaded (`ReimbMove`), and what it loaded can only have
become later since (`ReimbLater`); and, if handlers do not overlap, what it loaded is what the table
has (`InTurn`). The `Merge` lemma is the core of each part: the row a commit leaves is
sound although columns of two handlers mix in it. For instance a transfer that was loaded before
a cancellation and committed after it leaves a row that is neither handler's, but one with two approvers.
The `Shown` lemmas map each move to a step of `TwoLayerApproval`, which is where the
exceptions of the four kinds of request have to be accounted for. Change requests count their numbers
by the rows of a project: `CrNumbered` says that the numbers given are those from 1 to that count, so the
next one is new. `Inv` puts the parts side by side, and `Steps` has one step per part.

**Salaries.** A part of a salary is a quotient rounded half to even. `NearestMonotone` shows that
rounding of this kind is monotone for every divisor, ties included, and `NearestExact` that it is exact
where the division is; a product of unknowns is beyond the SMT solver, so these lemmas work with the
quotient and remainder (`DivMod`, `DivModUnique`). NothingOwed and DaysDecide follow.

**Access.** Each of the four parts has an invariant of its own (`LockInv`, `PairsInv`, `RightsInv`,
`ToldInv`); what they have in common is `InTurn` (alone, at most one handler is at work) and `Turns`
(what a step of a handler may change).

* *Accounts.* `Settled` ties a row to the wrong passwords given since its count started anew: unlocked,
  the column is that number and below five; locked and not yet over, they are at least five; over, none. It
  holds of everybody except the user whose login is `Midway`, between the commit that resets the column and the
  answer. `Holds` says it of the row a handler has planned. `AccountWork` says that a login about to answer
  is in the audit log, which holds whatever overlaps: an answer follows its audit row. A reset
  handler that has consumed its token and not stored the password has `Used` and a count of zero.
* *Tokens.* A token that is held has no entry on the blacklist unless another of the same user and second
  was handed out too (`Listed`). Alone, a token that was exchanged is `Gone`: its entry lasts into the second
  before its expiry, or its life has come that far already. A handler that holds one that was exchanged
  before is therefore `Lapsing`, which is what ExchangedOnce says of it. `PairFacts` also has it that the
  token of a handler has not expired, as time passes between handlers only.
* *Permissions.* No step takes a permission of an executive's role away, so a user with such a role may
  use every code. `TrailReplays` says what the log says by the last row about a permission (`TrailGrants`);
  while a handler is between its two commits the log lags behind by the row it will add (`Telling`).
* *Alerts.* A notice is a user and a key, so that whoever is told twice is told under two of them. That
  on a day without a change there is one for a user and a thing is a matter of the rules: a date falls
  in one pass at most, as the passes look different numbers of days ahead, and who is told as a superior
  is left out of those told for a permission. A notice has as many rows as are stored plus as many as
  scans hold, which is at most the number of handlers: a scan adds one only if it finds neither
  (`NoneFound`), and a commit turns one that is held into one that is stored. Alone, the first is empty
  while the second is not, hence NotifiedOnce.

**Records.** `RecordsProofs` is about `DeliverySpec` and `PeopleSpec`. The twelve parts are proved one
by one and then put side by side (`DeliveryInv`, `PeopleInv`), and the lemmas of a part are named alike:
`Rows` is what its tables hold, a property of the run together with what it rests on; `Held` lists the
handlers a session may be at work with, each with what it has seen and what it will write, and says for
handlers in sequence that what was seen still is what the table has; `Inv` is both; `Keeps` is what a
step may not do, the body of an action property; `Starts`, `Step` and `Quiet` are the initial states, a
step of the part, and a step of another part. The argument is routine where a handler writes what it has
just read. These are the places where it is not:

* *Task slugs and amendments*, whatever interleaves. The number a handler of `CreateTask` has taken is
  the counter it holds locked (`LockedOnce`: one handler of a project at a time), and no task has a
  higher one. An amendment's number is one more than those counted when it was read; `NumbersGiven` says
  that none up to the count is missing, so that a number that is free when it is inserted is the next one.
* *Subtasks, versions, letters*, in sequence: numbers up to the count of the rows have been given and no
  others (`SubtasksNumbered`). Levels of letters rise with their dates, since a new letter is compared
  with the latest one.
* *Timesheets.* The number stored is the cardinality of the days present; between the flush of an item
  and its commit, `Counted` says it of the rows as they will be.
* *Totals of proposals.* A total is the sum of the products rounded once, half to even; the subtotals
  are rounded one by one. In hundredths of a hundredth, `Priced` bounds the difference of the two sums:
  a rounded item moves it by at most 50, an exact one not at all, so that for k rounded items, and
  the rounding of the total, it is a whole number of hundredths that is at most k / 2.
* *The chart.* It is found level by level. A level either adds an employee, or the set is closed under
  those led by its members; a set of n employees cannot grow more than n times, so what is drawn is
  closed. Who is missing is then not a root, has a superior among the nodes, and that superior is
  missing too: a member of a circle or below one. Nobody is their own superior, by `StaffRows`.
* *Slugs.* If the search ran out of numbers, each of them would belong to an article, and there
  are more numbers than articles: the pigeonhole principle. So it ends, at a number that is free.
* *Hiring.* Two state machines write one row: `OfferFits` ties the offer's status to the people
  recorded, whatever the stage, and `OpeningFits` ties an opening's status to its slots, closed and
  reopened in between. A transition writes both rows in one transaction, so its handler holds
  both new rows together (`MovesApplication`).
* *Contracts.* A new contract was compared with the active ones of its employee; a renewal ends the old one
  before the new one starts (`RenewsTerm`);
  the employee's other contracts it does not look at, and nothing is claimed of them.
* *Scores.* `DifferentItems` bounds a form by a hundred times the sum of the weights of the items it
  names, as a sum over an injective image is one over a subset; weights that add up to 100.01 each bound the
  score by 100.02.
* *Letters.* For three months running that are the latest assessed, the rows of those months are the
  recent rows, and no other set of three rows is (one period per month and one score per period,
  by `GradeRows`). `InLevels` says that letters whose dates rise have the levels from one upwards, so
  the latest has as its level the number of letters.

What stays with TLC:

* **AgreesWithCalendar** but for the two parts above. The months of `Thr` are found by a bounded count
  that the model and the reference both perform. WholeMonthsAgree says that two operations agree
  exactly if a month is worked in full: its "only if" holds for salaries that are large enough for
  rounding not to restore the whole amount, which a theorem would have to assume.
* **DueIsTold**, for good: liveness under fairness and ENABLED are out of the prover's reach. So are
  what a recursive definition computes for every input (induction over data) and any module that
  declares a RECURSIVE operator; the modules here use recursive functions and folds.

## 7. What is not modelled

* **Within the modelled components**: listings and other reads; validation of field formats by
  Pydantic; texts, attachments, PDFs and notifications; rupiah amounts, except where a property is
  about them; roles beyond the permission an endpoint asks for. In `PayrollPeriod` BPJS and absence
  deductions enter as `LeastDays` only; `Salaries` computes them. `carried_over_days` is 0 in every
  row the code writes. `mark_commission_paid` is left out because no endpoint calls it. Holidays and
  the employees' data are constants where they are read only.
* **Payslip components** are modelled in part: the PDF of a slip and the CSV exports are left out.
  **The audit log** in part as well: its rows are modelled where a router commits them, which the
  identity routers do. Elsewhere a row is added after the service's commit and rolled back.
* **Dashboard** (read-only queries), **object storage and PDF generators** (input and output; of
  storage `Documents` has what is stored under which name), the **web frontend** (what reaches the
  server is any request at any time) and **migrations and deployment** (configuration, generated
  code; the unique constraints they create are in the models) have no state worth a model.
* **Overlapping handlers of people's records** are not explored (`MCPeople`): the services there read,
  check and write without a lock or a constraint, and most of what the run claims is false once two
  overlap on a row.

`PROJECT.json` lists under `hazards` what is hard to test in this code and which properties watch
it. Where it lists none, the model has the hazard and TLC refutes what one would expect, so that the property is
claimed under a premise only (handlers that do not overlap, none cut off); the note says which. The
following are further hazards of that kind, for which a weaker claim is all that is left, or none
(paths under `src/backend/app`):

| line | hazard | why no property |
| --- | --- | --- |
| `identity/service.py:101` | two refreshes with one token both pass the blacklist before either revokes it | the model has it; ExchangedOnce is claimed of handlers that follow one another |
| `payroll/leave_service.py:390` | an approval commits the status of a request that was rejected or cancelled after it was loaded | FinalIsFinal in `MCLeave_races.cfg` shows it going wrong (section 5); the invariants of that run hold beside it |
| `payroll/payroll_service.py:1305` | an employee the calculation cannot pay is reported in a list of a call that succeeds | PayrollPeriod states EverybodyPaid; TLC refutes it with the probationer that the completeness check leaves out |
| `payroll/payroll_service.py:764` | the regular and the final slip of one month are made by different operations that do not know of each other | PayrollPeriod states PaidOnce; TLC refutes it with a leaver whose regular slip exists |
| `payroll/payroll_service.py:505` | the line of a commission is deleted and the commission is not put back | SalesCommission states AppliedIsOnSlip; TLC refutes it in one deletion |
| `payroll/payroll_service.py:545` | the old tax line is deleted, the new one inserted and the totals stored in three transactions; cut off in between, the slip is left without tax or with stale totals | the model has the cut-off as the action Fail |
| `payroll/payroll_service.py:535` | the net pay is checked against totals loaded before the lines were changed | the model has it; TaxesBorne is claimed of handlers at work on different slips |
| `payroll/payroll_service.py:528` | add_component can insert a second line with the code PPH21, after which set_pph21 fails on the slip for good | the model has it (OneTax): no property can hold |
| `separation/service.py:336` | a cancellation commits over an execution: the separation is cancelled and the employee is gone with the login | the model has it; GoneOnlyByApproval asks who approved, not what became of the request |
| `project/service.py:447` | two subtasks created together get the same count plus one: the task slug beside it is locked, this one is not | SubtaskSlugsUnique claims it of handlers that follow one another; it is false of two that overlap |
| `outsource/service.py:463` | two reports of one timesheet are refused only by their equal number, which another report in between makes different | ReportOfApproved claims it of handlers that follow one another |
| `hiring/service.py:346` | slots_filled is incremented from the value loaded, so two hires counted at once count as one and the opening stays open | SlotsDecideStatus compares with the column; that the column is the number hired is false of two hires at once |
| `hiring/offer_service.py:254` | an approved offer that is sent moves a rejected or withdrawn application back to OFFERING | the stage flow is claimed of transition_stage only |
| `hiring/offer_service.py:297` | an accepted offer sets the stage HIRED without filling the slot, where the stage transition fills it | the number hired is not claimed to be slots_filled: it is not |
| `onboarding/service.py:368` | a completion is committed before the assignment is completed, in a second transaction that may never come | TickCompletes claims that what is completed is done, not the converse |
| `organization/service.py:411` | only the employee itself is refused as supervisor, so two edits close a circle, whose members the organisation chart never reaches | ChartComplete names exactly the circles as what may be missing |
| `organization/service.py:842` | an edited end date and a renewal are not checked against the employee's other contracts, where creation is | NewContractsFit claims the intervals of contracts that are created |
| `assessment/service.py:570` | two letters issued together, or one dated before the last, are checked against the same last letter | LettersEscalate claims the order of handlers that follow one another and of dates that increase |

## 8. Plan

The models cover the components that keep state, and every invariant and step property that a run
checks is the subject of a theorem, but for those listed at the end of section 6. What is left:

* the parts of AgreesWithCalendar that are only model-checked: the months of `Thr`, by a closed form
  for the count, and the "only if" of WholeMonthsAgree for salaries above a bound;
* what remains of the claims about people's records when handlers overlap: which columns two of them may
  lose, part by part (`MCPeople` has `alone` in its initial states for the reason of section 7);
* a composition of `PayrollPeriod`, `SalesCommission` and `PayrollSlips`, which are
  separate views of one slip today (the period is abstracted to three or four statuses in the other
  two), by a refinement of that abstraction by `PayrollPeriod`.
