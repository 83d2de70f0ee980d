---------------------------- MODULE PhaseBilling ----------------------------
(***************************************************************************)
(* The phases and epics of a project, after project/service.py and         *)
(* project/router.py, and the invoices that the completion of a phase      *)
(* sends, after finance/service.py and finance/router.py (backend/app).    *)
(* A phase is completed in one transaction, its invoices are sent in the   *)
(* next: nothing repeats the second when the first is all that happened.   *)
(***************************************************************************)
EXTENDS Handlers, Integers

CONSTANTS
    Phases, Epics, Invoices,   \* the primary keys the tables may hand out
    Totals, Amounts,           \* values of total_amount and of paid_amount
    PhaseInputs, InvoiceInputs \* the statuses that requests ask for

VARIABLES phases, epics, invoices   \* tables project_phases, project_epics, invoices

billingTables == <<phases, epics, invoices>>
billingVars   == <<billingTables, alone, sess>>

PhaseStatuses   == {"PLANNED", "IN_PROGRESS", "COMPLETED", "CANCELLED"}
InvoiceStatuses == {"PENDING", "SENT", "PARTIAL", "PAID", "OVERDUE", "CANCELLED"}
Progress == {0, 100}
\* done stands for completed_at IS NOT NULL, live for deleted_at IS NULL.
PhaseRow == [status: PhaseStatuses, progress: Progress, done: BOOLEAN, live: BOOLEAN]
EpicRow  == [phase: Phases, live: BOOLEAN]
\* notified stands for notified_finance_at IS NOT NULL.
InvoiceRow == [phase: Phases, status: InvoiceStatuses, total: Totals, paid: Int,
               notified: BOOLEAN, live: BOOLEAN]
NoRow == [live |-> FALSE]

TypeOK ==
    /\ phases   \in [Phases -> PhaseRow \cup {NoRow}]
    /\ epics    \in [Epics -> EpicRow \cup {NoRow}]
    /\ invoices \in [Invoices -> InvoiceRow \cup {NoRow}]
Init ==
    /\ phases = [f \in Phases |-> NoRow] /\ epics = [e \in Epics |-> NoRow]
    /\ invoices = [i \in Invoices |-> NoRow] /\ AllIdle
-----------------------------------------------------------------------------
\* create_phase, delete_phase
NewPhase == [status |-> "PLANNED", progress |-> 0, done |-> FALSE, live |-> TRUE]
CreatePhase(s) == Add(s, "phases", NewPhase)
DeletePhase(s, f) ==
    phases[f].live /\ Edit(s, "phases", f, phases[f], [phases[f] EXCEPT !.live = FALSE])

\* update_phase: a phase with any sign of completion gets them all, also when
\* the payload wanted to take one of them back.
CompleteUndated(f) == f.progress = 100 \/ f.status = "COMPLETED"
Complete(f) == f.progress = 100 \/ f.status = "COMPLETED" \/ f.done
UpdatedDone(f) == IF Complete(f) THEN [f EXCEPT !.done = TRUE, !.status = "DONE"] ELSE f
Updated(f) == IF Complete(f) THEN [f EXCEPT !.done = TRUE, !.status = "COMPLETED"] ELSE f
UpdatePhase(s, f, payload) ==
    /\ phases[f].live
    /\ LET set == [c \in DOMAIN phases[f] |-> IF c \in DOMAIN payload THEN payload[c] ELSE phases[f][c]]
       IN Begin(s, [op |-> "phase", key |-> f, seen |-> phases[f], new |-> Updated(set), complete |-> Complete(set)])
\* What a payload may set of status, progress_pct and completed_at.
PhasePayloads ==
    [status: PhaseInputs] \cup [progress: Progress] \cup [done: BOOLEAN]
    \cup [status: PhaseInputs, progress: Progress, done: BOOLEAN]
\* The first commit; the handler of a complete phase goes on to its invoices.
UpdatePhaseCommit(s) ==
    /\ sess[s].op = "phase"
    /\ phases' = Edited(s, phases)
    /\ IF sess[s].complete THEN Go(s, [op |-> "completed", key |-> sess[s].key]) ELSE Finish(s)
    /\ UNCHANGED <<epics, invoices>>

\* create_epic, update_epic and delete_epic: of an epic only its life is kept.
CreateEpic(s, f) == phases[f].live /\ Add(s, "epics", [phase |-> f, live |-> TRUE])
DeleteEpic(s, e) == epics[e].live /\ Edit(s, "epics", e, epics[e], [epics[e] EXCEPT !.live = FALSE])
UpdateEpic(s, e) == epics[e].live /\ Edit(s, "epics", e, epics[e], epics[e])
-----------------------------------------------------------------------------
\* create_invoice
NewInvoice(f, total) ==
    [phase |-> f, status |-> "PENDING", total |-> total, paid |-> 0, notified |-> FALSE, live |-> TRUE]
CreateInvoice(s, f, total) == phases[f] # NoRow /\ Add(s, "invoices", NewInvoice(f, total))

\* update_invoice: first the amount, which may be negative, and the status it
\* implies if it is positive; then the status of the payload, whatever it says.
MayPay(i, payload) == "paid" \in DOMAIN payload => payload.paid <= i.total
Paid(i, paid) ==
    [i EXCEPT !.paid = paid, !.status = IF paid = i.total THEN "PAID" ELSE IF paid > 0 THEN "PARTIAL" ELSE @]
Repaid(i, payload) ==
    LET p == IF "paid" \in DOMAIN payload THEN Paid(i, payload.paid) ELSE i
    IN IF "status" \in DOMAIN payload THEN [p EXCEPT !.status = payload.status] ELSE p
InvoicePayloads == [paid: Amounts] \cup [status: InvoiceInputs] \cup [paid: Amounts, status: InvoiceInputs]
UpdateInvoice(s, i, payload) ==
    /\ invoices[i].live /\ MayPay(invoices[i], payload)
    /\ Edit(s, "invoices", i, invoices[i], Repaid(invoices[i], payload))
DeleteInvoice(s, i) ==
    invoices[i].live /\ Edit(s, "invoices", i, invoices[i], [invoices[i] EXCEPT !.live = FALSE])

\* trigger_invoices_on_phase_complete: loads what waits for the phase, then one commit.
WaitingAll(f) == {i \in Invoices : invoices[i].live /\ ~invoices[i].notified}
Waiting(f) == {i \in Invoices : invoices[i].live /\ invoices[i].phase = f /\ ~invoices[i].notified}
SentAny(i) == [i EXCEPT !.notified = TRUE, !.status = "SENT"]
Sent(i) == [i EXCEPT !.notified = TRUE, !.status = IF @ = "PENDING" THEN "SENT" ELSE @]
Trigger(s) ==
    /\ sess[s].op = "completed"
    /\ LET w == Waiting(sess[s].key) IN
       IF w = {} THEN Finish(s)
       ELSE Go(s, [op |-> "send", seen |-> [i \in w |-> invoices[i]], new |-> [i \in w |-> Sent(invoices[i])]])
    /\ UNCHANGED billingTables
TriggerCommit(s) ==
    /\ sess[s].op = "send"
    /\ invoices' = [i \in Invoices |-> IF i \in DOMAIN sess[s].seen
                                       THEN Merge(invoices[i], sess[s].seen[i], sess[s].new[i]) ELSE invoices[i]]
    /\ UNCHANGED <<phases, epics>> /\ Finish(s)
-----------------------------------------------------------------------------
Commit(s) ==
    /\ \/ /\ \/ Editing(s, "phases") /\ phases' = Edited(s, phases)
             \/ \E f \in Phases : Adding(s, "phases") /\ phases[f] = NoRow /\ phases' = [phases EXCEPT ![f] = sess[s].new]
          /\ UNCHANGED <<epics, invoices>>
       \/ /\ \/ Editing(s, "epics") /\ epics' = Edited(s, epics)
             \/ \E e \in Epics : Adding(s, "epics") /\ epics[e] = NoRow /\ epics' = [epics EXCEPT ![e] = sess[s].new]
          /\ UNCHANGED <<phases, invoices>>
       \/ /\ \/ Editing(s, "invoices") /\ invoices' = Edited(s, invoices)
             \/ \E i \in Invoices : Adding(s, "invoices") /\ invoices[i] = NoRow /\ invoices' = [invoices EXCEPT ![i] = sess[s].new]
          /\ UNCHANGED <<phases, epics>>
    /\ Finish(s)

Request(s) ==
    \/ CreatePhase(s)
    \/ \E f \in Phases :
          \/ DeletePhase(s, f) \/ CreateEpic(s, f)
          \/ \E payload \in PhasePayloads : UpdatePhase(s, f, payload)
          \/ \E total \in Totals : CreateInvoice(s, f, total)
    \/ \E e \in Epics : UpdateEpic(s, e) \/ DeleteEpic(s, e)
    \/ \E i \in Invoices :
          \/ \E payload \in InvoicePayloads : UpdateInvoice(s, i, payload)
          \/ DeleteInvoice(s, i)

Step(s) ==
    \/ (Request(s) \/ Abort(s)) /\ UNCHANGED billingTables
    \/ Commit(s) \/ UpdatePhaseCommit(s) \/ Trigger(s) \/ TriggerCommit(s)
Next == \E s \in Sessions : Step(s)
Spec == Init /\ [][Next]_billingVars
-----------------------------------------------------------------------------
\* The three signs of completion agree, whatever edits follow one another: a
\* phase is COMPLETED when its date is set, and one at 100 percent is.
SignsAgree ==
    alone => \A f \in Phases : phases[f] # NoRow =>
        /\ phases[f].done <=> phases[f].status = "COMPLETED"
        /\ phases[f].progress = 100 => phases[f].done

\* Finance is told of an invoice at a moment when its own phase is complete
\* (handlers that do not overlap; another could reopen the phase in between).
SentWhenDone ==
    [][\A i \in Invoices : alone /\ invoices[i] # NoRow /\ ~invoices[i].notified /\ invoices'[i].notified
          => phases[invoices[i].phase].done]_billingVars

\* Sending the invoices of a phase leaves alone what has been paid or cancelled.
SendingKeepsSettled ==
    [][\A s \in Sessions, i \in Invoices : alone /\ sess[s].op = "send" /\ invoices[i] # NoRow
             /\ invoices[i].status \notin {"PENDING", "SENT"}
          => invoices'[i].status = invoices[i].status]_billingVars
=============================================================================
