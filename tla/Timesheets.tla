------------------------------ MODULE Timesheets ------------------------------
(***************************************************************************)
(* Timesheets of placements, their days and the report (berita acara) made *)
(* of one, after backend/app/outsource/service.py and outsource/router.py. *)
(* The number of days present is counted again after every edit, in the    *)
(* transaction of the edit, where the uncommitted days of others are not.  *)
(***************************************************************************)
EXTENDS Handlers, Integers, FiniteSets

CONSTANTS
    Sheets, Items, Reports,   \* the primary keys the tables may hand out
    Placements, Periods, Days

VARIABLES sheets, items, reports   \* tables timesheets, timesheet_items, berita_acara

sheetTables == <<sheets, items, reports>>
sheetVars   == <<sheetTables, alone, sess>>

SheetRow  == [placement: Placements, period: Periods, count: Nat,
              status: {"DRAFT", "SUBMITTED", "APPROVED", "REJECTED"}]
ItemRow   == [of: Sheets, day: Days, present: BOOLEAN]
ReportRow == [of: Sheets, no: Nat]
NoRow == [status |-> "NONE", of |-> "none"]

TypeOK ==
    /\ sheets  \in [Sheets -> SheetRow \cup {NoRow}]
    /\ items   \in [Items -> ItemRow \cup {NoRow}]
    /\ reports \in [Reports -> ReportRow \cup {NoRow}]
Init ==
    /\ sheets = [t \in Sheets |-> NoRow] /\ items = [i \in Items |-> NoRow]
    /\ reports = [r \in Reports |-> NoRow] /\ AllIdle
-----------------------------------------------------------------------------
\* create_timesheet: one for a placement and a month; no constraint says so.
NoSheetYetDraft(p, m) == {t \in Sheets : sheets[t].status = "DRAFT" /\ sheets[t].placement = p /\ sheets[t].period = m} = {}
NoSheetYet(p, m) == {t \in Sheets : sheets[t] # NoRow /\ sheets[t].placement = p /\ sheets[t].period = m} = {}
CreateSheet(s, p, m) ==
    /\ NoSheetYet(p, m)
    /\ Add(s, "sheets", [placement |-> p, period |-> m, count |-> 0, status |-> "DRAFT"])

MayEditAny(t) == sheets[t] # NoRow
MayEdit(t) == sheets[t].status \in {"DRAFT", "REJECTED"}
ItemsOn(t, day) == {i \in Items : items[i].of = t /\ items[i].day = day}
PresentIn(t, rows) == Cardinality({i \in Items : rows[i].of = t /\ rows[i].present})

\* upsert_item: the item of the day as it is loaded, none or one (with more
\* than one the request fails).
UpsertItem(s, t, day, present) ==
    /\ MayEdit(t) /\ Cardinality(ItemsOn(t, day)) <= 1
    /\ Begin(s, [op |-> "item", sheet |-> t, seen |-> sheets[t], found |-> ItemsOn(t, day),
                 row |-> [of |-> t, day |-> day, present |-> present]])
\* delete_item
DeleteItem(s, i) ==
    /\ items[i] # NoRow /\ MayEdit(items[i].of)
    /\ Begin(s, [op |-> "item", sheet |-> items[i].of, seen |-> sheets[items[i].of], found |-> {i}, row |-> NoRow])

\* What a flush has done to an item and not yet committed: another flush of
\* that item waits for the commit.
Flushed(i) == \E t \in Sessions : sess[t].op = "flushed" /\ sess[t].item = i
\* The items as this transaction sees them after its flush.
FlushedItems(i, row) == [items EXCEPT ![i] = row]
CountedItemsBefore(i, row) == items
CountedItems(i, row) == FlushedItems(i, row)
\* The flush of the item, and the count of what is present then.
FlushItem(s, i) ==
    LET w == sess[s] IN
    /\ w.op = "item" /\ ~Flushed(i)
    /\ IF w.found # {} THEN i \in w.found /\ (w.row = NoRow \/ items[i] # NoRow) ELSE items[i] = NoRow
    /\ Go(s, [op |-> "flushed", sheet |-> w.sheet, seen |-> w.seen, item |-> i, row |-> w.row,
              count |-> PresentIn(w.sheet, CountedItems(i, w.row))])
    /\ UNCHANGED sheetTables
ItemCommit(s) ==
    LET w == sess[s] IN
    /\ w.op = "flushed"
    /\ items' = FlushedItems(w.item, w.row)
    /\ sheets' = [sheets EXCEPT ![w.sheet] = Merge(@, w.seen, [w.seen EXCEPT !.count = w.count])]
    /\ UNCHANGED reports /\ Finish(s)
-----------------------------------------------------------------------------
\* submit_timesheet, approve_timesheet, reject_timesheet
ChangeSheet(s, t, status) == Edit(s, "sheets", t, sheets[t], [sheets[t] EXCEPT !.status = status])
MaySubmit(t) == sheets[t].status \in {"DRAFT", "REJECTED"}
Submit(s, t) == MaySubmit(t) /\ ChangeSheet(s, t, "SUBMITTED")
MayApprove(t) == sheets[t].status = "SUBMITTED"
Approve(s, t) == MayApprove(t) /\ ChangeSheet(s, t, "APPROVED")
MayRejectApproved(t) == sheets[t].status \in {"SUBMITTED", "APPROVED"}
MayReject(t) == sheets[t].status = "SUBMITTED"
Reject(s, t) == MayReject(t) /\ ChangeSheet(s, t, "REJECTED")

\* generate_ba: an existing report is returned; the number is the count of all
\* reports plus one, and unique.
ReportsOf(t) == {r \in Reports : reports[r].of = t}
MayReport(t) == sheets[t].status = "APPROVED" /\ ReportsOf(t) = {}
NextReportNo == Cardinality({r \in Reports : reports[r] # NoRow}) + 1
GenerateReport(s, t) == MayReport(t) /\ Add(s, "reports", [of |-> t, no |-> NextReportNo])
\* regenerate_ba_pdf writes the file of the report again, and its own name.
RegenerateReport(s, r) == reports[r] # NoRow /\ Edit(s, "reports", r, reports[r], reports[r])
-----------------------------------------------------------------------------
NumberTaken(s) == \E r \in Reports : reports[r] # NoRow /\ reports[r].no = sess[s].new.no
Commit(s) ==
    /\ \/ /\ \/ Editing(s, "sheets") /\ sheets' = Edited(s, sheets)
             \/ \E t \in Sheets : Adding(s, "sheets") /\ sheets[t] = NoRow /\ sheets' = [sheets EXCEPT ![t] = sess[s].new]
          /\ UNCHANGED <<items, reports>>
       \/ /\ \/ Editing(s, "reports") /\ reports' = Edited(s, reports)
             \/ Adding(s, "reports") /\ NumberTaken(s) /\ UNCHANGED reports
             \/ /\ Adding(s, "reports") /\ ~NumberTaken(s)
                /\ \E r \in Reports : reports[r] = NoRow /\ reports' = [reports EXCEPT ![r] = sess[s].new]
          /\ UNCHANGED <<sheets, items>>
    /\ Finish(s)

Request(s) ==
    \/ \E p \in Placements, m \in Periods : CreateSheet(s, p, m)
    \/ \E t \in Sheets :
          \/ \E day \in Days, present \in BOOLEAN : UpsertItem(s, t, day, present)
          \/ Submit(s, t) \/ Approve(s, t) \/ Reject(s, t) \/ GenerateReport(s, t)
    \/ \E i \in Items : DeleteItem(s, i)
    \/ \E r \in Reports : RegenerateReport(s, r)

Step(s) ==
    \/ (Request(s) \/ Abort(s)) /\ UNCHANGED sheetTables
    \/ \E i \in Items : FlushItem(s, i)
    \/ ItemCommit(s) \/ Commit(s)
Next == \E s \in Sessions : Step(s)
Spec == Init /\ [][Next]_sheetVars
-----------------------------------------------------------------------------
\* The client is billed by workdays_count: it is the number of days present
\* (handlers that do not overlap).
CountIsPresent ==
    alone => \A t \in Sheets : sheets[t] # NoRow => sheets[t].count = PresentIn(t, items)

\* An approved timesheet keeps its status, its count and its days, and only
\* such a one has a report (handlers that do not overlap).
ApprovedFrozen ==
    [][\A t \in Sheets : alone /\ sheets[t].status = "APPROVED"
          => /\ sheets'[t] = sheets[t]
             /\ \A i \in Items : items[i].of = t \/ items'[i].of = t => items'[i] = items[i]]_sheetVars
\* A report is of an approved timesheet, and there is one of each (handlers
\* that do not overlap).
ReportOfApproved ==
    alone => \A r \in Reports : reports[r] # NoRow =>
        sheets[reports[r].of].status = "APPROVED" /\ ReportsOf(reports[r].of) = {r}

\* A placement has one timesheet a month and a timesheet one item a day, after
\* any edits and deletions (handlers that do not overlap; no constraint says so).
NoDuplicates ==
    alone =>
        /\ \A t, u \in Sheets : t # u /\ sheets[t] # NoRow /\ sheets[u] # NoRow
              => <<sheets[t].placement, sheets[t].period>> # <<sheets[u].placement, sheets[u].period>>
        /\ \A i, j \in Items : i # j /\ items[i] # NoRow /\ items[j] # NoRow
              => <<items[i].of, items[i].day>> # <<items[j].of, items[j].day>>
=============================================================================
