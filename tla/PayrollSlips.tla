---------------------------- MODULE PayrollSlips ----------------------------
(***************************************************************************)
(* What the slips of a payroll period contain: component lines, and the    *)
(* totals that every change of the lines computes anew, after              *)
(* backend/app/payroll/payroll_service.py and, for commissions,            *)
(* backend/app/sales/service.py.                                           *)
(*                                                                         *)
(* An edit is several transactions: a line is deleted, a line is inserted, *)
(* the lines are summed and the sums stored.  The slip object a handler    *)
(* holds keeps the totals it was loaded with until the sums are stored.    *)
(*                                                                         *)
(* And the tax the portal suggests for a slip (compute_pph21_progressive,  *)
(* suggest_pph21_for_slip).  Amounts are in sen, hundredths of a rupiah.   *)
(***************************************************************************)
EXTENDS Integers, Sequences, FiniteSets, Sums, UnitOfWork

CONSTANTS
    Slips,      \* the slips of one period
    Ids,        \* bound: the component ids in use at a time
    Amounts,    \* the amounts of components
    Taxes,      \* those of them that are set as taxes
    Entries,    \* bound: the kinds, codes and amounts that are entered by hand
    Sessions,   \* request handlers that may be in flight together
    Exclusive,  \* whether requests about one slip never overlap
    MayFail,    \* whether a handler may be cut off between its commits
    Jt,         \* a million ("juta") rupiah, in sen
    Ptkp        \* the untaxed income of a year, in sen

ASSUME SlipsAssumption ==
    /\ IsFiniteSet(Slips)
    /\ Amounts \subseteq Nat
    /\ Taxes \subseteq Amounts
    /\ Entries \subseteq [kind: {"INCOME", "DEDUCTION"}, code: {"PPH21", "OTHER"}, amount: Amounts]
    /\ Exclusive \in BOOLEAN
    /\ MayFail \in BOOLEAN
ASSUME Pph21Assumption == Jt \in Nat \ {0} /\ Ptkp \in Nat

VARIABLES
    status,   \* payroll_periods.status of the period
    lines,    \* table payroll_components
    totals,   \* the sums stored in payroll_slips
    sess

vars == <<status, lines, totals, sess>>
tables == <<status, lines, totals>>
-----------------------------------------------------------------------------
\* OPEN stands for DRAFT and REVIEWING, APPROVAL for what follows short of LOCKED.
Statuses == {"OPEN", "APPROVAL", "LOCKED"}

\* The code of a line is free text: OTHER stands for every code but the tax's,
\* and an income may carry the tax's code too.
Kinds == {"INCOME", "DEDUCTION"}
Codes == {"PPH21", "OTHER"}
Line == [id: Ids, slip: Slips, kind: Kinds, code: Codes, amount: Amounts]
Item == [slip: Slips, amount: Taxes \cup {0}]
Totals == [gross: Nat, deductions: Nat, net: Int]

LinesOf(p)    == {l \in lines : l.slip = p}
Incomes(p)    == {l \in LinesOf(p) : l.kind = "INCOME"}
Deductions(p) == {l \in LinesOf(p) : l.kind = "DEDUCTION"}
TaxLines(p)   == {l \in LinesOf(p) : l.code = "PPH21"}

LineTotals(p) == [gross |-> SumOf(Incomes(p)), deductions |-> SumOf(Deductions(p)),
                  net   |-> SumOf(Incomes(p)) - SumOf(Deductions(p))]

Idle == [op |-> "idle", items |-> <<>>]

NewLine(kind, code, amount) == {[kind |-> kind, code |-> code, amount |-> amount]}
NewLines == {{}} \cup {{l} : l \in [kind: Kinds, code: Codes, amount: Amounts]}

\* The lines to delete and to insert in the slip at work, and the totals it
\* was loaded with; for a tax the slips to do, and the totals that the last of
\* them was loaded with at the start.
Edit == [op: {"edit", "tax", "inject"}, pc: {"check", "remove", "insert", "sum", "store", "inject"},
         slip: Slips, seen: Totals, new: Totals,
         drop: SUBSET Line, add: NewLines, items: Seq(Item), pos: Nat, held: Totals]

TypeOK ==
    /\ status \in Statuses
    /\ lines \subseteq Line
    /\ \A l, m \in lines : l.id = m.id => l = m
    /\ totals \in [Slips -> Totals]
    /\ sess \in [Sessions -> {Idle} \cup Edit]

\* generate_slips_for_period has made the slips, with their basic salary.
Init ==
    /\ status = "OPEN"
    /\ \E id \in [Slips -> Ids], amount \in [Slips -> Amounts] :
          /\ \A p, q \in Slips : id[p] = id[q] => p = q
          /\ lines = {[id |-> id[p], slip |-> p, kind |-> "INCOME", code |-> "OTHER",
                       amount |-> amount[p]] : p \in Slips}
          /\ totals = [p \in Slips |-> [gross |-> amount[p], deductions |-> 0, net |-> amount[p]]]
    /\ sess = [s \in Sessions |-> Idle]
-----------------------------------------------------------------------------
Touched(h) == {h.items[i].slip : i \in DOMAIN h.items}
Begin(s, h) ==
    /\ sess[s] = Idle
    /\ Exclusive => \A t \in Sessions : Touched(sess[t]) \cap Touched(h) = {}
    /\ sess' = [sess EXCEPT ![s] = h]
    /\ UNCHANGED tables
Goto(s, pc) == sess' = [sess EXCEPT ![s].pc = pc]
Finish(s) == sess' = [sess EXCEPT ![s] = Idle]

AfterRemoval(add) == IF add = {} THEN "sum" ELSE "insert"
Start(drop, add) == IF drop = {} THEN AfterRemoval(add) ELSE "remove"
Handler(op, pc, p, drop, add, items) ==
    [op |-> op, pc |-> pc, slip |-> p, seen |-> totals[p], new |-> totals[p],
     drop |-> drop, add |-> add, items |-> items, pos |-> 1,
     held |-> totals[items[Len(items)].slip]]
BeginEdit(s, op, pc, p, drop, add) ==
    Begin(s, Handler(op, pc, p, drop, add, <<[slip |-> p, amount |-> 0]>>))

\* add_component
AddComponent(s, p, entry) ==
    /\ status # "LOCKED"
    /\ BeginEdit(s, "edit", "insert", p, {}, {entry})

\* delete_component
DeleteComponent(s, l) ==
    /\ status # "LOCKED"
    /\ BeginEdit(s, "edit", "remove", l.slip, {l}, {})

\* _try_inject_commission_to_active_slip
Inject(s, p, amount) ==
    /\ status = "OPEN"
    /\ BeginEdit(s, "inject", "inject", p, {}, NewLine("INCOME", "OTHER", amount))

\* The net pay if the tax of a slip became this amount.
NetIgnoringTax(seen, old, amount) ==
    seen.gross - (seen.deductions - SumOf(old))
ProjectedNet(seen, old, amount) ==
    seen.gross - (seen.deductions - SumOf(old) + amount)
OneTax(old) == Cardinality(old) <= 1

\* set_pph21
SetPph21(s, item) ==
    /\ status # "LOCKED"
    /\ Begin(s, Handler("tax", "check", item.slip, {}, {}, <<item>>))

\* bulk_set_pph21: every item is checked before the first is applied.
Acceptable(item) ==
    /\ OneTax(TaxLines(item.slip))
    /\ ProjectedNet(totals[item.slip], TaxLines(item.slip), item.amount) >= 0
AnyAccepted(items) == \E i \in DOMAIN items : Acceptable(items[i])
AllAccepted(items) == \A i \in DOMAIN items : Acceptable(items[i])

BulkSetPph21(s, items) ==
    /\ status # "LOCKED"
    /\ AllAccepted(items)
    /\ Begin(s, Handler("tax", "check", items[1].slip, {}, {}, items))

\* set_pph21 for the item in turn; the object of the last item's slip is still
\* the one loaded at the start.
CheckTax(s) ==
    /\ sess[s].op = "tax" /\ sess[s].pc = "check"
    /\ LET h    == sess[s]
           item == h.items[h.pos]
           seen == IF h.pos = Len(h.items) THEN h.held ELSE totals[item.slip]
           old  == TaxLines(item.slip)
           add  == IF item.amount = 0 THEN {} ELSE NewLine("DEDUCTION", "PPH21", item.amount)
       IN IF OneTax(old) /\ ProjectedNet(seen, old, item.amount) >= 0
          THEN sess' = [sess EXCEPT ![s] = [h EXCEPT !.pc = Start(old, add), !.slip = item.slip,
                                                     !.seen = seen, !.drop = old, !.add = add]]
          ELSE Finish(s)
    /\ UNCHANGED tables
-----------------------------------------------------------------------------
\* An id in use: by a line, or by a handler about to delete it.
Used == {l.id : l \in lines} \cup
        UNION {{l.id : l \in sess[s].drop} : s \in {t \in Sessions : sess[t] # Idle}}
LineWith(h, id, a, amount) ==
    [id |-> id, slip |-> h.slip, kind |-> a.kind, code |-> a.code, amount |-> amount]
Debited(h, id)  == {LineWith(h, id, a, -a.amount) : a \in h.add}
Inserted(h, id) == {LineWith(h, id, a, a.amount) : a \in h.add}

\* Deleting a line that is gone deletes nothing.
CommitRemoval(s) ==
    /\ sess[s] # Idle /\ sess[s].pc = "remove"
    /\ lines' = lines \ sess[s].drop
    /\ Goto(s, AfterRemoval(sess[s].add))
    /\ UNCHANGED <<status, totals>>

CommitInsert(s) ==
    /\ sess[s] # Idle /\ sess[s].pc = "insert"
    /\ \E id \in Ids \ Used : lines' = lines \cup Inserted(sess[s], id)
    /\ Goto(s, "sum")
    /\ UNCHANGED <<status, totals>>

\* _recompute_slip_totals: the select of the components
ReadLines(s) ==
    /\ sess[s] # Idle /\ sess[s].pc = "sum"
    /\ sess' = [sess EXCEPT ![s].pc = "store", ![s].new = LineTotals(sess[s].slip)]
    /\ UNCHANGED tables

\* ... and the commit of their sums; a bulk call goes on to its next slip.
Forgotten(now, h) == now
Stored(now, h) == Merge(now, h.seen, h.new)

CommitTotals(s) ==
    /\ sess[s] # Idle /\ sess[s].pc = "store"
    /\ LET h == sess[s]
       IN /\ totals' = [totals EXCEPT ![h.slip] = Stored(@, h)]
          /\ IF h.pos < Len(h.items)
             THEN sess' = [sess EXCEPT ![s].pc = "check", ![s].pos = h.pos + 1]
             ELSE Finish(s)
    /\ UNCHANGED <<status, lines>>

\* The commission's line and the totals with it are one transaction.
WithCommission(seen, amount) ==
    [gross |-> seen.gross + amount, deductions |-> seen.deductions,
     net   |-> seen.gross + amount - seen.deductions]

CommitInject(s) ==
    /\ sess[s] # Idle /\ sess[s].pc = "inject"
    /\ LET h == sess[s]
       IN /\ \E id \in Ids \ Used : lines' = lines \cup Inserted(h, id)
          /\ \E a \in h.add :
                totals' = [totals EXCEPT ![h.slip] =
                              Merge(@, h.seen, WithCommission(h.seen, a.amount))]
    /\ Finish(s)
    /\ UNCHANGED status

\* The workflow of the period goes on beside the edits.  That overlapping
\* handlers of it can undo a lock (PayrollPeriod) would add no state here.
MovePeriod ==
    /\ \/ status = "OPEN" /\ status' = "APPROVAL"
       \/ status = "APPROVAL" /\ status' = "OPEN"
       \/ status # "LOCKED" /\ status' = "LOCKED"
    /\ UNCHANGED <<lines, totals, sess>>

\* The process or the client goes away: what is not committed is rolled back.
NothingDone(h) == h.pos = 1 /\ h.pc \in {"check", "inject", Start(h.drop, h.add)}
Fail(s) ==
    /\ sess[s] # Idle
    /\ MayFail \/ NothingDone(sess[s])
    /\ Finish(s)
    /\ UNCHANGED tables
-----------------------------------------------------------------------------
\* The endpoints, with what a request may carry; the rows of a bulk call become
\* a dictionary by slip, so no slip is in it twice.
PostComponent(s) == \E p \in Slips, entry \in Entries : AddComponent(s, p, entry)
DropComponent(s) == \E l \in lines : DeleteComponent(s, l)
PostTax(s)       == \E item \in Item : SetPph21(s, item)
PostTaxes(s)     == \E i, j \in Item : i.slip # j.slip /\ BulkSetPph21(s, <<i, j>>)

Handle(s) ==
    \/ PostComponent(s) \/ DropComponent(s) \/ PostTax(s) \/ PostTaxes(s)
    \/ \E p \in Slips, amount \in Amounts : Inject(s, p, amount)

Commit(s) ==
    CheckTax(s) \/ CommitRemoval(s) \/ CommitInsert(s) \/ ReadLines(s) \/ CommitTotals(s)
    \/ CommitInject(s) \/ Fail(s)

Next == MovePeriod \/ \E s \in Sessions : Handle(s) \/ Commit(s)

Spec == Init /\ [][Next]_vars
-----------------------------------------------------------------------------
\* The progressive income tax (PPh 21) that the code suggests for a slip.  The
\* parts of it are in hundredths of a sen, so that the percentages stay whole.
LesserOf(a, b) == IF a <= b THEN a ELSE b
Taxable(gross) == IF gross <= Ptkp THEN 0 ELSE gross - Ptkp

\* The tax on the part of the income between two caps; none above what is earned.
FromZero(income, prevCap, cap, percent) ==
    IF income <= prevCap THEN 0 ELSE LesserOf(income, cap) * percent
InBracket(income, prevCap, cap, percent) ==
    IF income <= prevCap THEN 0 ELSE (LesserOf(income, cap) - prevCap) * percent

\* n / d to the nearest integer, ties to the even one: Decimal.quantize
Rounded(n, d) ==
    LET q == n \div d
    IN IF 2 * (n - d * q) < d \/ (2 * (n - d * q) = d /\ q % 2 = 0) THEN q ELSE q + 1

\* compute_pph21_progressive: the parts, and their sum to the nearest sen.
PartsOfTax(gross) ==
    LET income == Taxable(gross)
    IN InBracket(income, 0, 60 * Jt, 5) + InBracket(income, 60 * Jt, 250 * Jt, 15)
       + InBracket(income, 250 * Jt, 500 * Jt, 25) + InBracket(income, 500 * Jt, 5000 * Jt, 30)
       + InBracket(income, 5000 * Jt, income, 35)
AnnualTax(gross) == Rounded(PartsOfTax(gross), 100)

\* suggest_pph21_for_slip: a twelfth of the tax on twelve such months.
Suggested(gross) == Rounded(AnnualTax(12 * gross), 12)
-----------------------------------------------------------------------------
\* The same tax by its marginal rates: every cap adds to the rate above it.
Above(income, cap) == IF income <= cap THEN 0 ELSE income - cap
MarginalTax(gross) ==
    LET income == Taxable(gross)
    IN 5 * income + 10 * Above(income, 60 * Jt) + 10 * Above(income, 250 * Jt)
       + 5 * Above(income, 500 * Jt) + 5 * Above(income, 5000 * Jt)
-----------------------------------------------------------------------------
AtWork(p) == \E s \in Sessions : p \in Touched(sess[s])

\* The totals stored in a slip nobody is working on are the sums of its lines.
TotalsMatchLines == \A p \in Slips : ~AtWork(p) => totals[p] = LineTotals(p)

\* A tax is refused when it would leave the net pay of the slip negative: when
\* the handler has stored the new totals, the net pay is not, unless the line
\* the tax replaced was an income that carried its code.
TaxLeavesNet ==
    [][\A s \in Sessions :
          /\ sess[s].op = "tax" /\ sess[s].pc = "store" /\ sess'[s] # sess[s]
          /\ \A l \in sess[s].drop : l.kind = "DEDUCTION"
          => totals'[sess[s].slip].net >= 0]_vars

\* What set_pph21's docstring promises of every slip.  It does not hold: replacing
\* an income coded PPH21 takes the income away, and the check adds it instead.
TaxNeverTakesAll ==
    [][\A s \in Sessions :
          sess[s].op = "tax" /\ sess[s].pc = "store" /\ sess'[s] # sess[s]
          => totals'[sess[s].slip].net >= 0]_vars

\* A call that sets the taxes of several slips sets all of them or none.
AllTaxesOrNone ==
    [][\A s \in Sessions : sess[s].op = "tax" /\ sess'[s] = Idle
          => \/ NothingDone(sess[s])
             \/ sess[s].pos = Len(sess[s].items) /\ sess[s].pc = "store"]_vars

\* A tax is accepted only when the net pay can bear it, and a bulk call stores
\* all of its taxes or none.
TaxesBorne == TaxLeavesNet /\ AllTaxesOrNone

\* Who earns more keeps no less, and more of it from two sen on: between any two
\* slips the difference of the suggested taxes, rounded twice, is at most that
\* of the incomes, and less unless the incomes differ by a single sen.
MoreLeavesMore ==
    \A p, q \in Slips :
        LET more    == totals[q].gross - totals[p].gross
            moreTax == Suggested(totals[q].gross) - Suggested(totals[p].gross)
        IN /\ more > 0 => moreTax <= more
           /\ more > 1 => moreTax < more
=============================================================================
