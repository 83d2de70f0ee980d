------------------------------ MODULE Proposals ------------------------------
(***************************************************************************)
(* What a lead is offered and what is noted about it: proposals with their *)
(* priced items, activities and sales targets, after backend/app/sales/    *)
(* service.py.  Quantities and prices have two decimals, and so have the   *)
(* columns a product or a sum of products is stored in: an item is rounded *)
(* by itself, the total of the proposal once.                              *)
(***************************************************************************)
EXTENDS Handlers, Integers, FiniteSets, FiniteSetsExt, Sequences

CONSTANTS
    Leads, Numbers, Targets,
    Ids,            \* the primary keys proposals may hand out
    Specs,          \* the items a request may ask for, in hundredths
    MaxItems,       \* bound: items of one proposal
    MaxActivities   \* bound: activities logged for one lead

VARIABLES proposals, items, activities, targets

offerTables == <<proposals, items, activities, targets>>
offerVars == <<offerTables, alone, sess>>

Proposal == [lead: Leads, number: Numbers, total: Nat, status: {"DRAFT", "SENT"}]
NoRow == [status |-> "NONE"]
Asked == UNION {[1 .. n -> Specs] : n \in 0 .. MaxItems}

TypeOK ==
    /\ proposals \in [Ids -> Proposal \cup {NoRow}]
    /\ \A p \in Ids : \A i \in DOMAIN items[p] : items[p][i] \in [spec: Specs, subtotal: Nat]
    /\ activities \in [Leads -> 0 .. MaxActivities] /\ targets \subseteq Targets
Init ==
    /\ proposals = [p \in Ids |-> NoRow] /\ items = [p \in Ids |-> << >>]
    /\ activities = [l \in Leads |-> 0] /\ targets = {} /\ AllIdle
-----------------------------------------------------------------------------
\* A column with two decimals keeps hundredths, rounding a half up.
Stored(exact) == (exact + 50) \div 100
Product(spec) == spec.quantity * spec.price
Subtotal(spec) == Stored(Product(spec))

TotalOfPrices(asked) == Stored(MapThenSumSet(LAMBDA i : 100 * asked[i].price, DOMAIN asked))
Total(asked) == Stored(MapThenSumSet(LAMBDA i : Product(asked[i]), DOMAIN asked))

\* create_proposal: the row is flushed with its total; then its items follow.
CreateProposal(s, l, number, asked) ==
    /\ Add(s, "proposals", [row |-> [lead |-> l, number |-> number, total |-> Total(asked), status |-> "DRAFT"],
                            lines |-> [i \in DOMAIN asked |-> [spec |-> asked[i], subtotal |-> Subtotal(asked[i])]]])
    /\ UNCHANGED offerTables

NumberTaken(number) == \E p \in Ids : proposals[p] # NoRow /\ proposals[p].number = number
\* proposal_no is unique: a second flush waits for the first to end, and fails.
CreateCommit(s, p) ==
    /\ Adding(s, "proposals") /\ proposals[p] = NoRow
    /\ LET h == sess[s].new
       IN IF NumberTaken(h.row.number) THEN UNCHANGED <<proposals, items>>
          ELSE /\ proposals' = [proposals EXCEPT ![p] = h.row]
               /\ items' = [items EXCEPT ![p] = h.lines]
    /\ Finish(s) /\ UNCHANGED <<activities, targets>>

\* send_proposal
MaySend(row) == row.status = "DRAFT"
Send(s, p) ==
    /\ MaySend(proposals[p])
    /\ Edit(s, "proposals", p, proposals[p], [proposals[p] EXCEPT !.status = "SENT"])
    /\ UNCHANGED offerTables
SendCommit(s) ==
    /\ Editing(s, "proposals") /\ proposals' = Edited(s, proposals)
    /\ Finish(s) /\ UNCHANGED <<items, activities, targets>>

LogActivity(l) ==
    /\ activities[l] < MaxActivities /\ activities' = [activities EXCEPT ![l] = @ + 1]
    /\ UNCHANGED <<proposals, items, targets, handlers>>
CreateTarget(t) ==
    /\ targets' = targets \cup {t} /\ UNCHANGED <<proposals, items, activities, handlers>>

Step(s) ==
    \/ \E l \in Leads, number \in Numbers, asked \in Asked : CreateProposal(s, l, number, asked)
    \/ \E p \in Ids : CreateCommit(s, p) \/ Send(s, p)
    \/ SendCommit(s)
    \/ Abort(s) /\ UNCHANGED offerTables
Next ==
    \/ \E s \in Sessions : Step(s)
    \/ \E l \in Leads : LogActivity(l)
    \/ \E t \in Targets : CreateTarget(t)
Spec == Init /\ [][Next]_offerVars
-----------------------------------------------------------------------------
SumOfSubtotals(p) == MapThenSumSet(LAMBDA i : items[p][i].subtotal, DOMAIN items[p])
Broken(p) == {i \in DOMAIN items[p] : Product(items[p][i].spec) % 100 # 0}

\* The total of a proposal is the sum of its subtotals as long as at most one
\* item was rounded; each two more may move it by one hundredth.
TotalsNear ==
    \A p \in Ids : proposals[p] # NoRow =>
        LET off == proposals[p].total - SumOfSubtotals(p)
        IN off <= Cardinality(Broken(p)) \div 2 /\ -off <= Cardinality(Broken(p)) \div 2

\* "total_value = sum(items.subtotal)" (service.py, the head of the module),
\* which rounding each by itself does not keep.
TotalIsSum == \A p \in Ids : proposals[p] # NoRow => proposals[p].total = SumOfSubtotals(p)
=============================================================================
