------------------------ MODULE PayrollSlipsProofs ------------------------
(***************************************************************************)
(* Proofs about PayrollSlips for any slips, amounts and handlers.          *)
(***************************************************************************)
EXTENDS PayrollSlips, TLAPS

\* The brackets that the code walks through levy the marginal rates.
THEOREM BracketsAreMarginal ==
    ASSUME NEW gross \in Nat
    PROVE  PartsOfTax(gross) = MarginalTax(gross)
<1> DEFINE income == Taxable(gross)
<1>1. income \in Nat
  BY Pph21Assumption DEF Taxable
<1> HIDE DEF income
<1>2. /\ 60 * Jt \in Nat /\ 250 * Jt \in Nat /\ 500 * Jt \in Nat /\ 5000 * Jt \in Nat
      /\ 0 < 60 * Jt /\ 60 * Jt < 250 * Jt /\ 250 * Jt < 500 * Jt /\ 500 * Jt < 5000 * Jt
  BY Pph21Assumption
<1>3. ASSUME NEW a \in Nat, NEW b \in Nat, NEW c \in Nat, NEW d \in Nat,
             0 < a, a < b, b < c, c < d
      PROVE  InBracket(income, 0, a, 5) + InBracket(income, a, b, 15) + InBracket(income, b, c, 25)
               + InBracket(income, c, d, 30) + InBracket(income, d, income, 35)
             = 5 * income + 10 * Above(income, a) + 10 * Above(income, b) + 5 * Above(income, c)
               + 5 * Above(income, d)
  BY <1>1, <1>3 DEF InBracket, LesserOf, Above
<1> QED
  BY <1>2, <1>3 DEF PartsOfTax, MarginalTax, income

LEMMA PartsAreNat ==
    ASSUME NEW gross \in Nat
    PROVE  PartsOfTax(gross) \in Nat
<1>1. MarginalTax(gross) \in Nat
  BY Pph21Assumption DEF MarginalTax, Taxable, Above
<1> QED
  BY <1>1, BracketsAreMarginal

\* No income is worth more than the next one after tax: raising it by some
\* amount raises the tax of the year, but never by more than 35 percent of it.
THEOREM NoCliff ==
    ASSUME NEW less \in Nat, NEW more \in Nat, less <= more
    PROVE  /\ PartsOfTax(less) <= PartsOfTax(more)
           /\ PartsOfTax(more) - PartsOfTax(less) <= 35 * (more - less)
<1> DEFINE i == Taxable(less)
           j == Taxable(more)
<1>1. i \in Nat /\ j \in Nat /\ i <= j /\ j - i <= more - less
  BY Pph21Assumption DEF Taxable
<1>2. ASSUME NEW cap \in Nat
      PROVE  /\ Above(i, cap) \in Nat /\ Above(j, cap) \in Nat
             /\ Above(i, cap) <= Above(j, cap) /\ Above(j, cap) - Above(i, cap) <= j - i
  BY <1>1 DEF Above
<1>3. 60 * Jt \in Nat /\ 250 * Jt \in Nat /\ 500 * Jt \in Nat /\ 5000 * Jt \in Nat
  BY Pph21Assumption
<1> DEFINE step(cap) == Above(j, cap) - Above(i, cap)
<1>4. \A cap \in Nat : step(cap) \in Int /\ 0 <= step(cap) /\ step(cap) <= j - i
  BY <1>1, <1>2
<1>5. MarginalTax(more) - MarginalTax(less)
        = 5 * (j - i) + 10 * step(60 * Jt) + 10 * step(250 * Jt) + 5 * step(500 * Jt)
          + 5 * step(5000 * Jt)
  <2> HIDE DEF i, j
  <2>1. \A cap \in Nat : Above(i, cap) \in Int /\ Above(j, cap) \in Int
    BY <1>2
  <2> QED
    BY <1>1, <1>3, <2>1 DEF MarginalTax, i, j
<1> HIDE DEF i, j, step
<1>6. /\ 0 <= MarginalTax(more) - MarginalTax(less)
      /\ MarginalTax(more) - MarginalTax(less) <= 35 * (j - i)
  BY <1>1, <1>3, <1>4, <1>5
<1> QED
  BY <1>1, <1>6, BracketsAreMarginal, PartsAreNat

\* A rounded quotient is a half away from the quotient at most.
LEMMA RoundedIsNear ==
    ASSUME NEW n \in Nat, NEW d \in {12, 100}
    PROVE  /\ Rounded(n, d) \in Nat
           /\ 2 * d * Rounded(n, d) <= 2 * n + d
           /\ 2 * n <= 2 * d * Rounded(n, d) + d
<1>1. CASE d = 12
  <2> DEFINE q == n \div 12
  <2>1. q \in Nat /\ 12 * q <= n /\ n <= 12 * q + 11
    OBVIOUS
  <2> QED
    BY <1>1, <2>1 DEF Rounded
<1>2. CASE d = 100
  <2> DEFINE q == n \div 100
  <2>1. q \in Nat /\ 100 * q <= n /\ n <= 100 * q + 99
    OBVIOUS
  <2> QED
    BY <1>2, <2>1 DEF Rounded
<1> QED
  BY <1>1, <1>2

LEMMA SuggestedIsNat ==
    ASSUME NEW gross \in Nat
    PROVE  Suggested(gross) \in Nat
<1>1. PICK n : n = PartsOfTax(12 * gross)
  OBVIOUS
<1>2. n \in Nat
  BY <1>1, PartsAreNat
<1>3. PICK m : m = Rounded(n, 100)
  OBVIOUS
<1>4. m \in Nat
  BY <1>2, <1>3, RoundedIsNear
<1> QED
  BY <1>1, <1>3, <1>4, RoundedIsNear DEF Suggested, AnnualTax

\* Of what is earned more in a month the suggestion takes 35 percent at most,
\* and what its two roundings add: not even a sen and a tenth.
THEOREM SuggestionTakesAPart ==
    ASSUME NEW less \in Nat, NEW more \in Nat, less <= more
    PROVE  100 * (Suggested(more) - Suggested(less)) <= 35 * (more - less) + 109
<1>1. PICK a, b : a = PartsOfTax(12 * less) /\ b = PartsOfTax(12 * more)
  OBVIOUS
<1>2. a \in Nat /\ b \in Nat /\ b - a <= 35 * (12 * more - 12 * less)
  BY <1>1, PartsAreNat, NoCliff
<1>3. PICK c, d : c = Rounded(a, 100) /\ d = Rounded(b, 100)
  OBVIOUS
<1>4. c \in Nat /\ d \in Nat /\ 200 * d <= 2 * b + 100 /\ 2 * a <= 200 * c + 100
  BY <1>2, <1>3, RoundedIsNear
<1>5. PICK e, f : e = Rounded(c, 12) /\ f = Rounded(d, 12)
  OBVIOUS
<1>6. e \in Nat /\ f \in Nat /\ 24 * f <= 2 * d + 12 /\ 2 * c <= 24 * e + 12
  BY <1>4, <1>5, RoundedIsNear
<1>7. Suggested(less) = e /\ Suggested(more) = f
  BY <1>1, <1>3, <1>5 DEF Suggested, AnnualTax
<1> QED
  BY <1>2, <1>4, <1>6, <1>7
-----------------------------------------------------------------------------
InTurn(h) == h = Idle \/ (h \in Edit /\ h.pos \in 1..Len(h.items))

IInv ==
    /\ TypeOK
    /\ IsFiniteSet(lines)
    /\ \A s \in Sessions : InTurn(sess[s])

LEMMA SumsAreTotals ==
    ASSUME IInv, NEW p \in Slips
    PROVE  LineTotals(p) \in Totals
<1>1. IsFiniteSet(LinesOf(p)) /\ \A l \in LinesOf(p) : l.amount \in Nat
  <2>1. LinesOf(p) \subseteq lines
    BY DEF LinesOf
  <2>2. \A l \in lines : l.amount \in Nat
    BY SlipsAssumption DEF IInv, TypeOK, Line
  <2> QED
    BY <2>1, <2>2, FS_Subset DEF IInv
<1>2. SumOf(Incomes(p)) \in Nat
  <2>1. IsFiniteSet(Incomes(p)) /\ \A l \in Incomes(p) : l.amount \in Nat
    BY <1>1, FS_Subset DEF Incomes
  <2> QED
    BY <2>1, SumOfType
<1>3. SumOf(Deductions(p)) \in Nat
  <2>1. IsFiniteSet(Deductions(p)) /\ \A l \in Deductions(p) : l.amount \in Nat
    BY <1>1, FS_Subset DEF Deductions
  <2> QED
    BY <2>1, SumOfType
<1> QED
  BY <1>2, <1>3 DEF LineTotals, Totals

LEMMA MergeTotals ==
    ASSUME NEW now \in Totals, NEW seen \in Totals, NEW new \in Totals
    PROVE  /\ Merge(now, seen, new) \in Totals
           /\ seen = now => Merge(now, seen, new) = new
<1>1. DOMAIN now = {"gross", "deductions", "net"}
  BY DEF Totals
<1>2. Merge(now, seen, new) = [gross      |-> Merge(now, seen, new).gross,
                               deductions |-> Merge(now, seen, new).deductions,
                               net        |-> Merge(now, seen, new).net]
  BY <1>1 DEF Merge
<1>3. \A c \in DOMAIN now : /\ Merge(now, seen, new)[c] \in {now[c], new[c]}
                            /\ seen = now => Merge(now, seen, new)[c] = new[c]
  BY DEF Merge
<1>4. new = [gross |-> new.gross, deductions |-> new.deductions, net |-> new.net]
  BY DEF Totals
<1> QED
  BY <1>1, <1>2, <1>3, <1>4 DEF Totals

LEMMA HandlerTyped ==
    ASSUME TypeOK, NEW op \in {"edit", "tax", "inject"}, NEW p \in Slips,
           NEW pc \in {"check", "remove", "insert", "sum", "store", "inject"},
           NEW drop \in SUBSET Line, NEW add \in NewLines, NEW items \in Seq(Item), items # <<>>
    PROVE  InTurn(Handler(op, pc, p, drop, add, items))
<1>1. Len(items) \in 1..Len(items) /\ 1 \in 1..Len(items)
  OBVIOUS
<1>2. items[Len(items)].slip \in Slips
  <2>1. items[Len(items)] \in Item
    BY <1>1
  <2> QED
    BY <2>1 DEF Item
<1> QED
  BY <1>1, <1>2 DEF Handler, InTurn, Edit, TypeOK

LEMMA InitInv == Init => IInv
<1> SUFFICES ASSUME Init PROVE IInv
  OBVIOUS
<1>1. PICK id \in [Slips -> Ids], amount \in [Slips -> Amounts] :
          /\ \A p, q \in Slips : id[p] = id[q] => p = q
          /\ lines = {[id |-> id[p], slip |-> p, kind |-> "INCOME", code |-> "OTHER", amount |-> amount[p]] : p \in Slips}
          /\ totals = [p \in Slips |-> [gross |-> amount[p], deductions |-> 0, net |-> amount[p]]]
  BY DEF Init
<1>2. lines \subseteq Line /\ \A l, m \in lines : l.id = m.id => l = m
  BY <1>1 DEF Line, Kinds, Codes
<1>3. IsFiniteSet(lines)
  <2> DEFINE row == [p \in Slips |->
                       [id |-> id[p], slip |-> p, kind |-> "INCOME", code |-> "OTHER", amount |-> amount[p]]]
  <2>1. row \in Surjection(Slips, lines)
    BY <1>1 DEF Surjection
  <2> QED
    BY <2>1, SlipsAssumption, FS_Surjection
<1>4. totals \in [Slips -> Totals]
  <2>1. \A p \in Slips : amount[p] \in Nat
    BY SlipsAssumption
  <2>2. \A p \in Slips : [gross |-> amount[p], deductions |-> 0, net |-> amount[p]] \in Totals
    BY <2>1 DEF Totals
  <2> QED
    BY <1>1, <2>2
<1> QED
  BY <1>2, <1>3, <1>4 DEF Init, Statuses, IInv, TypeOK, InTurn

\* A handler that begins or reads.
LEMMA ReadStep ==
    ASSUME IInv, NEW s \in Sessions, NEW h, InTurn(h), sess' = [sess EXCEPT ![s] = h],
           UNCHANGED tables
    PROVE  IInv'
<1>1. \A t \in Sessions : InTurn(sess'[t])
  BY DEF IInv
<1> QED
  BY <1>1 DEF IInv, TypeOK, tables, InTurn

LEMMA BeginInv ==
    ASSUME IInv, NEW s \in Sessions,
           \/ \E p \in Slips, entry \in Entries : AddComponent(s, p, entry)
           \/ \E l \in lines : DeleteComponent(s, l)
           \/ \E p \in Slips, amount \in Amounts : Inject(s, p, amount)
    PROVE  IInv'
<1> DEFINE items(p) == <<[slip |-> p, amount |-> 0]>>
<1>1. \A p \in Slips : items(p) \in Seq(Item) /\ items(p) # <<>>
  BY DEF Item
<1>2. ASSUME NEW op \in {"edit", "inject"}, NEW pc \in {"remove", "insert", "inject"}, NEW p \in Slips,
             NEW drop \in SUBSET Line, NEW add \in NewLines, BeginEdit(s, op, pc, p, drop, add)
      PROVE  IInv'
  <2> HIDE DEF items
  <2>1. InTurn(Handler(op, pc, p, drop, add, items(p)))
    BY <1>1, HandlerTyped DEF IInv
  <2>2. Begin(s, Handler(op, pc, p, drop, add, items(p)))
    BY <1>2 DEF BeginEdit, items
  <2> QED
    BY <2>1, <2>2, ReadStep DEF Begin
<1>3. /\ \A entry \in Entries : {entry} \in NewLines
      /\ \A amount \in Amounts : NewLine("INCOME", "OTHER", amount) \in NewLines
  BY SlipsAssumption DEF NewLines, NewLine, Kinds, Codes
<1>4. {} \in NewLines
  BY DEF NewLines
<1>5. ASSUME NEW p \in Slips, NEW entry \in Entries, AddComponent(s, p, entry)
      PROVE  IInv'
  BY <1>2, <1>3, <1>5 DEF AddComponent
<1>6. ASSUME NEW l \in lines, DeleteComponent(s, l) PROVE IInv'
  <2>1. l.slip \in Slips /\ {l} \in SUBSET Line
    BY DEF IInv, TypeOK, Line
  <2> QED
    BY <1>2, <1>4, <1>6, <2>1 DEF DeleteComponent
<1>7. ASSUME NEW p \in Slips, NEW amount \in Amounts, Inject(s, p, amount) PROVE IInv'
  BY <1>2, <1>3, <1>7 DEF Inject, Kinds
<1> QED
  BY <1>5, <1>6, <1>7

LEMMA TaxInv ==
    ASSUME IInv, NEW s \in Sessions,
           \/ \E item \in Item : SetPph21(s, item)
           \/ \E i, j \in Item : i.slip # j.slip /\ BulkSetPph21(s, <<i, j>>)
    PROVE  IInv'
<1>1. ASSUME NEW items \in Seq(Item), items # <<>>, NEW p \in Slips,
             Begin(s, Handler("tax", "check", p, {}, {}, items))
      PROVE  IInv'
  <2>1. InTurn(Handler("tax", "check", p, {}, {}, items))
    BY <1>1, HandlerTyped DEF IInv, NewLines
  <2> QED
    BY <1>1, <2>1, ReadStep DEF Begin
<1>2. ASSUME NEW item \in Item, SetPph21(s, item) PROVE IInv'
  <2>1. <<item>> \in Seq(Item) /\ <<item>> # <<>> /\ item.slip \in Slips
    BY DEF Item
  <2> QED
    BY <1>1, <1>2, <2>1 DEF SetPph21
<1>3. ASSUME NEW i \in Item, NEW j \in Item, BulkSetPph21(s, <<i, j>>) PROVE IInv'
  <2>1. <<i, j>> \in Seq(Item) /\ <<i, j>> # <<>> /\ <<i, j>>[1] = i /\ i.slip \in Slips
    BY DEF Item
  <2> QED
    BY <1>1, <1>3, <2>1 DEF BulkSetPph21
<1> QED
  BY <1>2, <1>3

LEMMA CheckInv ==
    ASSUME IInv, NEW s \in Sessions, CheckTax(s)
    PROVE  IInv'
<1> DEFINE h    == sess[s]
           item == h.items[h.pos]
           seen == IF h.pos = Len(h.items) THEN h.held ELSE totals[item.slip]
           old  == TaxLines(item.slip)
           add  == IF item.amount = 0 THEN {} ELSE NewLine("DEDUCTION", "PPH21", item.amount)
           next == [h EXCEPT !.pc = Start(old, add), !.slip = item.slip,
                             !.seen = seen, !.drop = old, !.add = add]
<1>1. h \in Edit /\ h.pos \in 1..Len(h.items)
  BY DEF CheckTax, IInv, InTurn, Idle
<1>2. item \in Item
  BY <1>1 DEF Edit
<1>3. seen \in Totals /\ old \in SUBSET Line /\ item.slip \in Slips
  BY <1>1, <1>2 DEF Edit, Item, IInv, TypeOK, TaxLines, LinesOf
<1>4. add \in NewLines
  BY <1>2, SlipsAssumption DEF NewLines, NewLine, Item, Kinds, Codes
<1>5. Start(old, add) \in {"remove", "insert", "sum"}
  BY DEF Start, AfterRemoval
<1> HIDE DEF item, seen, old, add
<1>6. InTurn(next)
  BY <1>1, <1>3, <1>4, <1>5 DEF InTurn, Edit
<1>7. sess' = [sess EXCEPT ![s] = next] \/ sess' = [sess EXCEPT ![s] = Idle]
  BY DEF CheckTax, Finish, item, seen, old, add
<1> QED
  BY <1>6, <1>7, ReadStep DEF CheckTax, InTurn

LEMMA InsertedTyped ==
    ASSUME IInv, NEW h \in Edit, NEW id \in Ids \ Used
    PROVE  /\ lines \cup Inserted(h, id) \subseteq Line
           /\ \A l, m \in lines \cup Inserted(h, id) : l.id = m.id => l = m
           /\ IsFiniteSet(lines \cup Inserted(h, id))
<1>1. CASE h.add = {}
  <2>1. Inserted(h, id) = {}
    BY <1>1 DEF Inserted, LineWith, NewLine
  <2> QED
    BY <2>1 DEF IInv, TypeOK
<1>2. CASE h.add # {}
  <2>1. PICK a \in [kind: Kinds, code: Codes, amount: Amounts] : h.add = {a}
    BY <1>2 DEF Edit, NewLines
  <2> DEFINE l == LineWith(h, id, a, a.amount)
  <2>2. Inserted(h, id) = {l} /\ l \in Line /\ l.id = id
    BY <2>1 DEF Inserted, LineWith, Line, Edit
  <2>3. \A m \in lines : m.id # id
    BY DEF Used
  <2> HIDE DEF l
  <2>4. IsFiniteSet(lines \cup {l})
    BY FS_AddElement DEF IInv
  <2> QED
    BY <2>2, <2>3, <2>4 DEF IInv, TypeOK
<1> QED
  BY <1>1, <1>2

LEMMA CommitInv ==
    ASSUME IInv, NEW s \in Sessions,
           CommitRemoval(s) \/ CommitInsert(s) \/ ReadLines(s) \/ CommitTotals(s) \/ CommitInject(s)
    PROVE  IInv'
<1> DEFINE h == sess[s]
<1>1. h \in Edit /\ h.pos \in 1..Len(h.items)
  BY DEF CommitRemoval, CommitInsert, ReadLines, CommitTotals, CommitInject, IInv, InTurn
<1>2. \A pc \in {"check", "remove", "insert", "sum", "store", "inject"} : InTurn([h EXCEPT !.pc = pc])
  BY <1>1 DEF InTurn, Edit
<1>3. ASSUME NEW next, InTurn(next), sess' = [sess EXCEPT ![s] = next]
      PROVE  sess' \in [Sessions -> {Idle} \cup Edit] /\ \A t \in Sessions : InTurn(sess'[t])
  BY <1>3 DEF IInv, TypeOK, InTurn
<1>4. CASE CommitRemoval(s)
  <2>1. IsFiniteSet(lines')
    BY <1>4, FS_Difference DEF CommitRemoval, IInv
  <2>2. AfterRemoval(h.add) \in {"insert", "sum"}
    BY DEF AfterRemoval
  <2>3. InTurn([h EXCEPT !.pc = AfterRemoval(h.add)])
    BY <1>2, <2>2
  <2>4. sess' = [sess EXCEPT ![s] = [h EXCEPT !.pc = AfterRemoval(h.add)]]
    BY <1>4 DEF CommitRemoval, Goto
  <2>5. sess' \in [Sessions -> {Idle} \cup Edit] /\ \A t \in Sessions : InTurn(sess'[t])
    BY <1>3, <2>3, <2>4
  <2> QED
    BY <1>4, <2>1, <2>5 DEF CommitRemoval, IInv, TypeOK
<1>5. CASE CommitInsert(s)
  <2>1. PICK id \in Ids \ Used : lines' = lines \cup Inserted(h, id)
    BY <1>5 DEF CommitInsert
  <2>2. sess' = [sess EXCEPT ![s] = [h EXCEPT !.pc = "sum"]]
    BY <1>5 DEF CommitInsert, Goto
  <2>3. sess' \in [Sessions -> {Idle} \cup Edit] /\ \A t \in Sessions : InTurn(sess'[t])
    BY <1>2, <1>3, <2>2
  <2>4. /\ lines' \subseteq Line /\ IsFiniteSet(lines')
        /\ \A l, m \in lines' : l.id = m.id => l = m
    BY <1>1, <2>1, InsertedTyped
  <2> QED
    BY <1>5, <2>3, <2>4 DEF CommitInsert, IInv, TypeOK
<1>6. CASE ReadLines(s)
  <2> DEFINE next == [h EXCEPT !.pc = "store", !.new = LineTotals(h.slip)]
  <2>1. LineTotals(h.slip) \in Totals
    BY <1>1, SumsAreTotals DEF Edit
  <2>2. InTurn(next)
    BY <1>1, <2>1 DEF InTurn, Edit
  <2>3. sess' = [sess EXCEPT ![s] = next]
    BY <1>6 DEF ReadLines
  <2> QED
    BY <1>6, <2>2, <2>3, ReadStep DEF ReadLines
<1>7. CASE CommitTotals(s)
  <2>1. Stored(totals[h.slip], h) \in Totals
    BY <1>1, MergeTotals DEF Stored, Edit, IInv, TypeOK
  <2>2. totals' \in [Slips -> Totals]
    BY <1>7, <2>1 DEF CommitTotals, IInv, TypeOK
  <2> DEFINE next == IF h.pos < Len(h.items) THEN [h EXCEPT !.pc = "check", !.pos = h.pos + 1] ELSE Idle
  <2>3. InTurn(next)
    <3>1. CASE h.pos < Len(h.items)
      <4>1. h.pos + 1 \in 1..Len(h.items)
        BY <1>1, <3>1 DEF Edit
      <4>2. [h EXCEPT !.pc = "check", !.pos = h.pos + 1] \in Edit
        <5>1. \A n \in Nat : [h EXCEPT !.pc = "check", !.pos = n] \in Edit
          BY <1>1 DEF Edit
        <5>2. h.pos + 1 \in Nat
          BY <4>1
        <5> QED
          BY <5>1, <5>2
      <4> QED
        BY <1>1, <3>1, <4>1, <4>2 DEF InTurn, Edit
    <3>2. CASE ~(h.pos < Len(h.items))
      BY <3>2 DEF InTurn
    <3> QED
      BY <3>1, <3>2
  <2>4. sess' = [sess EXCEPT ![s] = next]
    BY <1>7 DEF CommitTotals, Finish
  <2> HIDE DEF next
  <2>5. sess' \in [Sessions -> {Idle} \cup Edit] /\ \A t \in Sessions : InTurn(sess'[t])
    BY <1>3, <2>3, <2>4
  <2> QED
    BY <1>7, <2>2, <2>5 DEF CommitTotals, IInv, TypeOK
<1>8. CASE CommitInject(s)
  <2>1. PICK id \in Ids \ Used : lines' = lines \cup Inserted(h, id)
    BY <1>8 DEF CommitInject
  <2>2. PICK a \in h.add : totals' = [totals EXCEPT ![h.slip] =
                                        Merge(@, h.seen, WithCommission(h.seen, a.amount))]
    BY <1>8 DEF CommitInject
  <2>3. a.amount \in Nat
    BY <1>1, SlipsAssumption DEF Edit, NewLines
  <2>4. h.slip \in Slips /\ totals[h.slip] \in Totals /\ h.seen \in Totals
    BY <1>1 DEF Edit, IInv, TypeOK
  <2>5. WithCommission(h.seen, a.amount) \in Totals
    BY <2>3, <2>4 DEF Totals, WithCommission
  <2>6. totals' \in [Slips -> Totals]
    BY <2>2, <2>4, <2>5, MergeTotals DEF IInv, TypeOK
  <2>7. /\ lines' \subseteq Line /\ IsFiniteSet(lines')
        /\ \A l, m \in lines' : l.id = m.id => l = m
    BY <1>1, <2>1, InsertedTyped
  <2>8. sess' \in [Sessions -> {Idle} \cup Edit] /\ \A t \in Sessions : InTurn(sess'[t])
    BY <1>3, <1>8 DEF CommitInject, Finish, InTurn
  <2> QED
    BY <1>8, <2>6, <2>7, <2>8 DEF CommitInject, IInv, TypeOK
<1> QED
  BY <1>4, <1>5, <1>6, <1>7, <1>8

LEMMA NextInv == IInv /\ [Next]_vars => IInv'
<1> SUFFICES ASSUME IInv, [Next]_vars PROVE IInv'
  OBVIOUS
<1>1. CASE UNCHANGED vars
  BY <1>1 DEF vars, IInv, TypeOK
<1>2. CASE MovePeriod
  BY <1>2 DEF MovePeriod, Statuses, IInv, TypeOK
<1>3. ASSUME NEW s \in Sessions, Handle(s) PROVE IInv'
  BY <1>3, BeginInv, TaxInv DEF Handle, PostComponent, DropComponent, PostTax, PostTaxes
<1>4. ASSUME NEW s \in Sessions, Commit(s) PROVE IInv'
  <2>1. CASE Fail(s)
    BY <2>1, ReadStep DEF Fail, Finish, InTurn
  <2> QED
    BY <1>4, <2>1, CheckInv, CommitInv DEF Commit
<1> QED
  BY <1>1, <1>2, <1>3, <1>4 DEF Next

LEMMA Invariance == Spec => []IInv
<1> QED
  BY InitInv, NextInv, PTL DEF Spec

\* The slips, their lines and the handlers keep their types: no sum is lost to
\* a negative or missing amount, however handlers interleave or are cut off.
THEOREM TypeCorrect == Spec => []TypeOK
<1>1. IInv => TypeOK
  BY DEF IInv
<1> QED
  BY <1>1, Invariance, PTL

\* Between any two slips of any history, who earns more keeps no less after the
\* suggested tax, and keeps more from a difference of two sen on.
THEOREM EarningMorePays == Spec => []MoreLeavesMore
<1>1. ASSUME IInv PROVE MoreLeavesMore
  <2>1. ASSUME NEW less \in Nat, NEW more \in Nat, less < more
        PROVE  /\ Suggested(more) - Suggested(less) <= more - less
               /\ more - less > 1 => Suggested(more) - Suggested(less) < more - less
    <3>1. PICK e, f : e = Suggested(less) /\ f = Suggested(more)
      OBVIOUS
    <3>2. e \in Nat /\ f \in Nat /\ 100 * (f - e) <= 35 * (more - less) + 109
      BY <2>1, <3>1, SuggestionTakesAPart, SuggestedIsNat
    <3> QED
      BY <2>1, <3>1, <3>2
  <2>2. \A p \in Slips : totals[p].gross \in Nat
    BY <1>1 DEF IInv, TypeOK, Totals
  <2>3. \A a, b \in Nat : b - a > 0 => a < b
    OBVIOUS
  <2>4. \A a, b \in Nat : b - a > 1 => b - a > 0
    OBVIOUS
  <2> QED
    BY <2>1, <2>2, <2>3, <2>4 DEF MoreLeavesMore
<1>2. IInv => MoreLeavesMore
  BY <1>1
<1> QED
  BY <1>2, Invariance, PTL
-----------------------------------------------------------------------------
(***************************************************************************)
(* When requests about one slip do not overlap, and none is cut off        *)
(* between its commits.                                                    *)
(***************************************************************************)
Matches(p) == totals[p] = LineTotals(p)
InTransaction == {"remove", "insert", "sum", "store"}
LastSlip(h) == h.items[Len(h.items)].slip

\* A handler knows the totals of the slip it edits, and only that slip's
\* totals differ from its lines.
Working(h) ==
    /\ h.pc # "check" => /\ h.slip = h.items[h.pos].slip
                         /\ h.seen = totals[h.slip]
    /\ \A p \in Touched(h) : Matches(p) \/ (h.pc \in InTransaction /\ p = h.slip)
    /\ h.pc = "store" => h.new = LineTotals(h.slip)
    /\ h.pc = "remove" => h.drop # {} /\ \A l \in h.drop : l.slip = h.slip
    /\ h.pc = "insert" => h.add # {}
    /\ h.pc = Start(h.drop, h.add) => Matches(h.slip)
    /\ h.pc = "inject" => /\ \E amount \in Amounts : h.add = NewLine("INCOME", "OTHER", amount)
                          /\ h.pos = Len(h.items)
    /\ h.pos < Len(h.items) \/ h.pc = "check" => h.held = totals[LastSlip(h)]
    /\ \A i \in DOMAIN h.items : i < Len(h.items) => h.items[i].slip # LastSlip(h)

Apart ==
    /\ TotalsMatchLines
    /\ \A s \in Sessions : sess[s] # Idle => Working(sess[s])
    /\ \A s, t \in Sessions : s # t => Touched(sess[s]) \cap Touched(sess[t]) = {}

LEMMA TouchedSlips ==
    ASSUME NEW h, InTurn(h)
    PROVE  /\ Touched(h) \subseteq Slips
           /\ Touched(Idle) = {}
           /\ h # Idle => h.items[h.pos].slip \in Touched(h) /\ LastSlip(h) \in Touched(h)
<1>1. Touched(Idle) = {}
  BY DEF Touched, Idle
<1>2. CASE h = Idle
  BY <1>1, <1>2
<1>3. CASE h # Idle
  <2>1. h.items \in Seq(Item) /\ h.pos \in 1..Len(h.items)
    BY <1>3 DEF InTurn, Edit
  <2>2. /\ DOMAIN h.items = 1..Len(h.items) /\ Len(h.items) \in 1..Len(h.items)
        /\ \A i \in 1..Len(h.items) : h.items[i] \in Item
    BY <2>1
  <2>3. \A i \in 1..Len(h.items) : h.items[i].slip \in Slips
    BY <2>2 DEF Item
  <2> QED
    BY <1>1, <2>1, <2>2, <2>3 DEF Touched, LastSlip
<1> QED
  BY <1>2, <1>3

\* Two handlers apart: a step of s that leaves the other slips alone leaves the
\* other handlers working.
LEMMA ApartStep ==
    ASSUME IInv, Apart, NEW s \in Sessions, NEW h, InTurn(h), sess[s] # Idle,
           sess' = [sess EXCEPT ![s] = h],
           \A p \in Slips : p \notin Touched(sess[s])
               => totals'[p] = totals[p] /\ LineTotals(p)' = LineTotals(p),
           \/ h # Idle /\ Touched(h) = Touched(sess[s]) /\ Working(h)'
           \/ h = Idle /\ \A p \in Touched(sess[s]) : Matches(p)'
    PROVE  Apart'
<1>1. \A t \in Sessions : sess'[t] = IF t = s THEN h ELSE sess[t]
  BY DEF IInv, TypeOK
<1>2. Touched(h) \subseteq Touched(sess[s])
  BY TouchedSlips DEF InTurn
<1>3. ASSUME NEW t \in Sessions, t # s, sess[t] # Idle
      PROVE  \A k : k = sess[t] => Working(k)'
  <2> SUFFICES ASSUME NEW k, k = sess[t] PROVE Working(k)'
    OBVIOUS
  <2>1. k = sess[t]
    OBVIOUS
  <2>2. /\ Working(k) /\ Touched(k) \subseteq Slips /\ Touched(k) \cap Touched(sess[s]) = {}
        /\ k.items[k.pos].slip \in Touched(k) /\ LastSlip(k) \in Touched(k)
    BY <1>3, <2>1, TouchedSlips DEF IInv, Apart
  <2>3. \A p \in Touched(k) : totals'[p] = totals[p] /\ LineTotals(p)' = LineTotals(p)
    BY <2>2
  <2>4. \A p \in Touched(k) : Matches(p) => Matches(p)'
    BY <2>3 DEF Matches
  <2>5. Working(k)'
    <3>1. k.pc # "check" => k.slip \in Touched(k)
      BY <2>2 DEF Working
    <3> QED
      BY <2>2, <2>3, <2>4, <3>1 DEF Working, LastSlip, Touched, Start, AfterRemoval
  <2> QED
    BY <2>5
<1>4. (\A t \in Sessions : sess[t] # Idle => Working(sess[t]))'
  <2> SUFFICES ASSUME NEW t \in Sessions, (sess[t] # Idle)' PROVE Working(sess[t])'
    OBVIOUS
  <2>1. PICK k : k = sess'[t]
    OBVIOUS
  <2>2. Working(k)'
    BY <1>1, <1>3, <2>1
  <2> QED
    BY <2>1, <2>2
<1>5. \A t, r \in Sessions : t # r => Touched(sess'[t]) \cap Touched(sess'[r]) = {}
  BY <1>1, <1>2 DEF Apart
<1>6. TotalsMatchLines'
  <2> SUFFICES ASSUME NEW p \in Slips, ~AtWork(p)' PROVE Matches(p)'
    BY DEF TotalsMatchLines, Matches
  <2>1. p \notin Touched(h) /\ \A t \in Sessions : t # s => p \notin Touched(sess[t])
    BY <1>1 DEF AtWork
  <2>2. CASE p \in Touched(sess[s])
    BY <2>1, <2>2
  <2>3. CASE p \notin Touched(sess[s])
    <3>1. ~AtWork(p)
      BY <2>1, <2>3 DEF AtWork
    <3> QED
      BY <2>3, <3>1 DEF Apart, TotalsMatchLines, Matches
  <2> QED
    BY <2>2, <2>3
<1> QED
  BY <1>4, <1>5, <1>6 DEF Apart

\* A handler begins with slips nobody is working on.
LEMMA ApartBegin ==
    ASSUME IInv, Apart, Exclusive = TRUE, NEW s \in Sessions, NEW h, InTurn(h), h # Idle,
           Begin(s, h), (\A p \in Touched(h) : Matches(p)) => Working(h)
    PROVE  Apart'
<1>1. \A t \in Sessions : sess'[t] = IF t = s THEN h ELSE sess[t]
  BY DEF Begin, IInv, TypeOK
<1>2. \A t \in Sessions : Touched(sess[t]) \cap Touched(h) = {}
  BY DEF Begin
<1>3. \A p \in Slips : totals'[p] = totals[p] /\ LineTotals(p)' = LineTotals(p)
  BY DEF Begin, tables, LineTotals, Incomes, Deductions, LinesOf
<1>4. \A p \in Touched(h) : Matches(p)
  BY <1>2, TouchedSlips DEF Apart, TotalsMatchLines, AtWork, Matches
<1>5. \A p \in Slips : Matches(p) => Matches(p)'
  BY <1>3 DEF Matches
<1>6. (\A t \in Sessions : sess[t] # Idle => Working(sess[t]))'
  <2> SUFFICES ASSUME NEW t \in Sessions, (sess[t] # Idle)' PROVE Working(sess[t])'
    OBVIOUS
  <2>1. PICK k : k = sess'[t]
    OBVIOUS
  <2>2. Working(k) /\ InTurn(k) /\ k # Idle
    BY <1>1, <1>4, <2>1 DEF Apart, IInv
  <2>3. /\ Touched(k) \subseteq Slips /\ k.items[k.pos].slip \in Slips /\ LastSlip(k) \in Slips
        /\ k.pc # "check" => k.slip \in Slips
    BY <2>2, TouchedSlips DEF Working
  <2>4. Working(k)'
    BY <1>3, <1>5, <2>2, <2>3 DEF Working, LastSlip, Touched, Start, AfterRemoval
  <2> QED
    BY <2>1, <2>4
<1>7. \A t, r \in Sessions : t # r => Touched(sess'[t]) \cap Touched(sess'[r]) = {}
  BY <1>1, <1>2 DEF Apart
<1>8. TotalsMatchLines'
  <2> SUFFICES ASSUME NEW p \in Slips, ~AtWork(p)' PROVE Matches(p)'
    BY DEF TotalsMatchLines, Matches
  <2>1. sess[s] = Idle
    BY DEF Begin
  <2>2. \A t \in Sessions : p \notin Touched(sess[t])
    <3> SUFFICES ASSUME NEW t \in Sessions PROVE p \notin Touched(sess[t])
      OBVIOUS
    <3>1. CASE t = s
      BY <2>1, <3>1, TouchedSlips DEF InTurn
    <3>2. CASE t # s
      BY <1>1, <3>2 DEF AtWork
    <3> QED
      BY <3>1, <3>2
  <2> QED
    BY <1>5, <2>2 DEF AtWork, Apart, TotalsMatchLines, Matches
<1> QED
  BY <1>6, <1>7, <1>8 DEF Apart

LEMMA SameLines ==
    ASSUME lines' = lines
    PROVE  \A p \in Slips : LineTotals(p)' = LineTotals(p)
  BY DEF LineTotals, Incomes, Deductions, LinesOf

LEMMA HandlerFields ==
    ASSUME NEW op, NEW pc, NEW p, NEW drop, NEW add, NEW items, NEW h,
           h = Handler(op, pc, p, drop, add, items)
    PROVE  /\ h.op = op /\ h.pc = pc /\ h.slip = p /\ h.drop = drop /\ h.add = add
           /\ h.items = items /\ h.pos = 1 /\ h.seen = totals[p]
           /\ h.held = totals[items[Len(items)].slip]
           /\ LastSlip(h) = items[Len(items)].slip
  BY DEF Handler, LastSlip

LEMMA EditApart ==
    ASSUME IInv, Apart, Exclusive = TRUE, NEW s \in Sessions,
           \/ \E p \in Slips, entry \in Entries : AddComponent(s, p, entry)
           \/ \E l \in lines : DeleteComponent(s, l)
           \/ \E p \in Slips, amount \in Amounts : Inject(s, p, amount)
    PROVE  Apart'
<1>1. ASSUME NEW op \in {"edit", "inject"}, NEW pc \in {"remove", "insert", "inject"},
             NEW p \in Slips, NEW drop \in SUBSET Line, NEW add \in NewLines,
             \A l \in drop : l.slip = p,
             pc = "remove" => drop # {},
             pc = "insert" => add # {},
             pc = "inject" => \E amount \in Amounts : add = NewLine("INCOME", "OTHER", amount),
             BeginEdit(s, op, pc, p, drop, add)
      PROVE  Apart'
  <2> DEFINE items == <<[slip |-> p, amount |-> 0]>>
  <2>1. PICK h : h = Handler(op, pc, p, drop, add, items)
    OBVIOUS
  <2>2. items \in Seq(Item) /\ items # <<>>
    BY DEF Item
  <2>3. /\ Len(items) = 1 /\ DOMAIN items = {1} /\ items[1].slip = p
    OBVIOUS
  <2> HIDE DEF items
  <2>4. InTurn(h)
    BY <2>1, <2>2, HandlerTyped DEF IInv
  <2>5. h # Idle
    BY <2>1 DEF Handler, Idle
  <2>6. Begin(s, h)
    BY <1>1, <2>1 DEF BeginEdit, items
  <2>7. Touched(h) = {p} /\ LastSlip(h) = p
    BY <2>1, <2>3 DEF Touched, Handler, LastSlip
  <2>8. (\A q \in Touched(h) : Matches(q)) => Working(h)
    <3>1. /\ h.pc = pc /\ h.slip = p /\ h.drop = drop /\ h.add = add /\ h.items = items
          /\ h.pos = 1 /\ h.seen = totals[p] /\ h.held = totals[items[Len(items)].slip]
      BY <2>1, HandlerFields
    <3>2. h.held = totals[LastSlip(h)] /\ h.slip = h.items[h.pos].slip /\ h.seen = totals[h.slip]
      BY <2>3, <2>7, <3>1
    <3>3. \A i \in DOMAIN h.items : i < Len(h.items) => h.items[i].slip # LastSlip(h)
      <4>1. Len(h.items) = 1 /\ DOMAIN h.items = {1}
        BY <2>3, <3>1
      <4>2. \A i \in {1} : ~(i < 1)
        OBVIOUS
      <4> QED
        BY <4>1, <4>2
    <3>4. h.pc = "inject" => /\ \E amount \in Amounts : h.add = NewLine("INCOME", "OTHER", amount)
                             /\ h.pos = Len(h.items)
      BY <1>1, <2>3, <3>1
    <3>5. /\ h.pc = "remove" => h.drop # {} /\ \A l \in h.drop : l.slip = h.slip
          /\ h.pc = "insert" => h.add # {}
          /\ h.pc # "store"
      BY <1>1, <3>1
    <3>6. h.slip \in Touched(h)
      BY <2>7, <3>1
    <3> QED
      BY <3>2, <3>3, <3>4, <3>5, <3>6 DEF Working
  <2> QED
    BY <2>4, <2>5, <2>6, <2>8, ApartBegin
<1>2. ASSUME NEW p \in Slips, NEW entry \in Entries, AddComponent(s, p, entry)
      PROVE  Apart'
  <2>1. PICK add : add = {entry}
    OBVIOUS
  <2>2. add \in NewLines /\ add # {} /\ {} \in SUBSET Line
    BY <2>1, SlipsAssumption DEF NewLines, Kinds, Codes
  <2>3. BeginEdit(s, "edit", "insert", p, {}, add)
    BY <1>2, <2>1 DEF AddComponent
  <2> QED
    BY <1>1, <2>2, <2>3
<1>3. ASSUME NEW l \in lines, DeleteComponent(s, l) PROVE Apart'
  <2>1. l.slip \in Slips /\ {l} \in SUBSET Line /\ {} \in NewLines
    BY DEF IInv, TypeOK, Line, NewLines
  <2> QED
    BY <1>1, <1>3, <2>1 DEF DeleteComponent
<1>4. ASSUME NEW p \in Slips, NEW amount \in Amounts, Inject(s, p, amount) PROVE Apart'
  <2>1. NewLine("INCOME", "OTHER", amount) \in NewLines
    BY DEF NewLines, NewLine, Kinds, Codes
  <2> QED
    BY <1>1, <1>4, <2>1 DEF Inject
<1> QED
  BY <1>2, <1>3, <1>4

LEMMA TaxApart ==
    ASSUME IInv, Apart, Exclusive = TRUE, NEW s \in Sessions,
           \/ \E item \in Item : SetPph21(s, item)
           \/ \E i, j \in Item : i.slip # j.slip /\ BulkSetPph21(s, <<i, j>>)
    PROVE  Apart'
<1>1. ASSUME NEW items \in Seq(Item), items # <<>>, NEW p \in Slips,
             \A i \in 1..Len(items) : i < Len(items) => items[i].slip # items[Len(items)].slip,
             Begin(s, Handler("tax", "check", p, {}, {}, items))
      PROVE  Apart'
  <2>1. PICK h : h = Handler("tax", "check", p, {}, {}, items)
    OBVIOUS
  <2>2. InTurn(h)
    BY <1>1, <2>1, HandlerTyped DEF IInv, NewLines
  <2>3. h # Idle
    BY <2>1 DEF Handler, Idle
  <2>4. (\A q \in Touched(h) : Matches(q)) => Working(h)
    <3>1. /\ h.pc = "check" /\ h.items = items /\ h.held = totals[LastSlip(h)]
          /\ LastSlip(h) = items[Len(items)].slip
      BY <2>1, HandlerFields
    <3>2. DOMAIN items = 1..Len(items)
      BY <1>1
    <3>3. h.pc # Start(h.drop, h.add)
      BY <3>1 DEF Start, AfterRemoval
    <3> QED
      BY <1>1, <3>1, <3>2, <3>3 DEF Working
  <2> QED
    BY <1>1, <2>1, <2>2, <2>3, <2>4, ApartBegin
<1>2. ASSUME NEW item \in Item, SetPph21(s, item) PROVE Apart'
  <2>1. PICK items : items = <<item>>
    OBVIOUS
  <2>2. items \in Seq(Item) /\ items # <<>> /\ Len(items) = 1 /\ item.slip \in Slips
    BY <2>1 DEF Item
  <2>3. Begin(s, Handler("tax", "check", item.slip, {}, {}, items))
    BY <1>2, <2>1 DEF SetPph21
  <2> QED
    BY <1>1, <2>2, <2>3
<1>3. ASSUME NEW i \in Item, NEW j \in Item, i.slip # j.slip, BulkSetPph21(s, <<i, j>>)
      PROVE  Apart'
  <2>1. PICK items : items = <<i, j>>
    OBVIOUS
  <2>2. /\ items \in Seq(Item) /\ items # <<>> /\ items[1].slip \in Slips
        /\ Len(items) = 2 /\ items[1] = i /\ items[2] = j
    BY <2>1 DEF Item
  <2>3. Begin(s, Handler("tax", "check", items[1].slip, {}, {}, items))
    BY <1>3, <2>1 DEF BulkSetPph21
  <2>4. \A k \in 1..2 : k < 2 => items[k].slip # items[2].slip
    BY <1>3, <2>2
  <2> QED
    BY <1>1, <2>2, <2>3, <2>4
<1> QED
  BY <1>2, <1>3

LEMMA CheckApart ==
    ASSUME IInv, Apart, NEW s \in Sessions, CheckTax(s)
    PROVE  Apart'
<1>1. PICK h : h = sess[s]
  OBVIOUS
<1>2. h \in Edit /\ h.pos \in 1..Len(h.items) /\ h # Idle /\ InTurn(h) /\ Working(h) /\ h.pc = "check"
  BY <1>1 DEF CheckTax, IInv, InTurn, Idle, Apart
<1> DEFINE item == h.items[h.pos]
           seen == IF h.pos = Len(h.items) THEN h.held ELSE totals[item.slip]
           old  == TaxLines(item.slip)
           add  == IF item.amount = 0 THEN {} ELSE NewLine("DEDUCTION", "PPH21", item.amount)
<1>3. seen = totals[item.slip]
  BY <1>2 DEF Working, LastSlip
<1>4. \A l \in old : l.slip = item.slip
  BY DEF TaxLines, LinesOf
<1>5. Start(old, add) \in {"remove", "insert", "sum"}
  BY DEF Start, AfterRemoval
<1>6. PICK n : n = [h EXCEPT !.pc = Start(old, add), !.slip = item.slip,
                             !.seen = seen, !.drop = old, !.add = add]
  OBVIOUS
<1>7. sess' = [sess EXCEPT ![s] = n] \/ sess' = [sess EXCEPT ![s] = Idle]
  BY <1>1, <1>6 DEF CheckTax, Finish
<1>8. /\ n.pc = Start(old, add) /\ n.slip = item.slip /\ n.seen = seen /\ n.drop = old
      /\ n.items = h.items /\ n.pos = h.pos /\ n.held = h.held /\ n.add = add
  BY <1>2, <1>6 DEF Edit
<1>9. item \in Item
  BY <1>2 DEF Edit
<1>10. item.slip \in Slips /\ add \in NewLines /\ old \in SUBSET Line
  BY <1>9, SlipsAssumption DEF Item, NewLines, NewLine, Kinds, Codes, TaxLines, LinesOf, IInv, TypeOK
<1>11. seen \in Totals
  BY <1>3, <1>10 DEF IInv, TypeOK
<1> HIDE DEF item, seen, old, add
<1>12. InTurn(n) /\ n # Idle
  BY <1>2, <1>5, <1>6, <1>10, <1>11 DEF InTurn, Edit, Idle
<1>13. Touched(n) = Touched(h)
  BY <1>8 DEF Touched
<1>14. \A p \in Slips : totals'[p] = totals[p] /\ LineTotals(p)' = LineTotals(p)
  BY SameLines DEF CheckTax, tables
<1>15. Touched(h) \subseteq Slips /\ LastSlip(h) \in Touched(h)
  BY <1>2, TouchedSlips
<1>16. \A p \in Touched(h) : Matches(p)'
  BY <1>2, <1>14, <1>15 DEF Working, Matches, InTransaction
<1>17. Working(n)'
  <2>1. n.pc # "check" => n.slip = n.items[n.pos].slip /\ n.seen = totals'[n.slip]
    BY <1>3, <1>8, <1>10, <1>14 DEF item
  <2>2. /\ n.pc = "remove" => n.drop # {} /\ \A l \in n.drop : l.slip = n.slip
        /\ n.pc = "insert" => n.add # {}
    BY <1>4, <1>8 DEF Start, AfterRemoval
  <2>3. n.pos < Len(n.items) => n.held = totals'[LastSlip(n)]
    BY <1>2, <1>8, <1>14, <1>15 DEF Working, LastSlip
  <2>4. \A i \in DOMAIN n.items : i < Len(n.items) => n.items[i].slip # LastSlip(n)
    BY <1>2, <1>8 DEF Working, LastSlip
  <2>5. n.slip \in Touched(h)
    BY <1>2, <1>8, TouchedSlips DEF item
  <2> QED
    BY <1>5, <1>8, <1>13, <1>16, <2>1, <2>2, <2>3, <2>4, <2>5 DEF Working
<1>18. CASE sess' = [sess EXCEPT ![s] = n]
  BY <1>1, <1>2, <1>12, <1>13, <1>14, <1>17, <1>18, ApartStep
<1>19. CASE sess' = [sess EXCEPT ![s] = Idle]
  BY <1>1, <1>2, <1>14, <1>16, <1>19, ApartStep DEF InTurn
<1> QED
  BY <1>7, <1>18, <1>19

\* A handler that edits the lines of its slip, and goes on with the same slip.
LEMMA EditStep ==
    ASSUME IInv, Apart, NEW s \in Sessions, NEW CONSTANT h, h = sess[s], h # Idle,
           h.pc \in InTransaction, NEW pc \in InTransaction \ {"remove"}, UNCHANGED totals,
           pc = "insert" => h.add # {}, pc # Start(h.drop, h.add),
           \A p \in Slips : p # h.slip => LineTotals(p)' = LineTotals(p),
           NEW CONSTANT new \in Totals, pc = "store" => new = LineTotals(h.slip)',
           sess' = [sess EXCEPT ![s].pc = pc, ![s].new = new]
    PROVE  Apart'
<1>1. h = sess[s]
  OBVIOUS
<1>2. h \in Edit /\ h.pos \in 1..Len(h.items) /\ h # Idle /\ InTurn(h) /\ Working(h)
  BY <1>1 DEF IInv, InTurn, Apart
<1>3. PICK n : n = [h EXCEPT !.pc = pc, !.new = new]
  OBVIOUS
<1>4. /\ n.pc = pc /\ n.new = new /\ n.slip = h.slip /\ n.seen = h.seen /\ n.items = h.items
      /\ n.pos = h.pos /\ n.held = h.held /\ n.drop = h.drop /\ n.add = h.add
  BY <1>2, <1>3 DEF Edit
<1>5. InTurn(n) /\ n # Idle
  <2>1. n \in Edit
    BY <1>2, <1>3 DEF Edit, InTransaction
  <2> QED
    BY <1>2, <1>4, <2>1 DEF InTurn, Edit, Idle
<1>6. Touched(n) = Touched(h) /\ LastSlip(n) = LastSlip(h)
  BY <1>4 DEF Touched, LastSlip
<1>7. /\ Touched(h) \subseteq Slips /\ LastSlip(h) \in Touched(h) /\ h.slip \in Touched(h)
      /\ h.slip = h.items[h.pos].slip /\ h.seen = totals[h.slip]
  BY <1>1, <1>2, TouchedSlips DEF Working, InTransaction
<1>8. sess' = [sess EXCEPT ![s] = n]
  BY <1>1, <1>3 DEF IInv, TypeOK
<1>9. \A p \in Touched(h) : p # h.slip => Matches(p)'
  BY <1>1, <1>2, <1>7 DEF Working, Matches
<1>10. Working(n)'
  <2>1. n.slip = n.items[n.pos].slip /\ n.seen = totals'[n.slip]
    BY <1>4, <1>7
  <2>2. \A p \in Touched(n) : Matches(p)' \/ (n.pc \in InTransaction /\ p = n.slip)
    BY <1>4, <1>6, <1>9
  <2>3. n.pc = "store" => n.new = LineTotals(n.slip)'
    BY <1>1, <1>4
  <2>4. n.pos < Len(n.items) => n.held = totals'[LastSlip(n)]
    BY <1>2, <1>4, <1>6 DEF Working
  <2>5. \A i \in DOMAIN n.items : i < Len(n.items) => n.items[i].slip # LastSlip(n)
    BY <1>2, <1>4, <1>6 DEF Working
  <2>6. /\ n.pc \notin {"check", "remove", "inject", Start(n.drop, n.add)}
        /\ n.pc = "insert" => n.add # {}
    BY <1>1, <1>4 DEF InTransaction
  <2>7. LastSlip(n)' = LastSlip(n) /\ Touched(n)' = Touched(n)
    BY DEF LastSlip, Touched
  <2> QED
    BY <2>1, <2>2, <2>3, <2>4, <2>5, <2>6, <2>7 DEF Working
<1> QED
  BY <1>1, <1>2, <1>5, <1>6, <1>7, <1>8, <1>10, ApartStep

LEMMA LinesApart ==
    ASSUME IInv, Apart, NEW s \in Sessions, CommitRemoval(s) \/ CommitInsert(s) \/ ReadLines(s)
    PROVE  Apart'
<1>0. PICK h : h = sess[s]
  OBVIOUS
<1>1. h \in Edit /\ h # Idle /\ Working(h) /\ h = sess[s]
  BY <1>0 DEF CommitRemoval, CommitInsert, ReadLines, IInv, InTurn, Apart
<1>2. h.slip \in Slips /\ h.new \in Totals
  BY <1>1 DEF Edit
<1>3. \A pc : [sess EXCEPT ![s].pc = pc] = [sess EXCEPT ![s].pc = pc, ![s].new = h.new]
  BY <1>1 DEF Edit, IInv, TypeOK
<1>4. CASE CommitRemoval(s)
  <2>1. h.drop # {} /\ \A l \in h.drop : l.slip = h.slip
    BY <1>1, <1>4 DEF CommitRemoval, Working
  <2>2. \A p \in Slips : p # h.slip => LineTotals(p)' = LineTotals(p)
    <3> SUFFICES ASSUME NEW p \in Slips, p # h.slip PROVE LineTotals(p)' = LineTotals(p)
      OBVIOUS
    <3>1. LinesOf(p)' = LinesOf(p)
      BY <1>1, <1>4, <2>1 DEF CommitRemoval, LinesOf
    <3> QED
      BY <3>1 DEF LineTotals, Incomes, Deductions
  <2>3. AfterRemoval(h.add) \in {"insert", "sum"}
    BY DEF AfterRemoval
  <2>4. sess' = [sess EXCEPT ![s].pc = AfterRemoval(h.add)]
    BY <1>1, <1>4 DEF CommitRemoval, Goto
  <2>5. /\ AfterRemoval(h.add) \in InTransaction \ {"remove"} /\ AfterRemoval(h.add) # "store"
        /\ sess' = [sess EXCEPT ![s].pc = AfterRemoval(h.add), ![s].new = h.new]
    BY <1>3, <2>3, <2>4 DEF InTransaction
  <2> QED
    <3>1. /\ h.pc \in InTransaction /\ UNCHANGED totals
          /\ AfterRemoval(h.add) = "insert" => h.add # {}
          /\ AfterRemoval(h.add) # Start(h.drop, h.add)
      BY <1>1, <1>4, <2>1, <2>3 DEF CommitRemoval, InTransaction, Start, AfterRemoval
    <3> QED
      BY <1>1, <1>2, <2>2, <2>5, <3>1, EditStep
<1>5. CASE CommitInsert(s)
  <2>1. PICK id \in Ids \ Used : lines' = lines \cup Inserted(h, id)
    BY <1>1, <1>5 DEF CommitInsert
  <2>2. \A p \in Slips : p # h.slip => LineTotals(p)' = LineTotals(p)
    <3> SUFFICES ASSUME NEW p \in Slips, p # h.slip PROVE LineTotals(p)' = LineTotals(p)
      OBVIOUS
    <3>1. LinesOf(p)' = LinesOf(p)
      BY <2>1 DEF Inserted, LineWith, LinesOf
    <3> QED
      BY <3>1 DEF LineTotals, Incomes, Deductions
  <2>3. sess' = [sess EXCEPT ![s].pc = "sum", ![s].new = h.new]
    BY <1>3, <1>5 DEF CommitInsert, Goto
  <2>4. "sum" # Start(h.drop, h.add)
    BY <1>1, <1>5 DEF CommitInsert, Working, Start, AfterRemoval
  <2> QED
    <3>1. /\ h.pc \in InTransaction /\ UNCHANGED totals
          /\ "sum" \in InTransaction \ {"remove"} /\ "sum" # "insert" /\ "sum" # "store"
      BY <1>1, <1>5 DEF CommitInsert, InTransaction
    <3> QED
      BY <1>1, <1>2, <2>2, <2>3, <2>4, <3>1, EditStep
<1>6. CASE ReadLines(s)
  <2>1. LineTotals(h.slip) \in Totals
    BY <1>2, SumsAreTotals
  <2>2. \A p \in Slips : LineTotals(p)' = LineTotals(p)
    BY <1>6, SameLines DEF ReadLines, tables
  <2>3. PICK new : new = LineTotals(h.slip)
    OBVIOUS
  <2>4. sess' = [sess EXCEPT ![s].pc = "store", ![s].new = new]
    BY <1>1, <1>6, <2>3 DEF ReadLines
  <2>5. new = LineTotals(h.slip)'
    BY <1>2, <2>2, <2>3
  <2>6. h.pc \in InTransaction /\ "store" \in InTransaction \ {"remove"} /\ UNCHANGED totals
    BY <1>1, <1>6 DEF ReadLines, InTransaction, tables
  <2>7. new \in Totals /\ "store" # Start(h.drop, h.add)
    BY <2>1, <2>3 DEF Start, AfterRemoval
  <2> QED
    BY <1>1, <2>2, <2>4, <2>5, <2>6, <2>7, EditStep
<1> QED
  BY <1>4, <1>5, <1>6

LEMMA TotalsApart ==
    ASSUME IInv, Apart, NEW s \in Sessions, CommitTotals(s)
    PROVE  Apart'
<1>1. PICK h : h = sess[s]
  OBVIOUS
<1>2. /\ h \in Edit /\ h.pos \in 1..Len(h.items) /\ h # Idle /\ InTurn(h) /\ Working(h)
      /\ h.pc = "store"
  BY <1>1 DEF CommitTotals, IInv, InTurn, Apart
<1>3. /\ Touched(h) \subseteq Slips /\ LastSlip(h) \in Touched(h) /\ h.slip \in Touched(h)
      /\ h.slip = h.items[h.pos].slip /\ h.seen = totals[h.slip] /\ h.new = LineTotals(h.slip)
  BY <1>2, TouchedSlips DEF Working
<1>4. h.seen \in Totals /\ h.new \in Totals /\ h.slip \in Slips
  BY <1>2 DEF Edit
<1>5. totals' = [totals EXCEPT ![h.slip] = h.new]
  <2>1. totals[h.slip] \in Totals
    BY <1>4 DEF IInv, TypeOK
  <2>2. Stored(totals[h.slip], h) = h.new
    BY <1>3, <1>4, <2>1, MergeTotals DEF Stored
  <2>3. totals' = [totals EXCEPT ![h.slip] = Stored(totals[h.slip], h)]
    BY <1>1 DEF CommitTotals
  <2> QED
    BY <2>2, <2>3
<1>6. \A p \in Slips : LineTotals(p)' = LineTotals(p)
  BY SameLines DEF CommitTotals
<1>7. \A p \in Slips : totals'[p] = IF p = h.slip THEN h.new ELSE totals[p]
  BY <1>5 DEF IInv, TypeOK
<1>8. \A p \in Touched(h) : Matches(p)'
  BY <1>2, <1>3, <1>6, <1>7 DEF Working, Matches
<1>9. \A p \in Slips : p \notin Touched(sess[s])
          => totals'[p] = totals[p] /\ LineTotals(p)' = LineTotals(p)
  BY <1>1, <1>3, <1>6, <1>7
<1>10. CASE h.pos < Len(h.items)
  <2>1. PICK n : n = [h EXCEPT !.pc = "check", !.pos = h.pos + 1]
    OBVIOUS
  <2>2. n.pc = "check" /\ n.pos = h.pos + 1 /\ n.items = h.items /\ n.held = h.held
    BY <1>2, <2>1 DEF Edit
  <2>3. sess' = [sess EXCEPT ![s] = n]
    BY <1>1, <1>10, <2>1 DEF CommitTotals, IInv, TypeOK
  <2>4. n = sess'[s]
    BY <2>3 DEF IInv, TypeOK
  <2>5. InTurn(n) /\ n # Idle
    <3>1. InTurn(sess'[s])
      <4>1. IInv'
        BY CommitInv
      <4> QED
        BY <4>1 DEF IInv
    <3> QED
      <4>1. n.op = h.op /\ h.op # "idle"
        BY <1>2, <2>1 DEF Edit
      <4> QED
        BY <2>4, <3>1, <4>1 DEF Idle
  <2>6. LastSlip(h) # h.slip
    BY <1>2, <1>3, <1>10 DEF Working
  <2>7. Touched(n) = Touched(h) /\ LastSlip(n) = LastSlip(h)
    BY <2>2 DEF Touched, LastSlip
  <2>8. n.held = totals'[LastSlip(n)]
    BY <1>2, <1>3, <1>7, <1>10, <2>2, <2>6, <2>7 DEF Working
  <2>9. \A i \in DOMAIN n.items : i < Len(n.items) => n.items[i].slip # LastSlip(n)
    BY <1>2, <2>2, <2>7 DEF Working
  <2>10. Working(n)'
    <3>1. LastSlip(n)' = LastSlip(n) /\ Touched(n)' = Touched(n)
      BY DEF LastSlip, Touched
    <3>2. n.pc # Start(n.drop, n.add)
      BY <2>2 DEF Start, AfterRemoval
    <3> QED
      BY <1>8, <2>2, <2>7, <2>8, <2>9, <3>1, <3>2 DEF Working
  <2> QED
    BY <1>1, <1>2, <1>9, <2>3, <2>5, <2>7, <2>10, ApartStep
<1>11. CASE ~(h.pos < Len(h.items))
  <2>1. sess' = [sess EXCEPT ![s] = Idle]
    BY <1>1, <1>11 DEF CommitTotals, Finish
  <2> QED
    BY <1>1, <1>2, <1>8, <1>9, <2>1, ApartStep DEF InTurn
<1> QED
  BY <1>10, <1>11

\* Adding a line with a fresh id adds its amount to the sum.
LEMMA SumInserted ==
    ASSUME IInv, NEW p \in Slips, NEW amount \in Amounts, NEW id \in Ids \ Used,
           lines' = lines \cup {[id |-> id, slip |-> p, kind |-> "INCOME", code |-> "OTHER", amount |-> amount]}
    PROVE  /\ \A q \in Slips : q # p => LineTotals(q)' = LineTotals(q)
           /\ LineTotals(p)' = WithCommission(LineTotals(p), amount)
<1> DEFINE l == [id |-> id, slip |-> p, kind |-> "INCOME", code |-> "OTHER", amount |-> amount]
<1>1. l \notin lines
  BY DEF Used
<1>2. \A q \in Slips : q # p => LinesOf(q)' = LinesOf(q)
  BY DEF LinesOf
<1>3. Incomes(p)' = Incomes(p) \cup {l} /\ Deductions(p)' = Deductions(p) /\ l \notin Incomes(p)
  BY <1>1 DEF Incomes, Deductions, LinesOf
<1>4. IsFiniteSet(Incomes(p)) /\ \A m \in Incomes(p) : m.amount \in Nat
  <2>1. Incomes(p) \subseteq lines
    BY DEF Incomes, LinesOf
  <2>2. \A m \in lines : m.amount \in Nat
    BY SlipsAssumption DEF IInv, TypeOK, Line
  <2> QED
    BY <2>1, <2>2, FS_Subset DEF IInv
<1>5. SumOf(Incomes(p)') = SumOf(Incomes(p)) + amount
  <2>1. l.amount = amount /\ amount \in Nat
    BY SlipsAssumption
  <2> HIDE DEF l
  <2> QED
    BY <1>3, <1>4, <2>1, SumOfWithRow
<1>6. LineTotals(p)' = WithCommission(LineTotals(p), amount)
  <2>1. SumOf(Incomes(p)) \in Int /\ SumOf(Deductions(p)) \in Int /\ amount \in Int
    BY SumsAreTotals, SlipsAssumption DEF LineTotals, Totals
  <2> QED
    BY <1>3, <1>5, <2>1 DEF LineTotals, WithCommission
<1> QED
  BY <1>2, <1>6 DEF LineTotals, Incomes, Deductions

LEMMA InjectApart ==
    ASSUME IInv, Apart, NEW s \in Sessions, CommitInject(s)
    PROVE  Apart'
<1>1. PICK h : h = sess[s]
  OBVIOUS
<1>2. /\ h \in Edit /\ h.pos \in 1..Len(h.items) /\ h # Idle /\ InTurn(h) /\ Working(h)
      /\ h.pc = "inject"
  BY <1>1 DEF CommitInject, IInv, InTurn, Apart
<1>3. /\ h.slip \in Slips /\ h.seen = totals[h.slip] /\ h.slip \in Touched(h)
      /\ Matches(h.slip) /\ Touched(h) \subseteq Slips
  BY <1>2, TouchedSlips DEF Working, InTransaction
<1>4. PICK amount \in Amounts : h.add = NewLine("INCOME", "OTHER", amount)
  BY <1>2 DEF Working
<1>5. PICK id \in Ids \ Used : lines' = lines \cup Inserted(h, id)
  BY <1>1 DEF CommitInject
<1>6. lines' = lines \cup {[id |-> id, slip |-> h.slip, kind |-> "INCOME", code |-> "OTHER", amount |-> amount]}
  BY <1>4, <1>5 DEF Inserted, LineWith, NewLine
<1>7. totals' = [totals EXCEPT ![h.slip] = Merge(@, h.seen, WithCommission(h.seen, amount))]
  <2>1. PICK a \in h.add : totals' = [totals EXCEPT ![h.slip] =
                                         Merge(@, h.seen, WithCommission(h.seen, a.amount))]
    BY <1>1 DEF CommitInject
  <2>2. a.amount = amount
    BY <1>4, <2>1 DEF NewLine
  <2> QED
    BY <2>1, <2>2
<1>8. /\ \A q \in Slips : q # h.slip => LineTotals(q)' = LineTotals(q)
      /\ LineTotals(h.slip)' = WithCommission(LineTotals(h.slip), amount)
  BY <1>3, <1>6, SumInserted
<1>9. totals[h.slip] \in Totals /\ WithCommission(h.seen, amount) \in Totals
  <2>1. totals[h.slip] \in Totals
    BY <1>3 DEF IInv, TypeOK
  <2> QED
    BY <1>3, <2>1, SlipsAssumption DEF WithCommission, Totals
<1>10. Merge(totals[h.slip], h.seen, WithCommission(h.seen, amount)) = WithCommission(h.seen, amount)
  BY <1>3, <1>9, MergeTotals
<1>11. \A q \in Slips : totals'[q] = IF q = h.slip THEN WithCommission(h.seen, amount) ELSE totals[q]
  BY <1>7, <1>10 DEF IInv, TypeOK
<1>12. Matches(h.slip)'
  BY <1>3, <1>8, <1>11 DEF Matches
<1>13. \A q \in Touched(h) : Matches(q)'
  BY <1>2, <1>3, <1>8, <1>11, <1>12 DEF Working, Matches, InTransaction
<1>14. sess' = [sess EXCEPT ![s] = Idle]
  BY DEF CommitInject, Finish
<1> QED
  BY <1>1, <1>2, <1>3, <1>8, <1>11, <1>13, <1>14, ApartStep DEF InTurn

LEMMA FailApart ==
    ASSUME IInv, Apart, MayFail = FALSE, NEW s \in Sessions, Fail(s)
    PROVE  Apart'
<1>1. PICK h : h = sess[s]
  OBVIOUS
<1>2. h # Idle /\ InTurn(h) /\ Working(h) /\ NothingDone(h)
  BY <1>1 DEF Fail, IInv, Apart
<1>3. Touched(h) \subseteq Slips
  BY <1>2, TouchedSlips
<1>4. \A p \in Slips : totals'[p] = totals[p] /\ LineTotals(p)' = LineTotals(p)
  BY SameLines DEF Fail, tables
<1>5. \A p \in Touched(h) : Matches(p)
  BY <1>2 DEF Working, NothingDone, InTransaction
<1>6. \A p \in Touched(h) : Matches(p)'
  BY <1>3, <1>4, <1>5 DEF Matches
<1>7. sess' = [sess EXCEPT ![s] = Idle]
  BY DEF Fail, Finish
<1> QED
  BY <1>1, <1>2, <1>4, <1>6, <1>7, ApartStep DEF InTurn

LEMMA ApartInit == Init => Apart
<1> SUFFICES ASSUME Init PROVE Apart
  OBVIOUS
<1>1. PICK id \in [Slips -> Ids], amount \in [Slips -> Amounts] :
          /\ lines = {[id |-> id[p], slip |-> p, kind |-> "INCOME", code |-> "OTHER", amount |-> amount[p]] : p \in Slips}
          /\ totals = [p \in Slips |-> [gross |-> amount[p], deductions |-> 0, net |-> amount[p]]]
  BY DEF Init
<1>2. ASSUME NEW p \in Slips PROVE Matches(p)
  <2> DEFINE l == [id |-> id[p], slip |-> p, kind |-> "INCOME", code |-> "OTHER", amount |-> amount[p]]
  <2>1. Incomes(p) = {} \cup {l} /\ Deductions(p) = {}
    BY <1>1 DEF Incomes, Deductions, LinesOf
  <2>2. l.amount \in Nat /\ l.amount = amount[p]
    BY SlipsAssumption
  <2> HIDE DEF l
  <2>3. SumOf({} \cup {l}) = SumOf({}) + l.amount
    BY <2>2, FS_EmptySet, SumOfWithRow
  <2>4. SumOf(Incomes(p)) = amount[p] /\ SumOf(Deductions(p)) = 0
    BY <2>1, <2>2, <2>3, SumOfNone
  <2> QED
    BY <1>1, <2>2, <2>4 DEF Matches, LineTotals
<1>3. \A s \in Sessions : sess[s] = Idle /\ Touched(sess[s]) = {}
  BY DEF Init, Touched, Idle
<1> QED
  BY <1>2, <1>3 DEF Apart, TotalsMatchLines, Matches

LEMMA ApartNext ==
    ASSUME Exclusive = TRUE, MayFail = FALSE, IInv, Apart, [Next]_vars
    PROVE  Apart'
<1>1. CASE sess' = sess /\ totals' = totals /\ lines' = lines
  <2>1. \A p \in Slips : totals'[p] = totals[p] /\ LineTotals(p)' = LineTotals(p)
    BY <1>1, SameLines
  <2>2. (\A s \in Sessions : sess[s] # Idle => Working(sess[s]))'
    <3> SUFFICES ASSUME NEW s \in Sessions, (sess[s] # Idle)' PROVE Working(sess[s])'
      OBVIOUS
    <3>1. PICK h : h = sess[s]
      OBVIOUS
    <3>2. Working(h) /\ InTurn(h) /\ h # Idle
      BY <1>1, <3>1 DEF Apart, IInv
    <3>3. /\ Touched(h) \subseteq Slips /\ LastSlip(h) \in Slips
          /\ h.pc # "check" => h.slip \in Slips
      BY <3>2, TouchedSlips DEF Working
    <3>4. Working(h)'
      BY <2>1, <3>2, <3>3 DEF Working, LastSlip, Touched, Matches, Start, AfterRemoval
    <3> QED
      BY <1>1, <3>1, <3>4
  <2>3. TotalsMatchLines'
    BY <1>1, <2>1 DEF Apart, TotalsMatchLines, AtWork
  <2> QED
    BY <1>1, <2>2, <2>3 DEF Apart
<1>2. ASSUME NEW s \in Sessions, Handle(s) PROVE Apart'
  BY <1>2, EditApart, TaxApart DEF Handle, PostComponent, DropComponent, PostTax, PostTaxes
<1>3. ASSUME NEW s \in Sessions, Commit(s) PROVE Apart'
  BY <1>3, CheckApart, LinesApart, TotalsApart, InjectApart, FailApart DEF Commit
<1> QED
  BY <1>1, <1>2, <1>3 DEF Next, MovePeriod, vars

\* As long as no two requests work on the same slip and none is cut off between
\* its commits, the totals stored in a slip nobody is working on are the sums of
\* its lines, whatever the order of additions, deletions, taxes and commissions.
THEOREM ApartTotalsMatch ==
    ASSUME Exclusive = TRUE, MayFail = FALSE
    PROVE  Spec => []TotalsMatchLines
<1>1. Init => IInv /\ Apart
  BY InitInv, ApartInit
<1>2. IInv /\ Apart /\ [Next]_vars => (IInv /\ Apart)'
  BY NextInv, ApartNext
<1>3. IInv /\ Apart => TotalsMatchLines
  BY DEF Apart
<1> QED
  BY <1>1, <1>2, <1>3, PTL DEF Spec

-----------------------------------------------------------------------------
(***************************************************************************)
(* What a tax leaves of the net pay, under the same two conditions.        *)
(***************************************************************************)
TaxOf(h) == h.items[h.pos].amount

\* The tax lines in hand are those of the slip, the net pay can bear the new
\* tax, and, if the line in hand is a deduction, the sums of the lines are what
\* the check computed with.
AllDeducted(h) == \A l \in h.drop : l.kind = "DEDUCTION"
TaxFits(h) ==
    /\ h.add = IF TaxOf(h) = 0 THEN {} ELSE NewLine("DEDUCTION", "PPH21", TaxOf(h))
    /\ OneTax(h.drop) /\ ProjectedNet(h.seen, h.drop, TaxOf(h)) >= 0
    /\ h.pc = "remove" => h.drop = TaxLines(h.slip)
    /\ AllDeducted(h) =>
          /\ h.pc # "remove" => SumOf(Incomes(h.slip)) = h.seen.gross
          /\ h.pc = "insert" => SumOf(Deductions(h.slip)) = h.seen.deductions - SumOf(h.drop)
          /\ h.pc \in {"sum", "store"} =>
                SumOf(Deductions(h.slip)) = h.seen.deductions - SumOf(h.drop) + TaxOf(h)

\* What a bulk call has accepted and not begun stays acceptable.
Ahead(h) ==
    /\ \A i, j \in DOMAIN h.items : i # j => h.items[i].slip # h.items[j].slip
    /\ \A i \in DOMAIN h.items : i > h.pos => Acceptable(h.items[i])
    /\ h.pos > 1 /\ h.pc = "check" => Acceptable(h.items[h.pos])

Taxing(h) ==
    h.op = "tax" => h.pc # "inject" /\ (h.pc \in InTransaction => TaxFits(h)) /\ Ahead(h)

Taxed == \A s \in Sessions : Taxing(sess[s])

LEMMA SameLinesOf ==
    ASSUME NEW p, LinesOf(p)' = LinesOf(p)
    PROVE  /\ Incomes(p)' = Incomes(p) /\ Deductions(p)' = Deductions(p)
           /\ TaxLines(p)' = TaxLines(p) /\ LineTotals(p)' = LineTotals(p)
  BY DEF Incomes, Deductions, TaxLines, LineTotals

LEMMA SameAcceptable ==
    ASSUME NEW item, totals'[item.slip] = totals[item.slip],
           LinesOf(item.slip)' = LinesOf(item.slip)
    PROVE  Acceptable(item)' = Acceptable(item)
  BY SameLinesOf DEF Acceptable

\* A step that leaves the slips of a handler alone.
LEMMA StaysTaxing ==
    ASSUME NEW h, InTurn(h), h # Idle, Working(h), Taxing(h),
           \A p \in Touched(h) : /\ totals'[p] = totals[p]
                                 /\ LinesOf(p)' = LinesOf(p)
    PROVE  Taxing(h)'
<1> SUFFICES ASSUME h.op = "tax"
             PROVE  h.pc # "inject" /\ (h.pc \in InTransaction => TaxFits(h))' /\ Ahead(h)'
  BY DEF Taxing
<1>1. /\ DOMAIN h.items = 1..Len(h.items) /\ h.pos \in DOMAIN h.items
      /\ \A i \in DOMAIN h.items : h.items[i].slip \in Touched(h)
  <2>1. h.items \in Seq(Item) /\ h.pos \in 1..Len(h.items)
    BY DEF InTurn, Edit
  <2> QED
    BY <2>1 DEF Touched
<1>2. \A i \in DOMAIN h.items : Acceptable(h.items[i]) => Acceptable(h.items[i])'
  BY <1>1, SameAcceptable
<1>3. Ahead(h)'
  BY <1>1, <1>2 DEF Taxing, Ahead
<1>4. ASSUME h.pc \in InTransaction PROVE TaxFits(h)'
  <2>1. h.slip \in Touched(h)
    BY <1>1, <1>4 DEF Working, InTransaction
  <2>2. /\ Incomes(h.slip)' = Incomes(h.slip) /\ Deductions(h.slip)' = Deductions(h.slip)
        /\ TaxLines(h.slip)' = TaxLines(h.slip)
    BY <2>1, SameLinesOf
  <2> QED
    BY <1>4, <2>2 DEF Taxing, TaxFits, TaxOf, OneTax, ProjectedNet
<1> QED
  BY <1>3, <1>4 DEF Taxing, InTransaction

\* A step of s that changes the lines and totals of its own slip only, and
\* leaves its own tax in order.
LEMMA TaxedStep ==
    ASSUME IInv, Apart, Taxed, NEW s \in Sessions, NEW h, sess' = [sess EXCEPT ![s] = h],
           Taxing(h)',
           \A p \in Slips : p \notin Touched(sess[s])
               => /\ totals'[p] = totals[p]
                  /\ LinesOf(p)' = LinesOf(p)
    PROVE  Taxed'
<1> SUFFICES ASSUME NEW t \in Sessions PROVE Taxing(sess[t])'
  BY DEF Taxed
<1>1. CASE t = s
  <2>1. sess'[t] = h
    BY <1>1 DEF IInv, TypeOK
  <2>2. PICK k : k = sess'[t]
    OBVIOUS
  <2>3. Taxing(k)'
    BY <2>1, <2>2
  <2> QED
    BY <2>2, <2>3
<1>2. CASE t # s
  <2>1. PICK k : k = sess[t]
    OBVIOUS
  <2>2. sess'[t] = k
    BY <1>2, <2>1 DEF IInv, TypeOK
  <2>3. CASE k = Idle
    BY <2>2, <2>3 DEF Taxing, Idle
  <2>4. CASE k # Idle
    <3>1. InTurn(k) /\ Working(k) /\ Taxing(k) /\ Touched(k) \subseteq Slips
      BY <2>1, <2>4, TouchedSlips DEF IInv, Apart, Taxed
    <3>2. Touched(k) \cap Touched(sess[s]) = {}
      BY <1>2, <2>1 DEF Apart
    <3>3. Taxing(k)'
      BY <2>4, <3>1, <3>2, StaysTaxing
    <3> QED
      BY <2>2, <3>3
  <2> QED
    BY <2>3, <2>4
<1> QED
  BY <1>1, <1>2

LEMMA SameTables ==
    ASSUME lines' = lines
    PROVE  \A p : LinesOf(p)' = LinesOf(p)
  BY DEF LinesOf

\* A handler that sets no tax.
LEMMA NoTaxStep ==
    ASSUME IInv, Apart, Taxed, NEW s \in Sessions, NEW h, h.op # "tax",
           sess' = [sess EXCEPT ![s] = h], UNCHANGED tables
    PROVE  Taxed'
<1>1. Taxing(h)'
  BY DEF Taxing
<1>2. \A p : totals'[p] = totals[p] /\ LinesOf(p)' = LinesOf(p)
  BY SameTables DEF tables
<1> QED
  BY <1>1, <1>2, TaxedStep

LEMMA TaxBegins ==
    ASSUME IInv, Apart, Taxed, NEW s \in Sessions, Handle(s)
    PROVE  Taxed'
<1>1. ASSUME NEW op \in {"edit", "inject"}, NEW pc, NEW p, NEW drop, NEW add,
             BeginEdit(s, op, pc, p, drop, add)
      PROVE  Taxed'
  <2>1. Handler(op, pc, p, drop, add, <<[slip |-> p, amount |-> 0]>>).op # "tax"
    BY DEF Handler
  <2> QED
    BY <1>1, <2>1, NoTaxStep DEF BeginEdit, Begin
<1>2. ASSUME NEW items \in Seq(Item), NEW p,
             \A i, j \in DOMAIN items : i # j => items[i].slip # items[j].slip,
             \A i \in DOMAIN items : i > 1 => Acceptable(items[i]),
             Begin(s, Handler("tax", "check", p, {}, {}, items))
      PROVE  Taxed'
  <2>1. PICK h : h = Handler("tax", "check", p, {}, {}, items)
    OBVIOUS
  <2>2. h.pc = "check" /\ h.items = items /\ h.pos = 1
    BY <2>1 DEF Handler
  <2>3. \A item : Acceptable(item) => Acceptable(item)'
    BY <1>2, SameTables, SameAcceptable DEF Begin, tables
  <2>4. Taxing(h)'
    BY <1>2, <2>2, <2>3 DEF Taxing, Ahead, InTransaction
  <2>5. \A q : totals'[q] = totals[q] /\ LinesOf(q)' = LinesOf(q)
    BY <1>2, SameTables DEF Begin, tables
  <2>6. sess' = [sess EXCEPT ![s] = h]
    BY <1>2, <2>1 DEF Begin
  <2> QED
    BY <2>4, <2>5, <2>6, TaxedStep
<1>3. ASSUME NEW item \in Item, SetPph21(s, item) PROVE Taxed'
  <2>1. PICK items : items = <<item>>
    OBVIOUS
  <2>2. items \in Seq(Item) /\ DOMAIN items = {1}
    BY <2>1
  <2>3. Begin(s, Handler("tax", "check", item.slip, {}, {}, items))
    BY <1>3, <2>1 DEF SetPph21
  <2> QED
    BY <1>2, <2>2, <2>3
<1>4. ASSUME NEW i \in Item, NEW j \in Item, i.slip # j.slip, BulkSetPph21(s, <<i, j>>)
      PROVE  Taxed'
  <2>1. PICK items : items = <<i, j>>
    OBVIOUS
  <2>2. items \in Seq(Item) /\ DOMAIN items = {1, 2} /\ items[1] = i /\ items[2] = j
    BY <2>1
  <2>3. AllAccepted(items) /\ Begin(s, Handler("tax", "check", items[1].slip, {}, {}, items))
    BY <1>4, <2>1 DEF BulkSetPph21
  <2>4. \A k, m \in DOMAIN items : k # m => items[k].slip # items[m].slip
    BY <1>4, <2>2
  <2> QED
    BY <1>2, <2>2, <2>3, <2>4 DEF AllAccepted
<1> QED
  BY <1>1, <1>3, <1>4
     DEF Handle, PostComponent, DropComponent, PostTax, PostTaxes, AddComponent, DeleteComponent, Inject

\* The sums are those of the totals, as long as the totals match the lines.
LEMMA SumsOfTotals ==
    ASSUME NEW p, Matches(p)
    PROVE  /\ SumOf(Incomes(p)) = totals[p].gross
           /\ SumOf(Deductions(p)) = totals[p].deductions
  BY DEF Matches, LineTotals

\* The check of a tax: it goes on only if the net pay can bear the tax, and the
\* items a bulk call has accepted are not refused.
LEMMA CheckTaxed ==
    ASSUME IInv, Apart, Taxed, NEW s \in Sessions, CheckTax(s)
    PROVE  Taxed' /\ (sess'[s] = Idle => sess[s].pos = 1)
<1>1. PICK h : h = sess[s]
  OBVIOUS
<1>2. /\ h \in Edit /\ h.pos \in 1..Len(h.items) /\ h # Idle /\ InTurn(h) /\ Working(h)
      /\ h.pc = "check" /\ h.op = "tax" /\ Ahead(h)
  BY <1>1 DEF CheckTax, IInv, InTurn, Idle, Apart, Taxed, Taxing
<1> DEFINE item == h.items[h.pos]
           seen == IF h.pos = Len(h.items) THEN h.held ELSE totals[item.slip]
           old  == TaxLines(item.slip)
           add  == IF item.amount = 0 THEN {} ELSE NewLine("DEDUCTION", "PPH21", item.amount)
           fits == OneTax(old) /\ ProjectedNet(seen, old, item.amount) >= 0
<1>3. seen = totals[item.slip]
  BY <1>2 DEF Working, LastSlip
<1>4. item \in Item /\ item.slip \in Touched(h)
  BY <1>2, TouchedSlips DEF Edit
<1>5. Matches(item.slip) /\ item.slip \in Slips
  BY <1>2, <1>4 DEF Working, InTransaction, Item
<1>6. item.amount \in Nat
  <2>1. Taxes \subseteq Nat /\ 0 \in Nat
    BY SlipsAssumption
  <2>2. item.amount \in Taxes \cup {0}
    <3> HIDE DEF item
    <3> QED
      BY <1>4 DEF Item
  <2> QED
    BY <2>1, <2>2
<1>7. totals[item.slip] \in Totals
  BY <1>5 DEF IInv, TypeOK
<1>8. CASE fits
  <2>1. PICK n : n = [h EXCEPT !.pc = Start(old, add), !.slip = item.slip,
                               !.seen = seen, !.drop = old, !.add = add]
    OBVIOUS
  <2>2. sess' = [sess EXCEPT ![s] = n]
    BY <1>1, <1>8, <2>1 DEF CheckTax
  <2>3. /\ n.pc = Start(old, add) /\ n.slip = item.slip /\ n.seen = seen /\ n.drop = old
        /\ n.add = add /\ n.items = h.items /\ n.pos = h.pos /\ n.op = "tax"
    BY <1>2, <2>1 DEF Edit
  <2>4. TaxOf(n) = item.amount
    BY <2>3 DEF TaxOf
  <2>5. n.pc # "remove" => old = {}
    BY <2>3 DEF Start
  <2>6. n.pc = "sum" => item.amount = 0
    BY <2>3 DEF Start, AfterRemoval, NewLine
  <2>7. n.pc \notin {"store", "check", "inject"}
    BY <2>3 DEF Start, AfterRemoval
  <2>8. SumOf(Incomes(n.slip)) = n.seen.gross /\ SumOf(Deductions(n.slip)) = n.seen.deductions
    BY <1>3, <1>5, <2>3, SumsOfTotals
  <2>9. n.seen.deductions \in Nat
    BY <1>3, <1>7, <2>3 DEF Totals
  <2>10. n.pc # "remove" => SumOf(n.drop) = 0
    BY <2>3, <2>5, SumOfNone
  <2>11. /\ n.pc = "insert" => SumOf(Deductions(n.slip)) = n.seen.deductions - SumOf(n.drop)
         /\ n.pc = "sum" => SumOf(Deductions(n.slip)) = n.seen.deductions - SumOf(n.drop) + TaxOf(n)
    <3>1. \A x \in Nat : x = x - 0 /\ x = x - 0 + 0
      OBVIOUS
    <3> QED
      BY <2>4, <2>6, <2>8, <2>9, <2>10, <3>1
  <2>12. TaxFits(n)
    BY <1>8, <2>3, <2>4, <2>7, <2>8, <2>11 DEF TaxFits
  <2>13. Ahead(n)
    BY <1>2, <2>3, <2>7 DEF Ahead
  <2>14. \A p : LinesOf(p)' = LinesOf(p)
    BY SameTables DEF CheckTax, tables
  <2>15. TaxFits(n)'
    <3>1. /\ Incomes(n.slip)' = Incomes(n.slip) /\ Deductions(n.slip)' = Deductions(n.slip)
          /\ TaxLines(n.slip)' = TaxLines(n.slip)
      BY <2>14, SameLinesOf
    <3> QED
      BY <2>12, <3>1 DEF TaxFits, TaxOf, OneTax, ProjectedNet, AllDeducted
  <2>16. Ahead(n)'
    <3>1. \A i : Acceptable(i) => Acceptable(i)'
      BY <2>14, SameAcceptable DEF CheckTax, tables
    <3> QED
      BY <2>13, <3>1 DEF Ahead
  <2>17. Taxed'
    BY <2>2, <2>7, <2>14, <2>15, <2>16, TaxedStep DEF Taxing, CheckTax, tables
  <2>18. sess'[s] # Idle
    BY <2>2, <2>3 DEF IInv, TypeOK, Idle
  <2> QED
    BY <2>17, <2>18
<1>9. CASE ~fits
  <2>1. sess' = [sess EXCEPT ![s] = Idle]
    BY <1>1, <1>9 DEF CheckTax, Finish
  <2>2. Taxed'
    BY <2>1, NoTaxStep DEF CheckTax, Idle
  <2>3. ~Acceptable(item)
    BY <1>3, <1>9 DEF Acceptable
  <2>4. ~(h.pos > 1)
    BY <1>2, <2>3 DEF Ahead
  <2>5. h.pos = 1
    <3>1. Len(h.items) \in Nat
      BY <1>2 DEF Edit
    <3> QED
      BY <1>2, <2>4, <3>1
  <2> QED
    BY <1>1, <2>2, <2>5
<1> QED
  BY <1>8, <1>9

\* A line comes off, or on, the sum.
LEMMA SumOfLines ==
    ASSUME IInv, NEW p \in Slips
    PROVE  /\ SumOf(Deductions(p)) \in Int
           /\ IsFiniteSet(Deductions(p)) /\ \A l \in Deductions(p) : l.amount \in Int
<1>1. Deductions(p) \subseteq lines
  BY DEF Deductions, LinesOf
<1>2. \A l \in lines : l.amount \in Int
  BY SlipsAssumption DEF IInv, TypeOK, Line
<1>3. IsFiniteSet(Deductions(p)) /\ \A l \in Deductions(p) : l.amount \in Int
  BY <1>1, <1>2, FS_Subset DEF IInv
<1> QED
  BY <1>3, SumOfType

LEMMA RemovedTax ==
    ASSUME IInv, NEW p \in Slips, TaxLines(p) # {}, OneTax(TaxLines(p)),
           lines' = lines \ TaxLines(p), \A l \in TaxLines(p) : l.kind = "DEDUCTION"
    PROVE  /\ SumOf(TaxLines(p)) \in Int
           /\ SumOf(Deductions(p))' = SumOf(Deductions(p)) - SumOf(TaxLines(p))
           /\ Incomes(p)' = Incomes(p)
<1>1. PICK l : TaxLines(p) = {l}
  <2>1. TaxLines(p) \subseteq Deductions(p)
    BY DEF TaxLines, Deductions
  <2>2. IsFiniteSet(TaxLines(p))
    BY <2>1, SumOfLines, FS_Subset
  <2>3. Cardinality(TaxLines(p)) \in Nat /\ Cardinality(TaxLines(p)) # 0
    BY <2>2, FS_CardinalityType, FS_EmptySet
  <2>4. Cardinality(TaxLines(p)) = 1
    BY <2>3 DEF OneTax
  <2> QED
    BY <2>2, <2>4, FS_Singleton
<1>2. l \in Deductions(p) /\ l.amount \in Int
  <2>1. l \in Deductions(p)
    BY <1>1 DEF TaxLines, Deductions, LinesOf
  <2> QED
    BY <2>1, SumOfLines
<1>3. Deductions(p)' = Deductions(p) \ {l} /\ Incomes(p)' = Incomes(p)
  BY <1>1, <1>2 DEF TaxLines, Deductions, Incomes, LinesOf
<1>4. PICK rest : rest = Deductions(p) \ {l}
  OBVIOUS
<1>5. IsFiniteSet(rest) /\ (\A m \in rest : m.amount \in Int) /\ l \notin rest
      /\ rest \cup {l} = Deductions(p)
  BY <1>2, <1>4, SumOfLines, FS_Subset
<1>6. SumOf(Deductions(p)) = SumOf(rest) + l.amount /\ SumOf(rest) \in Int
  BY <1>2, <1>5, SumOfWithRow, SumOfType
<1>7. SumOf({l}) = l.amount
  <2>1. SumOf({} \cup {l}) = SumOf({}) + l.amount
    BY <1>2, FS_EmptySet, SumOfWithRow
  <2>2. {} \cup {l} = {l}
    OBVIOUS
  <2> QED
    BY <1>2, <2>1, <2>2, SumOfNone
<1>8. SumOf(Deductions(p))' = SumOf(rest)
  BY <1>3, <1>4
<1> QED
  BY <1>1, <1>2, <1>3, <1>6, <1>7, <1>8

LEMMA InsertedTax ==
    ASSUME IInv, NEW p \in Slips, NEW amount \in Amounts, NEW id \in Ids \ Used,
           lines' = lines \cup {[id |-> id, slip |-> p, kind |-> "DEDUCTION", code |-> "PPH21", amount |-> amount]}
    PROVE  /\ SumOf(Deductions(p))' = SumOf(Deductions(p)) + amount
           /\ Incomes(p)' = Incomes(p)
<1> DEFINE l == [id |-> id, slip |-> p, kind |-> "DEDUCTION", code |-> "PPH21", amount |-> amount]
<1>1. l \notin lines
  BY DEF Used
<1>2. Incomes(p)' = Incomes(p) /\ Deductions(p)' = Deductions(p) \cup {l} /\ l \notin Deductions(p)
  BY <1>1 DEF Incomes, Deductions, LinesOf
<1>3. l.amount = amount /\ amount \in Int
  BY SlipsAssumption
<1> HIDE DEF l
<1>4. SumOf(Deductions(p) \cup {l}) = SumOf(Deductions(p)) + amount
  BY <1>2, <1>3, SumOfLines, SumOfWithRow
<1> QED
  BY <1>2, <1>4

\* Only the slip in hand changes.
LEMMA OneSlipChanges ==
    ASSUME IInv, Apart, NEW s \in Sessions, NEW h, h = sess[s],
           CommitRemoval(s) \/ CommitInsert(s) \/ ReadLines(s) \/ CommitTotals(s) \/ CommitInject(s)
    PROVE  \A p \in Slips : p # h.slip
              => /\ totals'[p] = totals[p]
                 /\ LinesOf(p)' = LinesOf(p)
<1>1. Working(h)
  BY DEF CommitRemoval, CommitInsert, ReadLines, CommitTotals, CommitInject, Apart
<1> SUFFICES ASSUME NEW p \in Slips, p # h.slip
             PROVE  /\ totals'[p] = totals[p]
                    /\ LinesOf(p)' = LinesOf(p)
  OBVIOUS
<1>2. CASE CommitRemoval(s)
  <2>1. \A l \in h.drop : l.slip = h.slip
    BY <1>1, <1>2 DEF CommitRemoval, Working
  <2> QED
    BY <1>2, <2>1 DEF CommitRemoval, LinesOf
<1>3. CASE CommitInsert(s)
  BY <1>3 DEF CommitInsert, LinesOf, Inserted, LineWith
<1>4. CASE ReadLines(s)
  BY <1>4 DEF ReadLines, tables, LinesOf
<1>5. CASE CommitTotals(s)
  BY <1>5, SameTables DEF CommitTotals, IInv, TypeOK
<1>6. CASE CommitInject(s)
  <2>1. totals'[p] = totals[p]
    BY <1>6 DEF CommitInject, IInv, TypeOK
  <2>2. LinesOf(p)' = LinesOf(p)
    BY <1>6 DEF CommitInject, LinesOf, Inserted, LineWith
  <2> QED
    BY <2>1, <2>2
<1> QED
  BY <1>2, <1>3, <1>4, <1>5, <1>6

\* Each commit of a handler keeps its tax in order, and its totals bear it.
LEMMA CommitTaxed ==
    ASSUME IInv, Apart, Taxed, NEW s \in Sessions,
           CommitRemoval(s) \/ CommitInsert(s) \/ ReadLines(s) \/ CommitTotals(s) \/ CommitInject(s)
    PROVE  Taxed'
<1>1. PICK h : h = sess[s]
  OBVIOUS
<1>2. h \in Edit /\ h.pos \in 1..Len(h.items) /\ h # Idle /\ InTurn(h) /\ Working(h) /\ Taxing(h)
  BY <1>1 DEF CommitRemoval, CommitInsert, ReadLines, CommitTotals, CommitInject, IInv, InTurn,
              Apart, Taxed
<1>3. PICK n : n = sess'[s]
  OBVIOUS
<1>4. sess' = [sess EXCEPT ![s] = n]
  BY <1>3 DEF CommitRemoval, CommitInsert, ReadLines, CommitTotals, CommitInject, Goto, Finish,
              IInv, TypeOK
<1>5. \A p \in Slips : p # h.slip => /\ totals'[p] = totals[p]
                                     /\ LinesOf(p)' = LinesOf(p)
  BY <1>1, OneSlipChanges
<1>6. h.slip \in Touched(h) /\ h.slip = h.items[h.pos].slip /\ h.seen = totals[h.slip] /\ h.slip \in Slips
  BY <1>1, <1>2, TouchedSlips
     DEF CommitRemoval, CommitInsert, ReadLines, CommitTotals, CommitInject, Working, Edit
<1>7. ASSUME Taxing(n)' PROVE Taxed'
  BY <1>1, <1>4, <1>5, <1>6, <1>7, TaxedStep
<1>8. CASE h.op # "tax" \/ n = Idle
  <2>1. n.op # "tax"
    BY <1>1, <1>2, <1>3, <1>8
       DEF CommitRemoval, CommitInsert, ReadLines, CommitTotals, CommitInject, Goto, Finish,
           IInv, TypeOK, Idle, Edit
  <2>2. Taxing(n)'
    BY <2>1 DEF Taxing
  <2> QED
    BY <1>7, <2>2
<1>9. ASSUME h.op = "tax", n # Idle PROVE Taxed'
  <2>1. Ahead(h) /\ DOMAIN h.items = 1..Len(h.items) /\ Len(h.items) \in Nat
    BY <1>2, <1>9 DEF Taxing, Edit
  <2>2. \A i \in DOMAIN h.items : i > h.pos => Acceptable(h.items[i])'
    <3> SUFFICES ASSUME NEW i \in DOMAIN h.items, i > h.pos PROVE Acceptable(h.items[i])'
      OBVIOUS
    <3>1. h.items[i].slip # h.slip /\ h.items[i].slip \in Slips
      BY <1>2, <1>6, <2>1, TouchedSlips DEF Ahead, Touched
    <3> QED
      BY <1>5, <2>1, <3>1, SameAcceptable DEF Ahead
  <2>3. CASE n.items = h.items /\ n.pos = h.pos /\ n.pc \notin {"check", "inject"} /\ TaxFits(n)'
    BY <1>7, <2>1, <2>2, <2>3 DEF Taxing, Ahead
  <2>4. /\ SumOf(Incomes(h.slip)) \in Int /\ SumOf(Deductions(h.slip)) \in Int
        /\ h.seen.deductions \in Int
    BY <1>2, <1>6, SumsAreTotals DEF LineTotals, Totals, Edit
  <2>5. TaxOf(h) \in Taxes \cup {0} /\ Taxes \subseteq Amounts /\ Amounts \subseteq Nat
    <3>1. h.items[h.pos] \in Item
      BY <1>2 DEF Edit
    <3> QED
      BY <3>1, SlipsAssumption DEF TaxOf, Item
  <2>6. CASE CommitRemoval(s)
    <3>1. TaxFits(h) /\ h.pc = "remove" /\ h.drop = TaxLines(h.slip) /\ h.drop # {}
      BY <1>1, <1>2, <1>9, <2>6 DEF CommitRemoval, Taxing, InTransaction, TaxFits, Working
    <3>2. Matches(h.slip)
      BY <1>2, <3>1 DEF Working, Start
    <3>3. n = [h EXCEPT !.pc = AfterRemoval(h.add)]
      BY <1>1, <1>3, <2>6 DEF CommitRemoval, Goto, IInv, TypeOK
    <3>4. /\ n.pc = AfterRemoval(h.add) /\ n.items = h.items /\ n.pos = h.pos /\ n.add = h.add
          /\ n.drop = h.drop /\ n.slip = h.slip /\ n.seen = h.seen
      BY <1>2, <3>3 DEF Edit
    <3>5. n.pc \in {"insert", "sum"} /\ (n.pc = "sum" => TaxOf(h) = 0)
      BY <3>1, <3>4 DEF AfterRemoval, TaxFits, NewLine
    <3>6. ASSUME AllDeducted(h)
          PROVE  /\ SumOf(Incomes(h.slip))' = h.seen.gross
                 /\ SumOf(Deductions(h.slip))' = h.seen.deductions - SumOf(h.drop)
                 /\ SumOf(Deductions(h.slip))' = h.seen.deductions - SumOf(h.drop) + 0
      <4>1. /\ SumOf(h.drop) \in Int /\ Incomes(h.slip)' = Incomes(h.slip)
            /\ SumOf(Deductions(h.slip))' = SumOf(Deductions(h.slip)) - SumOf(h.drop)
        BY <1>1, <1>6, <2>6, <3>1, <3>6, RemovedTax DEF CommitRemoval, TaxFits, AllDeducted
      <4>2. /\ SumOf(Incomes(h.slip)) = h.seen.gross
            /\ SumOf(Deductions(h.slip))' = h.seen.deductions - SumOf(h.drop)
        BY <1>6, <3>2, <4>1, SumsOfTotals
      <4>3. h.seen.deductions - SumOf(h.drop) + 0 = h.seen.deductions - SumOf(h.drop)
        BY <2>4, <4>1
      <4> QED
        BY <4>1, <4>2, <4>3
    <3>7. TaxOf(n) = TaxOf(h) /\ (AllDeducted(n) <=> AllDeducted(h))
      BY <3>4 DEF TaxOf, AllDeducted
    <3>8. TaxFits(n)'
      BY <3>1, <3>4, <3>5, <3>6, <3>7 DEF TaxFits, TaxOf, OneTax, ProjectedNet, AllDeducted
    <3> QED
      BY <2>3, <3>4, <3>5, <3>8
  <2>7. CASE CommitInsert(s)
    <3>1. TaxFits(h) /\ h.pc = "insert" /\ h.add # {}
      BY <1>1, <1>2, <1>9, <2>7 DEF CommitInsert, Taxing, InTransaction, Working
    <3>2. TaxOf(h) # 0 /\ h.add = NewLine("DEDUCTION", "PPH21", TaxOf(h))
      BY <3>1 DEF TaxFits
    <3>3. n = [h EXCEPT !.pc = "sum"]
      BY <1>1, <1>3, <2>7 DEF CommitInsert, Goto, IInv, TypeOK
    <3>4. /\ n.pc = "sum" /\ n.items = h.items /\ n.pos = h.pos /\ n.add = h.add
          /\ n.drop = h.drop /\ n.slip = h.slip /\ n.seen = h.seen
      BY <1>2, <3>3 DEF Edit
    <3>5. PICK id \in Ids \ Used : lines' = lines \cup Inserted(h, id)
      BY <1>1, <2>7 DEF CommitInsert
    <3>6. lines' = lines \cup {[id |-> id, slip |-> h.slip, kind |-> "DEDUCTION", code |-> "PPH21", amount |-> TaxOf(h)]}
      BY <3>2, <3>5 DEF Inserted, LineWith, NewLine
    <3>7. TaxOf(h) \in Amounts
      BY <2>5, <3>2
    <3>8. /\ SumOf(Deductions(h.slip))' = SumOf(Deductions(h.slip)) + TaxOf(h)
          /\ Incomes(h.slip)' = Incomes(h.slip)
      BY <1>6, <3>6, <3>7, InsertedTax
    <3>9. AllDeducted(h) =>
            /\ SumOf(Deductions(h.slip))' = h.seen.deductions - SumOf(h.drop) + TaxOf(h)
            /\ SumOf(Incomes(h.slip)) = h.seen.gross
      BY <3>1, <3>8 DEF TaxFits
    <3>10. TaxFits(n)'
      BY <3>1, <3>4, <3>8, <3>9 DEF TaxFits, TaxOf, OneTax, ProjectedNet, AllDeducted
    <3> QED
      BY <2>3, <3>4, <3>10
  <2>8. CASE ReadLines(s)
    <3>1. TaxFits(h) /\ h.pc = "sum"
      BY <1>1, <1>2, <1>9, <2>8 DEF ReadLines, Taxing, InTransaction
    <3>2. n = [h EXCEPT !.pc = "store", !.new = LineTotals(h.slip)]
      BY <1>1, <1>3, <2>8 DEF ReadLines, IInv, TypeOK
    <3>3. /\ n.pc = "store" /\ n.items = h.items /\ n.pos = h.pos /\ n.add = h.add
          /\ n.drop = h.drop /\ n.slip = h.slip /\ n.seen = h.seen
      BY <1>2, <3>2 DEF Edit
    <3>4. /\ Incomes(h.slip)' = Incomes(h.slip) /\ Deductions(h.slip)' = Deductions(h.slip)
      BY <2>8, SameTables, SameLinesOf DEF ReadLines, tables
    <3>5. TaxFits(n)'
      BY <3>1, <3>3, <3>4 DEF TaxFits, TaxOf, OneTax, ProjectedNet, AllDeducted
    <3> QED
      BY <2>3, <3>3, <3>5
  <2>9. CASE CommitTotals(s)
    <3>1. h.pos < Len(h.items) /\ n = [h EXCEPT !.pc = "check", !.pos = h.pos + 1]
      BY <1>1, <1>3, <1>9, <2>9 DEF CommitTotals, Finish, IInv, TypeOK
    <3>2. n.pc = "check" /\ n.items = h.items /\ n.pos = h.pos + 1
      BY <1>2, <3>1 DEF Edit
    <3>3. n.pos \in DOMAIN h.items /\ n.pos > h.pos /\ \A i \in DOMAIN h.items : i > n.pos => i > h.pos
      BY <1>2, <2>1, <3>1, <3>2
    <3>4. Ahead(n)'
      BY <2>1, <2>2, <3>2, <3>3 DEF Ahead
    <3> QED
      BY <1>7, <3>2, <3>4 DEF Taxing, InTransaction
  <2>10. CASE CommitInject(s)
    <3>1. n = Idle
      BY <1>3, <2>10 DEF CommitInject, Finish, IInv, TypeOK
    <3> QED
      BY <1>9, <3>1
  <2> QED
    BY <2>6, <2>7, <2>8, <2>9, <2>10
<1> QED
  BY <1>8, <1>9

TaxesBorneNow ==
    \A s \in Sessions : sess[s].op = "tax" /\ sess'[s] # sess[s] =>
        /\ sess[s].pc = "store" /\ AllDeducted(sess[s]) => totals'[sess[s].slip].net >= 0
        /\ sess'[s] = Idle => \/ NothingDone(sess[s])
                              \/ sess[s].pos = Len(sess[s].items) /\ sess[s].pc = "store"

\* The totals of a tax are stored: the net pay is what the check computed.
LEMMA StoredTax ==
    ASSUME IInv, Apart, Taxed, NEW s \in Sessions, CommitTotals(s), sess[s].op = "tax"
    PROVE  /\ AllDeducted(sess[s]) => totals'[sess[s].slip].net >= 0
           /\ sess'[s] = Idle => sess[s].pos = Len(sess[s].items) /\ sess[s].pc = "store"
<1>1. PICK h : h = sess[s]
  OBVIOUS
<1>2. /\ h \in Edit /\ h.pos \in 1..Len(h.items) /\ h # Idle /\ Working(h) /\ h.pc = "store"
      /\ TaxFits(h) /\ Len(h.items) \in Nat
  BY <1>1 DEF CommitTotals, IInv, InTurn, Apart, Taxed, Taxing, InTransaction, Edit
<1>3. /\ h.slip \in Slips /\ h.seen = totals[h.slip] /\ h.new = LineTotals(h.slip)
      /\ h.seen \in Totals /\ h.new \in Totals
  BY <1>2 DEF Working, Edit
<1>4. totals'[h.slip] = h.new
  <2>1. totals[h.slip] \in Totals
    BY <1>3 DEF IInv, TypeOK
  <2>2. Stored(totals[h.slip], h) = h.new
    BY <1>3, <2>1, MergeTotals DEF Stored
  <2>3. totals' = [totals EXCEPT ![h.slip] = Stored(totals[h.slip], h)]
    BY <1>1 DEF CommitTotals
  <2> QED
    BY <1>3, <2>2, <2>3 DEF IInv, TypeOK
<1>5. AllDeducted(h) => h.new.net = ProjectedNet(h.seen, h.drop, TaxOf(h))
  BY <1>2, <1>3 DEF TaxFits, LineTotals, ProjectedNet
<1>6. ProjectedNet(h.seen, h.drop, TaxOf(h)) >= 0
  BY <1>2 DEF TaxFits
<1>7. ASSUME sess'[s] = Idle PROVE h.pos = Len(h.items)
  <2>1. ~(h.pos < Len(h.items))
    <3> SUFFICES ASSUME h.pos < Len(h.items) PROVE FALSE
      OBVIOUS
    <3>1. sess'[s] = [h EXCEPT !.pc = "check", !.pos = h.pos + 1]
      BY <1>1 DEF CommitTotals, IInv, TypeOK
    <3>2. sess'[s].op = h.op
      BY <1>2, <3>1 DEF Edit
    <3> QED
      BY <1>1, <1>7, <3>2 DEF Idle
  <2> QED
    BY <1>2, <2>1
<1> QED
  BY <1>1, <1>2, <1>4, <1>5, <1>6, <1>7

LEMMA TaxedNext ==
    ASSUME Exclusive = TRUE, MayFail = FALSE, IInv, Apart, Taxed, [Next]_vars
    PROVE  Taxed' /\ TaxesBorneNow
<1>1. ASSUME NEW s \in Sessions, \A t \in Sessions : t # s => sess'[t] = sess[t],
             \/ sess'[s] = sess[s] \/ sess[s].op # "tax"
             \/ /\ sess[s].pc = "store" /\ AllDeducted(sess[s]) => totals'[sess[s].slip].net >= 0
                /\ sess'[s] = Idle => \/ NothingDone(sess[s])
                                      \/ sess[s].pos = Len(sess[s].items) /\ sess[s].pc = "store"
      PROVE  TaxesBorneNow
  BY <1>1 DEF TaxesBorneNow
<1>2. CASE sess' = sess /\ totals' = totals /\ lines' = lines
  <2>1. Taxed'
    <3> SUFFICES ASSUME NEW s \in Sessions PROVE Taxing(sess[s])'
      BY DEF Taxed
    <3>1. PICK h : h = sess[s]
      OBVIOUS
    <3>2. CASE h = Idle
      BY <1>2, <3>1, <3>2 DEF Taxing, Idle
    <3>3. CASE h # Idle
      <4>1. Taxing(h)'
        BY <1>2, <3>1, <3>3, StaysTaxing, SameTables DEF IInv, Apart, Taxed
      <4> QED
        BY <1>2, <3>1, <4>1
    <3> QED
      BY <3>2, <3>3
  <2> QED
    BY <1>2, <2>1 DEF TaxesBorneNow
<1>3. ASSUME NEW s \in Sessions, Handle(s) PROVE Taxed' /\ TaxesBorneNow
  <2>1. sess[s] = Idle /\ \A t \in Sessions : t # s => sess'[t] = sess[t]
    BY <1>3 DEF Handle, PostComponent, DropComponent, PostTax, PostTaxes, AddComponent,
                DeleteComponent, Inject, SetPph21, BulkSetPph21, BeginEdit, Begin, IInv, TypeOK
  <2> QED
    BY <1>1, <1>3, <2>1, TaxBegins DEF Idle
<1>4. ASSUME NEW s \in Sessions, CheckTax(s) PROVE Taxed' /\ TaxesBorneNow
  <2>1. \A t \in Sessions : t # s => sess'[t] = sess[t]
    BY <1>4 DEF CheckTax, Finish, IInv, TypeOK
  <2>2. sess'[s] = Idle => NothingDone(sess[s])
    BY <1>4, CheckTaxed DEF CheckTax, NothingDone
  <2>3. sess[s].pc # "store"
    BY <1>4 DEF CheckTax
  <2> QED
    BY <1>1, <1>4, <2>1, <2>2, <2>3, CheckTaxed
<1>5. ASSUME NEW s \in Sessions, Fail(s) PROVE Taxed' /\ TaxesBorneNow
  <2>1. /\ \A t \in Sessions : t # s => sess'[t] = sess[t]
        /\ sess' = [sess EXCEPT ![s] = Idle] /\ UNCHANGED tables
    BY <1>5 DEF Fail, Finish, IInv, TypeOK
  <2>2. NothingDone(sess[s]) /\ sess[s].pc # "store"
    BY <1>5 DEF Fail, NothingDone, Start, AfterRemoval
  <2>3. Taxed'
    BY <2>1, NoTaxStep DEF Idle
  <2> QED
    BY <1>1, <2>1, <2>2, <2>3
<1>6. ASSUME NEW s \in Sessions, CommitTotals(s) PROVE Taxed' /\ TaxesBorneNow
  <2>1. \A t \in Sessions : t # s => sess'[t] = sess[t]
    BY <1>6 DEF CommitTotals, Finish, IInv, TypeOK
  <2> QED
    BY <1>1, <1>6, <2>1, StoredTax, CommitTaxed
<1>7. ASSUME NEW s \in Sessions, CommitRemoval(s) \/ CommitInsert(s) \/ ReadLines(s) \/ CommitInject(s)
      PROVE  Taxed' /\ TaxesBorneNow
  <2>1. \A t \in Sessions : t # s => sess'[t] = sess[t]
    BY <1>7 DEF CommitRemoval, CommitInsert, ReadLines, CommitInject, Goto, Finish, IInv, TypeOK
  <2>2. sess[s].op # "tax" \/ (sess'[s] # Idle /\ sess[s].pc # "store")
    <3>1. sess[s] \in Edit /\ Working(sess[s]) /\ Taxing(sess[s])
      BY <1>7 DEF CommitRemoval, CommitInsert, ReadLines, CommitInject, IInv, InTurn, Apart, Taxed
    <3>2. CASE CommitInject(s)
      BY <3>1, <3>2 DEF CommitInject, Taxing
    <3>3. CASE CommitRemoval(s) \/ CommitInsert(s) \/ ReadLines(s)
      BY <3>1, <3>3 DEF CommitRemoval, CommitInsert, ReadLines, Goto, IInv, TypeOK, Edit, Idle
    <3> QED
      BY <1>7, <3>2, <3>3
  <2> QED
    BY <1>1, <1>7, <2>1, <2>2, CommitTaxed
<1> QED
  BY <1>2, <1>3, <1>4, <1>5, <1>6, <1>7 DEF Next, MovePeriod, Commit, vars

LEMMA TaxedSpec ==
    ASSUME Exclusive = TRUE, MayFail = FALSE
    PROVE  Spec => [](IInv /\ Apart /\ Taxed)
<1>1. Init => IInv /\ Apart /\ Taxed
  <2>1. Init => Taxed
    BY DEF Init, Taxed, Taxing, Idle
  <2> QED
    BY <2>1, InitInv, ApartInit
<1>2. IInv /\ Apart /\ Taxed /\ [Next]_vars => (IInv /\ Apart /\ Taxed)'
  BY NextInv, ApartNext, TaxedNext
<1> QED
  BY <1>1, <1>2, PTL DEF Spec

\* As long as no two requests work on the same slip and none is cut off between
\* its commits, no tax that replaces a deduction or nothing leaves a negative net
\* pay, and a call that sets several taxes sets all of them or none.
THEOREM ApartTaxesBorne ==
    ASSUME Exclusive = TRUE, MayFail = FALSE
    PROVE  Spec => TaxesBorne
<1>1. IInv /\ Apart /\ Taxed /\ [Next]_vars =>
        /\ [\A s \in Sessions :
               /\ sess[s].op = "tax" /\ sess[s].pc = "store" /\ sess'[s] # sess[s]
               /\ \A l \in sess[s].drop : l.kind = "DEDUCTION"
               => totals'[sess[s].slip].net >= 0]_vars
        /\ [\A s \in Sessions : sess[s].op = "tax" /\ sess'[s] = Idle
               => \/ NothingDone(sess[s])
                  \/ sess[s].pos = Len(sess[s].items) /\ sess[s].pc = "store"]_vars
  <2> SUFFICES ASSUME IInv, Apart, Taxed, [Next]_vars, NEW s \in Sessions, sess[s].op = "tax"
               PROVE  /\ /\ sess[s].pc = "store" /\ sess'[s] # sess[s]
                         /\ \A l \in sess[s].drop : l.kind = "DEDUCTION"
                         => totals'[sess[s].slip].net >= 0
                      /\ sess'[s] = Idle
                            => \/ NothingDone(sess[s])
                               \/ sess[s].pos = Len(sess[s].items) /\ sess[s].pc = "store"
    OBVIOUS
  <2>1. sess[s] # Idle
    BY DEF Idle
  <2> QED
    BY <2>1, TaxedNext DEF TaxesBorneNow, AllDeducted
<1> QED
  BY <1>1, TaxedSpec, PTL DEF Spec, TaxesBorne, TaxLeavesNet, AllTaxesOrNone
=============================================================================
