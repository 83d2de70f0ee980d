-------------------------------- MODULE Sums --------------------------------
(***************************************************************************)
(* Sums of amounts over rows of a table, and what they compute, whatever   *)
(* order they take the rows in.  The inductions over finite sets take a    *)
(* set without the property that has no proper subset without it.          *)
(***************************************************************************)
EXTENDS Integers, FiniteSets, FiniteSetsExt, FiniteSetTheorems, WellFoundedInduction, TLAPS

\* The sum of amount[x] for the x in some.
SumOn(amount, some) == MapThenSumSet(LAMBDA x : amount[x], some)

SumOf(rows) == SumOn([row \in rows |-> row.amount], rows)
-----------------------------------------------------------------------------
First(rows) == CHOOSE row \in rows : TRUE
Body(f, sum, rows) == IF rows = {} THEN 0 ELSE f[First(rows)] + sum[rows \ {First(rows)}]
IsSum(f, sum, rows) == sum = [some \in SUBSET rows |-> Body(f, sum, some)]
SumFcn(f, rows) == CHOOSE sum : IsSum(f, sum, rows)

LEMMA SumOnIsSum ==
    ASSUME NEW f, NEW rows
    PROVE  SumOn(f, rows) = SumFcn(f, rows)[rows]
  BY DEF SumOn, MapThenSumSet, MapThenFoldSet, SumFcn, IsSum, Body, First

LEMMA Minimal ==
    ASSUME NEW rows, IsFiniteSet(rows), NEW Bad \in SUBSET SUBSET rows, Bad # {}
    PROVE  \E b \in Bad : \A c \in SUBSET b : c # b => c \notin Bad
<1>1. IsWellFoundedOn(StrictSubsetOrdering(rows), FiniteSubsetsOf(rows))
  BY FS_StrictSubsetOrderingWellFounded
<1>2. Bad \subseteq FiniteSubsetsOf(rows)
  BY FS_FiniteSubsetsOfFinite
<1>3. PICK b \in Bad : \A c \in Bad : ~(<<c, b>> \in StrictSubsetOrdering(rows))
  BY <1>1, <1>2, WFMin
<1> QED
  BY <1>3 DEF StrictSubsetOrdering

LEMMA FirstIsThere ==
    ASSUME NEW rows, rows # {}
    PROVE  First(rows) \in rows
  BY DEF First

\* Two recursions agree wherever both are defined.
LEMMA SumsAgree ==
    ASSUME NEW f, NEW r, NEW t, IsFiniteSet(r), NEW v, NEW w, IsSum(f, v, r), IsSum(f, w, t)
    PROVE  \A some \in SUBSET (r \cap t) : v[some] = w[some]
<1> DEFINE Bad == {some \in SUBSET (r \cap t) : v[some] # w[some]}
<1> SUFFICES ASSUME Bad # {} PROVE FALSE
  OBVIOUS
<1>1. IsFiniteSet(r \cap t)
  BY FS_Intersection
<1>2. PICK b \in Bad : \A c \in SUBSET b : c # b => c \notin Bad
  <2> HIDE DEF Bad
  <2>1. Bad \in SUBSET SUBSET (r \cap t)
    BY DEF Bad
  <2> QED
    BY <1>1, <2>1, Minimal
<1>3. v[b] = Body(f, v, b) /\ w[b] = Body(f, w, b)
  BY DEF IsSum
<1>4. b # {}
  BY <1>3 DEF Body
<1>5. First(b) \in b
  BY <1>4, FirstIsThere
<1>6. v[b \ {First(b)}] = w[b \ {First(b)}]
  BY <1>2, <1>5
<1>7. v[b] = w[b]
  BY <1>3, <1>4, <1>6 DEF Body
<1> QED
  BY <1>7

LEMMA SumExists ==
    ASSUME NEW f, NEW rows, IsFiniteSet(rows)
    PROVE  IsSum(f, SumFcn(f, rows), rows)
<1> DEFINE Bad == {r \in SUBSET rows : ~ \E sum : IsSum(f, sum, r)}
<1>1. ASSUME Bad # {} PROVE FALSE
  <2>1. PICK b \in Bad : \A c \in SUBSET b : c # b => c \notin Bad
    <3> HIDE DEF Bad
    <3>1. Bad \in SUBSET SUBSET rows
      BY DEF Bad
    <3> QED
      BY <1>1, <3>1, Minimal
  <2>2. \A c \in SUBSET b : c # b => IsSum(f, SumFcn(f, c), c)
    <3> SUFFICES ASSUME NEW c \in SUBSET b, c # b PROVE IsSum(f, SumFcn(f, c), c)
      OBVIOUS
    <3>1. \E sum : IsSum(f, sum, c)
      BY <2>1
    <3> QED
      BY <3>1 DEF SumFcn
  <2> DEFINE rest(some) == some \ {First(some)}
             all == [some \in SUBSET b |->
                       IF some = {} THEN 0
                       ELSE f[First(some)] + SumFcn(f, rest(some))[rest(some)]]
  <2>3. ASSUME NEW c \in SUBSET b, c # b PROVE all[c] = SumFcn(f, c)[c]
    <3>1. IsSum(f, SumFcn(f, c), c)
      BY <2>2, <2>3
    <3>2. SumFcn(f, c)[c] = Body(f, SumFcn(f, c), c)
      BY <3>1 DEF IsSum
    <3>3. CASE c = {}
      BY <3>2, <3>3 DEF Body
    <3>4. CASE c # {}
      <4>1. First(c) \in c
        BY <3>4, FirstIsThere
      <4>2. rest(c) \in SUBSET b /\ rest(c) # b /\ rest(c) \in SUBSET (c \cap rest(c))
        BY <4>1
      <4>3. IsSum(f, SumFcn(f, rest(c)), rest(c))
        BY <2>2, <4>2
      <4>4. IsFiniteSet(c)
        BY FS_Subset
      <4>5. SumFcn(f, c)[rest(c)] = SumFcn(f, rest(c))[rest(c)]
        <5> HIDE DEF rest, all
        <5> QED
          BY <3>1, <4>2, <4>3, <4>4, SumsAgree
      <4> QED
        BY <3>2, <3>4, <4>5 DEF Body
    <3> QED
      BY <3>3, <3>4
  <2>4. ASSUME NEW some \in SUBSET b PROVE all[some] = Body(f, all, some)
    <3>1. CASE some = {}
      BY <3>1 DEF Body
    <3>2. CASE some # {}
      <4>1. First(some) \in some
        BY <3>2, FirstIsThere
      <4>2. rest(some) \in SUBSET b /\ rest(some) # b
        BY <4>1
      <4>3. all[rest(some)] = SumFcn(f, rest(some))[rest(some)]
        <5> HIDE DEF rest, all
        <5> QED
          BY <2>3, <4>2
      <4> QED
        BY <3>2, <4>3 DEF Body
    <3> QED
      BY <3>1, <3>2
  <2>5. IsSum(f, all, b)
    <3>1. all = [some \in SUBSET b |-> all[some]]
      OBVIOUS
    <3> HIDE DEF all
    <3> QED
      BY <2>4, <3>1 DEF IsSum
  <2> QED
    BY <2>1, <2>5
<1>2. \E sum : IsSum(f, sum, rows)
  BY <1>1
<1> QED
  BY <1>2 DEF SumFcn

LEMMA SumOnNone ==
    ASSUME NEW f PROVE SumOn(f, {}) = 0
<1>1. IsSum(f, SumFcn(f, {}), {})
  BY FS_EmptySet, SumExists
<1> QED
  BY <1>1, SumOnIsSum DEF IsSum, Body

LEMMA SumOnFirst ==
    ASSUME NEW f, NEW rows, IsFiniteSet(rows), rows # {}
    PROVE  SumOn(f, rows) = f[First(rows)] + SumOn(f, rows \ {First(rows)})
<1> DEFINE rest == rows \ {First(rows)}
<1>1. IsFiniteSet(rest)
  BY FS_Subset
<1>2. IsSum(f, SumFcn(f, rows), rows) /\ IsSum(f, SumFcn(f, rest), rest)
  <2> HIDE DEF rest
  <2> QED
    BY <1>1, SumExists
<1>3. SumFcn(f, rows)[rest] = SumFcn(f, rest)[rest]
  <2>1. rest \in SUBSET (rows \cap rest)
    OBVIOUS
  <2> HIDE DEF rest
  <2> QED
    BY <1>2, <2>1, SumsAgree
<1>4. SumFcn(f, rows)[rows] = Body(f, SumFcn(f, rows), rows)
  BY <1>2 DEF IsSum
<1> QED
  BY <1>3, <1>4, SumOnIsSum DEF Body

\* A sum of integers is an integer, and a sum of natural numbers is one.
THEOREM SumOnType ==
    ASSUME NEW f, NEW rows, IsFiniteSet(rows), NEW Numbers, Numbers = Nat \/ Numbers = Int,
           \A row \in rows : f[row] \in Numbers
    PROVE  SumOn(f, rows) \in Numbers
<1> DEFINE Bad == {r \in SUBSET rows : SumOn(f, r) \notin Numbers}
<1>1. ASSUME Bad # {} PROVE FALSE
  <2>1. PICK b \in Bad : \A c \in SUBSET b : c # b => c \notin Bad
    <3> HIDE DEF Bad
    <3>1. Bad \in SUBSET SUBSET rows
      BY DEF Bad
    <3> QED
      BY <1>1, <3>1, Minimal
  <2>2. b # {}
    BY <2>1, SumOnNone
  <2>3. First(b) \in b /\ IsFiniteSet(b)
    BY <2>2, FirstIsThere, FS_Subset
  <2>4. SumOn(f, b \ {First(b)}) \in Numbers
    BY <2>1, <2>3
  <2>5. SumOn(f, b) = f[First(b)] + SumOn(f, b \ {First(b)})
    BY <2>2, <2>3, SumOnFirst
  <2>6. f[First(b)] \in Numbers
    BY <2>3
  <2>7. SumOn(f, b) \in Numbers
    BY <2>4, <2>5, <2>6
  <2> QED
    BY <2>1, <2>7
<1> QED
  BY <1>1

\* Any row can be taken out of a sum.
THEOREM SumWithout ==
    ASSUME NEW f, NEW rows, IsFiniteSet(rows), \A row \in rows : f[row] \in Int, NEW one \in rows
    PROVE  SumOn(f, rows) = f[one] + SumOn(f, rows \ {one})
<1> DEFINE Bad == {r \in SUBSET rows : \E y \in r : SumOn(f, r) # f[y] + SumOn(f, r \ {y})}
<1>1. ASSUME Bad # {} PROVE FALSE
  <2>1. PICK b \in Bad : \A c \in SUBSET b : c # b => c \notin Bad
    <3> HIDE DEF Bad
    <3>1. Bad \in SUBSET SUBSET rows
      BY DEF Bad
    <3> QED
      BY <1>1, <3>1, Minimal
  <2>2. PICK y \in b : SumOn(f, b) # f[y] + SumOn(f, b \ {y})
    OBVIOUS
  <2> DEFINE x == First(b)
             rest == (b \ {x}) \ {y}
  <2>3. x \in b /\ IsFiniteSet(b) /\ b # {}
    BY <2>2, FirstIsThere, FS_Subset
  <2>4. SumOn(f, b) = f[x] + SumOn(f, b \ {x})
    BY <2>3, SumOnFirst
  <2> HIDE DEF x
  <2>5. x # y
    BY <2>2, <2>4
  <2>6. SumOn(f, b \ {x}) = f[y] + SumOn(f, rest)
    <3>1. b \ {x} \in SUBSET b /\ b \ {x} # b /\ y \in b \ {x}
      BY <2>2, <2>3, <2>5
    <3>2. \A z \in b \ {x} : SumOn(f, b \ {x}) = f[z] + SumOn(f, (b \ {x}) \ {z})
      BY <2>1, <3>1
    <3> HIDE DEF Bad
    <3>3. SumOn(f, b \ {x}) = f[y] + SumOn(f, (b \ {x}) \ {y})
      BY <3>1, <3>2
    <3>4. (b \ {x}) \ {y} = rest
      OBVIOUS
    <3> QED
      BY <3>3, <3>4
  <2>7. SumOn(f, b \ {y}) = f[x] + SumOn(f, rest)
    <3>1. b \ {y} \in SUBSET b /\ b \ {y} # b /\ x \in b \ {y}
      BY <2>2, <2>3, <2>5
    <3>2. \A z \in b \ {y} : SumOn(f, b \ {y}) = f[z] + SumOn(f, (b \ {y}) \ {z})
      BY <2>1, <3>1
    <3> HIDE DEF Bad
    <3>3. SumOn(f, b \ {y}) = f[x] + SumOn(f, (b \ {y}) \ {x})
      BY <3>1, <3>2
    <3>4. (b \ {y}) \ {x} = rest
      OBVIOUS
    <3> QED
      BY <3>3, <3>4
  <2>8. f[x] \in Int /\ f[y] \in Int /\ SumOn(f, rest) \in Int
    <3>1. IsFiniteSet(rest) /\ rest \in SUBSET rows
      BY <2>3, FS_Subset
    <3> HIDE DEF rest
    <3>2. SumOn(f, rest) \in Int
      BY <3>1, SumOnType
    <3> QED
      BY <2>2, <2>3, <3>2
  <2> HIDE DEF rest
  <2> QED
    BY <2>2, <2>4, <2>6, <2>7, <2>8
<1>2. rows \notin Bad
  BY <1>1
<1> QED
  BY <1>2

\* A new row adds its amount to the sum.
THEOREM SumWithRow ==
    ASSUME NEW f, NEW rows, IsFiniteSet(rows), \A row \in rows : f[row] \in Int,
           NEW one, f[one] \in Int, one \notin rows
    PROVE  SumOn(f, rows \cup {one}) = SumOn(f, rows) + f[one]
<1>1. IsFiniteSet(rows \cup {one})
  BY FS_AddElement
<1>2. (rows \cup {one}) \ {one} = rows
  OBVIOUS
<1>3. SumOn(f, rows) \in Int
  BY SumOnType
<1> QED
  BY <1>1, <1>2, <1>3, SumWithout

\* A sum depends on the amounts of the rows that are in it only.
THEOREM SumOfSame ==
    ASSUME NEW f, NEW g, NEW rows, IsFiniteSet(rows), \A row \in rows : f[row] = g[row]
    PROVE  SumOn(f, rows) = SumOn(g, rows)
<1> DEFINE Bad == {r \in SUBSET rows : SumOn(f, r) # SumOn(g, r)}
<1>1. ASSUME Bad # {} PROVE FALSE
  <2>1. PICK b \in Bad : \A c \in SUBSET b : c # b => c \notin Bad
    <3> HIDE DEF Bad
    <3>1. Bad \in SUBSET SUBSET rows
      BY DEF Bad
    <3> QED
      BY <1>1, <3>1, Minimal
  <2>2. b # {}
    BY <2>1, SumOnNone
  <2>3. First(b) \in b /\ IsFiniteSet(b)
    BY <2>2, FirstIsThere, FS_Subset
  <2>4. SumOn(f, b \ {First(b)}) = SumOn(g, b \ {First(b)})
    BY <2>1, <2>3
  <2>5. /\ SumOn(f, b) = f[First(b)] + SumOn(f, b \ {First(b)})
        /\ SumOn(g, b) = g[First(b)] + SumOn(g, b \ {First(b)})
    BY <2>2, <2>3, SumOnFirst
  <2>6. f[First(b)] = g[First(b)]
    BY <2>3
  <2>7. SumOn(f, b) = SumOn(g, b)
    BY <2>4, <2>5, <2>6
  <2> QED
    BY <2>1, <2>7
<1> QED
  BY <1>1

\* A hundred of each is a hundred of the sum.
LEMMA SumScaled ==
    ASSUME NEW f, NEW g, NEW rows, IsFiniteSet(rows), \A row \in rows : f[row] \in Int /\ g[row] = 100 * f[row]
    PROVE  SumOn(g, rows) = 100 * SumOn(f, rows)
<1> DEFINE Bad == {r \in SUBSET rows : SumOn(g, r) # 100 * SumOn(f, r)}
<1>1. ASSUME Bad # {} PROVE FALSE
  <2>1. PICK b \in Bad : \A c \in SUBSET b : c # b => c \notin Bad
    <3> HIDE DEF Bad
    <3>1. Bad \in SUBSET SUBSET rows
      BY DEF Bad
    <3> QED
      BY <1>1, <3>1, Minimal
  <2>2. b # {}
    <3>1. SumOn(g, {}) = 0 /\ SumOn(f, {}) = 0
      BY SumOnNone
    <3>2. SumOn(g, b) # 100 * SumOn(f, b)
      OBVIOUS
    <3> HIDE DEF Bad
    <3> QED
      BY <3>1, <3>2
  <2>3. First(b) \in b /\ IsFiniteSet(b)
    BY <2>2, FirstIsThere, FS_Subset
  <2>4. SumOn(g, b \ {First(b)}) = 100 * SumOn(f, b \ {First(b)})
    BY <2>1, <2>3
  <2>5. /\ SumOn(f, b) = f[First(b)] + SumOn(f, b \ {First(b)})
        /\ SumOn(g, b) = g[First(b)] + SumOn(g, b \ {First(b)})
    BY <2>2, <2>3, SumOnFirst
  <2>6. f[First(b)] \in Int /\ g[First(b)] = 100 * f[First(b)]
    BY <2>3
  <2>7. SumOn(f, b \ {First(b)}) \in Int
    <3>1. PICK c : c = b \ {First(b)}
      OBVIOUS
    <3>2. IsFiniteSet(c) /\ \A row \in c : f[row] \in Int
      BY <2>3, <3>1, FS_Subset
    <3>3. SumOn(f, c) \in Int
      BY <3>2, SumOnType
    <3> QED
      BY <3>1, <3>3
  <2>8. SumOn(g, b) = 100 * SumOn(f, b)
    BY <2>4, <2>5, <2>6, <2>7
  <2> QED
    BY <2>1, <2>8
<1> QED
  BY <1>1

-----------------------------------------------------------------------------
LEMMA SumOfNone == SumOf({}) = 0
  BY SumOnNone DEF SumOf

LEMMA SumOfType ==
    ASSUME NEW rows, IsFiniteSet(rows), NEW Numbers, Numbers = Nat \/ Numbers = Int,
           \A row \in rows : row.amount \in Numbers
    PROVE  SumOf(rows) \in Numbers
<1> DEFINE f == [row \in rows |-> row.amount]
<1>1. \A row \in rows : f[row] \in Numbers
  OBVIOUS
<1> HIDE DEF f
<1>2. SumOn(f, rows) \in Numbers
  BY <1>1, SumOnType
<1> QED
  BY <1>2 DEF SumOf, f

\* A new row adds its amount to the sum of the rows.
THEOREM SumOfWithRow ==
    ASSUME NEW rows, IsFiniteSet(rows), \A row \in rows : row.amount \in Int,
           NEW one, one.amount \in Int, one \notin rows
    PROVE  SumOf(rows \cup {one}) = SumOf(rows) + one.amount
<1> DEFINE f == [row \in rows |-> row.amount]
           g == [row \in rows \cup {one} |-> row.amount]
<1>1. /\ \A row \in rows : g[row] = f[row] /\ g[row] \in Int
      /\ g[one] = one.amount
  OBVIOUS
<1>2. SumOf(rows) = SumOn(f, rows) /\ SumOf(rows \cup {one}) = SumOn(g, rows \cup {one})
  BY DEF SumOf
<1> HIDE DEF f, g
<1>3. SumOn(g, rows) = SumOn(f, rows)
  BY <1>1, SumOfSame
<1>4. SumOn(g, rows \cup {one}) = SumOn(g, rows) + g[one]
  BY <1>1, SumWithRow
<1> QED
  BY <1>1, <1>2, <1>3, <1>4

-----------------------------------------------------------------------------
\* Facts about finite sets and bounds that proofs share with those about sums.
\* Of finitely many rows one has the highest value.
LEMMA Highest ==
    ASSUME NEW rows, IsFiniteSet(rows), rows # {}, NEW f, \A x \in rows : f[x] \in Int
    PROVE  \E x \in rows : \A y \in rows : f[y] <= f[x]
<1> DEFINE Bad == {b \in SUBSET rows : b # {} /\ ~\E x \in b : \A y \in b : f[y] <= f[x]}
<1> SUFFICES ASSUME Bad # {} PROVE FALSE
  OBVIOUS
<1>1. PICK b \in Bad : \A c \in SUBSET b : c # b => c \notin Bad
  <2> HIDE DEF Bad
  <2>1. Bad \in SUBSET SUBSET rows
    BY DEF Bad
  <2> QED
    BY <2>1, Minimal
<1>2. PICK x \in b : TRUE
  OBVIOUS
<1>3. CASE b = {x}
  BY <1>3
<1>4. CASE b # {x}
  <2> DEFINE c == b \ {x}
  <2>1. c # {} /\ c \in SUBSET b /\ c # b
    BY <1>2, <1>4
  <2>2. c \notin Bad /\ c \in SUBSET rows
    <3> HIDE DEF c
    <3> QED
      BY <1>1, <2>1 DEF Bad
  <2>3. PICK z \in c : \A y \in c : f[y] <= f[z]
    BY <2>1, <2>2
  <2>4. \A y \in b : y = x \/ y \in c
    OBVIOUS
  <2>5. f[z] \in Int /\ f[x] \in Int /\ z \in b /\ \A y \in b : f[y] \in Int
    BY <1>2, <2>3
  <2>6. \/ \A y \in b : f[y] <= f[x]
        \/ \A y \in b : f[y] <= f[z]
    <3> HIDE DEF c
    <3> QED
      BY <2>3, <2>4, <2>5
  <2> QED
    BY <1>2, <2>5, <2>6
<1> QED
  BY <1>3, <1>4

\* What holds of 0, and of n + 1 when it holds of n, holds up to any bound.
LEMMA UpTo ==
    ASSUME NEW c \in Nat, NEW good \in SUBSET (0 .. c), 0 \in good, \A n \in 0 .. c - 1 : n \in good => n + 1 \in good
    PROVE  c \in good
<1> DEFINE bad == (0 .. c) \ good
           f == [n \in bad |-> 0 - n]
<1> SUFFICES ASSUME bad # {} PROVE FALSE
  OBVIOUS
<1>1. PICK n \in bad : \A m \in bad : f[m] <= f[n]
  <2>1. IsFiniteSet(bad)
    <3>1. IsFiniteSet(0 .. c)
      BY FS_Interval
    <3>2. bad \in SUBSET (0 .. c)
      OBVIOUS
    <3> HIDE DEF bad
    <3> QED
      BY <3>1, <3>2, FS_Subset
  <2>2. \A m \in bad : f[m] \in Int
    OBVIOUS
  <2> HIDE DEF bad, f
  <2> QED
    BY <2>1, <2>2, Highest
<1>2. n \in 1 .. c /\ n - 1 \in 0 .. c - 1 /\ n - 1 + 1 = n
  OBVIOUS
<1>3. n - 1 \notin good
  BY <1>2
<1>4. n - 1 \in bad
  BY <1>2, <1>3
<1>5. 0 - (n - 1) <= 0 - n
  BY <1>1, <1>4
<1> QED
  BY <1>2, <1>5

LEMMA ThreeDifferent ==
    ASSUME NEW x0, NEW x1, NEW x2, x0 # x1, x1 # x2, x0 # x2 PROVE Cardinality({x0, x1, x2}) = 3
<1>1. IsFiniteSet({x2}) /\ Cardinality({x2}) = 1
  BY FS_Singleton
<1>2. IsFiniteSet({x1, x2}) /\ Cardinality({x1, x2}) = 2
  <2>1. {x1, x2} = {x2} \cup {x1} /\ x1 \notin {x2}
    OBVIOUS
  <2>2. IsFiniteSet({x2} \cup {x1}) /\ Cardinality({x2} \cup {x1}) = Cardinality({x2}) + 1
    BY <1>1, <2>1, FS_AddElement
  <2> QED
    BY <1>1, <2>1, <2>2
<1>3. {x0, x1, x2} = {x1, x2} \cup {x0} /\ x0 \notin {x1, x2}
  OBVIOUS
<1>4. Cardinality({x1, x2} \cup {x0}) = Cardinality({x1, x2}) + 1
  BY <1>2, <1>3, FS_AddElement
<1> QED
  BY <1>2, <1>3, <1>4

\* Three that are later than the rest of finitely many are the three latest.
Latest(all, when, three) ==
    /\ IsFiniteSet(all) /\ three \in SUBSET all /\ Cardinality(three) = 3
    /\ \A x \in all : when[x] \in Int
    /\ \A x \in three, y \in all \ three : when[y] < when[x]
LEMMA ThreeLatest ==
    ASSUME NEW all, NEW when, NEW three, Latest(all, when, three), NEW rows \in SUBSET all
    PROVE  (/\ Cardinality(rows) = 3 \/ (Cardinality(rows) < 3 /\ rows = all)
            /\ \A row \in rows, other \in all \ rows : when[other] <= when[row]) <=> rows = three
<1>1. /\ three \in SUBSET all /\ Cardinality(three) = 3 /\ \A x \in all : when[x] \in Int
      /\ \A x \in three, y \in all \ three : when[y] < when[x]
  BY DEF Latest
<1>2. \A some \in SUBSET all : IsFiniteSet(some) /\ Cardinality(some) \in Nat
  BY FS_Subset, FS_CardinalityType DEF Latest
<1>3. \A row \in three, other \in all \ three : when[other] <= when[row]
  <2>1. ASSUME NEW row \in three, NEW other \in all \ three PROVE when[other] <= when[row]
    <3>1. when[other] < when[row] /\ when[other] \in Int /\ when[row] \in Int
      BY <1>1, <2>1
    <3> QED
      BY <3>1
  <2> QED
    BY <2>1
<1>4. ASSUME Cardinality(rows) = 3 \/ (Cardinality(rows) < 3 /\ rows = all),
             \A row \in rows, other \in all \ rows : when[other] <= when[row]
      PROVE  rows = three
  <2>1. three \subseteq rows
    <3> SUFFICES ASSUME NEW y \in three, y \notin rows PROVE FALSE
      OBVIOUS
    <3>1. \A row \in rows : row \in three
      <4> SUFFICES ASSUME NEW row \in rows, row \notin three PROVE FALSE
        OBVIOUS
      <4>1. when[y] <= when[row] /\ when[row] < when[y]
        BY <1>1, <1>4
      <4>2. when[y] \in Int /\ when[row] \in Int
        BY <1>1
      <4> QED
        BY <4>1, <4>2
    <3>2. rows \subseteq three /\ rows # three
      BY <3>1
    <3>3. Cardinality(rows) <= Cardinality(three) /\ Cardinality(rows) # Cardinality(three)
      BY <1>1, <1>2, <3>2, FS_Subset
    <3>4. rows # all
      BY <1>1
    <3> QED
      BY <1>1, <1>2, <1>4, <3>3, <3>4
  <2>2. Cardinality(three) <= Cardinality(rows) /\ (Cardinality(three) = Cardinality(rows) => three = rows)
    BY <1>2, <2>1, FS_Subset
  <2>3. Cardinality(rows) = 3
    BY <1>1, <1>2, <1>4, <2>2
  <2> QED
    BY <1>1, <2>2, <2>3
<1> QED
  BY <1>1, <1>3, <1>4

\* The quotient and the remainder of a division.
LEMMA Divided ==
    ASSUME NEW n \in Nat, NEW d \in Nat, d > 0
    PROVE  n \div d \in Nat /\ n % d \in Nat /\ n % d < d /\ n = d * (n \div d) + (n % d)
<1>1. n \div d \in Nat
  OBVIOUS
<1>2. n % d \in Nat /\ n % d < d
  OBVIOUS
<1>3. n = d * (n \div d) + (n % d)
  OBVIOUS
<1> QED
  BY <1>1, <1>2, <1>3

\* A share of at most the whole.
LEMMA ShareUpTo ==
    ASSUME NEW k \in Nat, NEW a \in 0 .. k, NEW b \in Nat PROVE a * b \in Nat /\ a * b <= k * b
<1>1. PICK rest \in Nat : rest = k - a
  OBVIOUS
<1>2. a \in Nat /\ k = a + rest
  BY <1>1
<1>3. rest * b \in Nat /\ a * b \in Nat
  BY <1>1, <1>2
<1>4. k * b = a * b + rest * b
  BY <1>1, <1>2
<1> QED
  BY <1>3, <1>4

\* Rows that take different shares, each no more than its own, take no more than
\* all shares: what some rows take, and the shares they leave, are within the sum.
LEMMA SharesWithin ==
    ASSUME NEW ids, IsFiniteSet(ids), NEW codes, IsFiniteSet(codes), NEW w \in [codes -> Nat], NEW f \in [ids -> Nat],
           NEW name \in [ids -> codes], \A i, j \in ids : i # j => name[i] # name[j], \A i \in ids : f[i] <= w[name[i]]
    PROVE  SumOn(f, ids) <= SumOn(w, codes)
<1> DEFINE left(r) == {code \in codes : \A i \in r : name[i] # code}
           Bad == {r \in SUBSET ids : ~(SumOn(f, r) + SumOn(w, left(r)) <= SumOn(w, codes))}
<1>1. \A r \in SUBSET ids : SumOn(f, r) \in Nat /\ IsFiniteSet(r)
  <2>1. ASSUME NEW r \in SUBSET ids PROVE SumOn(f, r) \in Nat /\ IsFiniteSet(r)
    <3>1. IsFiniteSet(r) /\ \A i \in r : f[i] \in Nat
      BY FS_Subset
    <3> QED
      BY <3>1, SumOnType
  <2> QED
    BY <2>1
<1>2. \A some \in SUBSET codes : SumOn(w, some) \in Nat /\ IsFiniteSet(some)
  <2>1. ASSUME NEW some \in SUBSET codes PROVE SumOn(w, some) \in Nat /\ IsFiniteSet(some)
    <3>1. IsFiniteSet(some) /\ \A i \in some : w[i] \in Nat
      BY FS_Subset
    <3> QED
      BY <3>1, SumOnType
  <2> QED
    BY <2>1
<1>3. \A r : left(r) \in SUBSET codes
  OBVIOUS
<1>4. ASSUME Bad # {} PROVE FALSE
  <2>1. PICK b \in Bad : \A c \in SUBSET b : c # b => c \notin Bad
    <3> HIDE DEF Bad
    <3>1. Bad \in SUBSET SUBSET ids
      BY DEF Bad
    <3> QED
      BY <1>4, <3>1, Minimal
  <2>2. b \in SUBSET ids /\ ~(SumOn(f, b) + SumOn(w, left(b)) <= SumOn(w, codes))
    OBVIOUS
  <2>3. b # {}
    <3>1. left({}) = codes
      OBVIOUS
    <3>2. SumOn(f, {}) = 0 /\ SumOn(w, codes) \in Nat
      BY <1>2, SumOnNone
    <3> HIDE DEF left, Bad
    <3>3. ASSUME b = {} PROVE FALSE
      BY <2>2, <3>1, <3>2, <3>3
    <3> QED
      BY <3>3
  <2>4. PICK i \in b : TRUE
    BY <2>3
  <2>5. PICK c : c = b \ {i}
    OBVIOUS
  <2>6. c \in SUBSET ids /\ SumOn(f, c) + SumOn(w, left(c)) <= SumOn(w, codes)
    <3>1. c \in SUBSET b /\ c # b
      BY <2>4, <2>5
    <3>2. c \notin Bad /\ c \in SUBSET ids
      <4> HIDE DEF Bad
      <4> QED
        BY <2>1, <2>2, <3>1
    <3> HIDE DEF left
    <3> QED
      BY <3>2
  <2>7. PICK code \in codes : code = name[i]
    BY <2>2, <2>4
  <2>8. SumOn(f, b) = f[i] + SumOn(f, c)
    <3>1. IsFiniteSet(b) /\ \A j \in b : f[j] \in Int
      BY <1>1, <2>2
    <3> HIDE DEF Bad
    <3>2. SumOn(f, b) = f[i] + SumOn(f, b \ {i})
      BY <2>4, <3>1, SumWithout
    <3> QED
      BY <2>5, <3>2
  <2>9. SumOn(w, left(c)) = w[code] + SumOn(w, left(b))
    <3>1. code \in left(c)
      <4>1. \A j \in c : name[j] # code
        BY <2>2, <2>4, <2>5, <2>7
      <4> QED
        BY <4>1
    <3>2. left(b) = left(c) \ {code}
      <4>1. \A x \in codes : x \in left(b) <=> x \in left(c) /\ x # code
        BY <2>4, <2>5, <2>7
      <4> QED
        BY <4>1
    <3>3. IsFiniteSet(left(c)) /\ \A x \in left(c) : w[x] \in Int
      BY <1>2, <1>3
    <3> HIDE DEF left
    <3>4. SumOn(w, left(c)) = w[code] + SumOn(w, left(c) \ {code})
      BY <3>1, <3>3, SumWithout
    <3> QED
      BY <3>2, <3>4
  <2>10. f[i] \in Nat /\ f[i] <= w[code] /\ w[code] \in Nat
    BY <2>2, <2>4, <2>7
  <2>11. SumOn(f, c) \in Nat /\ SumOn(w, left(b)) \in Nat /\ SumOn(w, codes) \in Nat
    <3>1. left(b) \in SUBSET codes
      OBVIOUS
    <3> HIDE DEF left
    <3> QED
      BY <1>1, <1>2, <2>6, <3>1
  <2>12. SumOn(f, b) + SumOn(w, left(b)) <= SumOn(w, codes)
    <3> HIDE DEF left, Bad
    <3> QED
      BY <2>6, <2>8, <2>9, <2>10, <2>11
  <2> QED
    BY <2>2, <2>12
<1>5. SumOn(f, ids) + SumOn(w, left(ids)) <= SumOn(w, codes)
  BY <1>4
<1>6. SumOn(f, ids) \in Nat /\ SumOn(w, left(ids)) \in Nat /\ SumOn(w, codes) \in Nat
  <2>1. left(ids) \in SUBSET codes
    OBVIOUS
  <2> HIDE DEF left
  <2> QED
    BY <1>1, <1>2, <2>1
<1> HIDE DEF left, Bad
<1> QED
  BY <1>5, <1>6

\* What rounding each product by itself may lose, among some of the items.
LEMMA RoundingSome ==
    ASSUME NEW ids, IsFiniteSet(ids), NEW prices, NEW stored, NEW broken \in SUBSET ids,
           \A i \in ids : /\ stored[i] \in Int /\ prices[i] \in Int
                          /\ prices[i] - 100 * stored[i] <= 49 /\ 100 * stored[i] - prices[i] <= 50
                          /\ i \notin broken => prices[i] = 100 * stored[i]
    PROVE  /\ SumOn(prices, ids) \in Int /\ SumOn(stored, ids) \in Int /\ Cardinality(broken) \in Nat
           /\ SumOn(prices, ids) - 100 * SumOn(stored, ids) <= 49 * Cardinality(broken)
           /\ 100 * SumOn(stored, ids) - SumOn(prices, ids) <= 50 * Cardinality(broken)
<1> DEFINE Near(r) == /\ SumOn(prices, r) - 100 * SumOn(stored, r) <= 49 * Cardinality(broken \cap r)
                      /\ 100 * SumOn(stored, r) - SumOn(prices, r) <= 50 * Cardinality(broken \cap r)
           Bad == {r \in SUBSET ids : ~Near(r)}
<1>1. (\A i \in ids : prices[i] \in Int) /\ (\A i \in ids : stored[i] \in Int)
  BY Zenon
<1>2. \A r \in SUBSET ids : IsFiniteSet(r) /\ SumOn(prices, r) \in Int /\ SumOn(stored, r) \in Int
  <2>1. ASSUME NEW r \in SUBSET ids PROVE IsFiniteSet(r) /\ SumOn(prices, r) \in Int /\ SumOn(stored, r) \in Int
    <3>1. IsFiniteSet(r)
      BY FS_Subset
    <3>2. (\A i \in r : prices[i] \in Int) /\ (\A i \in r : stored[i] \in Int)
      BY <1>1, Zenon
    <3>3. SumOn(prices, r) \in Int
      BY <3>1, <3>2, SumOnType
    <3>4. SumOn(stored, r) \in Int
      BY <3>1, <3>2, SumOnType
    <3> QED
      BY <3>1, <3>3, <3>4
  <2> QED
    BY <2>1
<1>3. Bad = {}
  <2> SUFFICES ASSUME Bad # {} PROVE FALSE
    OBVIOUS
  <2>1. PICK b \in Bad : \A c \in SUBSET b : c # b => c \notin Bad
    <3> HIDE DEF Bad
    <3>1. Bad \in SUBSET SUBSET ids
      BY DEF Bad
    <3> QED
      BY <3>1, Minimal
  <2>2. b \in SUBSET ids /\ ~Near(b)
    OBVIOUS
  <2>3. b # {}
    <3>1. Near({})
      BY SumOnNone, FS_EmptySet
    <3> QED
      BY <2>2, <3>1
  <2>4. PICK one \in b : TRUE
    BY <2>3
  <2>5. PICK c : c = b \ {one}
    OBVIOUS
  <2>6. c \in SUBSET ids /\ Near(c)
    <3>1. c \in SUBSET b /\ c # b /\ c \in SUBSET ids
      BY <2>2, <2>4, <2>5
    <3>2. c \notin Bad
      <4> HIDE DEF Bad
      <4> QED
        BY <2>1, <3>1
    <3> QED
      BY <3>1, <3>2
  <2>7. SumOn(prices, b) = prices[one] + SumOn(prices, c) /\ SumOn(stored, b) = stored[one] + SumOn(stored, c)
    <3>1. IsFiniteSet(b) /\ (\A i \in b : prices[i] \in Int) /\ (\A i \in b : stored[i] \in Int)
      BY <1>1, <1>2, <2>2, Zenon
    <3>2. SumOn(prices, b) = prices[one] + SumOn(prices, b \ {one})
      BY <2>4, <3>1, SumWithout
    <3>3. SumOn(stored, b) = stored[one] + SumOn(stored, b \ {one})
      BY <2>4, <3>1, SumWithout
    <3> QED
      BY <2>5, <3>2, <3>3
  <2>8. PICK k : k = Cardinality(broken \cap c)
    OBVIOUS
  <2>9. k \in Nat /\ Cardinality(broken \cap b) = IF one \in broken THEN k + 1 ELSE k
    <3>1. IsFiniteSet(broken \cap c) /\ one \notin broken \cap c
      BY <1>2, <2>5, <2>6, FS_Subset
    <3>2. broken \cap b = IF one \in broken THEN (broken \cap c) \cup {one} ELSE broken \cap c
      BY <2>4, <2>5
    <3>3. k \in Nat /\ Cardinality((broken \cap c) \cup {one}) = k + 1
      BY <2>8, <3>1, FS_CardinalityType, FS_AddElement
    <3> QED
      BY <2>8, <3>2, <3>3
  <2>10. /\ prices[one] \in Int /\ stored[one] \in Int /\ prices[one] - 100 * stored[one] <= 49 /\ 100 * stored[one] - prices[one] <= 50
         /\ one \notin broken => prices[one] = 100 * stored[one]
    <3>1. one \in ids
      BY <2>2, <2>4
    <3> QED
      BY <3>1, Zenon
  <2>11. SumOn(prices, c) \in Int /\ SumOn(stored, c) \in Int
    BY <1>2, <2>6
  <2>12. SumOn(prices, c) - 100 * SumOn(stored, c) <= 49 * k /\ 100 * SumOn(stored, c) - SumOn(prices, c) <= 50 * k
    BY <2>6, <2>8
  <2>13. Near(b)
    <3>1. CASE one \in broken
      BY <2>7, <2>9, <2>10, <2>11, <2>12, <3>1
    <3>2. CASE one \notin broken
      BY <2>7, <2>9, <2>10, <2>11, <2>12, <3>2
    <3> QED
      BY <3>1, <3>2
  <2> QED
    BY <2>2, <2>13
<1>4. Near(ids)
  <2>1. ids \in SUBSET ids /\ ids \notin Bad
    <3> HIDE DEF Bad
    <3> QED
      BY <1>3
  <2> QED
    BY <2>1
<1>5. broken \cap ids = broken /\ Cardinality(broken) \in Nat
  BY <1>2, FS_CardinalityType
<1> QED
  BY <1>2, <1>4, <1>5
-----------------------------------------------------------------------------
\* Not of sums: the rows of a table.
\* What a handler that saw the row as it is writes is what it meant to.
LEMMA Unseen ==
    ASSUME NEW now, NEW new, new = [column \in DOMAIN now |-> new[column]]
    PROVE  [column \in DOMAIN now |-> IF new[column] = now[column] THEN now[column] ELSE new[column]] = new
  OBVIOUS

\* A row is stored under its key, all others stay.
LEMMA RowStored ==
    ASSUME NEW Keys, NEW Rows, NEW nothing, nothing \notin Rows, NEW table \in [Keys -> Rows \cup {nothing}],
           NEW k \in Keys, NEW row \in Rows, NEW new, new = [table EXCEPT ![k] = row]
    PROVE  /\ new \in [Keys -> Rows \cup {nothing}]
           /\ new[k] = row /\ row # nothing
           /\ \A r \in Keys : /\ r # k => new[r] = table[r]
                              /\ table[r] # nothing => new[r] # nothing
  OBVIOUS
=============================================================================
