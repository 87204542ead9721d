------------------------- MODULE CalculationsProofs -------------------------
(***************************************************************************)
(* What the functions of the repository answer, for every input: sums and  *)
(* their rounding, the choice of a stage, exports and verdicts.            *)
(*                                                                         *)
(* The folds of the community modules are the loops of the code.  A proof  *)
(* by induction is one of a smallest counterexample, which the library has *)
(* for the natural numbers; a sequence is gone through by its prefixes, a  *)
(* set by its subsets.                                                     *)
(***************************************************************************)
EXTENDS MCCalculations, FiniteSetTheorems, FunctionTheorems, WellFoundedInduction, TLAPS

-----------------------------------------------------------------------------
(* Induction.                                                              *)

\* A set of natural numbers has a least element.
LEMMA LeastNumber ==
  ASSUME NEW S \in SUBSET Nat, S # {}
  PROVE  \E m \in S : \A k \in S : m <= k
<1> DEFINE R == OpToRel(<, Nat)
<1>1. IsWellFoundedOn(R, Nat)
  BY NatLessThanWellFounded
<1>2. \A x, y \in Nat : x < y => <<x, y>> \in R
  BY DEF OpToRel
<1> HIDE DEF R
<1>3. PICK m \in S : \A k \in S : ~(<<k, m>> \in R)
  BY <1>1, WFMin
<1>4. \A k \in S : ~(k < m)
  <2> SUFFICES ASSUME NEW k \in S, k < m PROVE FALSE
    OBVIOUS
  <2>1. <<k, m>> \in R
    BY <1>2
  <2> QED BY <1>3, <2>1
<1> QED BY <1>4

\* What holds of no prefix or of each that is longer by one, holds of all.
LEMMA ByPrefixes ==
  ASSUME NEW n \in Nat, NEW S, 0 \in S, \A i \in 1..n : i - 1 \in S => i \in S
  PROVE  0..n \subseteq S
<1> DEFINE Bad == (0..n) \ S
<1> SUFFICES ASSUME Bad # {} PROVE FALSE
  OBVIOUS
<1>1. PICK m \in Bad : \A k \in Bad : m <= k
  <2>1. Bad \in SUBSET Nat
    OBVIOUS
  <2> QED BY <2>1, LeastNumber
<1>2. m \in 1..n /\ m - 1 \in 0..n /\ ~(m <= m - 1)
  BY <1>1
<1> QED BY <1>1, <1>2

\* Of the subsets of a finite set that are counterexamples, one is so small
\* that without any of its elements it is none.
LEMMA SmallestSubset ==
  ASSUME NEW S, IsFiniteSet(S), NEW Bad \in SUBSET (SUBSET S), Bad # {}
  PROVE  \E T \in Bad : \A x \in T : T \ {x} \notin Bad
<1> DEFINE sizes == {Cardinality(T) : T \in Bad}
<1>1. \A T \in SUBSET S : IsFiniteSet(T) /\ Cardinality(T) \in Nat
  BY FS_Subset, FS_CardinalityType
<1>2. PICK m \in sizes : \A k \in sizes : m <= k
  <2>1. sizes \in SUBSET Nat /\ sizes # {}
    BY <1>1
  <2> QED BY <2>1, LeastNumber
<1>3. PICK T \in Bad : Cardinality(T) = m
  BY <1>2
<1>4. ASSUME NEW x \in T PROVE T \ {x} \notin Bad
  <2>1. Cardinality(T \ {x}) = m - 1
    BY <1>1, <1>3, FS_RemoveElement
  <2> QED BY <1>1, <1>2, <1>3, <2>1
<1> QED BY <1>4

-----------------------------------------------------------------------------
(* Folds.                                                                  *)

\* g is the fold of the subsets of S.
FoldOf(g, S, base, chosen, step) ==
  g = [s \in SUBSET S |-> IF s = {} THEN base ELSE step[chosen[s], g[s \ {chosen[s]}]]]

\* A fold of a finite set exists: there is a function of its subsets that
\* takes one element, the one chosen, and the value of the others.
LEMMA FoldExists ==
  ASSUME NEW S, IsFiniteSet(S), NEW V, NEW base \in V,
         NEW chosen, \A s \in (SUBSET S) \ {{}} : chosen[s] \in s,
         NEW step \in [S \X V -> V]
  PROVE  \E g \in [SUBSET S -> V] : FoldOf(g, S, base, chosen, step)
<1> DEFINE Holds(g, s) == g[s] = IF s = {} THEN base ELSE step[chosen[s], g[s \ {chosen[s]}]]
           Upto == {n \in Nat : \E g \in [SUBSET S -> V] :
                      \A s \in SUBSET S : Cardinality(s) <= n => Holds(g, s)}
           size == Cardinality(S)
<1>1. \A T \in SUBSET S : IsFiniteSet(T) /\ Cardinality(T) \in 0..size
  BY FS_Subset, FS_CardinalityType
<1>2. 0 \in Upto
  <2> DEFINE g == [s \in SUBSET S |-> base]
  <2>1. g \in [SUBSET S -> V]
    OBVIOUS
  <2>2. ASSUME NEW s \in SUBSET S, Cardinality(s) <= 0 PROVE s = {}
    BY <1>1, <2>2, FS_EmptySet
  <2> QED BY <2>1, <2>2
<1>3. ASSUME NEW n \in 1..size, n - 1 \in Upto PROVE n \in Upto
  <2>1. PICK f \in [SUBSET S -> V] : \A s \in SUBSET S : Cardinality(s) <= n - 1 => Holds(f, s)
    BY <1>3
  <2> DEFINE g == [s \in SUBSET S |->
                     IF s = {} THEN base
                     ELSE IF Cardinality(s) <= n - 1 THEN f[s]
                     ELSE step[chosen[s], f[s \ {chosen[s]}]]]
  <2>2. g \in [SUBSET S -> V]
    <3> SUFFICES ASSUME NEW s \in SUBSET S, s # {} PROVE step[chosen[s], f[s \ {chosen[s]}]] \in V
      OBVIOUS
    <3>1. chosen[s] \in S /\ s \ {chosen[s]} \in SUBSET S
      OBVIOUS
    <3>2. f[s \ {chosen[s]}] \in V
      BY <3>1
    <3> QED BY <3>1, <3>2
  <2>3. ASSUME NEW s \in SUBSET S, Cardinality(s) <= n PROVE Holds(g, s)
    <3>1. CASE s = {}
      BY <3>1
    <3>2. CASE s # {}
      <4> DEFINE t == s \ {chosen[s]}
      <4>1. chosen[s] \in s /\ t \in SUBSET S
        BY <3>2
      <4>2. Cardinality(t) = Cardinality(s) - 1
        BY <1>1, <4>1, FS_RemoveElement
      <4>3. Cardinality(t) <= n - 1
        BY <1>1, <2>3, <4>2
      <4>4. g[t] = f[t]
        <5>1. CASE t = {}
          <6>1. Holds(f, t)
            BY <2>1, <4>1, <4>3
          <6> QED BY <4>1, <5>1, <6>1
        <5>2. CASE t # {}
          BY <4>1, <4>3, <5>2
        <5> QED BY <5>1, <5>2
      <4>5. g[s] = step[chosen[s], f[t]]
        <5>1. CASE Cardinality(s) <= n - 1
          <6>1. Holds(f, s)
            BY <2>1, <5>1
          <6> QED BY <3>2, <5>1, <6>1
        <5>2. CASE ~(Cardinality(s) <= n - 1)
          BY <3>2, <5>2
        <5> QED BY <5>1, <5>2
      <4> QED BY <3>2, <4>4, <4>5
    <3> QED BY <3>1, <3>2
  <2>4. n \in Nat
    OBVIOUS
  <2> HIDE DEF g, Holds
  <2> QED BY <2>2, <2>3, <2>4, Zenon
<1>4. size \in Nat
  BY FS_CardinalityType
<1> HIDE DEF Holds
<1>5. size \in Upto
  <2> HIDE DEF Upto
  <2> QED BY <1>2, <1>3, <1>4, ByPrefixes
<1>6. PICK g \in [SUBSET S -> V] : \A s \in SUBSET S : Cardinality(s) <= size => Holds(g, s)
  BY <1>5
<1>7. \A s \in SUBSET S : Holds(g, s)
  BY <1>1, <1>4, <1>6
<1> USE DEF Holds
<1>8. FoldOf(g, S, base, chosen, step)
  BY <1>7 DEF FoldOf
<1> QED BY <1>8

\* The greatest of some numbers up to n.
LEMMA MaxOfPart ==
  ASSUME NEW n \in Nat, NEW s \in (SUBSET (1..n)) \ {{}}
  PROVE  Max(s) \in s /\ \A k \in s : k <= Max(s)
<1> DEFINE gaps == {n - k : k \in s}
<1>1. PICK m \in gaps : \A k \in gaps : m <= k
  <2>1. gaps \in SUBSET Nat /\ gaps # {}
    OBVIOUS
  <2> QED BY <2>1, LeastNumber
<1>2. PICK k \in s : m = n - k
  BY <1>1
<1>3. \A j \in s : k >= j
  BY <1>1, <1>2
<1> QED BY <1>2, <1>3 DEF Max

LEMMA MaxOfPrefix ==
  ASSUME NEW n \in Nat, NEW i \in 1..n
  PROVE  /\ 1..i \in (SUBSET (1..n)) \ {{}} /\ Max(1..i) = i
         /\ (1..i) \ {Max(1..i)} = 1..(i - 1)
<1>1. 1..i \in (SUBSET (1..n)) \ {{}}
  OBVIOUS
<1>2. Max(1..i) \in 1..i /\ \A k \in 1..i : k <= Max(1..i)
  BY <1>1, MaxOfPart
<1> QED BY <1>1, <1>2

-----------------------------------------------------------------------------
(* Sums of sequences.                                                      *)

\* g adds up f, from the last number down.
SumFold(g, n, f) ==
  g = [s \in SUBSET (1..n) |-> IF s = {} THEN 0 ELSE g[s \ {Max(s)}] + f[Max(s)]]

\* h are the sums of f so far.
SumsOf(h, n, f) == h \in [0..n -> Int] /\ h[0] = 0 /\ \A i \in 1..n : h[i] = h[i - 1] + f[i]

LEMMA SumExists ==
  ASSUME NEW n \in Nat, NEW f \in [1..n -> Int]
  PROVE  \E g : SumFold(g, n, f)
<1> DEFINE chosen == [s \in SUBSET (1..n) |-> Max(s)]
           step == [t \in (1..n) \X Int |-> t[2] + f[t[1]]]
<1>1. \A s \in (SUBSET (1..n)) \ {{}} : chosen[s] \in s /\ chosen[s] = Max(s)
  BY MaxOfPart
<1>2. step \in [(1..n) \X Int -> Int] /\ 0 \in Int
  OBVIOUS
<1>3. IsFiniteSet(1..n)
  BY FS_Interval
<1>4. \A k \in 1..n, m \in Int : step[k, m] = m + f[k]
  OBVIOUS
<1> HIDE DEF chosen, step
<1>5. PICK g \in [SUBSET (1..n) -> Int] : FoldOf(g, 1..n, 0, chosen, step)
  BY <1>1, <1>2, <1>3, FoldExists
<1>6. ASSUME NEW s \in SUBSET (1..n), s # {}
      PROVE  step[chosen[s], g[s \ {chosen[s]}]] = g[s \ {Max(s)}] + f[Max(s)]
  <2>1. Max(s) \in 1..n /\ chosen[s] = Max(s)
    BY <1>1, <1>6
  <2>2. g[s \ {Max(s)}] \in Int
    OBVIOUS
  <2> QED BY <1>4, <2>1, <2>2
<1>7. SumFold(g, n, f)
  BY <1>5, <1>6 DEF FoldOf, SumFold
<1> QED BY <1>7

\* What such a fold makes of the prefixes.
LEMMA SumOfPrefixes ==
  ASSUME NEW n \in Nat, NEW f \in [1..n -> Int], NEW g, SumFold(g, n, f)
  PROVE  \E h : SumsOf(h, n, f) /\ h[n] = g[1..n]
<1> DEFINE h == [i \in 0..n |-> g[1..i]]
<1>1. g[1..0] = 0
  <2>1. 1..0 = {} /\ {} \in SUBSET (1..n)
    OBVIOUS
  <2> QED BY <2>1 DEF SumFold
<1>2. ASSUME NEW i \in 1..n PROVE g[1..i] = g[1..(i - 1)] + f[i]
  BY MaxOfPrefix DEF SumFold
<1>3. h[0] = 0 /\ h[n] = g[1..n]
  BY <1>1
<1>4. ASSUME NEW i \in 1..n PROVE h[i] = h[i - 1] + f[i]
  <2>1. i \in 0..n /\ i - 1 \in 0..n
    OBVIOUS
  <2>2. h[i] = g[1..i] /\ h[i - 1] = g[1..(i - 1)]
    BY <2>1
  <2> QED BY <1>2, <2>2
<1>5. DOMAIN h = 0..n /\ h = [i \in 0..n |-> h[i]]
  OBVIOUS
<1> HIDE DEF h
<1> DEFINE Whole == {i \in 0..n : h[i] \in Int}
<1>6. 0..n \subseteq Whole
  <2>1. 0 \in Whole
    BY <1>3
  <2>2. ASSUME NEW i \in 1..n, i - 1 \in Whole PROVE i \in Whole
    BY <1>4, <2>2
  <2> HIDE DEF Whole
  <2> QED BY <2>1, <2>2, ByPrefixes
<1>7. h \in [0..n -> Int]
  BY <1>5, <1>6
<1> QED BY <1>3, <1>4, <1>7 DEF SumsOf

Item == [quantity : Int, price : Int]

MoneyOf(items) == [i \in 1..Len(items) |-> MultiplyMoney(items[i].price, items[i].quantity)]
ExactOf(items) == [i \in 1..Len(items) |-> items[i].price * items[i].quantity]

LEMMA RoundQuotientIsInt ==
  \A a \in Int : RoundQuotient(a, 100) \in Int /\ RoundQuotient(a, 10000) \in Int
BY DEF RoundQuotient

\* A rounded quotient is half a unit off at most.
LEMMA RoundQuotientIsNear ==
  /\ \A a \in Int : Absolute(2 * (100 * RoundQuotient(a, 100) - a)) <= 100
  /\ \A a \in Int : Absolute(2 * (10000 * RoundQuotient(a, 10000) - a)) <= 10000
BY DEF RoundQuotient, Absolute

LEMMA ItemNumbers ==
  ASSUME NEW items \in Seq(Item), NEW i \in 1..Len(items)
  PROVE  /\ items[i] \in Item /\ items[i].price \in Int /\ items[i].quantity \in Int
         /\ items[i].price * items[i].quantity \in Int
         /\ MultiplyMoney(items[i].price, items[i].quantity) \in Int
<1>1. items[i] \in Item
  OBVIOUS
<1>2. items[i].price \in Int /\ items[i].quantity \in Int
  BY <1>1 DEF Item
<1> DEFINE m == items[i].price * items[i].quantity
<1>3. m \in Int
  BY <1>2
<1>4. MultiplyMoney(items[i].price, items[i].quantity) = RoundQuotient(m, 100)
  BY DEF MultiplyMoney
<1>5. RoundQuotient(m, 100) \in Int
  <2> HIDE DEF m
  <2> QED BY <1>3, RoundQuotientIsInt
<1> QED BY <1>1, <1>2, <1>3, <1>4, <1>5

\* The subtotal, prefix by prefix.
LEMMA SubtotalByPrefixes ==
  ASSUME NEW items \in Seq(Item)
  PROVE  \E h : SumsOf(h, Len(items), MoneyOf(items)) /\ h[Len(items)] = Subtotal(items)
<1> DEFINE n == Len(items)
           f == MoneyOf(items)
           Fold(g) == g = [s \in SUBSET DOMAIN items |->
                             IF s = {} THEN 0
                             ELSE g[s \ {Max(s)}] + MultiplyMoney(items[Max(s)].price, items[Max(s)].quantity)]
           G == CHOOSE g : Fold(g)
<1>1. n \in Nat /\ DOMAIN items = 1..n
  OBVIOUS
<1>2. f \in [1..n -> Int]
  BY ItemNumbers DEF MoneyOf
<1>3. Subtotal(items) = G[DOMAIN items]
  BY DEF Subtotal, FoldLeft, MapThenFoldSet
<1>4. \A s \in (SUBSET (1..n)) \ {{}} : f[Max(s)] = MultiplyMoney(items[Max(s)].price, items[Max(s)].quantity)
  BY <1>1, MaxOfPart DEF MoneyOf
<1> HIDE DEF f
<1>5. ASSUME NEW g PROVE Fold(g) <=> SumFold(g, n, f)
  BY <1>1, <1>4 DEF SumFold
<1>6. \E g : SumFold(g, n, f)
  BY <1>1, <1>2, SumExists
<1> HIDE DEF Fold
<1>7. Fold(G)
  BY <1>5, <1>6
<1> HIDE DEF G, n
<1>8. SumFold(G, n, f)
  BY <1>5, <1>7
<1>9. PICK h : SumsOf(h, n, f) /\ h[n] = G[1..n]
  BY <1>1, <1>2, <1>8, SumOfPrefixes
<1> QED BY <1>1, <1>3, <1>9 DEF f, n

\* The sum that is not rounded, likewise.
LEMMA ExactByPrefixes ==
  ASSUME NEW items \in Seq(Item)
  PROVE  \E h : SumsOf(h, Len(items), ExactOf(items)) /\ h[Len(items)] = Exact(items)
<1> DEFINE n == Len(items)
           f == ExactOf(items)
           Fold(g) == g = [s \in SUBSET DOMAIN items |->
                             IF s = {} THEN 0
                             ELSE g[s \ {Max(s)}] + items[Max(s)].price * items[Max(s)].quantity]
           G == CHOOSE g : Fold(g)
<1>1. n \in Nat /\ DOMAIN items = 1..n
  OBVIOUS
<1>2. f \in [1..n -> Int]
  BY ItemNumbers DEF ExactOf
<1>3. Exact(items) = G[DOMAIN items]
  BY DEF Exact, FoldLeft, MapThenFoldSet
<1>4. \A s \in (SUBSET (1..n)) \ {{}} : f[Max(s)] = items[Max(s)].price * items[Max(s)].quantity
  BY <1>1, MaxOfPart DEF ExactOf
<1> HIDE DEF f
<1>5. ASSUME NEW g PROVE Fold(g) <=> SumFold(g, n, f)
  BY <1>1, <1>4 DEF SumFold
<1>6. \E g : SumFold(g, n, f)
  BY <1>1, <1>2, SumExists
<1> HIDE DEF Fold
<1>7. Fold(G)
  BY <1>5, <1>6
<1> HIDE DEF G, n
<1>8. SumFold(G, n, f)
  BY <1>5, <1>7
<1>9. PICK h : SumsOf(h, n, f) /\ h[n] = G[1..n]
  BY <1>1, <1>2, <1>8, SumOfPrefixes
<1> QED BY <1>1, <1>3, <1>9 DEF f, n

LEMMA NearByOneMore ==
  ASSUME NEW a \in Int, NEW b \in Int, NEW c \in Int, NEW d \in Int, NEW k \in Int,
         Absolute(2 * (100 * a - b)) <= k, Absolute(2 * (100 * c - d)) <= 100
  PROVE  Absolute(2 * (100 * (a + c) - (b + d))) <= k + 100
BY DEF Absolute

\* Each item is half a cent off at most.
LEMMA SubtotalIsNear ==
  ASSUME NEW items \in Seq(Item)
  PROVE  Absolute(2 * (100 * Subtotal(items) - Exact(items))) <= 100 * Len(items)
<1> DEFINE n == Len(items)
<1>1. n \in Nat
  OBVIOUS
<1>2. PICK h : SumsOf(h, n, MoneyOf(items)) /\ h[n] = Subtotal(items)
  BY SubtotalByPrefixes
<1>3. PICK e : SumsOf(e, n, ExactOf(items)) /\ e[n] = Exact(items)
  BY ExactByPrefixes
<1>4. ASSUME NEW i \in 1..n
      PROVE  /\ MoneyOf(items)[i] \in Int /\ ExactOf(items)[i] \in Int
             /\ Absolute(2 * (100 * MoneyOf(items)[i] - ExactOf(items)[i])) <= 100
  <2> DEFINE m == items[i].price * items[i].quantity
  <2>1. m \in Int /\ MultiplyMoney(items[i].price, items[i].quantity) \in Int
    BY ItemNumbers
  <2>2. MoneyOf(items)[i] = RoundQuotient(m, 100) /\ ExactOf(items)[i] = m
    BY DEF MoneyOf, ExactOf, MultiplyMoney
  <2> HIDE DEF m
  <2>3. Absolute(2 * (100 * RoundQuotient(m, 100) - m)) <= 100
    BY <2>1 DEF RoundQuotient, Absolute
  <2>4. RoundQuotient(m, 100) \in Int
    BY <2>1, RoundQuotientIsInt
  <2> QED BY <2>1, <2>2, <2>3, <2>4
<1> HIDE DEF n
<1> DEFINE Near == {i \in 0..n : Absolute(2 * (100 * h[i] - e[i])) <= 100 * i}
<1>5. 0..n \subseteq Near
  <2>1. 0 \in Near
    BY <1>1, <1>2, <1>3 DEF Absolute, SumsOf
  <2>2. ASSUME NEW i \in 1..n, i - 1 \in Near PROVE i \in Near
    <3>1. h[i - 1] \in Int /\ e[i - 1] \in Int /\ i \in 0..n
          /\ Absolute(2 * (100 * h[i - 1] - e[i - 1])) <= 100 * (i - 1)
      BY <1>1, <1>2, <1>3, <2>2 DEF SumsOf
    <3>2. h[i] = h[i - 1] + MoneyOf(items)[i] /\ e[i] = e[i - 1] + ExactOf(items)[i]
      BY <1>2, <1>3 DEF SumsOf
    <3>3. MoneyOf(items)[i] \in Int /\ ExactOf(items)[i] \in Int
          /\ Absolute(2 * (100 * MoneyOf(items)[i] - ExactOf(items)[i])) <= 100
      BY <1>4
    <3>4. 100 * (i - 1) \in Int /\ 100 * (i - 1) + 100 = 100 * i
      BY <1>1
    <3>5. Absolute(2 * (100 * (h[i - 1] + MoneyOf(items)[i]) - (e[i - 1] + ExactOf(items)[i])))
            <= 100 * (i - 1) + 100
      BY <3>1, <3>3, <3>4, NearByOneMore, Zenon
    <3>6. Absolute(2 * (100 * h[i] - e[i])) <= 100 * i
      BY <3>2, <3>4, <3>5, Zenon
    <3> QED BY <3>1, <3>6
  <2> HIDE DEF Near
  <2> QED BY <1>1, <2>1, <2>2, ByPrefixes
<1>6. n \in 0..n
  BY <1>1
<1> QED BY <1>2, <1>3, <1>5, <1>6 DEF n

\* However the items are, their totals are near what they stand for: half a cent
\* off for each item, half a cent for the VAT.
THEOREM TotalsAlwaysNear ==
  ASSUME NEW items \in Seq(Item), NEW treatment
  PROVE  TotalsAreNear(items, treatment, Totals(items, treatment))
<1> DEFINE subtotal == Subtotal(items)
           rate == VatRate(treatment)
           vat == PercentMoney(subtotal, rate)
<1>1. subtotal \in Int
  <2>1. PICK h : SumsOf(h, Len(items), MoneyOf(items)) /\ h[Len(items)] = Subtotal(items)
    BY SubtotalByPrefixes
  <2>2. Len(items) \in 0..Len(items)
    OBVIOUS
  <2> QED BY <2>1, <2>2 DEF SumsOf
<1>2. rate \in Int /\ subtotal * rate \in Int
  BY <1>1 DEF VatRate
<1>3. Absolute(2 * (10000 * vat - subtotal * rate)) <= 10000
  BY <1>2, RoundQuotientIsNear DEF PercentMoney
<1>4. Totals(items, treatment) = [subtotal |-> subtotal, vat |-> vat, total |-> subtotal + vat]
  BY DEF Totals
<1>5. Absolute(2 * (100 * subtotal - Exact(items))) <= 100 * Len(items)
  BY SubtotalIsNear
<1> HIDE DEF subtotal, vat
<1> QED BY <1>3, <1>4, <1>5 DEF TotalsAreNear

-----------------------------------------------------------------------------
(* Reminders.                                                              *)

Year == 1000000 * 365

LEMMA InterestRounds ==
  /\ \A a \in Int : RoundQuotient(a, Year) \in Int
  /\ \A a, b \in Int : a <= b => RoundQuotient(a, Year) <= RoundQuotient(b, Year)
  /\ \A a \in Int : Absolute(2 * (Year * RoundQuotient(a, Year) - a)) <= Year
BY DEF RoundQuotient, Absolute, Year

LEMMA MoreDaysMore ==
  ASSUME NEW c \in Nat, NEW d \in Nat, NEW e \in Nat, d <= e
  PROVE  c * d <= c * e
<1>1. PICK k \in Nat : e = d + k
  <2>1. e - d \in Nat /\ e = d + (e - d)
    OBVIOUS
  <2> QED BY <2>1
<1>2. c * (d + k) = c * d + c * k /\ c * k \in Nat /\ c * d \in Nat
  OBVIOUS
<1> QED BY <1>1, <1>2

\* Less outstanding at a lower rate is less interest.
LEMMA LessIsLess ==
  ASSUME NEW v \in Nat, NEW w \in Nat, NEW r \in Nat, NEW s \in Nat, NEW d \in Nat, v <= w, r <= s
  PROVE  v * r \in Nat /\ w * s \in Nat /\ (v * r) * d \in Nat /\ (v * r) * d <= (w * s) * d
<1>1. v * r <= v * s /\ s * v <= s * w
  BY MoreDaysMore
<1>2. s * v = v * s /\ s * w = w * s /\ v * r \in Nat /\ v * s \in Nat /\ w * s \in Nat
  OBVIOUS
<1>3. v * r <= w * s
  BY <1>1, <1>2
<1> DEFINE a == v * r
           b == w * s
<1>4. a \in Nat /\ b \in Nat /\ a <= b
  BY <1>2, <1>3
<1> HIDE DEF a, b
<1>5. d * a <= d * b
  BY <1>4, MoreDaysMore
<1>6. d * a = a * d /\ d * b = b * d /\ a * d \in Nat
  BY <1>4
<1>7. a * d <= b * d
  BY <1>5, <1>6
<1> QED BY <1>4, <1>6, <1>7 DEF a, b

\* The smaller value may be an invoice paid beyond its total.
LEMMA SignedIsLess ==
  ASSUME NEW v \in Int, NEW w \in Nat, NEW r \in Nat, NEW s \in Nat, NEW d \in Nat, v <= w, r <= s
  PROVE  (v * r) * d \in Int /\ (v * r) * d <= (w * s) * d
<1>1. CASE v \in Nat
  BY <1>1, LessIsLess
<1>2. CASE v \notin Nat
  <2>1. PICK n \in Nat : v = -n
    <3>1. -v \in Nat /\ v = -(-v)
      BY <1>2
    <3> QED BY <3>1
  <2>2. (n * r) * d \in Nat /\ (w * s) * d \in Nat
    BY LessIsLess
  <2>3. (v * r) * d = -((n * r) * d)
    BY <2>1
  <2> QED BY <2>2, <2>3
<1> QED BY <1>1, <1>2

LEMMA InterestIs ==
  ASSUME NEW v \in Int, NEW r \in Nat, NEW d \in Nat
  PROVE  /\ AnnualInterest(v, r, d) = RoundQuotient((v * r) * d, Year)
         /\ (v * r) * d \in Int /\ AnnualInterest(v, r, d) \in Int
<1>1. (IF d > 0 THEN d ELSE 0) = d
  OBVIOUS
<1>2. AnnualInterest(v, r, d) = RoundQuotient((v * r) * d, Year)
  BY <1>1 DEF AnnualInterest, Year
<1>3. (v * r) * d \in Int
  OBVIOUS
<1> DEFINE a == (v * r) * d
<1> HIDE DEF a
<1>4. RoundQuotient(a, Year) \in Int
  BY <1>3, InterestRounds DEF a
<1> QED BY <1>2, <1>3, <1>4 DEF a

Invoice == [due : Int, total : Nat]
Level == [level : Nat \ {0}, after : Nat, fee : Nat, rate : Nat]
Levels(L) == IsFiniteSet(L) /\ L \in SUBSET Level /\ \A l, m \in L : l.level = m.level => l = m
Run == [hour : Int, paid : Nat]
RunsInOrder(invoice, runs) ==
  runs \in Seq(Run) /\ \A i, j \in 1..Len(runs) : i <= j => runs[i].hour <= runs[j].hour
Log == [level : Nat, at : Int, sent : Nat, days : Int, interest : Int, claim : Int]

Higher(L, last) == {l \in L : l.level > last}
NextLevel(L, last) == CHOOSE l \in Higher(L, last) : \A m \in Higher(L, last) : l.level <= m.level
UptoLevel(L, last) == {l \in L : l.level <= last}

\* The next level is the least of the higher ones, and there is none between.
LEMMA NextLevelIs ==
  ASSUME NEW L, Levels(L), NEW last \in Nat, Higher(L, last) # {}
  PROVE  LET next == NextLevel(L, last) IN
         /\ next \in Higher(L, last) /\ next \in Level
         /\ Cardinality(UptoLevel(L, next.level)) = Cardinality(UptoLevel(L, last)) + 1
<1> DEFINE next == NextLevel(L, last)
           numbers == {l.level : l \in Higher(L, last)}
<1>1. \A l \in L : l \in Level /\ l.level \in Nat \ {0}
  BY DEF Levels, Level
<1>2. numbers \in SUBSET Nat /\ numbers # {}
  BY <1>1 DEF Higher
<1>3. PICK n \in numbers : \A k \in numbers : n <= k
  BY <1>2, LeastNumber
<1>4. \E l \in Higher(L, last) : \A m \in Higher(L, last) : l.level <= m.level
  BY <1>3
<1>5. next \in Higher(L, last) /\ \A m \in Higher(L, last) : next.level <= m.level
  BY <1>4 DEF NextLevel
<1> HIDE DEF next
<1>6. next \in L /\ next.level > last /\ next \in Level /\ next.level \in Nat
  BY <1>1, <1>5 DEF Higher
<1>7. ASSUME NEW l \in L PROVE l.level <= next.level <=> l.level <= last \/ l = next
  <2>1. CASE l.level > last
    <3>1. next.level <= l.level
      BY <1>5, <2>1 DEF Higher
    <3> QED BY <1>1, <1>6, <2>1, <3>1 DEF Levels
  <2>2. CASE ~(l.level > last)
    BY <1>1, <1>6, <2>2
  <2> QED BY <2>1, <2>2
<1>8. UptoLevel(L, next.level) = UptoLevel(L, last) \cup {next}
  BY <1>6, <1>7 DEF UptoLevel
<1>9. IsFiniteSet(UptoLevel(L, last)) /\ next \notin UptoLevel(L, last)
  <2>1. UptoLevel(L, last) \in SUBSET L
    BY DEF UptoLevel
  <2> QED BY <1>6, <2>1, FS_Subset DEF Levels, UptoLevel
<1>10. Cardinality(UptoLevel(L, next.level)) = Cardinality(UptoLevel(L, last)) + 1
  BY <1>8, <1>9, FS_AddElement
<1> QED BY <1>5, <1>6, <1>10 DEF next

\* What a run makes of the log.
LEMMA RemindIs ==
  ASSUME NEW invoice \in Invoice, NEW L, Levels(L), NEW log \in Log, NEW run \in Run
  PROVE  LET new == RemindIfDue(invoice, L, log, run)
             next == NextLevel(L, log.level)
             days == (run.hour - log.at) \div 24
             outstanding == invoice.total - run.paid
         IN /\ new \in Log
            /\ \/ new = log
               \/ /\ invoice.due <= run.hour /\ Higher(L, log.level) # {} /\ next \in Level /\ days >= next.after
                  /\ new = [level |-> next.level, at |-> run.hour, sent |-> log.sent + 1, days |-> log.days + days,
                            interest |-> log.interest + AnnualInterest(outstanding, next.rate, days),
                            claim |-> outstanding + next.fee + AnnualInterest(outstanding, next.rate, days)]
<1> DEFINE new == RemindIfDue(invoice, L, log, run)
           next == NextLevel(L, log.level)
           days == (run.hour - log.at) \div 24
           outstanding == invoice.total - run.paid
           interest == AnnualInterest(outstanding, next.rate, days)
           sent == [level |-> next.level, at |-> run.hour, sent |-> log.sent + 1, days |-> log.days + days,
                    interest |-> log.interest + interest, claim |-> outstanding + next.fee + interest]
<1>1. /\ invoice.due \in Int /\ invoice.total \in Nat /\ run.hour \in Int /\ outstanding \in Int
      /\ log.level \in Nat /\ log.at \in Int /\ log.sent \in Nat /\ log.days \in Int
      /\ log.interest \in Int /\ days \in Int
  BY DEF Invoice, Run, Log
<1>2. new = IF invoice.due > run.hour \/ Higher(L, log.level) = {} \/ days < next.after \/ outstanding = 0
            THEN log ELSE sent
  BY DEF RemindIfDue, DunningCharges, Higher, NextLevel
<1> HIDE DEF new, next, days, outstanding, sent
<1>3. CASE invoice.due > run.hour \/ Higher(L, log.level) = {} \/ days < next.after \/ outstanding = 0
  BY <1>2, <1>3 DEF new
<1>4. CASE ~(invoice.due > run.hour \/ Higher(L, log.level) = {} \/ days < next.after \/ outstanding = 0)
  <2>1. new = sent /\ invoice.due <= run.hour /\ Higher(L, log.level) # {} /\ ~(days < next.after)
    BY <1>1, <1>2, <1>4
  <2>2. next \in Level
    BY <1>1, <2>1, NextLevelIs DEF next
  <2>3. next.level \in Nat /\ next.after \in Nat /\ next.fee \in Nat /\ next.rate \in Nat
    BY <2>2 DEF Level
  <2>4. days \in Nat /\ days >= next.after
    BY <1>1, <2>1, <2>3
  <2>5. interest \in Int
    BY <1>1, <2>3, <2>4, InterestIs
  <2> HIDE DEF interest
  <2>6. sent \in Log
    BY <1>1, <2>3, <2>5 DEF sent, Log
  <2> QED BY <2>1, <2>2, <2>4, <2>6 DEF new, next, days, outstanding, sent, interest
<1> QED BY <1>3, <1>4

\* A run that reminds comes after the last one that did.
InTime(log, invoice, run) == log.at = invoice.due \/ log.at <= run.hour

\* No rate is higher than R.
AtMost(L, R) == \A l \in L : l.rate <= R

\* What the log has come to, at rates of at most R.
Charged(log, invoice, L, R) ==
  LET all == RoundQuotient((invoice.total * R) * log.days, Year) IN
  /\ 2 * (Year * log.interest - (invoice.total * R) * log.days) <= Year * log.sent
  /\ \A l \in L : l.level = log.level => log.claim <= invoice.total + l.fee + all

Counted(log, invoice, L) ==
  /\ log \in Log /\ log.days \in Nat /\ 24 * log.days <= log.at - invoice.due
  /\ log.sent = Cardinality(UptoLevel(L, log.level))
  /\ \A R \in Nat : AtMost(L, R) => Charged(log, invoice, L, R)

\* The interest of one reminder more, in the sum and in its claim.
LEMMA ChargedOneMore ==
  ASSUME NEW total \in Nat, NEW v \in Int, v <= total, NEW R \in Nat, NEW r \in Nat, r <= R,
         NEW D \in Nat, NEW d \in Nat, NEW interest \in Int, NEW sent \in Nat,
         2 * (Year * interest - (total * R) * D) <= Year * sent
  PROVE  /\ 2 * (Year * (interest + AnnualInterest(v, r, d)) - (total * R) * (D + d)) <= Year * (sent + 1)
         /\ AnnualInterest(v, r, d) <= RoundQuotient((total * R) * (D + d), Year)
<1> DEFINE a == (v * r) * d
           c == total * R
           x == c * D
           y == c * d
           i == RoundQuotient(a, Year)
<1>1. a \in Int /\ a <= y
  BY SignedIsLess
<1>2. a \in Int /\ c \in Nat /\ a <= y /\ AnnualInterest(v, r, d) = i
  BY <1>1, InterestIs
<1> HIDE DEF a, c
<1>3. x \in Nat /\ y \in Nat /\ c * (D + d) = x + y
  BY <1>2
<1> HIDE DEF x, y
<1>4. i \in Int /\ Absolute(2 * (Year * i - a)) <= Year
  BY <1>2, InterestRounds
<1>5. i <= RoundQuotient(x + y, Year)
  BY <1>2, <1>3, InterestRounds
<1> HIDE DEF i
<1>6. 2 * (Year * interest - x) <= Year * sent
  BY DEF c, x
<1>7. 2 * (Year * (interest + i) - (x + y)) <= Year * (sent + 1)
  BY <1>2, <1>3, <1>4, <1>6 DEF Absolute, Year
<1> QED BY <1>2, <1>3, <1>5, <1>7 DEF c

\* One run more.
LEMMA CountedOneMore ==
  ASSUME NEW invoice \in Invoice, NEW L, Levels(L), NEW log, Counted(log, invoice, L),
         NEW run \in Run, InTime(log, invoice, run)
  PROVE  LET new == RemindIfDue(invoice, L, log, run)
         IN  Counted(new, invoice, L) /\ new.at \in {log.at, run.hour}
<1> DEFINE new == RemindIfDue(invoice, L, log, run)
           next == NextLevel(L, log.level)
           days == (run.hour - log.at) \div 24
           v == invoice.total - run.paid
           interest == AnnualInterest(v, next.rate, days)
<1>1. /\ log \in Log /\ log.days \in Nat /\ 24 * log.days <= log.at - invoice.due
      /\ log.sent = Cardinality(UptoLevel(L, log.level))
      /\ \A R \in Nat : AtMost(L, R) => Charged(log, invoice, L, R)
  BY DEF Counted
<1>2. /\ log.level \in Nat /\ log.at \in Int /\ log.sent \in Nat /\ log.interest \in Int
      /\ run.hour \in Int /\ invoice.due \in Int /\ invoice.total \in Nat /\ v \in Int /\ v <= invoice.total
  BY <1>1 DEF Log, Run, Invoice
<1>3. /\ new \in Log
      /\ \/ new = log
         \/ /\ invoice.due <= run.hour /\ Higher(L, log.level) # {} /\ next \in Level /\ days >= next.after
            /\ new = [level |-> next.level, at |-> run.hour, sent |-> log.sent + 1, days |-> log.days + days,
                      interest |-> log.interest + interest, claim |-> v + next.fee + interest]
  BY <1>1, RemindIs
<1> HIDE DEF new
<1>4. CASE new = log
  BY <1>4 DEF new
<1>5. CASE /\ invoice.due <= run.hour /\ Higher(L, log.level) # {} /\ next \in Level /\ days >= next.after
           /\ new = [level |-> next.level, at |-> run.hour, sent |-> log.sent + 1, days |-> log.days + days,
                     interest |-> log.interest + interest, claim |-> v + next.fee + interest]
  <2>1. /\ new.level = next.level /\ new.at = run.hour /\ new.sent = log.sent + 1 /\ new.days = log.days + days
        /\ new.interest = log.interest + interest /\ new.claim = v + next.fee + interest
    BY <1>5
  <2>2. next.level \in Nat /\ next.rate \in Nat /\ next.fee \in Nat /\ next.after \in Nat
    BY <1>5 DEF Level
  <2>3. log.at <= run.hour
    BY <1>5 DEF InTime
  <2>4. days \in Nat /\ 24 * days <= run.hour - log.at
    BY <1>2, <2>3
  <2>5. next \in L /\ Cardinality(UptoLevel(L, next.level)) = Cardinality(UptoLevel(L, log.level)) + 1
    BY <1>2, <1>5, NextLevelIs DEF Higher
  <2>6. interest \in Int
    <3>1. v \in Int
      BY <1>2
    <3> QED BY <2>2, <2>4, <3>1, InterestIs
  <2> HIDE DEF next, days, v, interest
  <2>7. new.days \in Nat /\ 24 * new.days <= new.at - invoice.due
    BY <1>1, <1>2, <2>1, <2>4
  <2>8. new.sent = Cardinality(UptoLevel(L, new.level))
    BY <1>1, <2>1, <2>5
  <2>9. ASSUME NEW R \in Nat, AtMost(L, R) PROVE Charged(new, invoice, L, R)
    <3>1. next.rate <= R
      BY <2>5, <2>9 DEF AtMost
    <3>2. 2 * (Year * log.interest - (invoice.total * R) * log.days) <= Year * log.sent
      BY <1>1, <2>9 DEF Charged
    <3> DEFINE all == RoundQuotient((invoice.total * R) * new.days, Year)
    <3>3. /\ 2 * (Year * (log.interest + interest) - (invoice.total * R) * (log.days + days)) <= Year * (log.sent + 1)
          /\ interest <= RoundQuotient((invoice.total * R) * (log.days + days), Year)
      BY <1>1, <1>2, <2>2, <2>4, <3>1, <3>2, ChargedOneMore DEF interest
    <3>4. 2 * (Year * new.interest - (invoice.total * R) * new.days) <= Year * new.sent /\ interest <= all
      BY <2>1, <3>3
    <3>5. all \in Int
      <4>1. (invoice.total * R) * new.days \in Int
        BY <1>2, <2>7
      <4> QED BY <4>1, InterestRounds
    <3> HIDE DEF all
    <3>6. ASSUME NEW l \in L, l.level = new.level PROVE new.claim <= invoice.total + l.fee + all
      <4>1. l = next
        BY <2>1, <2>5, <3>6 DEF Levels
      <4> QED BY <1>2, <2>1, <2>2, <2>6, <3>4, <3>5, <4>1
    <3> QED BY <3>4, <3>6 DEF Charged, all
  <2>10. Counted(new, invoice, L)
    BY <1>3, <2>7, <2>8, <2>9 DEF Counted
  <2> QED BY <2>1, <2>10 DEF new
<1> QED BY <1>3, <1>4, <1>5

\* g is the loop of the reminders over the runs.
RemindFold(g, invoice, L, runs) ==
  g = [s \in SUBSET DOMAIN runs |->
         IF s = {} THEN NoReminder(invoice) ELSE RemindIfDue(invoice, L, g[s \ {Max(s)}], runs[Max(s)])]

LEMMA RemindFoldExists ==
  ASSUME NEW invoice \in Invoice, NEW L, Levels(L), NEW runs \in Seq(Run)
  PROVE  \E g : RemindFold(g, invoice, L, runs)
<1> DEFINE n == Len(runs)
           chosen == [s \in SUBSET (1..n) |-> Max(s)]
           step == [t \in (1..n) \X Log |-> RemindIfDue(invoice, L, t[2], runs[t[1]])]
<1>1. n \in Nat /\ DOMAIN runs = 1..n /\ NoReminder(invoice) \in Log /\ \A i \in 1..n : runs[i] \in Run
  BY DEF NoReminder, Log, Invoice
<1>2. step \in [(1..n) \X Log -> Log]
  BY <1>1, RemindIs
<1>3. \A i \in 1..n, c \in Log : step[i, c] = RemindIfDue(invoice, L, c, runs[i])
  OBVIOUS
<1>4. IsFiniteSet(1..n)
  BY <1>1, FS_Interval
<1>5. \A s \in (SUBSET (1..n)) \ {{}} : chosen[s] \in s /\ chosen[s] = Max(s) /\ Max(s) \in 1..n
  BY <1>1, MaxOfPart
<1> HIDE DEF step, n, chosen
<1>6. PICK g \in [SUBSET (1..n) -> Log] : FoldOf(g, 1..n, NoReminder(invoice), chosen, step)
  BY <1>1, <1>2, <1>4, <1>5, FoldExists
<1>7. ASSUME NEW s \in SUBSET (1..n), s # {}
      PROVE  step[chosen[s], g[s \ {chosen[s]}]] = RemindIfDue(invoice, L, g[s \ {Max(s)}], runs[Max(s)])
  <2>1. chosen[s] = Max(s) /\ Max(s) \in 1..n
    BY <1>5, <1>7
  <2>2. g[s \ {Max(s)}] \in Log
    OBVIOUS
  <2> QED BY <1>3, <2>1, <2>2
<1>8. RemindFold(g, invoice, L, runs)
  BY <1>1, <1>6, <1>7 DEF FoldOf, RemindFold
<1> QED BY <1>8

\* After every run, and not ahead of it.
LEMMA RemindersAreCounted ==
  ASSUME NEW invoice \in Invoice, NEW L, Levels(L), NEW runs, RunsInOrder(invoice, runs)
  PROVE  Counted(Reminders(invoice, L, runs), invoice, L)
<1> DEFINE n == Len(runs)
           G == CHOOSE g : RemindFold(g, invoice, L, runs)
           Behind3(log, k) == log.at = invoice.due \/ \E j \in 1..k : log.at = runs[j].hour
           Good == {k \in 0..n : Counted(G[1..k], invoice, L) /\ Behind3(G[1..k], k)}
<1>1. n \in Nat /\ DOMAIN runs = 1..n /\ runs \in Seq(Run) /\ \A i \in 1..n : runs[i] \in Run
  BY DEF RunsInOrder
<1>2. Reminders(invoice, L, runs) = G[DOMAIN runs]
  BY DEF Reminders, FoldLeft, MapThenFoldSet, RemindFold
<1>3. RemindFold(G, invoice, L, runs)
  BY <1>1, RemindFoldExists
<1> HIDE DEF G
<1>4. 0 \in Good
  <2> DEFINE log == NoReminder(invoice)
  <2>1. 1..0 = {} /\ {} \in SUBSET DOMAIN runs
    OBVIOUS
  <2>2. G[1..0] = log
    BY <1>3, <2>1 DEF RemindFold
  <2>3. /\ log.level = 0 /\ log.at = invoice.due /\ log.sent = 0 /\ log.days = 0 /\ log.interest = 0 /\ log.claim = 0
        /\ log \in Log /\ invoice.due \in Int /\ invoice.total \in Nat
    BY DEF NoReminder, Log, Invoice
  <2> HIDE DEF log
  <2>4. UptoLevel(L, 0) = {} /\ \A l \in L : l.level # 0
    <3>1. \A l \in L : l.level \in Nat \ {0}
      BY DEF Levels, Level
    <3> QED BY <3>1 DEF UptoLevel
  <2>5. log.sent = Cardinality(UptoLevel(L, log.level))
    BY <2>3, <2>4, FS_EmptySet
  <2>6. ASSUME NEW R \in Nat PROVE Charged(log, invoice, L, R)
    <3>1. (invoice.total * R) * log.days = 0
      BY <2>3
    <3> QED BY <2>3, <2>4, <3>1 DEF Charged, Year
  <2>7. Counted(log, invoice, L)
    BY <2>3, <2>5, <2>6 DEF Counted
  <2> QED BY <1>1, <2>2, <2>3, <2>7
<1>5. ASSUME NEW k \in 1..n, k - 1 \in Good PROVE k \in Good
  <2> DEFINE old == G[1..(k - 1)]
  <2>1. G[1..k] = RemindIfDue(invoice, L, old, runs[k])
    <3>1. 1..k \in (SUBSET (1..n)) \ {{}} /\ Max(1..k) = k /\ (1..k) \ {Max(1..k)} = 1..(k - 1)
      BY <1>1, MaxOfPrefix
    <3> HIDE DEF n, Good
    <3>2. G[1..k] = RemindIfDue(invoice, L, G[(1..k) \ {Max(1..k)}], runs[Max(1..k)])
      BY <1>1, <1>3, <3>1 DEF RemindFold
    <3> QED BY <3>1, <3>2
  <2>2. Counted(old, invoice, L) /\ Behind3(old, k - 1)
    BY <1>5
  <2>3. InTime(old, invoice, runs[k])
    <3>1. \A j \in 1..(k - 1) : j \in 1..n /\ j <= k
      BY <1>1
    <3> HIDE DEF old
    <3> QED BY <1>1, <2>2, <3>1 DEF RunsInOrder, InTime
  <2>4. runs[k] \in Run
    BY <1>1
  <2> HIDE DEF old, Behind3
  <2>5. Counted(G[1..k], invoice, L) /\ G[1..k].at \in {old.at, runs[k].hour}
    BY <2>1, <2>2, <2>3, <2>4, CountedOneMore
  <2>6. Behind3(G[1..k], k)
    BY <1>1, <2>2, <2>5 DEF Behind3
  <2> QED BY <1>1, <2>5, <2>6
<1> HIDE DEF Good, n
<1>6. 0..n \subseteq Good
  BY <1>1, <1>4, <1>5, ByPrefixes
<1> QED BY <1>1, <1>2, <1>6 DEF Good, n

\* Whatever the levels are, however often the dunning runs and whatever is paid
\* meanwhile: the levels come one after the other, no day's interest is charged
\* twice, and no claim repeats what an earlier reminder charged.
THEOREM RemindersAlwaysChargeOnce ==
  ASSUME NEW invoice \in Invoice, NEW L, Levels(L), NEW runs, RunsInOrder(invoice, runs)
  PROVE  RemindersChargeOnce(invoice, L, Reminders(invoice, L, runs))
<1> DEFINE log == Reminders(invoice, L, runs)
           overdue == (log.at - invoice.due) \div 24
<1>1. Counted(log, invoice, L)
  BY RemindersAreCounted
<1> HIDE DEF log
<1>2. /\ log.days \in Nat /\ 24 * log.days <= log.at - invoice.due /\ log.at \in Int /\ log.sent \in Nat
      /\ log.interest \in Int /\ log.claim \in Int /\ invoice.due \in Int /\ invoice.total \in Nat
      /\ log.sent = Cardinality({l \in L : l.level <= log.level})
  BY <1>1 DEF Counted, Log, Invoice, UptoLevel
<1>3. overdue \in Nat /\ log.days <= overdue
  BY <1>2
<1> HIDE DEF overdue
<1>4. ASSUME NEW top \in L, \A l \in L : l.rate <= top.rate
      PROVE  /\ 2 * (log.interest - AnnualInterest(invoice.total, top.rate, overdue)) <= log.sent + 1
             /\ \A l \in L : l.level = log.level =>
                  log.claim <= invoice.total + l.fee + AnnualInterest(invoice.total, top.rate, overdue)
  <2>1. top.rate \in Nat /\ \A l \in L : l.fee \in Nat
    BY DEF Levels, Level
  <2> DEFINE c == invoice.total * top.rate
             x == c * log.days
             y == c * overdue
             some == RoundQuotient(x, Year)
             all == RoundQuotient(y, Year)
  <2>2. c \in Nat
    BY <1>2, <2>1
  <2>3. AnnualInterest(invoice.total, top.rate, overdue) = all
    <3>1. invoice.total \in Int
      BY <1>2
    <3> QED BY <1>3, <2>1, <3>1, InterestIs
  <2>4. /\ 2 * (Year * log.interest - x) <= Year * log.sent
        /\ \A l \in L : l.level = log.level => log.claim <= invoice.total + l.fee + some
    BY <1>1, <1>4, <2>1 DEF Counted, Charged, AtMost
  <2> HIDE DEF c
  <2>5. x \in Nat /\ y \in Nat /\ x <= y
    BY <1>2, <1>3, <2>2, MoreDaysMore
  <2> HIDE DEF x, y
  <2>6. some \in Int /\ all \in Int /\ some <= all /\ Absolute(2 * (Year * all - y)) <= Year
    BY <2>5, InterestRounds
  <2> HIDE DEF some, all
  <2>7. 2 * (log.interest - all) <= log.sent + 1
    BY <1>2, <2>4, <2>5, <2>6 DEF Absolute, Year
  <2>8. \A l \in L : l.level = log.level => log.claim <= invoice.total + l.fee + all
    BY <1>2, <2>1, <2>4, <2>6
  <2> QED BY <2>3, <2>7, <2>8
<1>5. RemindersChargeOnce(invoice, L, log)
  BY <1>2, <1>3, <1>4 DEF RemindersChargeOnce, overdue
<1> QED BY <1>5 DEF log

-----------------------------------------------------------------------------
(* Schedules.                                                              *)

Jobs(J) ==
  /\ \A j \in J : j.schedule \in {"none", "daily", "frequent"} /\ j.name # "*"
  /\ \A j, k \in J : j.name = k.name => j = k

\* A list that names a job without a schedule is refused, and otherwise each
\* job of the list has its own, for any jobs of different names.
THEOREM SchedulesAlwaysKnown ==
  ASSUME NEW jobs, Jobs(jobs), NEW selected, selected = {"*"} \/ "*" \notin selected,
         NEW enabled \in BOOLEAN, NEW folder \in BOOLEAN
  PROVE  SchedulesAreKnown(jobs, selected, enabled, folder,
                           BuildWorkerSchedules(jobs, selected, enabled, folder))
<1> DEFINE known == NamesOf(jobs, {"daily", "frequent"})
           built == BuildWorkerSchedules(jobs, selected, enabled, folder)
           chosen(schedule) == {n \in NamesOf(jobs, {schedule}) : selected = {"*"} \/ n \in selected}
<1>1. built.refused <=> selected # {"*"} /\ ~(selected \subseteq known)
  BY DEF BuildWorkerSchedules
<1>2. "*" \notin known
  BY DEF Jobs, NamesOf
<1>3. built.refused <=> \E n \in selected \ {"*"} : n \notin known
  BY <1>1, <1>2
<1>4. ASSUME ~built.refused, NEW j \in jobs
      PROVE  j.name \in built.names <=>
               /\ enabled /\ (selected = {"*"} \/ j.name \in selected)
               /\ j.schedule = "daily" \/ (j.schedule = "frequent" /\ folder)
  <2>1. built.names = IF ~enabled THEN {}
                      ELSE chosen("daily") \cup (IF folder THEN chosen("frequent") ELSE {})
    BY <1>4 DEF BuildWorkerSchedules
  <2>2. \A s : j.name \in NamesOf(jobs, {s}) <=> j.schedule = s
    BY DEF Jobs, NamesOf
  <2> HIDE DEF built
  <2> QED BY <2>1, <2>2
<1> HIDE DEF built
<1>5. SchedulesAreKnown(jobs, selected, enabled, folder, built)
  BY <1>3, <1>4 DEF SchedulesAreKnown
<1> QED BY <1>5 DEF built

-----------------------------------------------------------------------------
(* Exports.                                                                *)

\* The sheet and the archive agree, for any occurrences, documents and
\* storage: what is missing in one list or in the storage is left out of both.
THEOREM ExportsAlwaysConsistent ==
  ASSUME NEW occurrences, NEW documents, NEW document, NEW status, NEW storage
  PROVE  ExportIsConsistent(occurrences, documents,
                            WriteZip(Rows(occurrences, documents, document, status), storage))
<1> DEFINE rows == Rows(occurrences, documents, document, status)
           found == {r \in rows : r.image # 0 /\ r.image \in storage}
           sheetRow(r) == [id |-> r.id, year |-> r.year,
                           image |-> IF r \in found THEN <<r.id, r.image>> ELSE <<>>]
           zip == WriteZip(rows, storage)
<1>1. zip.sheet = {sheetRow(r) : r \in rows} /\ zip.images = {<<r.id, r.image>> : r \in found}
  BY DEF WriteZip
<1>2. ASSUME NEW r \in rows
      PROVE  \E o \in occurrences, d \in documents :
               r.id = o.id /\ r.image = o.image /\ d.id = o.doc /\ r.year = ExportYear(d)
  BY DEF Rows
<1>3. ASSUME NEW d \in documents PROVE \A y \in ToSet(ExportYear(d)) : y \in {d.start, d.end} \ {0}
  BY DEF ExportYear, ToSet
<1> HIDE DEF rows
<1>4. ASSUME NEW i PROVE i \in {r.image : r \in zip.sheet} \ {<<>>} <=> i \in zip.images
  <2>1. \A x, y : <<x, y>> # <<>>
    OBVIOUS
  <2>2. ASSUME i \in {r.image : r \in zip.sheet} \ {<<>>} PROVE i \in zip.images
    <3>1. PICK q \in rows : i = sheetRow(q).image
      BY <1>1, <2>2
    <3>2. q \in found /\ i = <<q.id, q.image>>
      BY <2>2, <3>1
    <3> HIDE DEF found
    <3> QED BY <1>1, <3>2
  <2>3. ASSUME i \in zip.images PROVE i \in {r.image : r \in zip.sheet} \ {<<>>}
    <3>1. PICK q \in found : i = <<q.id, q.image>>
      BY <1>1, <2>3
    <3>2. q \in rows /\ i = sheetRow(q).image /\ i # <<>>
      BY <2>1, <3>1
    <3> HIDE DEF sheetRow
    <3>3. sheetRow(q) \in zip.sheet
      BY <1>1, <3>2
    <3> QED BY <3>2, <3>3
  <2> QED BY <2>2, <2>3
<1>5. ASSUME NEW i \in zip.images PROVE \E o \in occurrences : i = <<o.id, o.image>>
  BY <1>1, <1>2
<1>6. ASSUME NEW r \in zip.sheet
      PROVE  \E o \in occurrences, d \in documents :
               r.id = o.id /\ d.id = o.doc /\ \A y \in ToSet(r.year) : y \in {d.start, d.end} \ {0}
  <2>1. PICK q \in rows : r.id = q.id /\ r.year = q.year
    BY <1>1
  <2> QED BY <1>2, <1>3, <2>1
<1> HIDE DEF zip
<1>7. ExportIsConsistent(occurrences, documents, zip)
  BY <1>4, <1>5, <1>6 DEF ExportIsConsistent
<1> QED BY <1>7 DEF zip, rows

-----------------------------------------------------------------------------
(* Stages: the reasons.                                                    *)

DocumentStates == {"uploaded", "processing", "processed", "rejected", "failed"}
Document ==
  [id : Int, state : DocumentStates, approved : BOOLEAN, staged : BOOLEAN, year : Nat, filenameYear : Nat,
   pages : Nat, hash : Int]
Order == [share : Nat, list : Seq(Int), excluded : SUBSET Int, maxPages : Nat, oldest : Nat]

\* The rows of a table have different ids.
Stock(stock) ==
  stock \subseteq Document /\ IsFiniteSet(stock) /\ \A d, e \in stock : d.id = e.id => d = e

\* The conditions of the query and those of the report are the same ones.
LEMMA ReasonIsOfTheQuery ==
  ASSUME NEW stock, Stock(stock), NEW order \in Order, NEW d \in stock
  PROVE  Reason(stock, order, d.id) = "unknown" <=>
           /\ d.state = "processed" /\ ~d.approved /\ ~d.staged /\ d.id \notin order.excluded
           /\ Eligible(d, order)
<1> DEFINE listed == {e \in stock : e.id = d.id}
<1>1. listed = {d}
  BY DEF Stock
<1>2. (CHOOSE x \in listed : TRUE) = d
  BY <1>1
<1>3. order.maxPages \in Nat /\ d.pages \in Nat
  BY DEF Stock, Document, Order
<1> QED BY <1>1, <1>2, <1>3 DEF Reason, Eligible

\* What a list names and the stage does not take has a reason, unless there is
\* no such document, for any stock and order.
THEOREM RefusalsAlwaysExplained ==
  ASSUME NEW stock, Stock(stock), NEW order \in Order
  PROVE  RefusalsAreExplained(stock, order, Selected50(stock, order))
<1> DEFINE chosen == Selected50(stock, order)
<1> SUFFICES ASSUME order.share = 0, NEW id \in ToSet(order.list), id \notin {d.id : d \in chosen}
             PROVE  Reason(stock, order, id) = "unknown" <=> ByIds(stock, {id}) = {}
  BY DEF RefusalsAreExplained
<1>1. chosen = {d \in Candidates(stock, order) : Eligible(d, order)}
  BY DEF Selected50
<1>2. CASE ByIds(stock, {id}) = {}
  <2>1. {d \in stock : d.id = id} = {}
    BY <1>2 DEF ByIds
  <2> QED BY <1>2, <2>1 DEF Reason
<1>3. CASE ByIds(stock, {id}) # {}
  <2>1. PICK d \in stock : d.id = id
    BY <1>3 DEF ByIds
  <2>2. d \notin chosen
    BY <2>1
  <2>3. ~(/\ d.state = "processed" /\ ~d.approved /\ ~d.staged /\ d.id \notin order.excluded
          /\ Eligible(d, order))
    BY <1>1, <2>1, <2>2 DEF Candidates
  <2>4. Reason(stock, order, d.id) # "unknown"
    BY <2>3, ReasonIsOfTheQuery
  <2> QED BY <1>3, <2>1, <2>4
<1> QED BY <1>2, <1>3

-----------------------------------------------------------------------------
(* Stages: the pages.                                                      *)

PagesFold(g, S) ==
  g = [s \in SUBSET S |->
         IF s = {} THEN 0
         ELSE (CHOOSE x \in s : TRUE).pages + g[s \ {CHOOSE x \in s : TRUE}]]

LEMMA PagesFoldExists ==
  ASSUME NEW S \in SUBSET Document, IsFiniteSet(S)
  PROVE  \E g \in [SUBSET S -> Nat] : PagesFold(g, S)
<1> DEFINE chosen == [s \in SUBSET S |-> CHOOSE x \in s : TRUE]
           step == [t \in S \X Nat |-> t[1].pages + t[2]]
<1>1. \A s \in (SUBSET S) \ {{}} : chosen[s] \in s /\ chosen[s] = CHOOSE x \in s : TRUE
  OBVIOUS
<1>2. step \in [S \X Nat -> Nat] /\ 0 \in Nat
  BY DEF Document
<1>3. \A x \in S, m \in Nat : step[x, m] = x.pages + m
  OBVIOUS
<1> HIDE DEF chosen, step
<1>4. PICK g \in [SUBSET S -> Nat] : FoldOf(g, S, 0, chosen, step)
  BY <1>1, <1>2, FoldExists
<1>5. ASSUME NEW s \in SUBSET S, s # {}
      PROVE  step[chosen[s], g[s \ {chosen[s]}]]
               = (CHOOSE x \in s : TRUE).pages + g[s \ {CHOOSE x \in s : TRUE}]
  <2>1. chosen[s] \in S /\ chosen[s] = CHOOSE x \in s : TRUE
    BY <1>1, <1>5
  <2>2. g[s \ {chosen[s]}] \in Nat
    OBVIOUS
  <2> QED BY <1>3, <2>1, <2>2
<1>6. PagesFold(g, S)
  BY <1>4, <1>5 DEF FoldOf, PagesFold
<1> QED BY <1>6

\* Which larger set the fold is of makes no difference.
LEMMA PagesFoldUnique ==
  ASSUME NEW S, IsFiniteSet(S), NEW T \in SUBSET S, NEW g, PagesFold(g, S), NEW h, PagesFold(h, T),
         NEW s \in SUBSET T
  PROVE  g[s] = h[s]
<1> DEFINE Bad == {t \in SUBSET T : g[t] # h[t]}
<1> SUFFICES ASSUME Bad # {} PROVE FALSE
  OBVIOUS
<1>1. Bad \in SUBSET (SUBSET T) /\ IsFiniteSet(T)
  BY FS_Subset
<1>2. PICK t \in Bad : \A x \in t : t \ {x} \notin Bad
  <2> HIDE DEF Bad
  <2> QED BY <1>1, SmallestSubset
<1>3. t \in SUBSET S /\ t \in SUBSET T
  OBVIOUS
<1>4. CASE t = {}
  BY <1>3, <1>4 DEF PagesFold
<1>5. CASE t # {}
  <2> DEFINE x == CHOOSE y \in t : TRUE
  <2>1. x \in t
    BY <1>5
  <2>2. g[t] = x.pages + g[t \ {x}]
    BY <1>3, <1>5 DEF PagesFold
  <2>3. h[t] = x.pages + h[t \ {x}]
    BY <1>3, <1>5 DEF PagesFold
  <2> HIDE DEF x
  <2>4. g[t \ {x}] = h[t \ {x}]
    BY <1>2, <2>1
  <2> QED BY <2>2, <2>3, <2>4
<1> QED BY <1>4, <1>5

LEMMA PagesAreFolded ==
  ASSUME NEW S \in SUBSET Document, IsFiniteSet(S)
  PROVE  \E g \in [SUBSET S -> Nat] : PagesFold(g, S) /\ \A T \in SUBSET S : PagesOf(T) = g[T]
<1>1. PICK g \in [SUBSET S -> Nat] : PagesFold(g, S)
  BY PagesFoldExists
<1>2. ASSUME NEW T \in SUBSET S PROVE PagesOf(T) = g[T]
  <2> DEFINE G == CHOOSE h : PagesFold(h, T)
  <2>1. PagesOf(T) = G[T]
    BY DEF PagesOf, FoldSet, MapThenFoldSet, PagesFold
  <2>2. IsFiniteSet(T) /\ T \in SUBSET Document
    BY FS_Subset
  <2>3. PagesFold(G, T)
    BY <2>2, PagesFoldExists
  <2> HIDE DEF G
  <2>4. g[T] = G[T]
    BY <1>1, <2>3, PagesFoldUnique
  <2> QED BY <2>1, <2>4
<1> QED BY <1>1, <1>2

\* In whatever order they are added: more documents have no fewer pages.
LEMMA PagesGrow ==
  ASSUME NEW S \in SUBSET Document, IsFiniteSet(S), NEW T \in SUBSET S
  PROVE  PagesOf(T) \in Nat /\ PagesOf(S) \in Nat /\ PagesOf(T) <= PagesOf(S)
<1>1. PICK g \in [SUBSET S -> Nat] : PagesFold(g, S) /\ \A U \in SUBSET S : PagesOf(U) = g[U]
  BY PagesAreFolded
<1>2. ASSUME NEW U \in SUBSET S, NEW x \in U PROVE g[U] = x.pages + g[U \ {x}]
  <2> DEFINE Bad == {V \in SUBSET S : \E y \in V : g[V] # y.pages + g[V \ {y}]}
  <2> SUFFICES ASSUME Bad # {} PROVE FALSE
    OBVIOUS
  <2>1. PICK V \in Bad : \A y \in V : V \ {y} \notin Bad
    <3>1. Bad \in SUBSET (SUBSET S)
      OBVIOUS
    <3> HIDE DEF Bad
    <3> QED BY <3>1, SmallestSubset
  <2>2. PICK y \in V : g[V] # y.pages + g[V \ {y}]
    BY <2>1
  <2> DEFINE c == CHOOSE z \in V : TRUE
  <2>3. c \in V /\ g[V] = c.pages + g[V \ {c}]
    BY <1>1, <2>2 DEF PagesFold
  <2> HIDE DEF c
  <2>4. c # y
    BY <2>2, <2>3
  <2>5. V \ {c} \in SUBSET S /\ V \ {y} \in SUBSET S /\ y \in V \ {c} /\ c \in V \ {y}
    BY <2>3, <2>4
  <2>6. g[V \ {c}] = y.pages + g[(V \ {c}) \ {y}] /\ g[V \ {y}] = c.pages + g[(V \ {y}) \ {c}]
    BY <2>1, <2>3, <2>5
  <2>7. (V \ {c}) \ {y} = (V \ {y}) \ {c} /\ (V \ {y}) \ {c} \in SUBSET S
    BY <2>5
  <2>8. c.pages \in Nat /\ y.pages \in Nat /\ g[(V \ {y}) \ {c}] \in Nat
    BY <2>3, <2>7 DEF Document
  <2> DEFINE r == g[(V \ {y}) \ {c}]
  <2>9. g[V] = c.pages + (y.pages + r) /\ g[V \ {y}] = c.pages + r
    BY <2>3, <2>6, <2>7
  <2> HIDE DEF r, Bad
  <2>10. g[V] # y.pages + (c.pages + r)
    BY <2>2, <2>9
  <2>11. r \in Nat
    BY <2>8 DEF r
  <2> QED BY <2>8, <2>9, <2>10, <2>11
<1>3. ASSUME NEW U \in SUBSET S, NEW V \in SUBSET U PROVE g[V] <= g[U]
  <2> DEFINE Bad == {A \in SUBSET S : \E B \in SUBSET A : ~(g[B] <= g[A])}
  <2> SUFFICES ASSUME Bad # {} PROVE FALSE
    OBVIOUS
  <2>1. PICK A \in Bad : \A y \in A : A \ {y} \notin Bad
    <3>1. Bad \in SUBSET (SUBSET S)
      OBVIOUS
    <3> HIDE DEF Bad
    <3> QED BY <3>1, SmallestSubset
  <2>2. PICK B \in SUBSET A : ~(g[B] <= g[A])
    BY <2>1
  <2>3. PICK y \in A : y \notin B
    <3>1. g[A] \in Nat
      BY <2>1
    <3>2. B # A
      BY <2>2, <3>1
    <3> QED BY <3>2
  <2>4. A \ {y} \in SUBSET S /\ B \in SUBSET (A \ {y})
    BY <2>1, <2>3
  <2>5. g[B] <= g[A \ {y}]
    BY <2>1, <2>4
  <2>6. g[A] = y.pages + g[A \ {y}] /\ y.pages \in Nat
    BY <1>2, <2>1 DEF Document
  <2>7. g[A \ {y}] \in Nat /\ g[B] \in Nat
    BY <2>4
  <2> QED BY <2>2, <2>5, <2>6, <2>7
<1> QED BY <1>1, <1>3

-----------------------------------------------------------------------------
(* Stages: the choice.                                                     *)

LEMMA BeforeIsAnOrder ==
  ASSUME NEW stock, Stock(stock)
  PROVE  /\ \A d \in stock : ~Before(d, d)
         /\ \A d, e \in stock : d # e => Before(d, e) \/ Before(e, d)
         /\ \A d, e, f \in stock : Before(d, e) /\ Before(e, f) => Before(d, f)
BY DEF Stock, Document, Before

\* Some documents have a first and a last one.
LEMMA FirstAndLast ==
  ASSUME NEW stock, Stock(stock), NEW B \in SUBSET stock, B # {}
  PROVE  /\ \E m \in B : \A e \in B \ {m} : Before(m, e)
         /\ \E m \in B : \A e \in B \ {m} : Before(e, m)
<1> USE BeforeIsAnOrder
<1>1. IsFiniteSet(stock)
  BY DEF Stock
<1> DEFINE First(C) == \E m \in C : \A e \in C \ {m} : Before(m, e)
           Final(C) == \E m \in C : \A e \in C \ {m} : Before(e, m)
           Bad == {C \in SUBSET stock : C # {} /\ ~(First(C) /\ Final(C))}
<1> SUFFICES ASSUME Bad # {} PROVE FALSE
  OBVIOUS
<1>2. PICK C \in Bad : \A x \in C : C \ {x} \notin Bad
  <2>1. Bad \in SUBSET (SUBSET stock)
    OBVIOUS
  <2> HIDE DEF Bad
  <2> QED BY <1>1, <2>1, SmallestSubset
<1>3. PICK x \in C : x \in stock
  BY <1>2
<1>4. CASE C = {x}
  BY <1>2, <1>4
<1>5. CASE C # {x}
  <2> DEFINE A == C \ {x}
  <2>1. A \in SUBSET stock /\ A # {}
    BY <1>2, <1>3, <1>5
  <2>2. First(A) /\ Final(A)
    BY <1>2, <1>3, <2>1
  <2>3. PICK a \in A : \A e \in A \ {a} : Before(a, e)
    BY <2>2
  <2>4. PICK z \in A : \A e \in A \ {z} : Before(e, z)
    BY <2>2
  <2>5. First(C)
    <3>1. CASE Before(x, a)
      <4>1. ASSUME NEW e \in C \ {x} PROVE Before(x, e)
        <5>1. CASE e = a
          BY <3>1, <5>1
        <5>2. CASE e # a
          <6>1. Before(a, e)
            BY <2>3, <4>1, <5>2
          <6> QED BY <1>2, <1>3, <2>1, <3>1, <4>1, <6>1
        <5> QED BY <5>1, <5>2
      <4> QED BY <1>3, <4>1
    <3>2. CASE Before(a, x)
      <4>1. ASSUME NEW e \in C \ {a} PROVE Before(a, e)
        BY <2>3, <3>2
      <4> QED BY <4>1
    <3>3. Before(x, a) \/ Before(a, x)
      BY <1>3, <2>1
    <3> QED BY <3>1, <3>2, <3>3
  <2>6. Final(C)
    <3>1. CASE Before(z, x)
      <4>1. ASSUME NEW e \in C \ {x} PROVE Before(e, x)
        <5>1. CASE e = z
          BY <3>1, <5>1
        <5>2. CASE e # z
          <6>1. Before(e, z)
            BY <2>4, <4>1, <5>2
          <6> QED BY <1>2, <1>3, <2>1, <3>1, <4>1, <6>1
        <5> QED BY <5>1, <5>2
      <4> QED BY <1>3, <4>1
    <3>2. CASE Before(x, z)
      <4>1. ASSUME NEW e \in C \ {z} PROVE Before(e, z)
        BY <2>4, <3>2
      <4> QED BY <4>1
    <3>3. Before(z, x) \/ Before(x, z)
      BY <1>3, <2>1
    <3> QED BY <3>1, <3>2, <3>3
  <2> QED BY <1>2, <2>5, <2>6
<1> QED BY <1>4, <1>5

\* A share is reached or all is taken, the last document of it is needed, and
\* nothing in it is decided, staged, excluded, too old or too large: for any
\* stock, whatever its order and its sizes.
THEOREM StagesAlwaysReach ==
  ASSUME NEW stock, Stock(stock), NEW order \in Order
  PROVE  StageReachesTarget(stock, order, Selected50(stock, order))
<1> USE BeforeIsAnOrder
<1> DEFINE chosen == Selected50(stock, order)
           D == {d \in Candidates(stock, order) : Eligible(d, order)}
           target == TargetPages(stock, order)
           last == {d \in chosen : \A e \in chosen : ~Before(d, e)}
           Ahead(d) == {e \in D : Before(e, d)}
<1>1. D \in SUBSET stock /\ chosen \in SUBSET D
  BY DEF Candidates, Selected50, SelectDocuments
<1>2. \A C \in SUBSET stock : C \in SUBSET Document /\ IsFiniteSet(C)
  BY FS_Subset DEF Stock
<1>3. \A C \in SUBSET stock : PagesOf(C) \in Nat /\ \A B \in SUBSET C : PagesOf(B) <= PagesOf(C)
  BY <1>2, PagesGrow
<1>4. target \in Int
  <2> DEFINE total == PagesOf({d \in stock : d.state = "processed" /\ d.id \notin order.excluded})
  <2>1. total \in Nat
    BY <1>3
  <2>2. order.share \in Nat
    BY DEF Order
  <2> HIDE DEF total
  <2>3. (total * order.share + 99) \div 100 \in Int
    BY <2>1, <2>2
  <2> QED BY <2>3 DEF TargetPages, total
<1>5. ASSUME NEW d \in chosen PROVE Reason(stock, order, d.id) = "unknown"
  BY <1>1, ReasonIsOfTheQuery DEF Candidates
<1>6. ASSUME order.share > 0 PROVE chosen = {d \in D : PagesOf(Ahead(d)) < target}
  BY <1>6 DEF Selected50, SelectDocuments
<1> HIDE DEF chosen, D, target
<1>7. ASSUME order.share > 0, chosen # D PROVE PagesOf(chosen) >= target
  <2>1. D \ chosen \in SUBSET stock /\ D \ chosen # {}
    BY <1>1, <1>7
  <2>2. PICK m \in D \ chosen : \A e \in (D \ chosen) \ {m} : Before(m, e)
    <3> DEFINE rest == D \ chosen
    <3>1. rest \in SUBSET stock /\ rest # {}
      BY <2>1
    <3> HIDE DEF rest
    <3>2. \E m \in rest : \A e \in rest \ {m} : Before(m, e)
      BY <3>1, FirstAndLast
    <3> QED BY <3>2 DEF rest
  <2>3. ASSUME NEW e \in Ahead(m) PROVE e \in chosen
    <3>1. e \in stock /\ m \in stock /\ Before(e, m) /\ e # m
      BY <1>1, <2>1, <2>3
    <3>2. ~Before(m, e)
      BY <3>1
    <3> QED BY <2>2, <2>3, <3>1, <3>2
  <2>4. Ahead(m) \in SUBSET chosen /\ chosen \in SUBSET stock
    BY <1>1, <2>3
  <2>5. ~(PagesOf(Ahead(m)) < target)
    BY <1>6, <1>7, <2>2
  <2>6. PagesOf(Ahead(m)) <= PagesOf(chosen) /\ PagesOf(Ahead(m)) \in Nat /\ PagesOf(chosen) \in Nat
    BY <1>1, <1>3, <2>4
  <2> QED BY <1>4, <2>5, <2>6
<1>8. ASSUME order.share > 0, chosen # {} PROVE PagesOf(chosen \ last) < target
  <2>1. chosen \in SUBSET stock
    BY <1>1
  <2>2. PICK m \in chosen : \A e \in chosen \ {m} : Before(e, m)
    BY <1>8, <2>1, FirstAndLast
  <2>3. \A e \in chosen : ~Before(m, e)
    BY <2>1, <2>2
  <2>4. chosen \ last \in SUBSET Ahead(m) /\ Ahead(m) \in SUBSET stock
    BY <1>1, <2>2, <2>3
  <2>5. PagesOf(Ahead(m)) < target
    BY <1>6, <1>8, <2>2
  <2>6. PagesOf(chosen \ last) <= PagesOf(Ahead(m)) /\ PagesOf(Ahead(m)) \in Nat
        /\ PagesOf(chosen \ last) \in Nat
    BY <1>3, <2>1, <2>4
  <2> QED BY <1>4, <2>5, <2>6
<1> QED BY <1>5, <1>7, <1>8 DEF StageReachesTarget, chosen, D, target

-----------------------------------------------------------------------------
(* Verdicts.                                                               *)

\* The loop of a sequence of length n: the greatest number comes last.
LEMMA LoopExists ==
  ASSUME NEW n \in Nat, NEW V, NEW base \in V, NEW step \in [(1..n) \X V -> V]
  PROVE  \E g \in [SUBSET (1..n) -> V] :
           FoldOf(g, 1..n, base, [s \in SUBSET (1..n) |-> Max(s)], step)
<1> DEFINE chosen == [s \in SUBSET (1..n) |-> Max(s)]
<1>1. \A s \in (SUBSET (1..n)) \ {{}} : chosen[s] \in s
  BY MaxOfPart
<1>2. IsFiniteSet(1..n)
  BY FS_Interval
<1> HIDE DEF chosen
<1>3. \E g \in [SUBSET (1..n) -> V] : FoldOf(g, 1..n, base, chosen, step)
  BY <1>1, <1>2, FoldExists
<1> QED BY <1>3 DEF chosen

NoVerdict == [refused |-> FALSE, verdicts |-> {}]
AddRow(c, row) ==
  IF c.refused \/ \E p \in c.verdicts : p[1] = row[1] /\ p[2] # row[2]
  THEN [refused |-> TRUE, verdicts |-> {}]
  ELSE [refused |-> FALSE, verdicts |-> c.verdicts \cup {row}]
VerdictFold(g, file) ==
  g = [s \in SUBSET DOMAIN file |->
         IF s = {} THEN NoVerdict ELSE AddRow(g[s \ {Max(s)}], file[Max(s)])]

LEMMA VerdictFoldExists ==
  ASSUME NEW O, NEW W, NEW file \in Seq(O \X W)
  PROVE  \E g : VerdictFold(g, file)
<1> DEFINE n == Len(file)
           V == [refused : BOOLEAN, verdicts : SUBSET (O \X W)]
           chosen == [s \in SUBSET (1..n) |-> Max(s)]
           step == [t \in (1..n) \X V |-> AddRow(t[2], file[t[1]])]
<1>1. n \in Nat /\ DOMAIN file = 1..n /\ NoVerdict \in V
  BY DEF NoVerdict
<1>2. ASSUME NEW i \in 1..n, NEW c \in V PROVE AddRow(c, file[i]) \in V
  <2>1. file[i] \in O \X W
    OBVIOUS
  <2>2. c.verdicts \in SUBSET (O \X W)
    OBVIOUS
  <2> QED BY <2>1, <2>2 DEF AddRow
<1> HIDE DEF V
<1>3. step \in [(1..n) \X V -> V]
  BY <1>2
<1>4. \A i \in 1..n, c \in V : step[i, c] = AddRow(c, file[i])
  OBVIOUS
<1> HIDE DEF n, step
<1>5. PICK g \in [SUBSET (1..n) -> V] : FoldOf(g, 1..n, NoVerdict, chosen, step)
  BY <1>1, <1>3, LoopExists
<1>6. ASSUME NEW s \in SUBSET (1..n), s # {}
      PROVE  step[chosen[s], g[s \ {chosen[s]}]] = AddRow(g[s \ {Max(s)}], file[Max(s)])
  <2>1. chosen[s] = Max(s) /\ Max(s) \in 1..n
    BY <1>1, <1>6, MaxOfPart
  <2>2. g[s \ {Max(s)}] \in V
    OBVIOUS
  <2> QED BY <1>4, <2>1, <2>2
<1>7. VerdictFold(g, file)
  BY <1>1, <1>5, <1>6 DEF FoldOf, VerdictFold
<1> QED BY <1>7

Contradict(R) == \E r, s \in R : r[1] = s[1] /\ r[2] # s[2]

\* The loop refuses exactly the files with two verdicts on one occurrence, and
\* keeps all rows of any other.
LEMMA CollapseIsOfTheSet ==
  ASSUME NEW O, NEW W, NEW file \in Seq(O \X W)
  PROVE  Collapse(file) = IF Contradict(ToSet(file)) THEN [refused |-> TRUE, verdicts |-> {}]
                          ELSE [refused |-> FALSE, verdicts |-> ToSet(file)]
<1> DEFINE n == Len(file)
           G == CHOOSE g : VerdictFold(g, file)
           Seen(i) == {file[k] : k \in 1..i}
           Result(i) == IF Contradict(Seen(i)) THEN [refused |-> TRUE, verdicts |-> {}]
                        ELSE [refused |-> FALSE, verdicts |-> Seen(i)]
           Good == {i \in 0..n : G[1..i] = Result(i)}
<1>1. n \in Nat /\ DOMAIN file = 1..n /\ ToSet(file) = Seen(n)
  BY DEF ToSet
<1>2. Collapse(file) = G[DOMAIN file]
  BY DEF Collapse, FoldLeft, MapThenFoldSet, VerdictFold, NoVerdict, AddRow
<1>3. VerdictFold(G, file)
  BY VerdictFoldExists
<1> HIDE DEF G, n
<1>4. 0 \in Good
  <2>1. 1..0 = {} /\ {} \in SUBSET DOMAIN file
    OBVIOUS
  <2>2. G[1..0] = NoVerdict
    BY <1>3, <2>1 DEF VerdictFold
  <2>3. Seen(0) = {} /\ ~Contradict({})
    BY <2>1 DEF Contradict
  <2>4. ~Contradict(Seen(0))
    BY <2>3
  <2>5. 0 \in 0..n
    BY <1>1
  <2> HIDE DEF Seen
  <2>6. Result(0) = NoVerdict
    BY <2>3, <2>4 DEF NoVerdict
  <2> QED BY <2>2, <2>5, <2>6
<1>5. ASSUME NEW i \in 1..n, i - 1 \in Good PROVE i \in Good
  <2>1. G[1..i] = AddRow(G[1..(i - 1)], file[i])
    BY <1>1, <1>3, MaxOfPrefix DEF VerdictFold
  <2>2. G[1..(i - 1)] = Result(i - 1)
    BY <1>5
  <2>3. Seen(i) = Seen(i - 1) \cup {file[i]}
    <3>1. 1..i = 1..(i - 1) \cup {i}
      BY <1>1
    <3> QED BY <3>1
  <2> HIDE DEF Seen
  <2>4. CASE Contradict(Seen(i - 1))
    <3>1. Contradict(Seen(i))
      BY <2>3, <2>4 DEF Contradict
    <3> QED BY <1>1, <2>1, <2>2, <2>4, <3>1 DEF AddRow
  <2>5. CASE ~Contradict(Seen(i - 1))
    <3>1. Contradict(Seen(i)) <=> \E p \in Seen(i - 1) : p[1] = file[i][1] /\ p[2] # file[i][2]
      BY <2>3, <2>5 DEF Contradict
    <3> DEFINE c == G[1..(i - 1)]
    <3>2. c.refused = FALSE /\ c.verdicts = Seen(i - 1)
      BY <2>2, <2>5
    <3>3. AddRow(c, file[i]) = Result(i)
      <4> HIDE DEF c
      <4> QED BY <2>3, <3>1, <3>2 DEF AddRow
    <3>4. i \in 0..n
      BY <1>1
    <3> QED BY <2>1, <3>3, <3>4
  <2> QED BY <2>4, <2>5
<1>6. n \in Good
  <2> HIDE DEF Good
  <2>1. 0..n \subseteq Good
    BY <1>1, <1>4, <1>5, ByPrefixes
  <2>2. n \in 0..n
    BY <1>1
  <2> QED BY <2>1, <2>2
<1> QED BY <1>1, <1>2, <1>6

\* A file of verdicts, whatever it says and in whatever order, overturns no
\* decision, applies nothing if it contradicts itself, and the second time
\* changes nothing.
THEOREM VerdictsAlwaysSafe ==
  ASSUME NEW O, NEW W, NEW file \in Seq(O \X W), NEW R, NEW S, NEW status \in [R -> S]
  PROVE  VerdictsAreSafe(file, status, Apply(file, status))
<1> DEFINE applied == Apply(file, status)
           kept == Collapse(file).verdicts
<1>1. Reverse(file) \in Seq(O \X W) /\ ToSet(Reverse(file)) = ToSet(file)
  <2> DEFINE n == Len(file)
             back == Reverse(file)
  <2>1. n \in Nat /\ file \in [1..n -> O \X W] /\ back = [i \in 1..n |-> file[(n - i) + 1]]
    BY DEF Reverse
  <2>2. \A i \in 1..n : (n - i) + 1 \in 1..n /\ (n - ((n - i) + 1)) + 1 = i
    BY <2>1
  <2>3. back \in [1..n -> O \X W]
    BY <2>1, <2>2
  <2>4. back \in Seq(O \X W)
    BY <2>1, <2>3
  <2>5. \A i \in 1..n : back[(n - i) + 1] = file[i] /\ back[i] = file[(n - i) + 1]
    BY <2>1, <2>2
  <2>6. DOMAIN file = 1..n /\ DOMAIN back = 1..n
    BY <2>1, <2>3
  <2> HIDE DEF n, back
  <2>7. ToSet(back) \subseteq ToSet(file)
    BY <2>2, <2>5, <2>6 DEF ToSet
  <2>8. ToSet(file) \subseteq ToSet(back)
    BY <2>2, <2>5, <2>6 DEF ToSet
  <2> QED BY <2>4, <2>7, <2>8 DEF back
<1>2. Collapse(Reverse(file)) = Collapse(file)
  BY <1>1, CollapseIsOfTheSet
<1>3. ASSUME Contradict(ToSet(file)) PROVE applied = status
  <2>1. kept = {}
    <3>1. Collapse(file) = [refused |-> TRUE, verdicts |-> {}]
      BY <1>3, CollapseIsOfTheSet
    <3> QED BY <3>1
  <2>2. applied = [o \in DOMAIN status |-> status[o]]
    BY <2>1 DEF Apply
  <2> QED BY <2>2
<1>4. \A o \in DOMAIN status :
        applied[o] = IF <<o, "keine_anzeige">> \in kept /\ status[o] = "detected" THEN "rejected" ELSE status[o]
  BY DEF Apply
<1>5. DOMAIN applied = DOMAIN status /\ applied = [o \in DOMAIN status |-> applied[o]]
  BY DEF Apply
<1>6. Apply(file, applied)
        = [o \in DOMAIN applied |->
             IF <<o, "keine_anzeige">> \in kept /\ applied[o] = "detected" THEN "rejected" ELSE applied[o]]
  BY DEF Apply
<1> HIDE DEF applied, kept
<1>7. \A o \in DOMAIN status :
        (IF <<o, "keine_anzeige">> \in kept /\ applied[o] = "detected" THEN "rejected" ELSE applied[o]) = applied[o]
  BY <1>4
<1>8. Apply(file, applied) = applied
  BY <1>5, <1>6, <1>7
<1>9. VerdictsAreSafe(file, status, applied)
  BY <1>2, <1>3, <1>4, <1>8 DEF VerdictsAreSafe, Contradict
<1> QED BY <1>9 DEF applied

-----------------------------------------------------------------------------
(* The first and the most.                                                 *)

LEMMA MinIsLeast ==
  ASSUME NEW S \in SUBSET Nat, S # {}
  PROVE  Min(S) \in S /\ \A k \in S : Min(S) <= k
<1>1. PICK m \in S : \A k \in S : m <= k
  BY LeastNumber
<1> QED BY <1>1 DEF Min

LEMMA MaxIsGreatest ==
  ASSUME NEW S \in SUBSET Nat, S # {}, IsFiniteSet(S)
  PROVE  Max(S) \in S /\ \A k \in S : Max(S) >= k
<1> DEFINE Greatest(T) == \E m \in T : \A k \in T : m >= k
           Bad == {T \in SUBSET S : T # {} /\ ~Greatest(T)}
<1>1. Greatest(S)
  <2> SUFFICES ASSUME Bad # {} PROVE FALSE
    OBVIOUS
  <2>1. PICK T \in Bad : \A x \in T : T \ {x} \notin Bad
    <3>1. Bad \in SUBSET (SUBSET S)
      OBVIOUS
    <3> HIDE DEF Bad
    <3> QED BY <3>1, SmallestSubset
  <2>2. PICK x \in T : x \in Nat
    BY <2>1
  <2>3. CASE T \ {x} = {}
    BY <2>1, <2>2, <2>3
  <2>4. CASE T \ {x} # {}
    <3>1. PICK m \in T \ {x} : \A k \in T \ {x} : m >= k
      BY <2>1, <2>4
    <3>2. m \in Nat
      BY <2>1
    <3>3. CASE m >= x
      BY <2>1, <3>1, <3>3
    <3>4. CASE ~(m >= x)
      <4>1. \A k \in T : x >= k
        BY <2>1, <2>2, <3>1, <3>2, <3>4
      <4> QED BY <2>1, <4>1
    <3> QED BY <3>3, <3>4
  <2> QED BY <2>3, <2>4
<1> QED BY <1>1 DEF Max

\* The type is that of the first source with one, for any rules that match.
THEOREM TypesAlwaysOfFirstSource ==
  ASSUME NEW rules, \A s \in ToSet(TypeSources) : rules[s] \in SUBSET (Nat \ {0})
  PROVE  TypeIsOfFirstSource(rules, TypeDecision(rules))
<1> DEFINE from == {i \in DOMAIN TypeSources : rules[TypeSources[i]] # {}}
           decision == TypeDecision(rules)
<1>1. /\ DOMAIN TypeSources = 1..4
      /\ \A i, j \in 1..4 : TypeSources[i] = TypeSources[j] => i = j
      /\ \A i \in 1..4 : TypeSources[i] \in ToSet(TypeSources) /\ TypeSources[i] # "none"
      /\ \A s \in ToSet(TypeSources) : \E i \in 1..4 : TypeSources[i] = s
  BY DEF TypeSources, ToSet
<1>2. CASE from = {}
  <2>1. decision = [source |-> "none", type |-> 0]
    BY <1>2 DEF TypeDecision
  <2>2. \A s \in ToSet(TypeSources) : rules[s] = {}
    BY <1>1, <1>2
  <2> HIDE DEF decision
  <2> QED BY <1>1, <2>1, <2>2 DEF TypeIsOfFirstSource, decision
<1>3. CASE from # {}
  <2> DEFINE first == Min(from)
  <2>1. first \in from /\ \A k \in from : first <= k
    <3>1. from \in SUBSET Nat
      BY <1>1
    <3> HIDE DEF from
    <3> QED BY <1>3, <3>1, MinIsLeast
  <2>2. decision = [source |-> TypeSources[first], type |-> Min(rules[TypeSources[first]])]
    BY <1>3 DEF TypeDecision
  <2>3. first \in 1..4 /\ rules[TypeSources[first]] # {} /\ \A j \in 1..(first - 1) : rules[TypeSources[j]] = {}
    <3>1. from \subseteq 1..4 /\ \A i \in 1..4 : i \in from <=> rules[TypeSources[i]] # {}
      BY <1>1
    <3> HIDE DEF from, first
    <3>2. first \in 1..4
      BY <2>1, <3>1
    <3>3. \A j \in 1..(first - 1) : j \in 1..4 /\ j \notin from
      BY <2>1, <3>2
    <3> QED BY <2>1, <3>1, <3>2, <3>3
  <2>4. decision.type \in rules[TypeSources[first]] /\ decision.type \in Nat \ {0}
    <3>1. rules[TypeSources[first]] \in SUBSET Nat
      BY <1>1, <2>3
    <3>2. Min(rules[TypeSources[first]]) \in rules[TypeSources[first]]
      BY <2>3, <3>1, MinIsLeast
    <3> QED BY <1>1, <2>2, <2>3, <3>2
  <2>5. decision.source = TypeSources[first]
    BY <2>2
  <2> HIDE DEF decision, first, from
  <2>6. TypeIsOfFirstSource(rules, decision)
    BY <1>1, <2>3, <2>4, <2>5 DEF TypeIsOfFirstSource
  <2> QED BY <2>6 DEF decision
<1> QED BY <1>2, <1>3

-----------------------------------------------------------------------------
(* The period.                                                             *)

\* The marks of a text: what is not an issue has a year.
Marked(text) ==
  /\ text \in Seq(Mark)
  /\ \A m \in ToSet(text) : /\ m.kind # "issue" => m.year > 0
                            /\ m.kind = "range" => m.until > 0

LEMMA FirstOfIsFirst ==
  ASSUME NEW text, Marked(text), NEW kinds, Has(text, kinds)
  PROVE  \E i \in DOMAIN text :
           /\ FirstOf(text, kinds) = text[i] /\ text[i].kind \in kinds
           /\ \A j \in 1..(i - 1) : text[j].kind \notin kinds
<1> DEFINE found == {i \in DOMAIN text : text[i].kind \in kinds}
<1>1. DOMAIN text = 1..Len(text) /\ Len(text) \in Nat
  BY DEF Marked
<1>2. found \in SUBSET Nat /\ found # {}
  BY <1>1 DEF Has, ToSet
<1>3. Min(found) \in found /\ \A k \in found : Min(found) <= k
  <2> HIDE DEF found
  <2> QED BY <1>2, MinIsLeast
<1>4. FirstOf(text, kinds) = text[Min(found)]
  BY DEF FirstOf
<1> DEFINE i == Min(found)
<1>5. \A j \in 1..(i - 1) : j \in DOMAIN text /\ j \notin found
  <2>1. i \in 1..Len(text)
    BY <1>1, <1>3
  <2> HIDE DEF found, i
  <2>2. \A k \in found : i <= k
    BY <1>3 DEF i
  <2> QED BY <1>1, <2>1, <2>2
<1> HIDE DEF i
<1>6. i \in found
  BY <1>3 DEF i
<1> QED BY <1>4, <1>5, <1>6 DEF i

\* The years of a text are finitely many.
LEMMA YearsAreFinite ==
  ASSUME NEW text, Marked(text)
  PROVE  IsFiniteSet(YearsOf(text)) /\ YearsOf(text) \in SUBSET (Nat \ {0})
<1> DEFINE n == Len(text)
           of(m) == IF m.kind = "range" THEN {m.year, m.until} ELSE IF m.kind = "issue" THEN {} ELSE {m.year}
           f == [i \in 1..n |-> of(text[i])]
           all == {f[i] : i \in 1..n}
<1>1. n \in Nat /\ DOMAIN text = 1..n /\ \A i \in 1..n : text[i] \in Mark /\ text[i] \in ToSet(text)
  BY DEF Marked, ToSet
<1>2. YearsOf(text) = UNION all
  BY <1>1 DEF YearsOf, ToSet
<1>3. IsFiniteSet(all)
  <2>1. f \in Surjection(1..n, all)
    BY Fun_IsSurj
  <2>2. IsFiniteSet(1..n)
    BY <1>1, FS_Interval
  <2> HIDE DEF f, all
  <2> QED BY <2>1, <2>2, FS_Surjection
<1>4. ASSUME NEW i \in 1..n PROVE IsFiniteSet(of(text[i])) /\ of(text[i]) \in SUBSET (Nat \ {0})
  <2>1. IsFiniteSet({text[i].year, text[i].until}) /\ IsFiniteSet({text[i].year}) /\ IsFiniteSet({})
    <3>1. IsFiniteSet({text[i].year}) /\ IsFiniteSet({text[i].until}) /\ IsFiniteSet({})
      BY FS_Singleton, FS_EmptySet
    <3>2. {text[i].year, text[i].until} = {text[i].year} \cup {text[i].until}
      OBVIOUS
    <3> QED BY <3>1, <3>2, FS_Union
  <2>2. /\ text[i].year \in Nat /\ text[i].until \in Nat
        /\ text[i].kind # "issue" => text[i].year > 0
        /\ text[i].kind = "range" => text[i].until > 0
    BY <1>1 DEF Marked, Mark
  <2> QED BY <2>1, <2>2
<1>5. \A Y \in all : IsFiniteSet(Y) /\ Y \in SUBSET (Nat \ {0})
  BY <1>4
<1> HIDE DEF all
<1> QED BY <1>2, <1>3, <1>5, FS_UNION

Said == {"range", "numbered", "issue", "edition", "volume", "date"}

\* What one text gives: a period whose years stand in it, or none.
LEMMA CandidateIsEvidenced ==
  ASSUME NEW text, Marked(text), NEW bare \in BOOLEAN
  PROVE  LET p == PeriodCandidate(text, bare) IN
         /\ ~p.found => ~Has(text, Said) /\ (bare => YearsOf(text) = {})
         /\ p.found =>
              /\ p.start = 0 <=> p.end = 0
              /\ p.end # 0 => {p.start, p.end} \subseteq YearsOf(text) /\ (bare \/ Has(text, Said))
              /\ p.end = 0 => \E i \in DOMAIN text :
                   text[i].kind = "issue" /\ \A j \in 1..(i - 1) : text[j].kind # "edition"
              /\ \A m \in ToSet(text) : m.kind \in {"range", "numbered"} => p.end # 0
<1> DEFINE p == PeriodCandidate(text, bare)
<1>1. \A i \in DOMAIN text : text[i] \in ToSet(text) /\ text[i] \in Mark
  BY DEF Marked, ToSet
<1>2. ASSUME NEW m \in ToSet(text), m.kind # "issue"
      PROVE  /\ m.year \in YearsOf(text) /\ m.year # 0
             /\ m.kind = "range" => m.until \in YearsOf(text) /\ m.until # 0
  <2>1. m.year > 0 /\ (m.kind = "range" => m.until > 0)
    BY <1>2 DEF Marked
  <2> QED BY <1>2, <2>1 DEF YearsOf
<1>3. \A K \in SUBSET Said : Has(text, K) => Has(text, Said)
  BY DEF Has
<1>4. CASE Has(text, {"range"})
  <2>1. PICK i \in DOMAIN text : FirstOf(text, {"range"}) = text[i] /\ text[i].kind = "range"
    BY <1>4, FirstOfIsFirst
  <2>2. p = Period(text[i].year, text[i].until, 0)
    BY <1>4, <2>1 DEF PeriodCandidate
  <2>3. {text[i].year, text[i].until} \subseteq YearsOf(text) /\ text[i].year # 0 /\ text[i].until # 0
    BY <1>1, <1>2, <2>1
  <2> QED BY <1>3, <1>4, <2>2, <2>3 DEF Period, Said
<1>5. CASE ~Has(text, {"range"}) /\ Has(text, {"numbered"})
  <2>1. PICK i \in DOMAIN text : FirstOf(text, {"numbered"}) = text[i] /\ text[i].kind = "numbered"
    BY <1>5, FirstOfIsFirst
  <2>2. p = Period(text[i].year, text[i].year, text[i].issue)
    BY <1>5, <2>1 DEF PeriodCandidate
  <2>3. text[i].year \in YearsOf(text) /\ text[i].year # 0
    BY <1>1, <1>2, <2>1
  <2> QED BY <1>3, <1>5, <2>2, <2>3 DEF Period, Said
<1>6. ASSUME ~Has(text, {"range"}), ~Has(text, {"numbered"})
      PROVE  \A m \in ToSet(text) : m.kind \notin {"range", "numbered"}
  BY <1>6 DEF Has
<1> DEFINE issue == Has(text, {"issue"}) /\ FirstOf(text, {"issue", "edition"}).kind = "issue"
<1>7. CASE ~Has(text, {"range"}) /\ ~Has(text, {"numbered"}) /\ issue
  <2>1. Has(text, {"issue", "edition"})
    BY <1>7 DEF Has
  <2>2. PICK i \in DOMAIN text :
          /\ FirstOf(text, {"issue", "edition"}) = text[i]
          /\ \A j \in 1..(i - 1) : text[j].kind \notin {"issue", "edition"}
    BY <2>1, FirstOfIsFirst
  <2>3. text[i].kind = "issue" /\ \A j \in 1..(i - 1) : text[j].kind # "edition"
    BY <1>7, <2>2
  <2>4. p.found /\ p.start = 0 /\ p.end = 0
    BY <1>7 DEF PeriodCandidate, Period
  <2> HIDE DEF p
  <2>5. \A m \in ToSet(text) : m.kind \notin {"range", "numbered"}
    BY <1>6, <1>7
  <2> QED BY <2>3, <2>4, <2>5 DEF p
<1> DEFINE later == ~Has(text, {"range"}) /\ ~Has(text, {"numbered"}) /\ ~issue
<1>8. ASSUME later, NEW K \in {{"edition", "volume"}, {"date"}}, Has(text, K),
             p = Period(FirstOf(text, K).year, FirstOf(text, K).year, 0)
      PROVE  /\ p.found /\ p.start = p.end /\ p.end # 0 /\ p.end \in YearsOf(text) /\ Has(text, Said)
             /\ \A m \in ToSet(text) : m.kind \notin {"range", "numbered"}
  <2>1. PICK i \in DOMAIN text : FirstOf(text, K) = text[i] /\ text[i].kind \in K
    BY <1>8, FirstOfIsFirst
  <2>2. text[i].year \in YearsOf(text) /\ text[i].year # 0
    BY <1>1, <1>2, <1>8, <2>1
  <2>3. p.found /\ p.start = p.end /\ p.end = text[i].year
    BY <1>8, <2>1 DEF Period
  <2>4. Has(text, Said)
    BY <1>3, <1>8 DEF Said
  <2> QED BY <1>6, <1>8, <2>2, <2>3, <2>4
<1>9. CASE later /\ Has(text, {"edition", "volume"})
  <2>1. p = Period(FirstOf(text, {"edition", "volume"}).year, FirstOf(text, {"edition", "volume"}).year, 0)
    BY <1>9 DEF PeriodCandidate
  <2> HIDE DEF p, later
  <2> QED BY <1>8, <1>9, <2>1 DEF p
<1>10. CASE later /\ ~Has(text, {"edition", "volume"}) /\ Has(text, {"date"})
  <2>1. p = Period(FirstOf(text, {"date"}).year, FirstOf(text, {"date"}).year, 0)
    BY <1>10 DEF PeriodCandidate
  <2> HIDE DEF p, later
  <2> QED BY <1>8, <1>10, <2>1 DEF p
<1>11. CASE later /\ ~Has(text, {"edition", "volume"}) /\ ~Has(text, {"date"})
  <2>1. CASE bare /\ YearsOf(text) # {}
    <3>1. p = Period(Min(YearsOf(text)), Max(YearsOf(text)), 0)
      BY <1>11, <2>1 DEF PeriodCandidate
    <3>2. YearsOf(text) \in SUBSET Nat /\ 0 \notin YearsOf(text) /\ IsFiniteSet(YearsOf(text))
      BY YearsAreFinite
    <3>3. Min(YearsOf(text)) \in YearsOf(text) /\ Max(YearsOf(text)) \in YearsOf(text)
      BY <2>1, <3>2, MinIsLeast, MaxIsGreatest
    <3>4. \A m \in ToSet(text) : m.kind \notin {"range", "numbered"}
      BY <1>6, <1>11
    <3>5. /\ p.found /\ p.start = Min(YearsOf(text)) /\ p.end = Max(YearsOf(text))
          /\ p.start # 0 /\ p.end # 0 /\ {p.start, p.end} \subseteq YearsOf(text)
      BY <3>1, <3>2, <3>3 DEF Period
    <3> HIDE DEF p
    <3> QED BY <2>1, <3>4, <3>5 DEF p
  <2>2. CASE ~(bare /\ YearsOf(text) # {})
    <3>1. ~p.found
      BY <1>11, <2>2 DEF PeriodCandidate, NoPeriod
    <3>2. ~Has(text, {"issue"})
      <4> SUFFICES ASSUME Has(text, {"issue"}) PROVE FALSE
        OBVIOUS
      <4>1. Has(text, {"issue", "edition"})
        BY DEF Has
      <4>2. PICK i \in DOMAIN text :
              FirstOf(text, {"issue", "edition"}) = text[i] /\ text[i].kind \in {"issue", "edition"}
        BY <4>1, FirstOfIsFirst
      <4>3. text[i].kind # "edition"
        BY <1>1, <1>11 DEF Has
      <4> QED BY <1>11, <4>2, <4>3
    <3>3. ~Has(text, Said)
      BY <1>11, <3>2 DEF Has, Said
    <3> QED BY <2>2, <3>1, <3>3
  <2> QED BY <2>1, <2>2
<1> QED BY <1>4, <1>5, <1>7, <1>9, <1>10, <1>11

\* The texts of a document by their source.
MarkedTexts(texts) == \A s \in ToSet(PeriodSources) : Marked(texts[s])

LEMMA PeriodIsOfASource ==
  ASSUME NEW texts
  PROVE  LET decision == PeriodDecision(texts) IN
         \/ /\ decision = [source |-> "none", period |-> NoPeriod]
            /\ \A s \in ToSet(PeriodSources) : ~CandidateOf(texts, s).found
         \/ /\ decision.source \in ToSet(PeriodSources)
            /\ decision.period = CandidateOf(texts, decision.source) /\ decision.period.found
<1> DEFINE from == {i \in DOMAIN PeriodSources : CandidateOf(texts, PeriodSources[i]).found}
           decision == PeriodDecision(texts)
           source == PeriodSources[Min(from)]
<1>1. /\ DOMAIN PeriodSources \subseteq Nat
      /\ \A i \in DOMAIN PeriodSources : PeriodSources[i] \in ToSet(PeriodSources)
      /\ \A s \in ToSet(PeriodSources) : \E i \in DOMAIN PeriodSources : PeriodSources[i] = s
  BY DEF PeriodSources, ToSet
<1>2. CASE from = {}
  <2>1. decision = [source |-> "none", period |-> NoPeriod]
    BY <1>2 DEF PeriodDecision
  <2>2. \A s \in ToSet(PeriodSources) : ~CandidateOf(texts, s).found
    BY <1>1, <1>2
  <2> QED BY <2>1, <2>2
<1>3. CASE from # {}
  <2>1. from \in SUBSET Nat
    BY <1>1
  <2>2. Min(from) \in from
    <3> HIDE DEF from
    <3> QED BY <1>3, <2>1, MinIsLeast
  <2>3. decision = [source |-> source, period |-> CandidateOf(texts, source)]
    BY <1>3 DEF PeriodDecision
  <2>4. source \in ToSet(PeriodSources) /\ CandidateOf(texts, source).found
    BY <1>1, <2>2
  <2> HIDE DEF source
  <2> QED BY <2>3, <2>4
<1> QED BY <1>2, <1>3

\* The years of a period stand in the text of its source, and no text that
\* says something is passed over, whatever the texts are.
THEOREM PeriodsAlwaysEvidenced ==
  ASSUME NEW texts, MarkedTexts(texts)
  PROVE  PeriodIsEvidenced(texts, PeriodDecision(texts))
<1> DEFINE decision == PeriodDecision(texts)
           p == decision.period
<1>1. /\ "none" \notin ToSet(PeriodSources) /\ "filename" \in ToSet(PeriodSources)
  BY DEF PeriodSources, ToSet
<1>2. CASE /\ decision = [source |-> "none", period |-> NoPeriod]
           /\ \A s \in ToSet(PeriodSources) : ~CandidateOf(texts, s).found
  <2>1. ASSUME NEW s \in ToSet(PeriodSources)
        PROVE  ~Has(texts[s], Said) /\ (s = "filename" => YearsOf(texts[s]) = {})
    <3>1. Marked(texts[s]) /\ (s = "filename") \in BOOLEAN
      BY DEF MarkedTexts
    <3>2. ~PeriodCandidate(texts[s], s = "filename").found
      BY <1>2 DEF CandidateOf
    <3> QED BY <3>1, <3>2, CandidateIsEvidenced
  <2>2. texts["filename"] = <<>>
    <3> DEFINE text == texts["filename"]
    <3>1. Marked(text) /\ ~Has(text, Said) /\ YearsOf(text) = {}
      BY <1>1, <2>1 DEF MarkedTexts
    <3> HIDE DEF text
    <3>2. ASSUME NEW m \in ToSet(text) PROVE m.kind = "year"
      <4>1. m \in Mark
        BY <3>1 DEF Marked, ToSet
      <4>2. m.kind \notin Said
        BY <3>1 DEF Has
      <4> QED BY <4>1, <4>2 DEF Mark, Said
    <3>3. \A m \in ToSet(text) : m.year \in YearsOf(text)
      BY <3>2 DEF YearsOf
    <3>4. ToSet(text) = {}
      BY <3>1, <3>3
    <3>5. text \in Seq(Mark) /\ DOMAIN text = {}
      BY <3>1, <3>4 DEF Marked, ToSet
    <3>6. text = <<>>
      BY <3>5
    <3> QED BY <3>6 DEF text
  <2>3. decision.source = "none"
    BY <1>2
  <2> HIDE DEF decision
  <2> QED BY <2>1, <2>2, <2>3 DEF PeriodIsEvidenced, Said, decision
<1>3. CASE /\ decision.source \in ToSet(PeriodSources)
           /\ p = CandidateOf(texts, decision.source) /\ p.found
  <2> DEFINE text == texts[decision.source]
             bare == decision.source = "filename"
  <2>1. Marked(text) /\ bare \in BOOLEAN /\ p = PeriodCandidate(text, bare)
    BY <1>3 DEF MarkedTexts, CandidateOf
  <2>2. /\ p.start = 0 <=> p.end = 0
        /\ p.end # 0 => {p.start, p.end} \subseteq YearsOf(text) /\ (bare \/ Has(text, Said))
        /\ p.end = 0 => \E i \in DOMAIN text :
             text[i].kind = "issue" /\ \A j \in 1..(i - 1) : text[j].kind # "edition"
        /\ \A m \in ToSet(text) : m.kind \in {"range", "numbered"} => p.end # 0
    <3> HIDE DEF text, bare, decision
    <3>1. p.found
      BY <1>3
    <3> HIDE DEF p
    <3> QED BY <2>1, <3>1, CandidateIsEvidenced
  <2>3. decision.source # "none"
    BY <1>1, <1>3
  <2> HIDE DEF decision
  <2> QED BY <2>2, <2>3 DEF PeriodIsEvidenced, Said, decision
<1> QED BY <1>2, <1>3, PeriodIsOfASource

-----------------------------------------------------------------------------
(* The place most contacts name.                                           *)

\* Contacts of which every city and postal code is a number.
Contacts(C) == IsFiniteSet(C) /\ \A c \in C : c[1] \in Nat /\ c[2] \in Nat

LEMMA MostIsMost ==
  ASSUME NEW C, Contacts(C), NEW i \in {1, 2}
  PROVE  /\ Most(C, i) \in Nat
         /\ Most(C, i) = 0 <=> \A c \in C : c[i] = 0
         /\ Most(C, i) # 0 => /\ \E c \in C : c[i] = Most(C, i)
                              /\ \A c \in C : c[i] # 0 => Votes(C, i, c[i]) <= Votes(C, i, Most(C, i))
<1> DEFINE values == {c[i] : c \in C} \ {0}
           size == Cardinality(C)
           best == {v \in values : \A u \in values : Votes(C, i, u) <= Votes(C, i, v)}
<1>1. values \in SUBSET Nat
  BY DEF Contacts
<1>2. \A v : Votes(C, i, v) \in 0..size
  <2>1. \A B \in SUBSET C : Cardinality(B) \in 0..size
    BY FS_Subset, FS_CardinalityType DEF Contacts
  <2> QED BY <2>1 DEF Votes
<1>3. CASE values = {}
  <2>1. Most(C, i) = 0
    BY <1>3 DEF Most
  <2> QED BY <1>3, <2>1
<1>4. CASE values # {}
  <2>1. best # {}
    <3> DEFINE short == {size - Votes(C, i, v) : v \in values}
    <3>1. size \in Nat
      BY FS_CardinalityType DEF Contacts
    <3>2. short \in SUBSET Nat /\ short # {}
      BY <1>2, <1>4, <3>1
    <3> HIDE DEF values
    <3>3. PICK m \in short : \A k \in short : m <= k
      BY <3>2, LeastNumber
    <3>4. PICK v \in values : m = size - Votes(C, i, v)
      BY <3>3
    <3>5. ASSUME NEW u \in values PROVE Votes(C, i, u) <= Votes(C, i, v)
      <4>1. size - Votes(C, i, u) \in short
        OBVIOUS
      <4>2. size - Votes(C, i, v) <= size - Votes(C, i, u)
        BY <3>3, <3>4, <4>1
      <4>3. Votes(C, i, u) \in Nat /\ Votes(C, i, v) \in Nat
        BY <1>2, <3>1
      <4> QED BY <3>1, <4>2, <4>3
    <3> QED BY <3>4, <3>5
  <2>2. best \in SUBSET Nat
    BY <1>1
  <2>3. Most(C, i) = Min(best)
    BY <1>4 DEF Most
  <2>4. Min(best) \in best
    <3> HIDE DEF best
    <3> QED BY <2>1, <2>2, MinIsLeast
  <2>5. Most(C, i) \in values /\ \A u \in values : Votes(C, i, u) <= Votes(C, i, Most(C, i))
    BY <2>3, <2>4
  <2> QED BY <1>1, <2>5
<1> QED BY <1>3, <1>4

\* The place given for a document is one its contacts name, and no other city
\* has more of them, for any contacts.
THEOREM PlacesAlwaysAttested ==
  ASSUME NEW C, Contacts(C)
  PROVE  PlaceIsAttested(C, AreaFromContacts(C))
<1> DEFINE city == Most(C, 1)
           own == {c \in C : c[1] = city}
           place == AreaFromContacts(C)
<1>1. place = <<city, IF city = 0 THEN 0 ELSE Most(own, 2)>>
  BY DEF AreaFromContacts
<1>2. place[1] = city /\ place[2] = IF city = 0 THEN 0 ELSE Most(own, 2)
  BY <1>1
<1>3. Contacts(own)
  BY FS_Subset DEF Contacts
<1>4. /\ city = 0 <=> \A c \in C : c[1] = 0
      /\ city # 0 => \A c \in C : c[1] # 0 => Votes(C, 1, c[1]) <= Votes(C, 1, city)
  BY MostIsMost
<1>5. /\ Most(own, 2) = 0 <=> \A c \in own : c[2] = 0
      /\ Most(own, 2) # 0 => \E c \in own : c[2] = Most(own, 2)
  <2> HIDE DEF own
  <2> QED BY <1>3, MostIsMost
<1> HIDE DEF place, city
<1> QED BY <1>2, <1>4, <1>5 DEF PlaceIsAttested, place

-----------------------------------------------------------------------------
(* Powers: TenTo and TwoTo.                                                *)

\* f are the powers of b.
PowersOf(f, b) == f = [n \in Nat |-> IF n = 0 THEN 1 ELSE b * f[n - 1]]
PowersUpto(f, n, b) == f \in [0..n -> Nat \ {0}] /\ f[0] = 1 /\ \A i \in 1..n : f[i] = b * f[i - 1]

LEMMA PowersExist ==
  ASSUME NEW b \in Nat \ {0}
  PROVE  \E f \in [Nat -> Nat \ {0}] : PowersOf(f, b)
<1> DEFINE Upto == {n \in Nat : \E f : PowersUpto(f, n, b)}
<1>1. ASSUME NEW n \in Nat PROVE n \in Upto
  <2>1. 0 \in Upto
    <3>1. PowersUpto([i \in 0..0 |-> 1], 0, b)
      BY DEF PowersUpto
    <3> QED BY <3>1
  <2>2. ASSUME NEW i \in 1..n, i - 1 \in Upto PROVE i \in Upto
    <3>1. PICK f : PowersUpto(f, i - 1, b)
      BY <2>2
    <3> DEFINE g == [k \in 0..i |-> IF k = i THEN b * f[i - 1] ELSE f[k]]
    <3>2. f[i - 1] \in Nat \ {0}
      BY <3>1 DEF PowersUpto
    <3>3. b * f[i - 1] \in Nat \ {0}
      <4> DEFINE x == f[i - 1]
      <4> HIDE DEF x
      <4>1. x \in Nat \ {0}
        BY <3>2 DEF x
      <4>2. b * x \in Nat \ {0}
        BY <4>1
      <4> QED BY <4>2 DEF x
    <3>4. g \in [0..i -> Nat \ {0}]
      BY <3>1, <3>3 DEF PowersUpto
    <3>5. g[0] = 1
      BY <3>1 DEF PowersUpto
    <3>6. ASSUME NEW k \in 1..i PROVE g[k] = b * g[k - 1]
      <4>1. CASE k = i
        BY <4>1
      <4>2. CASE k # i
        <5>1. k \in 1..(i - 1) /\ k - 1 \in 0..i /\ k - 1 # i /\ k \in 0..i
          BY <4>2
        <5>2. g[k] = f[k] /\ g[k - 1] = f[k - 1] /\ f[k] = b * f[k - 1]
          BY <3>1, <4>2, <5>1 DEF PowersUpto
        <5> QED BY <5>2
      <4> QED BY <4>1, <4>2
    <3> HIDE DEF g
    <3>7. PowersUpto(g, i, b)
      BY <3>4, <3>5, <3>6 DEF PowersUpto
    <3> QED BY <3>7
  <2> HIDE DEF Upto
  <2>3. 0..n \subseteq Upto
    BY <2>1, <2>2, ByPrefixes
  <2> QED BY <2>3
<1> DEFINE p == [n \in Nat |-> CHOOSE f : PowersUpto(f, n, b)]
<1>2. ASSUME NEW n \in Nat PROVE PowersUpto(p[n], n, b)
  BY <1>1
<1> HIDE DEF p, Upto
<1> DEFINE f == [n \in Nat |-> p[n][n]]
<1>3. ASSUME NEW n \in Nat PROVE f[n] = p[n][n]
  OBVIOUS
<1>4. ASSUME NEW n \in Nat PROVE f[n] \in Nat \ {0}
  <2>1. n \in 0..n
    OBVIOUS
  <2> HIDE DEF f
  <2> QED BY <1>2, <1>3, <2>1 DEF PowersUpto
<1>5. f[0] = 1
  BY <1>2 DEF PowersUpto
<1>6. ASSUME NEW n \in Nat, n # 0 PROVE f[n] = b * f[n - 1]
  <2> DEFINE m == n - 1
             Same == {i \in 0..m : p[n][i] = p[m][i]}
  <2>1. m \in Nat /\ n \in Nat
    BY <1>6
  <2>2. PowersUpto(p[n], n, b) /\ PowersUpto(p[m], m, b)
    BY <1>2, <2>1
  <2>3. 0..m \subseteq Same
    <3>1. 0 \in Same
      BY <2>1, <2>2 DEF PowersUpto
    <3>2. ASSUME NEW i \in 1..m, i - 1 \in Same PROVE i \in Same
      <4>1. i \in 1..n /\ i \in 0..m
        BY <2>1
      <4>2. p[n][i] = b * p[n][i - 1] /\ p[m][i] = b * p[m][i - 1]
        BY <2>2, <4>1 DEF PowersUpto
      <4>3. p[n][i - 1] = p[m][i - 1]
        BY <3>2
      <4> QED BY <4>1, <4>2, <4>3
    <3> HIDE DEF Same, m
    <3> QED BY <2>1, <3>1, <3>2, ByPrefixes
  <2>4. m \in 0..m /\ n \in 1..n
    BY <2>1
  <2>5. p[n][m] = p[m][m]
    BY <2>3, <2>4
  <2>6. p[n][n] = b * p[n][n - 1]
    BY <2>2, <2>4 DEF PowersUpto
  <2> QED BY <1>3, <2>1, <2>5, <2>6
<1>7. DOMAIN f = Nat /\ f = [n \in Nat |-> f[n]]
  OBVIOUS
<1> HIDE DEF f
<1>8. f = [n \in Nat |-> IF n = 0 THEN 1 ELSE b * f[n - 1]]
  BY <1>5, <1>6, <1>7
<1>9. f \in [Nat -> Nat \ {0}]
  BY <1>4, <1>7
<1>10. PowersOf(f, b)
  BY <1>8 DEF PowersOf
<1> QED BY <1>9, <1>10

\* What such a function is at zero and at each number after it.
LEMMA PowersAre ==
  ASSUME NEW b \in Nat \ {0}, NEW f, PowersOf(f, b)
  PROVE  /\ f[0] = 1 /\ \A n \in Nat : f[n + 1] = b * f[n]
         /\ \A n \in Nat : f[n] \in Nat \ {0}
<1>1. f[0] = 1
  BY DEF PowersOf
<1>2. ASSUME NEW n \in Nat PROVE f[n + 1] = b * f[n]
  <2>1. n + 1 \in Nat /\ n + 1 # 0 /\ (n + 1) - 1 = n
    OBVIOUS
  <2> QED BY <2>1 DEF PowersOf
<1>3. ASSUME NEW n \in Nat PROVE f[n] \in Nat \ {0}
  <2> DEFINE Whole == {i \in Nat : f[i] \in Nat \ {0}}
  <2>1. 0 \in Whole
    BY <1>1
  <2>2. ASSUME NEW i \in 1..n, i - 1 \in Whole PROVE i \in Whole
    <3> DEFINE x == f[i - 1]
    <3>1. i - 1 \in Nat /\ (i - 1) + 1 = i /\ i \in Nat
      OBVIOUS
    <3>2. f[i] = b * x
      BY <1>2, <3>1
    <3>3. x \in Nat \ {0}
      BY <2>2
    <3> HIDE DEF x
    <3>4. b * x \in Nat \ {0}
      BY <3>3
    <3> QED BY <3>1, <3>2, <3>4
  <2> HIDE DEF Whole
  <2>3. 0..n \subseteq Whole
    BY <2>1, <2>2, ByPrefixes
  <2>4. n \in Whole
    BY <2>3
  <2> QED BY <2>4 DEF Whole
<1> QED BY <1>1, <1>2, <1>3

LEMMA TenToAre == PowersOf(TenTo, 10)
<1>1. 10 \in Nat \ {0}
  OBVIOUS
<1>2. \E f : PowersOf(f, 10)
  BY <1>1, PowersExist
<1> QED BY <1>2 DEF TenTo, PowersOf

LEMMA TwoToAre == PowersOf(TwoTo, 2)
<1>1. 2 \in Nat \ {0}
  OBVIOUS
<1>2. \E f : PowersOf(f, 2)
  BY <1>1, PowersExist
<1> QED BY <1>2 DEF TwoTo, PowersOf

\* The exponential back-off, of a number the delay is doubled by.
LEMMA DelayGrows ==
  ASSUME NEW base \in Nat, NEW limit \in Nat, NEW x \in Nat \ {0}
  PROVE  /\ base * x \in Nat /\ base * (2 * x) \in Nat
         /\ base * x <= base * (2 * x)
<1> DEFINE m == base * x
<1>1. m \in Nat /\ base * (2 * x) = 2 * m
  OBVIOUS
<1> HIDE DEF m
<1>2. m \in Nat /\ 2 * m \in Nat /\ m <= 2 * m
  BY <1>1
<1> QED BY <1>1, <1>2 DEF m

LEMMA Capped ==
  ASSUME NEW d \in Nat, NEW e \in Nat, d <= e, NEW limit \in Nat
  PROVE  LET c == IF d > limit THEN limit ELSE d IN
         /\ c \in Nat /\ c <= limit
         /\ c <= IF e > limit THEN limit ELSE e
OBVIOUS

LEMMA Jittered ==
  ASSUME NEW c \in Nat, NEW limit \in Nat, c <= limit
  PROVE  \A d \in {c - c \div 5, c, c + c \div 5} : d >= 0 /\ 5 * d <= 6 * limit
OBVIOUS

\* A job waits longer after each attempt, but for the jitter, and never longer
\* than the limit and its fifth: after every number of attempts.
THEOREM DelaysAlwaysBounded ==
  ASSUME NEW attempt \in Nat, NEW base \in Nat, NEW limit \in Nat
  PROVE  DelaysAreBounded(attempt, base, limit, RetryDelays(attempt, base, limit))
<1> DEFINE k == IF attempt > 1 THEN attempt - 1 ELSE 0
           l == IF attempt + 1 > 1 THEN (attempt + 1) - 1 ELSE 0
           c == Exponential(attempt, base, limit)
<1>1. k \in Nat /\ l \in Nat /\ (l = k \/ l = k + 1)
  OBVIOUS
<1>2. /\ TwoTo[k] \in Nat \ {0}
      /\ TwoTo[l] = TwoTo[k] \/ TwoTo[l] = 2 * TwoTo[k]
  BY <1>1, TwoToAre, PowersAre
<1> DEFINE d == base * TwoTo[k]
           e == base * TwoTo[l]
<1>3. d \in Nat /\ e \in Nat /\ d <= e
  <2> DEFINE x == TwoTo[k]
  <2>1. x \in Nat \ {0} /\ (TwoTo[l] = x \/ TwoTo[l] = 2 * x)
    BY <1>2
  <2> HIDE DEF x, k, l
  <2>2. base * x \in Nat /\ base * (2 * x) \in Nat /\ base * x <= base * (2 * x)
    BY <2>1, DelayGrows
  <2>3. base * x <= base * x
    BY <2>2
  <2> QED BY <2>1, <2>2, <2>3 DEF x
<1>4. /\ c = IF d > limit THEN limit ELSE d
      /\ Exponential(attempt + 1, base, limit) = IF e > limit THEN limit ELSE e
  BY DEF Exponential
<1> HIDE DEF d, e, k, l
<1>5. c \in Nat /\ c <= limit /\ c <= Exponential(attempt + 1, base, limit)
  BY <1>3, <1>4, Capped
<1>6. RetryDelays(attempt, base, limit) = {c - c \div 5, c, c + c \div 5}
  BY DEF RetryDelays
<1> HIDE DEF c
<1>7. \A w \in {c - c \div 5, c, c + c \div 5} : w >= 0 /\ 5 * w <= 6 * limit
  BY <1>5, Jittered
<1> QED BY <1>5, <1>6, <1>7 DEF DelaysAreBounded, c

-----------------------------------------------------------------------------
(* Strings of amounts.                                                     *)

DigitFold(g, text) ==
  g = [s \in SUBSET DOMAIN text |-> IF s = {} THEN 0 ELSE 10 * g[s \ {Max(s)}] + text[Max(s)]]

LEMMA DigitFoldExists ==
  ASSUME NEW n \in Nat, NEW text \in [1..n -> Int]
  PROVE  \E g : DigitFold(g, text)
<1> DEFINE chosen == [s \in SUBSET (1..n) |-> Max(s)]
           step == [t \in (1..n) \X Int |-> 10 * t[2] + text[t[1]]]
<1>1. step \in [(1..n) \X Int -> Int] /\ 0 \in Int /\ DOMAIN text = 1..n
  OBVIOUS
<1>2. ASSUME NEW i \in 1..n, NEW c \in Int PROVE step[i, c] = 10 * c + text[i]
  <2>1. <<i, c>> \in (1..n) \X Int /\ <<i, c>>[1] = i /\ <<i, c>>[2] = c
    OBVIOUS
  <2>2. step[<<i, c>>] = 10 * <<i, c>>[2] + text[<<i, c>>[1]]
    BY <2>1, Zenon
  <2> QED BY <2>1, <2>2
<1> HIDE DEF step
<1>3. PICK g \in [SUBSET (1..n) -> Int] : FoldOf(g, 1..n, 0, chosen, step)
  BY <1>1, LoopExists
<1>4. ASSUME NEW s \in SUBSET (1..n), s # {}
      PROVE  step[chosen[s], g[s \ {chosen[s]}]] = 10 * g[s \ {Max(s)}] + text[Max(s)]
  <2>1. chosen[s] = Max(s) /\ Max(s) \in 1..n
    BY <1>4, MaxOfPart
  <2>2. g[s \ {Max(s)}] \in Int
    BY <2>1
  <2>3. step[Max(s), g[s \ {Max(s)}]] = 10 * g[s \ {Max(s)}] + text[Max(s)]
    BY <1>2, <2>1, <2>2, Zenon
  <2> HIDE DEF chosen
  <2> QED BY <2>1, <2>3
<1>5. DigitFold(g, text)
  BY <1>1, <1>3, <1>4 DEF FoldOf, DigitFold
<1> QED BY <1>5

\* Two digits are read as tens and ones.
LEMMA TwoDigits ==
  ASSUME NEW text \in [1..2 -> Int]
  PROVE  FoldLeft(LAMBDA n, d : 10 * n + d, 0, text) = 10 * text[1] + text[2]
<1> DEFINE G == CHOOSE g : DigitFold(g, text)
<1>1. DOMAIN text = 1..2 /\ 2 \in Nat
  OBVIOUS
<1>2. FoldLeft(LAMBDA n, d : 10 * n + d, 0, text) = G[DOMAIN text]
  BY DEF FoldLeft, MapThenFoldSet, DigitFold
<1>3. DigitFold(G, text)
  BY <1>1, DigitFoldExists
<1> HIDE DEF G
<1>4. G[{}] = 0
  BY <1>3 DEF DigitFold
<1>5. ASSUME NEW i \in 1..2 PROVE G[1..i] = 10 * G[1..(i - 1)] + text[i]
  BY <1>1, <1>3, MaxOfPrefix DEF DigitFold
<1>6. 1..0 = {}
  OBVIOUS
<1>7. G[1..1] = 10 * 0 + text[1]
  <2>1. 1 \in 1..2 /\ 1 - 1 = 0
    OBVIOUS
  <2> QED BY <1>4, <1>5, <1>6, <2>1
<1>8. G[1..2] = 10 * G[1..1] + text[2]
  <2>1. 2 \in 1..2 /\ 2 - 1 = 1
    OBVIOUS
  <2> QED BY <1>5, <2>1
<1>9. text[1] \in Int /\ text[2] \in Int
  OBVIOUS
<1>10. G[1..2] = 10 * text[1] + text[2]
  BY <1>7, <1>8, <1>9
<1> QED BY <1>1, <1>2, <1>10

LEMMA DigitsOfCents ==
  ASSUME NEW a \in Nat
  PROVE  (a \div 100) * 100 + (10 * ((a \div 10) % 10) + ((a \div 1) % 10)) = a
<1>1. a \div 1 = a /\ a \in Nat
  OBVIOUS
<1>2. \A k \in Nat : k = 10 * (k \div 10) + (k % 10) /\ k \div 10 \in Nat
  OBVIOUS
<1>3. a \div 10 = 10 * ((a \div 10) \div 10) + ((a \div 10) % 10)
  BY <1>1, <1>2
<1>4. (a \div 10) \div 10 = a \div 100
  OBVIOUS
<1> DEFINE p == a \div 10
           q == a \div 100
           r == a % 10
           s == p % 10
<1>5. p \in Int /\ q \in Int /\ r \in Int /\ s \in Int
  OBVIOUS
<1>6. a = 10 * p + r /\ p = 10 * q + s
  BY <1>2, <1>3, <1>4
<1> HIDE DEF p, q, r, s
<1>7. q * 100 + (10 * s + r) = a
  BY <1>5, <1>6
<1> QED BY <1>1, <1>7 DEF p, q, r, s

\* An amount that is written as a string and read again is the same amount,
\* between -1 and 1 too: every amount.
THEOREM AmountsAlwaysReadBack ==
  ASSUME NEW value \in Int
  PROVE  AmountIsReadBack(value, Decimal(value, 2))
<1> DEFINE a == IF value < 0 THEN -value ELSE value
           text == Decimal(value, 2)
<1>1. a \in Nat /\ (value < 0 => value = -a) /\ (~(value < 0) => value = a)
  OBVIOUS
<1>2. TenTo[0] = 1 /\ TenTo[1] = 10 /\ TenTo[2] = 100
  <2>1. TenTo[0] = 1 /\ \A n \in Nat : TenTo[n + 1] = 10 * TenTo[n]
    BY TenToAre, PowersAre
  <2>2. TenTo[0 + 1] = 10 * TenTo[0] /\ TenTo[1 + 1] = 10 * TenTo[1]
    BY <2>1
  <2> QED BY <2>1, <2>2
<1>3. /\ text.negative = (value < 0)
      /\ text.whole = a \div 100
      /\ text.fraction = [i \in 1..2 |-> (a \div TenTo[2 - i]) % 10]
  BY <1>2 DEF Decimal
<1>4. text.fraction[1] = (a \div 10) % 10 /\ text.fraction[2] = (a \div 1) % 10
  BY <1>2, <1>3
<1>5. text.fraction \in [1..2 -> Int] /\ Len(text.fraction) = 2
  <2> DEFINE f == text.fraction
  <2>1. f[1] \in Int /\ f[2] \in Int
    BY <1>1, <1>4
  <2>2. DOMAIN f = 1..2 /\ f = [i \in 1..2 |-> f[i]]
    BY <1>3
  <2> HIDE DEF f, text
  <2>3. f \in [1..2 -> Int]
    BY <2>1, <2>2
  <2> QED BY <2>3 DEF f
<1> HIDE DEF text, a
<1> DEFINE sum == FoldLeft(LAMBDA n, d : 10 * n + d, 0, text.fraction)
<1>6. sum = 10 * ((a \div 10) % 10) + ((a \div 1) % 10)
  BY <1>4, <1>5, TwoDigits
<1> HIDE DEF sum
<1>7. text.whole * TenTo[Len(text.fraction)] + sum = a
  BY <1>1, <1>2, <1>3, <1>5, <1>6, DigitsOfCents
<1>8. Scaled(text) = IF text.negative THEN -(text.whole * TenTo[Len(text.fraction)] + sum)
                     ELSE text.whole * TenTo[Len(text.fraction)] + sum
  BY DEF Scaled, sum
<1>9. Scaled(text) = IF text.negative THEN -a ELSE a
  BY <1>7, <1>8
<1> QED BY <1>1, <1>3, <1>9 DEF AmountIsReadBack, text

-----------------------------------------------------------------------------
(* Command lines.                                                          *)

Flags50 == Options50 \cup {"--anwenden"}

\* What the parser has read of the arguments a after k of them.
Parsers(W) == [ok : BOOLEAN, waits : Options50 \cup {""}, read : SUBSET (Options50 \X W), apply : BOOLEAN]
ParseFold(g, a) ==
  g = [s \in SUBSET DOMAIN a |-> IF s = {} THEN Start ELSE ParseNext(g[s \ {Max(s)}], a[Max(s)])]

\* Of the first k arguments: a value follows every option but the last, an
\* option precedes every value, and no option that has its value is given twice.
Follows(a, k) == \A i \in 1..k : a[i] \in Options50 /\ i < k => a[i + 1] \notin Flags50
Behind(a, k) == \A i \in 1..k : a[i] \notin Flags50 => i > 1 /\ a[i - 1] \in Options50
GivenOnce(a, k) ==
  \A i, j \in 1..k : a[i] = a[j] /\ (a[i] = "--anwenden" \/ (a[i] \in Options50 /\ i < k /\ j < k)) => i = j
ReadSoFar(a, k) == {<<a[i], a[i + 1]>> : i \in {j \in 1..(k - 1) : a[j] \in Options50}}

ParsedSoFar(p, a, k, W) ==
  /\ p \in Parsers(W)
  /\ p.ok <=> Follows(a, k) /\ Behind(a, k) /\ GivenOnce(a, k)
  /\ p.ok => /\ p.waits = IF k > 0 /\ a[k] \in Options50 THEN a[k] ELSE ""
             /\ p.read = ReadSoFar(a, k)
             /\ p.apply = \E i \in 1..k : a[i] = "--anwenden"

LEMMA ParseNextIs ==
  ASSUME NEW W, NEW p \in Parsers(W), NEW x \in W
  PROVE  LET q == ParseNext(p, x) IN
         /\ q \in Parsers(W)
         /\ ~p.ok => q = p
         /\ p.ok /\ p.waits # "" /\ x \in Flags50 => q.ok = FALSE
         /\ p.ok /\ p.waits # "" /\ x \notin Flags50 =>
              /\ q.ok = (\A r \in p.read : r[1] # p.waits)
              /\ q.waits = "" /\ q.read = p.read \cup {<<p.waits, x>>} /\ q.apply = p.apply
         /\ p.ok /\ p.waits = "" /\ x = "--anwenden" =>
              q.ok = ~p.apply /\ q.waits = "" /\ q.read = p.read /\ q.apply = TRUE
         /\ p.ok /\ p.waits = "" /\ x \in Options50 =>
              q.ok = p.ok /\ q.waits = x /\ q.read = p.read /\ q.apply = p.apply
         /\ p.ok /\ p.waits = "" /\ x \notin Flags50 => q.ok = FALSE
<1> DEFINE q == ParseNext(p, x)
<1>1. p.ok \in BOOLEAN /\ p.apply \in BOOLEAN /\ p.waits \in Options50 \cup {""}
      /\ p.read \in SUBSET (Options50 \X W)
  BY DEF Parsers
<1>2. "--anwenden" \notin Options50 /\ (x \in Flags50 <=> x \in Options50 \/ x = "--anwenden")
  BY DEF Options50, Flags50
<1>3. CASE ~p.ok
  <2>1. q = p
    BY <1>3 DEF ParseNext
  <2> HIDE DEF q
  <2> QED BY <1>3, <2>1 DEF q
<1>4. CASE p.ok /\ p.waits # ""
  <2> DEFINE read == p.read \cup {<<p.waits, x>>}
             ok == \A r \in p.read : r[1] # p.waits
  <2>1. ok \in BOOLEAN /\ FALSE \in BOOLEAN /\ "" \in Options50 \cup {""}
    OBVIOUS
  <2>2. read \in SUBSET (Options50 \X W)
    <3>1. p.waits \in Options50
      BY <1>1, <1>4
    <3>2. <<p.waits, x>> \in Options50 \X W
      BY <3>1
    <3> QED BY <1>1, <3>2
  <2>3. q = IF x \in Flags50 THEN [p EXCEPT !.ok = FALSE]
            ELSE [p EXCEPT !.waits = "", !.ok = ok, !.read = read]
    BY <1>4 DEF ParseNext, Flags50
  <2> HIDE DEF read, ok, q
  <2>4. CASE x \in Flags50
    <3>1. q = [p EXCEPT !.ok = FALSE]
      BY <2>3, <2>4
    <3>2. q \in Parsers(W) /\ q.ok = FALSE
      BY <1>1, <2>1, <3>1 DEF Parsers
    <3> QED BY <1>4, <2>4, <3>2 DEF q
  <2>5. CASE x \notin Flags50
    <3>1. q = [p EXCEPT !.waits = "", !.ok = ok, !.read = read]
      BY <2>3, <2>5
    <3>2. q \in Parsers(W) /\ q.ok = ok /\ q.waits = "" /\ q.read = read /\ q.apply = p.apply
      BY <1>1, <2>1, <2>2, <3>1 DEF Parsers
    <3> QED BY <1>4, <2>5, <3>2 DEF q, ok, read
  <2> QED BY <2>4, <2>5
<1>5. CASE p.ok /\ p.waits = ""
  <2>1. (~p.apply) \in BOOLEAN /\ TRUE \in BOOLEAN /\ FALSE \in BOOLEAN
    OBVIOUS
  <2>2. q = IF x = "--anwenden" THEN [p EXCEPT !.ok = ~p.apply, !.apply = TRUE]
            ELSE IF x \in Options50 THEN [p EXCEPT !.waits = x]
            ELSE [p EXCEPT !.ok = FALSE]
    BY <1>5 DEF ParseNext
  <2> HIDE DEF q
  <2>3. CASE x = "--anwenden"
    <3>1. q = [p EXCEPT !.ok = ~p.apply, !.apply = TRUE]
      BY <2>2, <2>3
    <3>2. q \in Parsers(W) /\ q.ok = ~p.apply /\ q.waits = p.waits /\ q.read = p.read /\ q.apply = TRUE
      BY <1>1, <2>1, <3>1 DEF Parsers
    <3> QED BY <1>2, <1>5, <2>3, <3>2 DEF q
  <2>4. CASE x \in Options50
    <3>1. q = [p EXCEPT !.waits = x]
      BY <1>2, <2>2, <2>4
    <3>2. q \in Parsers(W) /\ q.ok = p.ok /\ q.waits = x /\ q.read = p.read /\ q.apply = p.apply
      BY <1>1, <2>4, <3>1 DEF Parsers
    <3> QED BY <1>2, <1>5, <2>4, <3>2 DEF q
  <2>5. CASE x \notin Flags50
    <3>1. q = [p EXCEPT !.ok = FALSE]
      BY <1>2, <2>2, <2>5
    <3>2. q \in Parsers(W) /\ q.ok = FALSE
      BY <1>1, <2>1, <3>1 DEF Parsers
    <3> QED BY <1>2, <1>5, <2>5, <3>2 DEF q
  <2> QED BY <1>2, <2>3, <2>4, <2>5
<1> QED BY <1>1, <1>3, <1>4, <1>5

LEMMA ParseFoldExists ==
  ASSUME NEW W, NEW a \in Seq(W)
  PROVE  \E g : ParseFold(g, a)
<1> DEFINE n == Len(a)
           chosen == [s \in SUBSET (1..n) |-> Max(s)]
           step == [t \in (1..n) \X Parsers(W) |-> ParseNext(t[2], a[t[1]])]
<1>1. n \in Nat /\ DOMAIN a = 1..n /\ Start \in Parsers(W) /\ \A i \in 1..n : a[i] \in W
  BY DEF Start, Parsers
<1>2. step \in [(1..n) \X Parsers(W) -> Parsers(W)]
  BY <1>1, ParseNextIs
<1>3. \A i \in 1..n, c \in Parsers(W) : step[i, c] = ParseNext(c, a[i])
  OBVIOUS
<1> HIDE DEF step, n
<1>4. PICK g \in [SUBSET (1..n) -> Parsers(W)] : FoldOf(g, 1..n, Start, chosen, step)
  BY <1>1, <1>2, LoopExists
<1>5. ASSUME NEW s \in SUBSET (1..n), s # {}
      PROVE  step[chosen[s], g[s \ {chosen[s]}]] = ParseNext(g[s \ {Max(s)}], a[Max(s)])
  <2>1. chosen[s] = Max(s) /\ Max(s) \in 1..n
    BY <1>1, <1>5, MaxOfPart
  <2>2. g[s \ {Max(s)}] \in Parsers(W)
    OBVIOUS
  <2> QED BY <1>3, <2>1, <2>2
<1>6. ParseFold(g, a)
  BY <1>1, <1>4, <1>5 DEF FoldOf, ParseFold
<1> QED BY <1>6

\* One argument more.
LEMMA ParsedOneMore ==
  ASSUME NEW W, NEW a \in Seq(W), NEW k \in 1..Len(a), NEW p, ParsedSoFar(p, a, k - 1, W)
  PROVE  ParsedSoFar(ParseNext(p, a[k]), a, k, W)
<1> DEFINE q == ParseNext(p, a[k])
<1> SUFFICES ParsedSoFar(q, a, k, W)
  OBVIOUS
<1> HIDE DEF q
<1>0. p \in Parsers(W) /\ p.ok \in BOOLEAN /\ p.apply \in BOOLEAN /\ p.waits \in Options50 \cup {""}
  BY DEF ParsedSoFar, Parsers
<1>1. k \in Nat /\ k >= 1 /\ a[k] \in W
  OBVIOUS
<1>2. /\ q \in Parsers(W)
      /\ ~p.ok => q = p
      /\ p.ok /\ p.waits # "" /\ a[k] \in Flags50 => q.ok = FALSE
      /\ p.ok /\ p.waits # "" /\ a[k] \notin Flags50 =>
           /\ q.ok = (\A r \in p.read : r[1] # p.waits)
           /\ q.waits = "" /\ q.read = p.read \cup {<<p.waits, a[k]>>} /\ q.apply = p.apply
      /\ p.ok /\ p.waits = "" /\ a[k] = "--anwenden" =>
           q.ok = ~p.apply /\ q.waits = "" /\ q.read = p.read /\ q.apply = TRUE
      /\ p.ok /\ p.waits = "" /\ a[k] \in Options50 =>
           q.ok = p.ok /\ q.waits = a[k] /\ q.read = p.read /\ q.apply = p.apply
      /\ p.ok /\ p.waits = "" /\ a[k] \notin Flags50 => q.ok = FALSE
  BY <1>0, <1>1, ParseNextIs DEF q
<1> DEFINE Good == Follows(a, k) /\ Behind(a, k) /\ GivenOnce(a, k)
<1>9. ASSUME q.ok = FALSE, ~Good PROVE ParsedSoFar(q, a, k, W)
  BY <1>2, <1>9 DEF ParsedSoFar
<1>10. ASSUME q.ok <=> Good, q.ok => q.waits = (IF k > 0 /\ a[k] \in Options50 THEN a[k] ELSE ""),
              q.ok => q.read = ReadSoFar(a, k), q.ok => q.apply = \E i \in 1..k : a[i] = "--anwenden"
       PROVE  ParsedSoFar(q, a, k, W)
  BY <1>2, <1>10 DEF ParsedSoFar
<1> HIDE DEF Good
<1>3. /\ Follows(a, k) => Follows(a, k - 1)
      /\ Behind(a, k) => Behind(a, k - 1)
      /\ GivenOnce(a, k) => GivenOnce(a, k - 1)
  BY DEF Follows, Behind, GivenOnce
<1>4. 1..k = 1..(k - 1) \cup {k}
  BY <1>1
<1>5. \A i \in 1..k : a[i] \in W
  OBVIOUS
<1>6. CASE ~p.ok
  <2>1. q.ok = FALSE
    BY <1>0, <1>2, <1>6
  <2>2. ~Good
    BY <1>3, <1>6 DEF ParsedSoFar, Good
  <2> QED BY <1>9, <2>1, <2>2
<1>7. CASE p.ok /\ p.waits # ""
  <2>1. /\ k - 1 > 0 /\ a[k - 1] \in Options50 /\ p.waits = a[k - 1] /\ p.read = ReadSoFar(a, k - 1)
        /\ Follows(a, k - 1) /\ Behind(a, k - 1) /\ GivenOnce(a, k - 1)
        /\ p.apply = \E i \in 1..(k - 1) : a[i] = "--anwenden"
    BY <1>7 DEF ParsedSoFar
  <2>2. CASE a[k] \in Flags50
    <3>1. q.ok = FALSE
      BY <1>2, <1>7, <2>2
    <3>2. ~Follows(a, k)
      BY <1>1, <2>1, <2>2 DEF Follows
    <3> QED BY <1>9, <3>1, <3>2 DEF Good
  <2>3. CASE a[k] \notin Flags50
    <3>1. /\ q.waits = "" /\ q.apply = p.apply /\ q.ok = (\A r \in p.read : r[1] # p.waits)
          /\ q.read = p.read \cup {<<p.waits, a[k]>>}
      BY <1>2, <1>7, <2>3
    <3>2. Follows(a, k)
      <4> SUFFICES ASSUME NEW i \in 1..k, a[i] \in Options50, i < k PROVE a[i + 1] \notin Flags50
        BY DEF Follows
      <4>1. CASE i = k - 1
        BY <1>1, <2>3, <4>1
      <4>2. CASE i # k - 1
        <5>1. i \in 1..(k - 1) /\ i < k - 1
          BY <1>1, <4>2
        <5> QED BY <2>1, <5>1 DEF Follows
      <4> QED BY <4>1, <4>2
    <3>3. Behind(a, k)
      <4> SUFFICES ASSUME NEW i \in 1..k, a[i] \notin Flags50 PROVE i > 1 /\ a[i - 1] \in Options50
        BY DEF Behind
      <4>1. CASE i = k
        BY <1>1, <2>1, <4>1
      <4>2. CASE i # k
        <5>1. i \in 1..(k - 1)
          BY <1>4, <4>2
        <5> QED BY <2>1, <5>1 DEF Behind
      <4> QED BY <4>1, <4>2
    <3>4. ASSUME NEW r \in p.read, r[1] = p.waits PROVE ~GivenOnce(a, k)
      <4>1. PICK i \in 1..((k - 1) - 1) : a[i] \in Options50 /\ r = <<a[i], a[i + 1]>>
        BY <2>1, <3>4 DEF ReadSoFar
      <4>2. i \in 1..k /\ k - 1 \in 1..k /\ i # k - 1 /\ i < k /\ k - 1 < k /\ a[i] = a[k - 1]
        BY <1>1, <2>1, <3>4, <4>1
      <4> QED BY <2>1, <4>1, <4>2 DEF GivenOnce
    <3>5. ASSUME \A r \in p.read : r[1] # p.waits PROVE GivenOnce(a, k)
      <4>1. ASSUME NEW i \in 1..(k - 2), a[i] \in Options50 PROVE a[i] # a[k - 1]
        <5>1. <<a[i], a[i + 1]>> \in p.read /\ <<a[i], a[i + 1]>>[1] = a[i]
          BY <1>1, <2>1, <4>1 DEF ReadSoFar
        <5> QED BY <2>1, <3>5, <5>1
      <4> SUFFICES ASSUME NEW i \in 1..k, NEW j \in 1..k, a[i] = a[j],
                          a[i] = "--anwenden" \/ (a[i] \in Options50 /\ i < k /\ j < k)
                   PROVE  i = j
        BY DEF GivenOnce
      <4>2. i \in 1..(k - 1) /\ j \in 1..(k - 1)
        BY <1>4, <2>3 DEF Flags50
      <4>3. CASE a[i] = "--anwenden"
        BY <2>1, <4>2, <4>3 DEF GivenOnce
      <4>4. CASE a[i] \in Options50 /\ i < k - 1 /\ j < k - 1
        BY <2>1, <4>2, <4>4 DEF GivenOnce
      <4>5. CASE a[i] \in Options50 /\ (i = k - 1 \/ j = k - 1)
        BY <1>1, <4>1, <4>2, <4>5
      <4> QED BY <1>1, <4>2, <4>3, <4>4, <4>5
    <3>6. ReadSoFar(a, k) = p.read \cup {<<p.waits, a[k]>>}
      <4>1. 1..(k - 1) = 1..((k - 1) - 1) \cup {k - 1} /\ (k - 1) + 1 = k
        BY <1>1, <2>1
      <4> QED BY <2>1, <4>1 DEF ReadSoFar
    <3>7. q.apply = \E i \in 1..k : a[i] = "--anwenden"
      BY <1>4, <2>1, <2>3, <3>1 DEF Flags50
    <3>8. a[k] \notin Options50
      BY <2>3 DEF Flags50
    <3>9. q.ok <=> Follows(a, k) /\ Behind(a, k) /\ GivenOnce(a, k)
      BY <3>1, <3>2, <3>3, <3>4, <3>5
    <3> QED BY <1>10, <3>1, <3>6, <3>7, <3>8, <3>9 DEF Good
  <2> QED BY <2>2, <2>3
<1>8. CASE p.ok /\ p.waits = ""
  <2>1. /\ ~(k - 1 > 0 /\ a[k - 1] \in Options50) /\ p.read = ReadSoFar(a, k - 1)
        /\ Follows(a, k - 1) /\ Behind(a, k - 1) /\ GivenOnce(a, k - 1)
        /\ p.apply = \E i \in 1..(k - 1) : a[i] = "--anwenden"
    BY <1>8 DEF ParsedSoFar, Options50
  <2>2. Follows(a, k)
    <3> SUFFICES ASSUME NEW i \in 1..k, a[i] \in Options50, i < k PROVE a[i + 1] \notin Flags50
      BY DEF Follows
    <3>1. i \in 1..(k - 1) /\ i < k - 1
      BY <1>1, <2>1
    <3> QED BY <2>1, <3>1 DEF Follows
  <2>3. Behind(a, k) <=> a[k] \in Flags50
    BY <1>1, <1>4, <2>1 DEF Behind
  <2>4. ReadSoFar(a, k) = p.read
    <3>1. {j \in 1..(k - 1) : a[j] \in Options50} = {j \in 1..((k - 1) - 1) : a[j] \in Options50}
      BY <1>1, <2>1
    <3> QED BY <2>1, <3>1 DEF ReadSoFar
  <2>5. ASSUME a[k] # "--anwenden" \/ ~p.apply PROVE GivenOnce(a, k)
    <3> SUFFICES ASSUME NEW i \in 1..k, NEW j \in 1..k, a[i] = a[j],
                        a[i] = "--anwenden" \/ (a[i] \in Options50 /\ i < k /\ j < k)
                 PROVE  i = j
      BY DEF GivenOnce
    <3>1. CASE a[i] = "--anwenden"
      <4>1. CASE i # k /\ j # k
        <5>1. i \in 1..(k - 1) /\ j \in 1..(k - 1)
          BY <1>4, <4>1
        <5> QED BY <2>1, <3>1, <5>1 DEF GivenOnce
      <4>2. CASE i = k \/ j = k
        BY <1>4, <2>1, <2>5, <3>1, <4>2
      <4> QED BY <4>1, <4>2
    <3>2. CASE a[i] \in Options50 /\ i < k /\ j < k
      <4>1. i \in 1..(k - 1) /\ j \in 1..(k - 1) /\ i < k - 1 /\ j < k - 1
        BY <1>1, <2>1, <3>2
      <4> QED BY <2>1, <3>2, <4>1 DEF GivenOnce
    <3> QED BY <3>1, <3>2
  <2>6. CASE a[k] = "--anwenden"
    <3>1. q.waits = "" /\ q.apply = TRUE /\ q.ok = ~p.apply /\ q.read = p.read
      BY <1>2, <1>8, <2>6
    <3>2. p.apply => ~GivenOnce(a, k)
      <4> SUFFICES ASSUME NEW i \in 1..(k - 1), a[i] = "--anwenden" PROVE ~GivenOnce(a, k)
        BY <2>1
      <4>1. i \in 1..k /\ k \in 1..k /\ i # k /\ a[i] = a[k]
        BY <1>1, <2>6
      <4> QED BY <4>1 DEF GivenOnce
    <3>3. a[k] \notin Options50 /\ a[k] \in Flags50
      BY <2>6 DEF Options50, Flags50
    <3>4. \E i \in 1..k : a[i] = "--anwenden"
      BY <1>1, <2>6
    <3>5. q.ok <=> Follows(a, k) /\ Behind(a, k) /\ GivenOnce(a, k)
      BY <1>1, <2>2, <2>3, <2>5, <3>1, <3>2, <3>3
    <3> QED BY <1>10, <2>4, <3>1, <3>3, <3>4, <3>5 DEF Good
  <2>7. CASE a[k] \in Options50
    <3>1. a[k] # "--anwenden" /\ a[k] \in Flags50
      BY <2>7 DEF Options50, Flags50
    <3>2. q.waits = a[k] /\ q.apply = p.apply /\ q.ok = p.ok /\ q.read = p.read
      BY <1>2, <1>8, <2>7
    <3>3. q.apply = \E i \in 1..k : a[i] = "--anwenden"
      BY <1>4, <2>1, <3>1, <3>2
    <3>4. Follows(a, k) /\ Behind(a, k) /\ GivenOnce(a, k)
      BY <2>2, <2>3, <2>5, <3>1
    <3>5. q.ok <=> Good
      BY <1>8, <3>2, <3>4 DEF Good
    <3>6. q.waits = IF k > 0 /\ a[k] \in Options50 THEN a[k] ELSE ""
      <4>1. k > 0
        BY <1>1
      <4> QED BY <2>7, <3>2, <4>1, Zenon
    <3>7. q.read = ReadSoFar(a, k)
      BY <2>4, <3>2
    <3> QED BY <1>10, <3>3, <3>5, <3>6, <3>7
  <2>8. CASE a[k] \notin Flags50
    <3>1. q.ok = FALSE
      BY <1>2, <1>8, <2>8
    <3> QED BY <1>9, <2>3, <2>8, <3>1 DEF Good
  <2> QED BY <2>6, <2>7, <2>8 DEF Flags50
<1> QED BY <1>1, <1>6, <1>7, <1>8

LEMMA ParsedAll ==
  ASSUME NEW W, NEW a \in Seq(W)
  PROVE  ParsedSoFar(FoldLeft(ParseNext, Start, a), a, Len(a), W)
<1> DEFINE n == Len(a)
           G == CHOOSE g : ParseFold(g, a)
           Good == {k \in 0..n : ParsedSoFar(G[1..k], a, k, W)}
<1>1. n \in Nat /\ DOMAIN a = 1..n
  OBVIOUS
<1>2. FoldLeft(ParseNext, Start, a) = G[DOMAIN a]
  BY DEF FoldLeft, MapThenFoldSet, ParseFold
<1>3. ParseFold(G, a)
  BY ParseFoldExists
<1> HIDE DEF G
<1>4. 0 \in Good
  <2>1. 1..0 = {} /\ {} \in SUBSET DOMAIN a
    OBVIOUS
  <2>2. G[1..0] = Start
    BY <1>3, <2>1 DEF ParseFold
  <2>3. ParsedSoFar(Start, a, 0, W)
    BY DEF ParsedSoFar, Start, Parsers, Follows, Behind, GivenOnce, ReadSoFar
  <2> QED BY <1>1, <2>2, <2>3
<1>5. ASSUME NEW k \in 1..n, k - 1 \in Good PROVE k \in Good
  <2>1. G[1..k] = ParseNext(G[1..(k - 1)], a[k])
    <3>1. 1..k \in (SUBSET (1..n)) \ {{}} /\ Max(1..k) = k /\ (1..k) \ {Max(1..k)} = 1..(k - 1)
      BY <1>1, MaxOfPrefix
    <3> HIDE DEF n, Good
    <3>2. G[1..k] = ParseNext(G[(1..k) \ {Max(1..k)}], a[Max(1..k)])
      BY <1>1, <1>3, <3>1 DEF ParseFold
    <3> QED BY <3>1, <3>2
  <2>2. ParsedSoFar(ParseNext(G[1..(k - 1)], a[k]), a, k, W)
    BY <1>5, ParsedOneMore
  <2> QED BY <1>1, <2>1, <2>2
<1> HIDE DEF Good, n
<1>6. 0..n \subseteq Good
  BY <1>1, <1>4, <1>5, ByPrefixes
<1> QED BY <1>1, <1>2, <1>6 DEF Good, n

\* A command line is accepted exactly if every option has its value behind it
\* and every value its option before it, none is given twice, the two needed
\* are there, and either a share or a list is: every command line, however long.
THEOREM CommandLinesAlwaysRead ==
  ASSUME NEW W, NEW a \in Seq(W)
  PROVE  CommandLineIsRead(a, ParseArguments(a))
<1> DEFINE n == Len(a)
           p == FoldLeft(ParseNext, Start, a)
           given == {r[1] : r \in p.read}
           Named == {a[i] : i \in {j \in 1..n : a[j] \in Options50}}
           Closed == n > 0 => a[n] \notin Options50
           Taken == \A i \in 1..(n - 1) : a[i] \in Options50 => Takes(a[i], a[i + 1])
           Paired == \A i \in 1..n : a[i] \in Options50 =>
                       i < n /\ a[i + 1] \notin Flags50 /\ Takes(a[i], a[i + 1])
           Single == \A i, j \in 1..n : a[i] \in Flags50 /\ a[i] = a[j] => i = j
           Needed(S) == /\ {"--mandant", "--etappe"} \subseteq S
                        /\ ("--anteil" \in S) # ("--dokumente" \in S)
<1>1. n \in Nat /\ DOMAIN a = 1..n
  OBVIOUS
<1>2. ParsedSoFar(p, a, n, W)
  BY ParsedAll
<1>3. p \in Parsers(W) /\ p.ok \in BOOLEAN
  BY <1>2 DEF ParsedSoFar, Parsers
<1>4. "" \notin Options50 /\ "--anwenden" \notin Options50
  BY DEF Options50
<1> HIDE DEF p, n
<1>5. Paired <=> Follows(a, n) /\ Closed /\ Taken
  <2>1. ASSUME Paired PROVE Follows(a, n) /\ Closed /\ Taken
    <3>1. Follows(a, n)
      BY <2>1 DEF Follows
    <3>2. Closed
      BY <1>1, <2>1
    <3>3. Taken
      BY <1>1, <2>1
    <3> QED BY <3>1, <3>2, <3>3
  <2>2. ASSUME Follows(a, n), Closed, Taken, NEW i \in 1..n, a[i] \in Options50
        PROVE  i < n /\ a[i + 1] \notin Flags50 /\ Takes(a[i], a[i + 1])
    <3>1. i < n
      BY <1>1, <2>2
    <3>2. a[i + 1] \notin Flags50
      BY <2>2, <3>1 DEF Follows
    <3>3. i \in 1..(n - 1)
      BY <1>1, <3>1
    <3> QED BY <2>2, <3>1, <3>2, <3>3
  <2> QED BY <2>1, <2>2
<1>6. Closed => (Single <=> GivenOnce(a, n))
  <2>1. ASSUME Single PROVE GivenOnce(a, n)
    BY <2>1 DEF GivenOnce, Flags50
  <2>2. ASSUME Closed, GivenOnce(a, n), NEW i \in 1..n, NEW j \in 1..n, a[i] \in Flags50, a[i] = a[j]
        PROVE  i = j
    <3>1. CASE a[i] = "--anwenden"
      BY <2>2, <3>1 DEF GivenOnce
    <3>2. CASE a[i] \in Options50
      <4>1. i < n /\ j < n
        BY <1>1, <2>2, <3>2
      <4> QED BY <2>2, <3>2, <4>1 DEF GivenOnce
    <3> QED BY <2>2, <3>1, <3>2 DEF Flags50
  <2> QED BY <2>1, <2>2
<1>7. Behind(a, n) <=> \A i \in 1..n : a[i] \notin Flags50 => i > 1 /\ a[i - 1] \in Options50
  BY DEF Behind
<1>8. Needed(ToSet(a)) <=> Needed(Named)
  <2>1. \A o \in Options50 : o \in ToSet(a) <=> o \in Named
    BY <1>1 DEF ToSet
  <2>2. "--mandant" \in Options50 /\ "--etappe" \in Options50 /\ "--anteil" \in Options50 /\ "--dokumente" \in Options50
    BY DEF Options50
  <2> HIDE DEF Named
  <2> QED BY <2>1, <2>2
<1>9. CommandLineIsRead(a, ParseArguments(a)) <=>
        (ParseArguments(a) <=> /\ Paired /\ Behind(a, n) /\ Single /\ Needed(ToSet(a)))
  BY DEF CommandLineIsRead, Behind, Flags50, n
<1>10. p.ok <=> Follows(a, n) /\ Behind(a, n) /\ GivenOnce(a, n)
  BY <1>2 DEF ParsedSoFar
<1>11. ASSUME p.ok
       PROVE  /\ p.waits = "" <=> Closed
              /\ p.read = ReadSoFar(a, n)
  BY <1>1, <1>2, <1>4, <1>11 DEF ParsedSoFar
<1>12. ASSUME p.ok, Closed
       PROVE  /\ given = Named
              /\ (\A r \in p.read : Takes(r[1], r[2])) <=> Taken
  <2>1. p.read = {<<a[i], a[i + 1]>> : i \in {j \in 1..(n - 1) : a[j] \in Options50}}
    BY <1>11, <1>12 DEF ReadSoFar
  <2>2. {j \in 1..n : a[j] \in Options50} = {j \in 1..(n - 1) : a[j] \in Options50}
    BY <1>1, <1>12
  <2> DEFINE Ends == {j \in 1..(n - 1) : a[j] \in Options50}
  <2>5. p.read = {<<a[i], a[i + 1]>> : i \in Ends} /\ Named = {a[i] : i \in Ends}
        /\ (Taken <=> \A i \in Ends : Takes(a[i], a[i + 1]))
    BY <2>1, <2>2
  <2> HIDE DEF Ends, Taken, Named
  <2>3. given = Named
    <3>1. ASSUME NEW r \in p.read PROVE r[1] \in Named
      <4>1. PICK i \in Ends : r = <<a[i], a[i + 1]>>
        BY <2>5
      <4> QED BY <2>5, <4>1
    <3>2. ASSUME NEW x \in Named PROVE x \in given
      <4>1. PICK i \in Ends : x = a[i]
        BY <2>5
      <4>2. <<a[i], a[i + 1]>> \in p.read /\ <<a[i], a[i + 1]>>[1] = x
        BY <2>5, <4>1
      <4> QED BY <4>2
    <3> QED BY <3>1, <3>2
  <2>4. (\A r \in p.read : Takes(r[1], r[2])) <=> Taken
    <3>1. ASSUME \A r \in p.read : Takes(r[1], r[2]), NEW i \in Ends PROVE Takes(a[i], a[i + 1])
      <4>1. <<a[i], a[i + 1]>> \in p.read
        BY <2>5
      <4>2. Takes(<<a[i], a[i + 1]>>[1], <<a[i], a[i + 1]>>[2])
        BY <3>1, <4>1, Zenon
      <4> QED BY <4>2
    <3>2. ASSUME Taken, NEW r \in p.read PROVE Takes(r[1], r[2])
      <4>1. PICK i \in Ends : r = <<a[i], a[i + 1]>>
        BY <2>5
      <4>2. r[1] = a[i] /\ r[2] = a[i + 1]
        BY <4>1
      <4>3. Takes(a[i], a[i + 1])
        BY <2>5, <3>2
      <4> QED BY <4>2, <4>3, Zenon
    <3> QED BY <2>5, <3>1, <3>2
  <2> QED BY <2>3, <2>4
<1>13. Cardinality(given \cap {"--anteil", "--dokumente"}) = 1
         <=> ("--anteil" \in given) # ("--dokumente" \in given)
  <2> HIDE DEF given
  <2> DEFINE both == given \cap {"--anteil", "--dokumente"}
  <2>1. CASE "--anteil" \in given /\ "--dokumente" \in given
    <3>1. both = {"--anteil", "--dokumente"} /\ "--anteil" # "--dokumente"
      BY <2>1
    <3>2. Cardinality({"--anteil", "--dokumente"}) = 2
      <4>1. Cardinality({"--anteil"}) = 1 /\ IsFiniteSet({"--anteil"})
        BY FS_Singleton
      <4>2. Cardinality({"--anteil"} \cup {"--dokumente"}) = Cardinality({"--anteil"}) + 1
        BY <3>1, <4>1, FS_AddElement
      <4>3. {"--anteil"} \cup {"--dokumente"} = {"--anteil", "--dokumente"}
        OBVIOUS
      <4> QED BY <4>1, <4>2, <4>3
    <3>3. Cardinality(both) = 2
      BY <3>1, <3>2, Zenon
    <3>4. Cardinality(both) # 1
      BY <3>3
    <3> QED BY <2>1, <3>4
  <2>2. CASE "--anteil" \in given /\ "--dokumente" \notin given
    <3>1. both = {"--anteil"}
      BY <2>2
    <3> QED BY <2>2, <3>1, FS_Singleton
  <2>3. CASE "--anteil" \notin given /\ "--dokumente" \in given
    <3>1. both = {"--dokumente"}
      BY <2>3
    <3> QED BY <2>3, <3>1, FS_Singleton
  <2>4. CASE "--anteil" \notin given /\ "--dokumente" \notin given
    <3>1. both = {}
      BY <2>4
    <3>2. Cardinality(both) = 0
      BY <3>1, FS_EmptySet
    <3> QED BY <2>4, <3>2
  <2> QED BY <2>1, <2>2, <2>3, <2>4
<1>14. ParseArguments(a) <=>
         /\ p.ok /\ p.waits = ""
         /\ {"--mandant", "--etappe"} \subseteq given
         /\ Cardinality(given \cap {"--anteil", "--dokumente"}) = 1
         /\ \A r \in p.read : Takes(r[1], r[2])
  BY <1>3 DEF ParseArguments, p
<1> DEFINE AllTaken == \A r \in p.read : Takes(r[1], r[2])
<1>15. ParseArguments(a) <=> p.ok /\ p.waits = "" /\ Needed(given) /\ AllTaken
  BY <1>13, <1>14
<1>16. p.ok /\ Closed => (Needed(given) <=> Needed(Named)) /\ (AllTaken <=> Taken)
  <2> HIDE DEF Named, given, Needed, AllTaken, Taken
  <2> QED BY <1>12 DEF AllTaken
<1> HIDE DEF Named, given, Needed, AllTaken, Taken, Closed, Paired, Single
<1> QED BY <1>5, <1>6, <1>8, <1>9, <1>10, <1>11, <1>15, <1>16

-----------------------------------------------------------------------------
(* Regions.                                                                *)

\* The first k marks of a text, those of some kinds, have these values.
ValuesSoFar(v, text, kinds, k) ==
  /\ v \in Seq(Nat)
  /\ \A j \in DOMAIN v : \E i \in 1..k : text[i].kind \in kinds /\ v[j] = text[i].value
  /\ \A i \in 1..k : text[i].kind \in kinds => \E j \in DOMAIN v : v[j] = text[i].value
  /\ \A i \in 1..k : text[i].kind \in kinds /\ (\A j \in 1..(i - 1) : text[j].kind \notin kinds) =>
       v # <<>> /\ v[1] = text[i].value

AddValue(v, m, kinds) == IF m.kind \in kinds THEN Append(v, m.value) ELSE v
ValueFold(g, text, kinds) ==
  g = [s \in SUBSET DOMAIN text |-> IF s = {} THEN <<>> ELSE AddValue(g[s \ {Max(s)}], text[Max(s)], kinds)]

LEMMA MarkValue ==
  ASSUME NEW text \in Seq(RegionMark), NEW i \in 1..Len(text)
  PROVE  text[i] \in RegionMark /\ text[i].value \in Nat
<1>1. text[i] \in RegionMark
  OBVIOUS
<1> QED BY <1>1 DEF RegionMark

LEMMA ValueFoldExists ==
  ASSUME NEW text \in Seq(RegionMark), NEW kinds
  PROVE  \E g : ValueFold(g, text, kinds)
<1> DEFINE n == Len(text)
           V == Seq(Nat)
           chosen == [s \in SUBSET (1..n) |-> Max(s)]
           step == [t \in (1..n) \X V |-> AddValue(t[2], text[t[1]], kinds)]
<1>1. n \in Nat /\ DOMAIN text = 1..n /\ <<>> \in V
  OBVIOUS
<1>2. ASSUME NEW i \in 1..n, NEW c \in V PROVE AddValue(c, text[i], kinds) \in V
  BY MarkValue DEF AddValue
<1> HIDE DEF V
<1>3. step \in [(1..n) \X V -> V]
  BY <1>2
<1>4. \A i \in 1..n, c \in V : step[i, c] = AddValue(c, text[i], kinds)
  OBVIOUS
<1> HIDE DEF n, step
<1>5. PICK g \in [SUBSET (1..n) -> V] : FoldOf(g, 1..n, <<>>, chosen, step)
  BY <1>1, <1>3, LoopExists
<1>6. ASSUME NEW s \in SUBSET (1..n), s # {}
      PROVE  step[chosen[s], g[s \ {chosen[s]}]] = AddValue(g[s \ {Max(s)}], text[Max(s)], kinds)
  <2>1. chosen[s] = Max(s) /\ Max(s) \in 1..n
    BY <1>1, <1>6, MaxOfPart
  <2>2. g[s \ {Max(s)}] \in V
    OBVIOUS
  <2> QED BY <1>4, <2>1, <2>2
<1>7. ValueFold(g, text, kinds)
  BY <1>1, <1>5, <1>6 DEF FoldOf, ValueFold
<1> QED BY <1>7

\* The values of some kinds of marks are those of all marks of the kinds, the
\* first of the first.
LEMMA ValuesAre ==
  ASSUME NEW text \in Seq(RegionMark), NEW kinds
  PROVE  ValuesSoFar(ValuesOf(text, kinds), text, kinds, Len(text))
<1> DEFINE n == Len(text)
           G == CHOOSE g : ValueFold(g, text, kinds)
           Good == {k \in 0..n : ValuesSoFar(G[1..k], text, kinds, k)}
<1>1. n \in Nat /\ DOMAIN text = 1..n
  OBVIOUS
<1>2. ValuesOf(text, kinds) = G[DOMAIN text]
  BY DEF ValuesOf, FoldLeft, MapThenFoldSet, ValueFold, AddValue
<1>3. ValueFold(G, text, kinds)
  BY ValueFoldExists
<1> HIDE DEF G
<1>4. 0 \in Good
  <2>1. 1..0 = {} /\ {} \in SUBSET DOMAIN text
    OBVIOUS
  <2>2. G[1..0] = <<>>
    BY <1>3, <2>1 DEF ValueFold
  <2>3. ValuesSoFar(<<>>, text, kinds, 0)
    BY DEF ValuesSoFar
  <2> QED BY <1>1, <2>2, <2>3
<1>5. ASSUME NEW k \in 1..n, k - 1 \in Good PROVE k \in Good
  <2> DEFINE v == G[1..(k - 1)]
             m == text[k]
             w == AddValue(v, m, kinds)
  <2>1. G[1..k] = w
    <3>1. 1..k \in (SUBSET (1..n)) \ {{}} /\ Max(1..k) = k /\ (1..k) \ {Max(1..k)} = 1..(k - 1)
      BY <1>1, MaxOfPrefix
    <3> HIDE DEF n, Good
    <3>2. G[1..k] = AddValue(G[(1..k) \ {Max(1..k)}], text[Max(1..k)], kinds)
      BY <1>1, <1>3, <3>1 DEF ValueFold
    <3> QED BY <3>1, <3>2
  <2>2. ValuesSoFar(v, text, kinds, k - 1)
    BY <1>5
  <2>3. m \in RegionMark /\ m.value \in Nat
    BY MarkValue
  <2>4. 1..k = 1..(k - 1) \cup {k} /\ k \in Nat /\ k \notin 1..(k - 1)
    BY <1>1
  <2> HIDE DEF v
  <2>5. CASE m.kind \notin kinds
    <3>1. w = v
      BY <2>5 DEF AddValue
    <3> HIDE DEF w
    <3>2. ValuesSoFar(v, text, kinds, k)
      BY <2>2, <2>4, <2>5 DEF ValuesSoFar
    <3> QED BY <1>1, <2>1, <3>1, <3>2 DEF w
  <2>6. CASE m.kind \in kinds
    <3>1. w = Append(v, m.value) /\ v \in Seq(Nat)
      BY <2>2, <2>6 DEF AddValue, ValuesSoFar
    <3>2. /\ w \in Seq(Nat) /\ Len(w) = Len(v) + 1 /\ w # <<>>
          /\ DOMAIN w = 1..(Len(v) + 1) /\ DOMAIN v = 1..Len(v) /\ Len(v) \in Nat
          /\ \A j \in DOMAIN v : w[j] = v[j]
          /\ w[Len(v) + 1] = m.value
      BY <2>3, <3>1
    <3> HIDE DEF w
    <3>3. ASSUME NEW j \in DOMAIN w PROVE \E i \in 1..k : text[i].kind \in kinds /\ w[j] = text[i].value
      <4>1. CASE j = Len(v) + 1
        BY <2>4, <2>6, <3>2, <4>1
      <4>2. CASE j # Len(v) + 1
        <5>1. j \in DOMAIN v
          BY <3>2, <4>2
        <5>2. PICK i \in 1..(k - 1) : text[i].kind \in kinds /\ v[j] = text[i].value
          BY <2>2, <5>1 DEF ValuesSoFar
        <5> QED BY <2>4, <3>2, <5>1, <5>2
      <4> QED BY <4>1, <4>2
    <3>4. ASSUME NEW i \in 1..k, text[i].kind \in kinds PROVE \E j \in DOMAIN w : w[j] = text[i].value
      <4>1. CASE i = k
        BY <3>2, <4>1
      <4>2. CASE i # k
        <5>1. i \in 1..(k - 1)
          BY <2>4, <4>2
        <5>2. PICK j \in DOMAIN v : v[j] = text[i].value
          BY <2>2, <3>4, <5>1 DEF ValuesSoFar
        <5>3. j \in DOMAIN w /\ w[j] = v[j]
          BY <3>2
        <5> QED BY <5>2, <5>3
      <4> QED BY <4>1, <4>2
    <3>5. ASSUME NEW i \in 1..k, text[i].kind \in kinds, \A j \in 1..(i - 1) : text[j].kind \notin kinds
          PROVE  w # <<>> /\ w[1] = text[i].value
      <4>1. CASE i = k
        <5>1. v = <<>>
          <6>1. \A j \in DOMAIN v : FALSE
            BY <2>2, <3>5, <4>1 DEF ValuesSoFar
          <6> QED BY <3>1, <3>2, <6>1
        <5>2. Len(v) = 0
          BY <5>1
        <5>3. w[0 + 1] = m.value
          BY <3>2, <5>2
        <5> QED BY <3>2, <4>1, <5>3
      <4>2. CASE i # k
        <5>1. i \in 1..(k - 1)
          BY <2>4, <4>2
        <5>2. v # <<>> /\ v[1] = text[i].value
          BY <2>2, <3>5, <5>1 DEF ValuesSoFar
        <5>3. 1 \in DOMAIN v
          BY <3>1, <5>2
        <5> QED BY <3>2, <5>2, <5>3
      <4> QED BY <4>1, <4>2
    <3>6. ValuesSoFar(w, text, kinds, k)
      BY <3>2, <3>3, <3>4, <3>5 DEF ValuesSoFar
    <3> QED BY <1>1, <2>1, <3>6
  <2> QED BY <2>5, <2>6
<1> HIDE DEF Good, n
<1>6. 0..n \subseteq Good
  BY <1>1, <1>4, <1>5, ByPrefixes
<1> QED BY <1>1, <1>2, <1>6 DEF Good, n

\* Of the marks of a kind that a text has, one is the first.
LEMMA FirstMark ==
  ASSUME NEW text \in Seq(RegionMark), NEW kinds, NEW i \in 1..Len(text), text[i].kind \in kinds
  PROVE  \E f \in 1..Len(text) : text[f].kind \in kinds /\ \A j \in 1..(f - 1) : text[j].kind \notin kinds
<1> DEFINE hits == {j \in 1..Len(text) : text[j].kind \in kinds}
<1>1. hits \in SUBSET Nat /\ hits # {}
  OBVIOUS
<1>2. PICK f \in hits : \A j \in hits : f <= j
  BY <1>1, LeastNumber
<1>3. ASSUME NEW j \in 1..(f - 1) PROVE text[j].kind \notin kinds
  <2>1. j \in 1..Len(text) /\ ~(f <= j)
    BY <1>2
  <2> QED BY <1>2, <2>1
<1> QED BY <1>2, <1>3

\* Some element of a sequence is the first of those found most often.
LEMMA StrongestIsAmong ==
  ASSUME NEW places \in Seq(Nat), places # <<>>
  PROVE  \E i \in DOMAIN places : Strongest(places) = places[i]
<1> DEFINE n == Len(places)
           often == {i \in DOMAIN places : \A q \in ToSet(places) : Times(places, q) <= Times(places, places[i])}
           rare == {n - Times(places, places[i]) : i \in 1..n}
<1>1. n \in Nat /\ DOMAIN places = 1..n /\ 1 \in 1..n
  OBVIOUS
<1>2. \A p : Times(places, p) \in 0..n
  <2>1. IsFiniteSet(1..n) /\ Cardinality(1..n) = n
    BY <1>1, FS_Interval
  <2> HIDE DEF n
  <2>2. ASSUME NEW B \in SUBSET (1..n) PROVE Cardinality(B) \in 0..n
    <3>1. Cardinality(B) <= Cardinality(1..n) /\ IsFiniteSet(B)
      BY <2>1, FS_Subset
    <3>2. Cardinality(B) \in Nat
      BY <3>1, FS_CardinalityType
    <3> QED BY <1>1, <2>1, <3>1, <3>2
  <2> QED BY <1>1, <2>2 DEF Times
<1>3. rare \in SUBSET Nat /\ rare # {}
  BY <1>1, <1>2
<1> HIDE DEF n
<1>4. PICK m \in rare : \A k \in rare : m <= k
  BY <1>3, LeastNumber
<1>5. PICK i \in 1..n : m = n - Times(places, places[i])
  BY <1>4
<1>6. ASSUME NEW q \in ToSet(places) PROVE Times(places, q) <= Times(places, places[i])
  <2>1. PICK j \in 1..n : q = places[j]
    BY <1>1 DEF ToSet
  <2>2. n - Times(places, q) \in rare
    BY <2>1
  <2>3. n - Times(places, places[i]) <= n - Times(places, q)
    BY <1>4, <1>5, <2>2
  <2>4. Times(places, q) \in Nat /\ Times(places, places[i]) \in Nat
    BY <1>2, <1>1
  <2> QED BY <1>1, <2>3, <2>4
<1>7. often # {} /\ often \in SUBSET Nat
  BY <1>1, <1>5, <1>6
<1>8. Min(often) \in often
  <2> HIDE DEF often
  <2> QED BY <1>7, MinIsLeast
<1>9. Strongest(places) = places[Min(often)]
  BY DEF Strongest
<1> QED BY <1>8, <1>9

\* The state of a text is the least one named.
LEMMA StateOfText ==
  ASSUME NEW text \in Seq(RegionMark)
  PROVE  LET state == DeriveRegion(text).state IN
         /\ (\A i \in 1..Len(text) : text[i].kind # "state") => state = 0
         /\ \A i \in 1..Len(text) : text[i].kind = "state" =>
              /\ \E j \in 1..Len(text) : text[j].kind = "state" /\ state = text[j].value
              /\ state <= text[i].value
<1> DEFINE v == ValuesOf(text, {"state"})
           states == ToSet(v)
<1>1. ValuesSoFar(v, text, {"state"}, Len(text))
  BY ValuesAre
<1> HIDE DEF v
<1>2. DeriveRegion(text).state = IF states = {} THEN 0 ELSE Min(states)
  BY DEF DeriveRegion, v
<1>3. states \in SUBSET Nat
  BY <1>1 DEF ValuesSoFar, ToSet
<1>4. \A x \in states : \E i \in 1..Len(text) : text[i].kind = "state" /\ x = text[i].value
  BY <1>1 DEF ValuesSoFar, ToSet
<1>5. \A i \in 1..Len(text) : text[i].kind = "state" => text[i].value \in states
  BY <1>1 DEF ValuesSoFar, ToSet
<1> HIDE DEF states
<1>6. CASE states = {}
  BY <1>2, <1>5, <1>6
<1>7. CASE states # {}
  <2>1. Min(states) \in states /\ \A x \in states : Min(states) <= x
    BY <1>3, <1>7, MinIsLeast
  <2> QED BY <1>2, <1>4, <1>5, <1>7, <2>1
<1> QED BY <1>6, <1>7

\* The district of a text is the first one named.
LEMMA DistrictOfText ==
  ASSUME NEW text \in Seq(RegionMark)
  PROVE  LET district == DeriveRegion(text).district IN
         /\ (\A i \in 1..Len(text) : text[i].kind # "district") => district = 0
         /\ \A i \in 1..Len(text) :
              text[i].kind = "district" /\ (\A j \in 1..(i - 1) : text[j].kind # "district") =>
                district = text[i].value
<1> DEFINE v == ValuesOf(text, {"district"})
<1>1. ValuesSoFar(v, text, {"district"}, Len(text))
  BY ValuesAre
<1> HIDE DEF v
<1>2. DeriveRegion(text).district = IF v = <<>> THEN 0 ELSE v[1]
  BY DEF DeriveRegion, v
<1>3. ASSUME \A i \in 1..Len(text) : text[i].kind # "district" PROVE v = <<>>
  <2>1. v \in Seq(Nat) /\ \A j \in DOMAIN v : FALSE
    BY <1>1, <1>3 DEF ValuesSoFar
  <2> QED BY <2>1
<1>4. ASSUME NEW i \in 1..Len(text), text[i].kind = "district", \A j \in 1..(i - 1) : text[j].kind # "district"
      PROVE  v # <<>> /\ v[1] = text[i].value
  BY <1>1, <1>4 DEF ValuesSoFar
<1> QED BY <1>2, <1>3, <1>4

\* The place of a text is one that is named in it.
LEMMA PlaceOfText ==
  ASSUME NEW text \in Seq(RegionMark), DeriveRegion(text).place # 0
  PROVE  \E i \in 1..Len(text) : text[i].kind \in {"town", "ofTown", "welcome"}
                                 /\ text[i].value = DeriveRegion(text).place
<1> DEFINE u == ValuesOf(text, {"town", "ofTown"})
           v == ValuesOf(text, {"ofTown"})
           w == ValuesOf(text, {"welcome"})
           places == PlaceCandidates(text)
<1>1. /\ ValuesSoFar(u, text, {"town", "ofTown"}, Len(text))
      /\ ValuesSoFar(v, text, {"ofTown"}, Len(text))
      /\ ValuesSoFar(w, text, {"welcome"}, Len(text))
  BY ValuesAre
<1>2. places = u \o v \o w
  BY DEF PlaceCandidates
<1> HIDE DEF u, v, w, places
<1>3. u \in Seq(Nat) /\ v \in Seq(Nat) /\ w \in Seq(Nat)
  BY <1>1 DEF ValuesSoFar
<1>4. places \in Seq(Nat)
  BY <1>2, <1>3
<1>5. places # <<>> /\ DeriveRegion(text).place = Strongest(places)
  <2> DEFINE times == IF places = <<>> THEN 0 ELSE Times(places, Strongest(places))
             districts == ValuesOf(text, {"district"})
             district == IF districts = <<>> THEN 0 ELSE districts[1]
             shown == times >= 2 \/ (times = 1 /\ (district = 0 \/ Mentions(text, district) <= 4))
  <2>1. DeriveRegion(text).place = IF shown THEN Strongest(places) ELSE 0
    BY DEF DeriveRegion, places
  <2>2. shown => places # <<>>
    OBVIOUS
  <2> HIDE DEF shown
  <2> QED BY <2>1, <2>2
<1>6. PICK p \in DOMAIN places : Strongest(places) = places[p]
  BY <1>4, <1>5, StrongestIsAmong
<1>7. \/ \E j \in DOMAIN u : places[p] = u[j]
      \/ \E j \in DOMAIN v : places[p] = v[j]
      \/ \E j \in DOMAIN w : places[p] = w[j]
  <2>1. ASSUME NEW x \in Seq(Nat), NEW y \in Seq(Nat), NEW q \in DOMAIN (x \o y)
        PROVE  (\E j \in DOMAIN x : (x \o y)[q] = x[j]) \/ (\E j \in DOMAIN y : (x \o y)[q] = y[j])
    <3>1. CASE q \in 1..Len(x)
      <4>1. q \in DOMAIN x /\ (x \o y)[q] = x[q]
        BY <3>1
      <4> QED BY <4>1
    <3>2. CASE q \notin 1..Len(x)
      <4>1. q - Len(x) \in DOMAIN y /\ (x \o y)[q] = y[q - Len(x)]
        BY <3>2
      <4> QED BY <4>1
    <3> QED BY <3>1, <3>2
  <2>2. u \o v \in Seq(Nat)
    BY <1>3
  <2>3. (\E j \in DOMAIN (u \o v) : places[p] = (u \o v)[j]) \/ (\E j \in DOMAIN w : places[p] = w[j])
    BY <1>2, <1>3, <2>1, <2>2
  <2> QED BY <1>3, <2>1, <2>3
<1>8. ASSUME NEW x, NEW kinds, ValuesSoFar(x, text, kinds, Len(text)), NEW j \in DOMAIN x
      PROVE  \E i \in 1..Len(text) : text[i].kind \in kinds /\ x[j] = text[i].value
  BY <1>8 DEF ValuesSoFar
<1>9. \E i \in 1..Len(text) : text[i].kind \in {"town", "ofTown", "welcome"} /\ places[p] = text[i].value
  <2>1. CASE \E j \in DOMAIN u : places[p] = u[j]
    <3>1. \E i \in 1..Len(text) : text[i].kind \in {"town", "ofTown"} /\ places[p] = text[i].value
      BY <1>1, <1>8, <2>1
    <3> QED BY <3>1
  <2>2. CASE \E j \in DOMAIN v : places[p] = v[j]
    <3>1. \E i \in 1..Len(text) : text[i].kind \in {"ofTown"} /\ places[p] = text[i].value
      BY <1>1, <1>8, <2>2
    <3> QED BY <3>1
  <2>3. CASE \E j \in DOMAIN w : places[p] = w[j]
    <3>1. \E i \in 1..Len(text) : text[i].kind \in {"welcome"} /\ places[p] = text[i].value
      BY <1>1, <1>8, <2>3
    <3> QED BY <3>1
  <2> QED BY <1>7, <2>1, <2>2, <2>3
<1> QED BY <1>5, <1>6, <1>9

RegionTextsOk(texts) == texts \in [{"filename", "pdf-metadata", "title-page", "later"} -> Seq(RegionMark)]

\* x stands in w behind the first o marks.
Within(x, w, o) == \A j \in 1..Len(x) : o + j \in 1..Len(w) /\ w[o + j] = x[j]

LEMMA ConcatIs ==
  ASSUME NEW S, NEW x \in Seq(S), NEW y \in Seq(S)
  PROVE  /\ x \o y \in Seq(S) /\ Len(x \o y) = Len(x) + Len(y)
         /\ Within(x, x \o y, 0) /\ Within(y, x \o y, Len(x))
         /\ \A i \in 1..Len(x \o y) : \/ \E j \in 1..Len(x) : i = 0 + j
                                      \/ \E j \in 1..Len(y) : i = Len(x) + j
<1>1. x \o y \in Seq(S) /\ Len(x \o y) = Len(x) + Len(y) /\ Len(x) \in Nat /\ Len(y) \in Nat
  OBVIOUS
<1>2. Within(x, x \o y, 0)
  BY <1>1 DEF Within
<1>3. Within(y, x \o y, Len(x))
  BY <1>1 DEF Within
<1>4. ASSUME NEW i \in 1..Len(x \o y)
      PROVE  (\E j \in 1..Len(x) : i = 0 + j) \/ (\E j \in 1..Len(y) : i = Len(x) + j)
  <2>1. CASE i \in 1..Len(x)
    <3>1. i = 0 + i
      OBVIOUS
    <3> QED BY <2>1, <3>1
  <2>2. CASE i \notin 1..Len(x)
    <3>1. i - Len(x) \in 1..Len(y) /\ i = Len(x) + (i - Len(x))
      BY <1>1, <2>2
    <3> QED BY <3>1
  <2> QED BY <2>1, <2>2
<1> QED BY <1>1, <1>2, <1>3, <1>4

\* Parts of a part.
LEMMA WithinPart ==
  ASSUME NEW S, NEW x \in Seq(S), NEW y \in Seq(S), NEW w \in Seq(S), NEW o \in Nat, NEW q \in Nat,
         Within(x, y, o), Within(y, w, q)
  PROVE  Within(x, w, q + o)
<1>1. ASSUME NEW j \in 1..Len(x) PROVE (q + o) + j \in 1..Len(w) /\ w[(q + o) + j] = x[j]
  <2>1. o + j \in 1..Len(y) /\ y[o + j] = x[j]
    BY <1>1 DEF Within
  <2>2. q + (o + j) \in 1..Len(w) /\ w[q + (o + j)] = y[o + j]
    BY <2>1 DEF Within
  <2>3. (q + o) + j = q + (o + j)
    OBVIOUS
  <2> QED BY <2>1, <2>2, <2>3
<1> QED BY <1>1 DEF Within

LEMMA FieldsAreFew ==
  ASSUME NEW r, NEW S \in SUBSET FieldsOf(r)
  PROVE  Cardinality(S) \in Nat /\ \A f \in S : Cardinality(S) > 0
<1> DEFINE A == {<<"place", r.place>>, <<"district", r.district>>, <<"state", r.state>>}
<1>1. IsFiniteSet(A)
  <2>1. IsFiniteSet({<<"place", r.place>>})
    BY FS_Singleton
  <2>2. IsFiniteSet({<<"place", r.place>>} \cup {<<"district", r.district>>})
    BY <2>1, FS_AddElement
  <2>3. IsFiniteSet(({<<"place", r.place>>} \cup {<<"district", r.district>>}) \cup {<<"state", r.state>>})
    BY <2>2, FS_AddElement
  <2>4. A = ({<<"place", r.place>>} \cup {<<"district", r.district>>}) \cup {<<"state", r.state>>}
    OBVIOUS
  <2> HIDE DEF A
  <2> QED BY <2>3, <2>4, Zenon
<1>2. S \subseteq A
  BY DEF FieldsOf
<1> HIDE DEF A
<1>3. IsFiniteSet(S)
  BY <1>1, <1>2, FS_Subset
<1>4. Cardinality(S) \in Nat /\ (Cardinality(S) = 0 <=> S = {})
  BY <1>3, FS_CardinalityType, FS_EmptySet
<1> QED BY <1>4

\* A function has finitely many values on a finite set.
LEMMA ImagesAreFinite ==
  ASSUME NEW S, IsFiniteSet(S), NEW f
  PROVE  IsFiniteSet({f[x] : x \in S})
<1> DEFINE T == {f[x] : x \in S}
           g == [x \in S |-> f[x]]
<1>1. g \in Surjection(S, T)
  <2>1. g \in [S -> T] /\ \A t \in T : \E x \in S : g[x] = t
    OBVIOUS
  <2> HIDE DEF g, T
  <2> QED BY <2>1 DEF Surjection
<1> QED BY <1>1, FS_Surjection

\* The best of the four sources.
LEMMA BestSource ==
  ASSUME NEW m, \A s \in ToSet(RegionSources) : m[s] \in Nat
  PROVE  LET best == RegionSources[Min({i \in DOMAIN RegionSources :
                        \A t \in ToSet(RegionSources) : m[t] <= m[RegionSources[i]]})] IN
         best \in ToSet(RegionSources) /\ \A t \in ToSet(RegionSources) : m[t] <= m[best]
<1> DEFINE values == {m[RegionSources[i]] : i \in 1..4}
           good == {i \in DOMAIN RegionSources : \A t \in ToSet(RegionSources) : m[t] <= m[RegionSources[i]]}
<1>1. DOMAIN RegionSources = 1..4
  BY DEF RegionSources
<1>2. values \in SUBSET Nat /\ values # {}
  BY <1>1 DEF ToSet
<1>3. IsFiniteSet(values)
  <2> DEFINE f == [i \in 1..4 |-> m[RegionSources[i]]]
  <2>1. IsFiniteSet(1..4)
    <3>1. 1 \in Int /\ 4 \in Int
      OBVIOUS
    <3> QED BY <3>1, FS_Interval, Zenon
  <2>2. values = {f[i] : i \in 1..4}
    OBVIOUS
  <2> HIDE DEF values, f
  <2> QED BY <2>1, <2>2, ImagesAreFinite
<1>4. Max(values) \in values /\ \A k \in values : Max(values) >= k
  <2> HIDE DEF values
  <2> QED BY <1>2, <1>3, MaxIsGreatest
<1>5. PICK i \in 1..4 : Max(values) = m[RegionSources[i]]
  BY <1>4
<1>6. \A t \in ToSet(RegionSources) : m[t] <= m[RegionSources[i]]
  <2> SUFFICES ASSUME NEW j \in 1..4 PROVE m[RegionSources[j]] <= m[RegionSources[i]]
    BY <1>1 DEF ToSet
  <2>1. m[RegionSources[j]] \in values
    OBVIOUS
  <2> HIDE DEF values
  <2>2. Max(values) >= m[RegionSources[j]]
    BY <1>4, <2>1
  <2>3. m[RegionSources[j]] \in Nat /\ Max(values) \in Nat
    BY <1>2, <1>4, <2>1
  <2> QED BY <1>5, <2>2, <2>3
<1>7. good \in SUBSET Nat /\ good # {}
  BY <1>1, <1>5, <1>6
<1>8. Min(good) \in good
  <2> HIDE DEF good
  <2> QED BY <1>7, MinIsLeast
<1> QED BY <1>8 DEF ToSet

\* Where a mark of the texts together stands: in one of the three that a
\* source is, with no other before it of a kind that none before it is of.
PutTogether(w, f, p, a) ==
  /\ w \in Seq(RegionMark)
  /\ \A x \in {f, p, a} : \A j \in 1..Len(x) : \E i \in 1..Len(w) : w[i] = x[j]
  /\ \A i \in 1..Len(w) : \E x \in {f, p, a} : \E j \in 1..Len(x) :
       /\ w[i] = x[j]
       /\ \A k : (\A h \in 1..(i - 1) : w[h].kind # k) => \A h \in 1..(j - 1) : x[h].kind # k

LEMMA MarksOfParts ==
  ASSUME NEW f \in Seq(RegionMark), NEW p \in Seq(RegionMark), NEW a \in Seq(RegionMark)
  PROVE  PutTogether(f \o p \o a, f, p, a)
<1> DEFINE y == f \o p
           w == y \o a
<1>1. /\ y \in Seq(RegionMark) /\ Within(f, y, 0) /\ Within(p, y, Len(f)) /\ Len(y) = Len(f) + Len(p)
      /\ \A i \in 1..Len(y) : (\E j \in 1..Len(f) : i = 0 + j) \/ (\E j \in 1..Len(p) : i = Len(f) + j)
  BY ConcatIs
<1> HIDE DEF y
<1>2. /\ w \in Seq(RegionMark) /\ Within(y, w, 0) /\ Within(a, w, Len(y))
      /\ \A i \in 1..Len(w) : (\E j \in 1..Len(y) : i = 0 + j) \/ (\E j \in 1..Len(a) : i = Len(y) + j)
  <2>1. y \in Seq(RegionMark)
    BY <1>1
  <2> QED BY <2>1, ConcatIs
<1> HIDE DEF w
<1>3. Len(f) \in Nat /\ Len(p) \in Nat /\ Len(y) \in Nat /\ Len(w) \in Nat
  BY <1>1, <1>2
<1>4. Within(f, w, 0 + 0) /\ Within(p, w, 0 + Len(f))
  BY <1>1, <1>2, <1>3, WithinPart
<1>5. \A x \in {f, p, a} : \E o \in Nat : Within(x, w, o)
  BY <1>2, <1>3, <1>4
<1>6. ASSUME NEW x \in {f, p, a}, NEW j \in 1..Len(x) PROVE \E i \in 1..Len(w) : w[i] = x[j]
  BY <1>5 DEF Within
<1>7. ASSUME NEW i \in 1..Len(w) PROVE \E x \in {f, p, a} : \E o \in Nat : Within(x, w, o) /\ \E j \in 1..Len(x) : i = o + j
  <2>1. CASE \E j \in 1..Len(y) : i = 0 + j
    <3>1. i \in 1..Len(y)
      BY <2>1
    <3>2. CASE \E j \in 1..Len(f) : i = 0 + j
      BY <1>4, <3>2
    <3>3. CASE \E j \in 1..Len(p) : i = Len(f) + j
      <4>1. Within(p, w, Len(f))
        BY <1>3, <1>4
      <4> QED BY <1>3, <3>3, <4>1
    <3> QED BY <1>1, <3>1, <3>2, <3>3
  <2>2. CASE \E j \in 1..Len(a) : i = Len(y) + j
    BY <1>2, <1>3, <2>2
  <2> QED BY <1>2, <2>1, <2>2
<1>8. ASSUME NEW i \in 1..Len(w)
      PROVE  \E x \in {f, p, a} : \E j \in 1..Len(x) :
               /\ w[i] = x[j]
               /\ \A k : (\A h \in 1..(i - 1) : w[h].kind # k) => \A h \in 1..(j - 1) : x[h].kind # k
  <2>1. PICK x \in {f, p, a}, o \in Nat : Within(x, w, o) /\ \E j \in 1..Len(x) : i = o + j
    BY <1>7
  <2>2. PICK j \in 1..Len(x) : i = o + j
    BY <2>1
  <2>3. w[i] = x[j]
    BY <2>1, <2>2 DEF Within
  <2>4. ASSUME NEW k, \A h \in 1..(i - 1) : w[h].kind # k, NEW h \in 1..(j - 1) PROVE x[h].kind # k
    <3>1. h \in 1..Len(x) /\ o + h \in 1..(i - 1)
      BY <1>3, <2>2
    <3>2. w[o + h] = x[h]
      BY <2>1, <3>1 DEF Within
    <3> QED BY <2>4, <3>1, <3>2
  <2> QED BY <2>3, <2>4
<1>9. PutTogether(w, f, p, a)
  BY <1>2, <1>6, <1>8 DEF PutTogether
<1> QED BY <1>9 DEF w, y

\* A state or district of the texts together is that of a source by itself.
LEMMA FieldOfPart ==
  ASSUME NEW f \in Seq(RegionMark), NEW p \in Seq(RegionMark), NEW a \in Seq(RegionMark)
  PROVE  LET r == DeriveRegion(f \o p \o a) IN
         /\ r.state # 0 => \E x \in {f, p, a} : DeriveRegion(x).state = r.state
         /\ r.district # 0 => \E x \in {f, p, a} : DeriveRegion(x).district = r.district
<1> DEFINE w == f \o p \o a
           r == DeriveRegion(w)
<1>1. /\ w \in Seq(RegionMark)
      /\ \A x \in {f, p, a} : \A j \in 1..Len(x) : \E i \in 1..Len(w) : w[i] = x[j]
      /\ \A i \in 1..Len(w) : \E x \in {f, p, a} : \E j \in 1..Len(x) :
           /\ w[i] = x[j]
           /\ \A k : (\A h \in 1..(i - 1) : w[h].kind # k) => \A h \in 1..(j - 1) : x[h].kind # k
  <2>1. PutTogether(w, f, p, a)
    BY MarksOfParts
  <2> HIDE DEF w
  <2> QED BY <2>1 DEF PutTogether
<1> HIDE DEF w
<1>2. ASSUME r.state # 0 PROVE \E x \in {f, p, a} : DeriveRegion(x).state = r.state
  <2>1. PICK i \in 1..Len(w) : w[i].kind = "state"
    BY <1>1, <1>2, StateOfText
  <2>2. PICK n \in 1..Len(w) : w[n].kind = "state" /\ r.state = w[n].value
    BY <1>1, <2>1, StateOfText
  <2>30. PICK x \in {f, p, a} : \E j \in 1..Len(x) : w[n] = x[j]
    BY <1>1
  <2>3. PICK j \in 1..Len(x) : w[n] = x[j]
    BY <2>30
  <2> DEFINE s == DeriveRegion(x).state
  <2>4. x \in Seq(RegionMark) /\ x[j].kind = "state" /\ x[j].value = r.state
    BY <2>2, <2>3
  <2>5. s <= x[j].value /\ \E h \in 1..Len(x) : x[h].kind = "state" /\ s = x[h].value
    BY <2>4, StateOfText
  <2>6. PICK h \in 1..Len(x) : x[h].kind = "state" /\ s = x[h].value
    BY <2>5
  <2>7. PICK m \in 1..Len(w) : w[m] = x[h]
    BY <1>1
  <2>8. r.state <= w[m].value
    BY <1>1, <2>6, <2>7, StateOfText
  <2>9. s \in Nat /\ r.state \in Nat
    BY <1>1, <2>2, <2>4, <2>6, MarkValue
  <2> HIDE DEF s, r
  <2>10. s = r.state
    BY <2>4, <2>5, <2>6, <2>7, <2>8, <2>9
  <2> QED BY <2>10 DEF s
<1>3. ASSUME r.district # 0 PROVE \E x \in {f, p, a} : DeriveRegion(x).district = r.district
  <2>1. PICK i \in 1..Len(w) : w[i].kind \in {"district"}
    BY <1>1, <1>3, DistrictOfText
  <2>2. PICK n \in 1..Len(w) : w[n].kind \in {"district"} /\ \A j \in 1..(n - 1) : w[j].kind \notin {"district"}
    BY <1>1, <2>1, FirstMark
  <2>3. r.district = w[n].value
    BY <1>1, <2>2, DistrictOfText
  <2>40. PICK x \in {f, p, a} : \E j \in 1..Len(x) :
           /\ w[n] = x[j]
           /\ \A k : (\A h \in 1..(n - 1) : w[h].kind # k) => \A h \in 1..(j - 1) : x[h].kind # k
    BY <1>1
  <2>4. PICK j \in 1..Len(x) :
          /\ w[n] = x[j]
          /\ \A k : (\A h \in 1..(n - 1) : w[h].kind # k) => \A h \in 1..(j - 1) : x[h].kind # k
    BY <2>40
  <2>5. x[j].kind = "district" /\ \A h \in 1..(j - 1) : x[h].kind # "district"
    BY <2>2, <2>4
  <2>6. x \in Seq(RegionMark)
    OBVIOUS
  <2>7. DeriveRegion(x).district = x[j].value
    BY <2>5, <2>6, DistrictOfText
  <2> QED BY <2>3, <2>4, <2>7
<1> QED BY <1>2, <1>3 DEF w

LEMMA MarkIs ==
  ASSUME NEW m \in RegionMark
  PROVE  m = [kind |-> m.kind, value |-> m.value]
BY DEF RegionMark

\* A region has a confidence exactly if something was found; every part of it
\* stands in one of the texts; and it has a source that by itself names a part
\* of it, unless it is a place: for all texts.
THEOREM RegionsAlwaysEvidenced ==
  ASSUME NEW texts, RegionTextsOk(texts)
  PROVE  RegionIsEvidenced(texts, RegionOf(texts))
<1> DEFINE f == texts["filename"]
           p == texts["pdf-metadata"]
           t == texts["title-page"]
           l == texts["later"]
           a == t \o l
           w == f \o p \o a
           r == DeriveRegion(w)
           text == [s \in ToSet(RegionSources) |-> IF s = "first-pages" THEN a ELSE texts[s]]
           m == [s \in ToSet(RegionSources) |->
                   Cardinality(FieldsOf(r) \cap FieldsOf(DeriveRegion(text[s])))]
           best == RegionSources[Min({i \in DOMAIN RegionSources :
                     \A u \in ToSet(RegionSources) : m[u] <= m[RegionSources[i]]})]
           marks == UNION {ToSet(texts[s]) : s \in DOMAIN texts}
           found == RegionOf(texts)
<1>1. /\ f \in Seq(RegionMark) /\ p \in Seq(RegionMark) /\ t \in Seq(RegionMark) /\ l \in Seq(RegionMark)
      /\ DOMAIN texts = {"filename", "pdf-metadata", "title-page", "later"}
  BY DEF RegionTextsOk
<1>2. ToSet(RegionSources) = {"filename", "pdf-metadata", "title-page", "first-pages"}
  <2>1. DOMAIN RegionSources = 1..4
    BY DEF RegionSources
  <2>2. /\ RegionSources[1] = "filename" /\ RegionSources[2] = "pdf-metadata"
        /\ RegionSources[3] = "title-page" /\ RegionSources[4] = "first-pages"
    BY DEF RegionSources
  <2>3. 1..4 = {1, 2, 3, 4}
    OBVIOUS
  <2>4. ToSet(RegionSources) = {RegionSources[i] : i \in {1, 2, 3, 4}}
    BY <2>1, <2>3 DEF ToSet
  <2> QED BY <2>2, <2>4
<1>3. a \in Seq(RegionMark)
  BY <1>1
<1> HIDE DEF f, p, t, l, a
<1>4. found.region = r /\ found.confidence = Confidence(r) /\ found.source = IF m[best] > 0 THEN best ELSE "none"
  <2> DEFINE matches(s) == Cardinality(FieldsOf(r) \cap FieldsOf(DeriveRegion(text[s])))
             first == RegionSources[Min({i \in DOMAIN RegionSources :
                        \A u \in ToSet(RegionSources) : matches(u) <= matches(RegionSources[i])})]
  <2>1. found = [region |-> r, confidence |-> Confidence(r), source |-> IF matches(first) > 0 THEN first ELSE "none"]
    BY DEF RegionOf, f, p, t, l, a
  <2>2. \A u \in ToSet(RegionSources) : matches(u) = m[u]
    OBVIOUS
  <2>3. \A i \in DOMAIN RegionSources : RegionSources[i] \in ToSet(RegionSources)
    BY DEF ToSet
  <2> HIDE DEF matches, m, text, r
  <2>4. first = best
    <3>1. {i \in DOMAIN RegionSources : \A u \in ToSet(RegionSources) : matches(u) <= matches(RegionSources[i])}
            = {i \in DOMAIN RegionSources : \A u \in ToSet(RegionSources) : m[u] <= m[RegionSources[i]]}
      BY <2>2, <2>3
    <3> QED BY <3>1
  <2>5. best \in ToSet(RegionSources)
    <3>1. \A s \in ToSet(RegionSources) : m[s] \in Nat
      BY FieldsAreFew DEF m
    <3> QED BY <3>1, BestSource
  <2>6. matches(first) = m[best]
    BY <2>2, <2>4, <2>5
  <2> HIDE DEF first, best, found
  <2> QED BY <2>1, <2>4, <2>6
<1>5. \A s \in ToSet(RegionSources) : m[s] \in Nat
  BY FieldsAreFew
<1>6. best \in ToSet(RegionSources) /\ \A s \in ToSet(RegionSources) : m[s] <= m[best]
  <2> HIDE DEF m
  <2> QED BY <1>5, BestSource
<1> HIDE DEF best, found
<1>7. \A i \in 1..Len(w) : w[i] \in RegionMark /\ w[i] \in marks
  <2>1. ASSUME NEW x \in Seq(RegionMark), NEW y \in Seq(RegionMark), NEW i \in 1..Len(x \o y)
        PROVE  (\E j \in DOMAIN x : (x \o y)[i] = x[j]) \/ (\E j \in DOMAIN y : (x \o y)[i] = y[j])
    <3>1. \/ \E j \in 1..Len(x) : i = 0 + j
          \/ \E j \in 1..Len(y) : i = Len(x) + j
      BY ConcatIs
    <3>2. Within(x, x \o y, 0) /\ Within(y, x \o y, Len(x))
      BY ConcatIs
    <3> QED BY <3>1, <3>2 DEF Within
  <2>2. \A x \in {f, p, t, l} : \A j \in DOMAIN x : x[j] \in marks
    <3>1. \A s \in DOMAIN texts : \A j \in DOMAIN texts[s] : texts[s][j] \in marks
      BY DEF ToSet
    <3> HIDE DEF marks
    <3> QED BY <1>1, <3>1 DEF f, p, t, l
  <2>3. w \in Seq(RegionMark) /\ \A i \in 1..Len(w) : \E x \in {f, p, a} : \E j \in 1..Len(x) : w[i] = x[j]
    <3>1. PutTogether(w, f, p, a)
      BY <1>1, <1>3, MarksOfParts
    <3> HIDE DEF w
    <3> QED BY <3>1 DEF PutTogether
  <2>4. \A j \in 1..Len(a) : a[j] \in marks
    BY <1>1, <2>1, <2>2 DEF a
  <2> HIDE DEF w, marks
  <2> SUFFICES ASSUME NEW i \in 1..Len(w) PROVE w[i] \in RegionMark /\ w[i] \in marks
    OBVIOUS
  <2>5. PICK x \in {f, p, a} : \E j \in 1..Len(x) : w[i] = x[j]
    BY <2>3
  <2>6. PICK j \in 1..Len(x) : w[i] = x[j]
    BY <2>5
  <2>7. x[j] \in marks
    <3>1. CASE x = a
      BY <2>4, <3>1
    <3>2. CASE x \in {f, p}
      <4>1. x \in {f, p, t, l} /\ x \in Seq(RegionMark)
        BY <1>1, <3>2
      <4>2. j \in DOMAIN x
        BY <4>1
      <4> QED BY <2>2, <4>1, <4>2
    <3> QED BY <3>1, <3>2
  <2> QED BY <2>3, <2>6, <2>7
<1>8. ASSUME NEW x \in {f, p, a} PROVE \E s \in ToSet(RegionSources) : text[s] = x
  BY <1>2 DEF f, p
<1>9. w \in Seq(RegionMark)
  BY <1>1, <1>3
<1>10. ASSUME NEW field \in FieldsOf(r), NEW x \in {f, p, a}, field \in FieldsOf(DeriveRegion(x))
       PROVE  m[best] > 0
  <2>1. PICK s \in ToSet(RegionSources) : text[s] = x
    BY <1>8
  <2> HIDE DEF text, r
  <2>2. field \in FieldsOf(r) \cap FieldsOf(DeriveRegion(text[s]))
    BY <1>10, <2>1
  <2>3. Cardinality(FieldsOf(r) \cap FieldsOf(DeriveRegion(text[s]))) > 0
    BY <2>2, FieldsAreFew
  <2>4. m[s] > 0
    BY <2>3
  <2> HIDE DEF m
  <2> QED BY <1>5, <1>6, <2>4
<1>11. (found.confidence # 0) <=> (FieldsOf(r) # {})
  <2>1. FieldsOf(r) # {} <=> r.place # 0 \/ r.district # 0 \/ r.state # 0
    <3> HIDE DEF r
    <3>1. r.place # 0 => <<"place", r.place>> \in FieldsOf(r)
      BY DEF FieldsOf
    <3>2. r.district # 0 => <<"district", r.district>> \in FieldsOf(r)
      BY DEF FieldsOf
    <3>3. r.state # 0 => <<"state", r.state>> \in FieldsOf(r)
      BY DEF FieldsOf
    <3>4. r.place = 0 /\ r.district = 0 /\ r.state = 0 => FieldsOf(r) = {}
      BY DEF FieldsOf
    <3> QED BY <3>1, <3>2, <3>3, <3>4
  <2>2. Confidence(r) # 0 <=> r.place # 0 \/ r.district # 0 \/ r.state # 0
    <3> HIDE DEF r
    <3> QED BY DEF Confidence
  <2> QED BY <1>4, <2>1, <2>2
<1>12. r.state # 0 => [kind |-> "state", value |-> r.state] \in marks
  <2> SUFFICES ASSUME r.state # 0 PROVE [kind |-> "state", value |-> r.state] \in marks
    OBVIOUS
  <2>1. PICK i \in 1..Len(w) : w[i].kind = "state"
    BY <1>9, StateOfText
  <2>2. PICK n \in 1..Len(w) : w[n].kind = "state" /\ r.state = w[n].value
    BY <1>9, <2>1, StateOfText
  <2> QED BY <1>7, <2>2, MarkIs
<1>13. r.district # 0 => [kind |-> "district", value |-> r.district] \in marks
  <2> SUFFICES ASSUME r.district # 0 PROVE [kind |-> "district", value |-> r.district] \in marks
    OBVIOUS
  <2>1. PICK i \in 1..Len(w) : w[i].kind \in {"district"}
    BY <1>9, DistrictOfText
  <2>2. PICK n \in 1..Len(w) : w[n].kind \in {"district"} /\ \A j \in 1..(n - 1) : w[j].kind \notin {"district"}
    BY <1>9, <2>1, FirstMark
  <2>3. r.district = w[n].value
    BY <1>9, <2>2, DistrictOfText
  <2> QED BY <1>7, <2>2, <2>3, MarkIs
<1>14. r.place # 0 => \E k \in {"town", "ofTown", "welcome"} : [kind |-> k, value |-> r.place] \in marks
  <2> SUFFICES ASSUME r.place # 0 PROVE \E k \in {"town", "ofTown", "welcome"} : [kind |-> k, value |-> r.place] \in marks
    OBVIOUS
  <2>1. PICK n \in 1..Len(w) : w[n].kind \in {"town", "ofTown", "welcome"} /\ w[n].value = r.place
    BY <1>9, PlaceOfText
  <2> QED BY <1>7, <2>1, MarkIs
<1>15. r.state # 0 \/ r.district # 0 => found.source # "none"
  <2> SUFFICES ASSUME r.state # 0 \/ r.district # 0 PROVE found.source # "none"
    OBVIOUS
  <2>1. m[best] > 0
    <3>1. CASE r.state # 0
      <4>1. PICK x \in {f, p, a} : DeriveRegion(x).state = r.state
        BY <1>1, <1>3, <3>1, FieldOfPart
      <4>2. <<"state", r.state>> \in FieldsOf(r) /\ <<"state", r.state>> \in FieldsOf(DeriveRegion(x))
        <5> HIDE DEF r
        <5> QED BY <3>1, <4>1 DEF FieldsOf
      <4> QED BY <1>10, <4>2
    <3>2. CASE r.district # 0
      <4>1. PICK x \in {f, p, a} : DeriveRegion(x).district = r.district
        BY <1>1, <1>3, <3>2, FieldOfPart
      <4>2. <<"district", r.district>> \in FieldsOf(r) /\ <<"district", r.district>> \in FieldsOf(DeriveRegion(x))
        <5> HIDE DEF r
        <5> QED BY <3>2, <4>1 DEF FieldsOf
      <4> QED BY <1>10, <4>2
    <3> QED BY <3>1, <3>2
  <2>2. found.source = best
    BY <1>4, <2>1
  <2> HIDE DEF m, r
  <2> QED BY <1>2, <1>6, <2>2
<1> HIDE DEF r, marks, m, w
<1>16. found.region = r
  BY <1>4
<1> QED BY <1>11, <1>12, <1>13, <1>14, <1>15, <1>16 DEF RegionIsEvidenced, marks, found

-----------------------------------------------------------------------------
(* The registry of modules.                                                *)

NameKinds == {"id", "permissions", "jobs", "tables"}
Registries(N) ==
  [refused : BOOLEAN, id : SUBSET N, permissions : SUBSET N, jobs : SUBSET N, tables : SUBSET N]

AddName(r, kind, name) ==
  IF r.refused \/ name \in r[kind] THEN [r EXCEPT !.refused = TRUE] ELSE [r EXCEPT ![kind] = @ \cup {name}]

LEMMA AddNameIs ==
  ASSUME NEW N, NEW r \in Registries(N), NEW kind \in NameKinds, NEW name \in N, NEW q, q = AddName(r, kind, name)
  PROVE  /\ q \in Registries(N)
         /\ q.refused <=> r.refused \/ name \in r[kind]
         /\ ~q.refused => /\ q[kind] = r[kind] \cup {name}
                          /\ \A k \in NameKinds \ {kind} : q[k] = r[k]
<1>1. CASE r.refused \/ name \in r[kind]
  <2>1. q = [r EXCEPT !.refused = TRUE]
    BY <1>1 DEF AddName
  <2> QED BY <1>1, <2>1 DEF Registries
<1>2. CASE ~(r.refused \/ name \in r[kind])
  <2>1. q = [r EXCEPT ![kind] = @ \cup {name}]
    BY <1>2 DEF AddName
  <2>2. CASE kind = "id"
    <3>1. q = [r EXCEPT !.id = @ \cup {name}]
      BY <2>1, <2>2
    <3> QED BY <1>2, <2>2, <3>1 DEF Registries, NameKinds
  <2>3. CASE kind = "permissions"
    <3>1. q = [r EXCEPT !.permissions = @ \cup {name}]
      BY <2>1, <2>3
    <3> QED BY <1>2, <2>3, <3>1 DEF Registries, NameKinds
  <2>4. CASE kind = "jobs"
    <3>1. q = [r EXCEPT !.jobs = @ \cup {name}]
      BY <2>1, <2>4
    <3> QED BY <1>2, <2>4, <3>1 DEF Registries, NameKinds
  <2>5. CASE kind = "tables"
    <3>1. q = [r EXCEPT !.tables = @ \cup {name}]
      BY <2>1, <2>5
    <3> QED BY <1>2, <2>5, <3>1 DEF Registries, NameKinds
  <2> QED BY <2>2, <2>3, <2>4, <2>5 DEF NameKinds
<1> QED BY <1>1, <1>2

LEMMA SameRegistry ==
  ASSUME NEW N, NEW r \in Registries(N), NEW q \in Registries(N), r.refused = q.refused,
         \A k \in NameKinds : r[k] = q[k]
  PROVE  r = q
<1>1. r["id"] = r.id /\ r["permissions"] = r.permissions /\ r["jobs"] = r.jobs /\ r["tables"] = r.tables
  OBVIOUS
<1>2. q["id"] = q.id /\ q["permissions"] = q.permissions /\ q["jobs"] = q.jobs /\ q["tables"] = q.tables
  OBVIOUS
<1>3. r.id = q.id /\ r.permissions = q.permissions /\ r.jobs = q.jobs /\ r.tables = q.tables
  BY <1>1, <1>2 DEF NameKinds
<1> QED BY <1>3 DEF Registries

Distinct(names) == \A i, j \in DOMAIN names : names[i] = names[j] => i = j
Fresh(names, S) == Distinct(names) /\ \A i \in DOMAIN names : names[i] \notin S

\* q is r with the names, of every kind in K the sequence names[kind], or
\* refused because one of them is not new.
Claimed(q, r, names, K, N) ==
  /\ q \in Registries(N)
  /\ q.refused <=> r.refused \/ \E kind \in K : ~Fresh(names[kind], r[kind])
  /\ ~q.refused => /\ \A kind \in K : q[kind] = r[kind] \cup ToSet(names[kind])
                   /\ \A kind \in NameKinds \ K : q[kind] = r[kind]

ClaimFold(g, r, kind, names) ==
  g = [s \in SUBSET DOMAIN names |-> IF s = {} THEN r ELSE AddName(g[s \ {Max(s)}], kind, names[Max(s)])]

LEMMA ClaimFoldExists ==
  ASSUME NEW N, NEW r \in Registries(N), NEW kind \in NameKinds, NEW names \in Seq(N)
  PROVE  \E g : ClaimFold(g, r, kind, names)
<1> DEFINE n == Len(names)
           V == Registries(N)
           chosen == [s \in SUBSET (1..n) |-> Max(s)]
           step == [t \in (1..n) \X V |-> AddName(t[2], kind, names[t[1]])]
<1>1. n \in Nat /\ DOMAIN names = 1..n /\ \A i \in 1..n : names[i] \in N
  OBVIOUS
<1> HIDE DEF n, V
<1>2. step \in [(1..n) \X V -> V]
  BY <1>1, AddNameIs DEF V
<1>3. \A i \in 1..n, c \in V : step[i, c] = AddName(c, kind, names[i])
  OBVIOUS
<1> HIDE DEF step
<1>4. PICK g \in [SUBSET (1..n) -> V] : FoldOf(g, 1..n, r, chosen, step)
  BY <1>1, <1>2, LoopExists DEF V
<1>5. ASSUME NEW s \in SUBSET (1..n), s # {}
      PROVE  step[chosen[s], g[s \ {chosen[s]}]] = AddName(g[s \ {Max(s)}], kind, names[Max(s)])
  <2>1. chosen[s] = Max(s) /\ Max(s) \in 1..n
    BY <1>1, <1>5, MaxOfPart
  <2>2. g[s \ {Max(s)}] \in V
    OBVIOUS
  <2> QED BY <1>3, <2>1, <2>2
<1>6. ClaimFold(g, r, kind, names)
  BY <1>1, <1>4, <1>5 DEF FoldOf, ClaimFold
<1> QED BY <1>6

\* The first k names, claimed.
ClaimedSoFar(q, r, kind, names, k, N) ==
  /\ q \in Registries(N)
  /\ q.refused <=> \/ r.refused
                   \/ \E i, j \in 1..k : i # j /\ names[i] = names[j]
                   \/ \E i \in 1..k : names[i] \in r[kind]
  /\ ~q.refused => /\ q[kind] = r[kind] \cup {names[i] : i \in 1..k}
                   /\ \A other \in NameKinds \ {kind} : q[other] = r[other]

LEMMA ClaimedOneMore ==
  ASSUME NEW N, NEW r \in Registries(N), NEW kind \in NameKinds, NEW names \in Seq(N),
         NEW k \in 1..Len(names), NEW p, ClaimedSoFar(p, r, kind, names, k - 1, N),
         NEW q, q = AddName(p, kind, names[k])
  PROVE  ClaimedSoFar(q, r, kind, names, k, N)
<1>1. p \in Registries(N) /\ names[k] \in N
  BY DEF ClaimedSoFar
<1>2. /\ q \in Registries(N)
      /\ q.refused <=> p.refused \/ names[k] \in p[kind]
      /\ ~q.refused => /\ q[kind] = p[kind] \cup {names[k]}
                       /\ \A other \in NameKinds \ {kind} : q[other] = p[other]
  BY <1>1, AddNameIs
<1>3. 1..k = 1..(k - 1) \cup {k} /\ k \notin 1..(k - 1)
  OBVIOUS
<1>4. {names[i] : i \in 1..k} = {names[i] : i \in 1..(k - 1)} \cup {names[k]}
  BY <1>3
<1>5. CASE p.refused
  BY <1>2, <1>3, <1>5 DEF ClaimedSoFar
<1>6. CASE ~p.refused
  <2>1. /\ ~r.refused
        /\ \A i, j \in 1..(k - 1) : names[i] = names[j] => i = j
        /\ \A i \in 1..(k - 1) : names[i] \notin r[kind]
        /\ p[kind] = r[kind] \cup {names[i] : i \in 1..(k - 1)}
        /\ \A other \in NameKinds \ {kind} : p[other] = r[other]
    BY <1>6 DEF ClaimedSoFar
  <2>2. names[k] \in p[kind] <=> names[k] \in r[kind] \/ \E i \in 1..(k - 1) : names[i] = names[k]
    BY <2>1
  <2>3. (\E i, j \in 1..k : i # j /\ names[i] = names[j]) <=> \E i \in 1..(k - 1) : names[i] = names[k]
    BY <1>3, <2>1
  <2>4. (\E i \in 1..k : names[i] \in r[kind]) <=> names[k] \in r[kind]
    BY <1>3, <2>1
  <2>5. q.refused <=> \/ r.refused
                      \/ \E i, j \in 1..k : i # j /\ names[i] = names[j]
                      \/ \E i \in 1..k : names[i] \in r[kind]
    BY <1>2, <1>6, <2>1, <2>2, <2>3, <2>4
  <2>6. ~q.refused => /\ q[kind] = r[kind] \cup {names[i] : i \in 1..k}
                      /\ \A other \in NameKinds \ {kind} : q[other] = r[other]
    BY <1>2, <1>4, <2>1
  <2> QED BY <1>2, <2>5, <2>6 DEF ClaimedSoFar
<1> QED BY <1>5, <1>6

\* A claim takes all names, or is refused.
LEMMA ClaimIs ==
  ASSUME NEW N, NEW r \in Registries(N), NEW kind \in NameKinds, NEW names, names[kind] \in Seq(N)
  PROVE  Claimed(Claim(r, kind, names[kind]), r, names, {kind}, N)
<1> DEFINE a == names[kind]
           n == Len(a)
           G == CHOOSE g : ClaimFold(g, r, kind, a)
           Good == {k \in 0..n : ClaimedSoFar(G[1..k], r, kind, a, k, N)}
           q == Claim(r, kind, a)
<1>1. n \in Nat /\ DOMAIN a = 1..n /\ a \in Seq(N)
  OBVIOUS
<1> HIDE DEF a, n
<1>2. q = G[DOMAIN a]
  BY DEF Claim, FoldLeft, MapThenFoldSet, ClaimFold, AddName
<1>3. ClaimFold(G, r, kind, a)
  BY <1>1, ClaimFoldExists
<1> HIDE DEF G, q
<1>4. 0 \in Good
  <2>1. 1..0 = {} /\ {} \in SUBSET DOMAIN a
    OBVIOUS
  <2>2. G[1..0] = r
    BY <1>3, <2>1 DEF ClaimFold
  <2>3. ClaimedSoFar(r, r, kind, a, 0, N)
    BY DEF ClaimedSoFar
  <2> QED BY <1>1, <2>2, <2>3
<1>5. ASSUME NEW k \in 1..n, k - 1 \in Good PROVE k \in Good
  <2>1. G[1..k] = AddName(G[1..(k - 1)], kind, a[k])
    <3>1. 1..k \in (SUBSET (1..n)) \ {{}} /\ Max(1..k) = k /\ (1..k) \ {Max(1..k)} = 1..(k - 1)
      BY <1>1, MaxOfPrefix
    <3> HIDE DEF Good
    <3>2. G[1..k] = AddName(G[(1..k) \ {Max(1..k)}], kind, a[Max(1..k)])
      BY <1>1, <1>3, <3>1 DEF ClaimFold
    <3> QED BY <3>1, <3>2
  <2>2. ClaimedSoFar(G[1..(k - 1)], r, kind, a, k - 1, N)
    BY <1>5
  <2>3. ClaimedSoFar(G[1..k], r, kind, a, k, N)
    BY <1>1, <2>1, <2>2, ClaimedOneMore DEF n
  <2> QED BY <1>1, <2>3
<1> HIDE DEF Good
<1>6. 0..n \subseteq Good
  BY <1>1, <1>4, <1>5, ByPrefixes
<1>7. ClaimedSoFar(q, r, kind, a, n, N)
  BY <1>1, <1>2, <1>6 DEF Good
<1>8. Fresh(a, r[kind]) <=> /\ ~\E i, j \in 1..n : i # j /\ a[i] = a[j]
                           /\ ~\E i \in 1..n : a[i] \in r[kind]
  BY <1>1 DEF Fresh, Distinct
<1>9. ToSet(a) = {a[i] : i \in 1..n}
  BY <1>1 DEF ToSet
<1>10. Claimed(q, r, names, {kind}, N)
  <2>1. q \in Registries(N) /\ (q.refused <=> r.refused \/ ~Fresh(a, r[kind]))
    BY <1>7, <1>8 DEF ClaimedSoFar
  <2>2. ~q.refused => /\ q[kind] = r[kind] \cup ToSet(a)
                      /\ \A other \in NameKinds \ {kind} : q[other] = r[other]
    BY <1>7, <1>9 DEF ClaimedSoFar
  <2> QED BY <2>1, <2>2 DEF Claimed, a
<1> QED BY <1>10 DEF q, a

\* What a module claims; its id is one name.
ModuleOk(m, N) == m.id \in N /\ m.permissions \in Seq(N) /\ m.jobs \in Seq(N) /\ m.tables \in Seq(N)
ClaimsOf(m) == [kind \in NameKinds |-> IF kind = "id" THEN <<m.id>> ELSE m[kind]]

LEMMA ClaimsAre ==
  ASSUME NEW N, NEW m, ModuleOk(m, N)
  PROVE  /\ ClaimsOf(m)["id"] = <<m.id>> /\ ClaimsOf(m)["permissions"] = m.permissions
         /\ ClaimsOf(m)["jobs"] = m.jobs /\ ClaimsOf(m)["tables"] = m.tables
         /\ \A kind \in NameKinds : ClaimsOf(m)[kind] \in Seq(N)
<1>1. /\ ClaimsOf(m)["id"] = <<m.id>> /\ ClaimsOf(m)["permissions"] = m.permissions
      /\ ClaimsOf(m)["jobs"] = m.jobs /\ ClaimsOf(m)["tables"] = m.tables
  BY DEF ClaimsOf, NameKinds
<1>2. /\ ClaimsOf(m)["id"] \in Seq(N) /\ ClaimsOf(m)["permissions"] \in Seq(N)
      /\ ClaimsOf(m)["jobs"] \in Seq(N) /\ ClaimsOf(m)["tables"] \in Seq(N)
  BY <1>1 DEF ModuleOk
<1> QED BY <1>1, <1>2 DEF NameKinds

\* Claims one after the other, of different kinds.
LEMMA ClaimedTwice ==
  ASSUME NEW N, NEW names, NEW K \in SUBSET NameKinds, NEW L \in SUBSET NameKinds, K \cap L = {},
         NEW r, NEW p, NEW q, Claimed(p, r, names, K, N), Claimed(q, p, names, L, N)
  PROVE  Claimed(q, r, names, K \cup L, N)
<1>1. /\ q \in Registries(N)
      /\ p.refused <=> r.refused \/ \E kind \in K : ~Fresh(names[kind], r[kind])
      /\ q.refused <=> p.refused \/ \E kind \in L : ~Fresh(names[kind], p[kind])
  BY DEF Claimed
<1>2. CASE p.refused
  BY <1>1, <1>2 DEF Claimed
<1>3. CASE ~p.refused
  <2>1. /\ \A kind \in K : p[kind] = r[kind] \cup ToSet(names[kind])
        /\ \A kind \in NameKinds \ K : p[kind] = r[kind]
    BY <1>3 DEF Claimed
  <2>2. ~q.refused => /\ \A kind \in L : q[kind] = p[kind] \cup ToSet(names[kind])
                      /\ \A kind \in NameKinds \ L : q[kind] = p[kind]
    BY DEF Claimed
  <2>3. \A kind \in L : p[kind] = r[kind]
    BY <2>1
  <2>4. q.refused <=> r.refused \/ \E kind \in K \cup L : ~Fresh(names[kind], r[kind])
    BY <1>1, <1>3, <2>3
  <2>5. ~q.refused => /\ \A kind \in K \cup L : q[kind] = r[kind] \cup ToSet(names[kind])
                      /\ \A kind \in NameKinds \ (K \cup L) : q[kind] = r[kind]
    BY <2>1, <2>2, <2>3
  <2> QED BY <1>1, <2>4, <2>5 DEF Claimed
<1> QED BY <1>2, <1>3

LEMMA RegisterModuleIs ==
  ASSUME NEW N, NEW r \in Registries(N), NEW m, ModuleOk(m, N)
  PROVE  Claimed(RegisterModule(r, m), r, ClaimsOf(m), {"id", "permissions", "jobs"}, N)
<1> DEFINE c == ClaimsOf(m)
           p1 == Claim(r, "id", c["id"])
           p2 == Claim(p1, "permissions", c["permissions"])
           p3 == Claim(p2, "jobs", c["jobs"])
<1>1. /\ c["id"] = <<m.id>> /\ c["permissions"] = m.permissions /\ c["jobs"] = m.jobs
      /\ \A kind \in NameKinds : c[kind] \in Seq(N)
  BY ClaimsAre
<1>2. RegisterModule(r, m) = p3
  BY <1>1 DEF RegisterModule
<1>3. "id" \in NameKinds /\ "permissions" \in NameKinds /\ "jobs" \in NameKinds
  BY DEF NameKinds
<1> HIDE DEF c
<1>4. Claimed(p1, r, c, {"id"}, N)
  BY <1>1, <1>3, ClaimIs
<1> HIDE DEF p1
<1>5. Claimed(p2, p1, c, {"permissions"}, N)
  <2>1. p1 \in Registries(N)
    BY <1>4 DEF Claimed
  <2> QED BY <1>1, <1>3, <2>1, ClaimIs
<1> HIDE DEF p2
<1>6. Claimed(p3, p2, c, {"jobs"}, N)
  <2>1. p2 \in Registries(N)
    BY <1>5 DEF Claimed
  <2> QED BY <1>1, <1>3, <2>1, ClaimIs
<1> HIDE DEF p3
<1>7. Claimed(p2, r, c, {"id"} \cup {"permissions"}, N)
  <2>1. {"id"} \in SUBSET NameKinds /\ {"permissions"} \in SUBSET NameKinds /\ {"id"} \cap {"permissions"} = {}
    BY <1>3
  <2> QED BY <1>4, <1>5, <2>1, ClaimedTwice
<1>8. Claimed(p3, r, c, ({"id"} \cup {"permissions"}) \cup {"jobs"}, N)
  <2>1. {"id"} \cup {"permissions"} \in SUBSET NameKinds /\ {"jobs"} \in SUBSET NameKinds
        /\ ({"id"} \cup {"permissions"}) \cap {"jobs"} = {}
    BY <1>3
  <2> QED BY <1>6, <1>7, <2>1, ClaimedTwice
<1>9. ({"id"} \cup {"permissions"}) \cup {"jobs"} = {"id", "permissions", "jobs"}
  OBVIOUS
<1>10. Claimed(p3, r, c, {"id", "permissions", "jobs"}, N)
  BY <1>8, <1>9, Zenon
<1> QED BY <1>2, <1>10 DEF c

\* The claims of the first k modules.
ClaimsUpto(ms, kind, k) == UNION {ToSet(ClaimsOf(ms[i])[kind]) : i \in 1..k}
AllFresh(ms, kind, k, S) ==
  /\ \A i \in 1..k : Fresh(ClaimsOf(ms[i])[kind], S)
  /\ \A i, j \in 1..k : i # j => ToSet(ClaimsOf(ms[i])[kind]) \cap ToSet(ClaimsOf(ms[j])[kind]) = {}

LEMMA OneMoreFresh ==
  ASSUME NEW ms, NEW kind, NEW k \in Nat \ {0}, NEW S
  PROVE  /\ ClaimsUpto(ms, kind, k) = ClaimsUpto(ms, kind, k - 1) \cup ToSet(ClaimsOf(ms[k])[kind])
         /\ AllFresh(ms, kind, k, S) <=>
              /\ AllFresh(ms, kind, k - 1, S)
              /\ Fresh(ClaimsOf(ms[k])[kind], S \cup ClaimsUpto(ms, kind, k - 1))
<1> DEFINE c == [i \in 1..k |-> ClaimsOf(ms[i])[kind]]
           U == ClaimsUpto(ms, kind, k - 1)
<1>1. 1..k = 1..(k - 1) \cup {k} /\ k \notin 1..(k - 1) /\ 1..(k - 1) \subseteq 1..k /\ k \in 1..k
  OBVIOUS
<1>2. \A i \in 1..k : ClaimsOf(ms[i])[kind] = c[i]
  OBVIOUS
<1> HIDE DEF c
<1>3. U = UNION {ToSet(c[i]) : i \in 1..(k - 1)} /\ ClaimsUpto(ms, kind, k) = UNION {ToSet(c[i]) : i \in 1..k}
  BY <1>1, <1>2 DEF ClaimsUpto
<1>4. ClaimsUpto(ms, kind, k) = U \cup ToSet(c[k])
  BY <1>1, <1>3
<1>5. Fresh(c[k], S \cup U) <=> Fresh(c[k], S) /\ \A i \in 1..(k - 1) : ToSet(c[i]) \cap ToSet(c[k]) = {}
  <2>1. \A i \in DOMAIN c[k] : c[k][i] \in ToSet(c[k])
    BY DEF ToSet
  <2>2. \A x \in ToSet(c[k]) : \E i \in DOMAIN c[k] : x = c[k][i]
    BY DEF ToSet
  <2>3. \A x : x \in U <=> \E i \in 1..(k - 1) : x \in ToSet(c[i])
    BY <1>3
  <2> HIDE DEF U
  <2> QED BY <2>1, <2>2, <2>3 DEF Fresh
<1>6. /\ AllFresh(ms, kind, k, S) <=> /\ \A i \in 1..k : Fresh(c[i], S)
                                      /\ \A i, j \in 1..k : i # j => ToSet(c[i]) \cap ToSet(c[j]) = {}
      /\ AllFresh(ms, kind, k - 1, S) <=>
           /\ \A i \in 1..(k - 1) : Fresh(c[i], S)
           /\ \A i, j \in 1..(k - 1) : i # j => ToSet(c[i]) \cap ToSet(c[j]) = {}
  BY <1>1, <1>2 DEF AllFresh
<1>7. (\A i, j \in 1..k : i # j => ToSet(c[i]) \cap ToSet(c[j]) = {}) <=>
        /\ \A i, j \in 1..(k - 1) : i # j => ToSet(c[i]) \cap ToSet(c[j]) = {}
        /\ \A i \in 1..(k - 1) : ToSet(c[i]) \cap ToSet(c[k]) = {}
  <2>1. \A i, j : ToSet(c[i]) \cap ToSet(c[j]) = ToSet(c[j]) \cap ToSet(c[i])
    OBVIOUS
  <2> QED BY <1>1, <2>1
<1>8. AllFresh(ms, kind, k, S) <=> AllFresh(ms, kind, k - 1, S) /\ Fresh(c[k], S \cup U)
  BY <1>1, <1>5, <1>6, <1>7
<1> QED BY <1>1, <1>2, <1>4, <1>8

\* The first k modules, their claims of the kinds in K registered.
RegisteredSoFar(q, r, ms, K, k, N) ==
  /\ q \in Registries(N)
  /\ q.refused <=> r.refused \/ \E kind \in K : ~AllFresh(ms, kind, k, r[kind])
  /\ ~q.refused => /\ \A kind \in K : q[kind] = r[kind] \cup ClaimsUpto(ms, kind, k)
                   /\ \A kind \in NameKinds \ K : q[kind] = r[kind]

LEMMA NothingRegistered ==
  ASSUME NEW N, NEW r \in Registries(N), NEW ms, NEW K \in SUBSET NameKinds
  PROVE  RegisteredSoFar(r, r, ms, K, 0, N)
<1>1. \A kind : ClaimsUpto(ms, kind, 0) = {} /\ \A S : AllFresh(ms, kind, 0, S)
  BY DEF ClaimsUpto, AllFresh
<1> QED BY <1>1 DEF RegisteredSoFar

LEMMA RegisteredOneMore ==
  ASSUME NEW N, NEW r, NEW p, NEW q, NEW ms, NEW K \in SUBSET NameKinds, NEW k \in Nat \ {0},
         RegisteredSoFar(p, r, ms, K, k - 1, N), Claimed(q, p, ClaimsOf(ms[k]), K, N)
  PROVE  RegisteredSoFar(q, r, ms, K, k, N)
<1> DEFINE c == ClaimsOf(ms[k])
<1>1. /\ q \in Registries(N)
      /\ p.refused <=> r.refused \/ \E kind \in K : ~AllFresh(ms, kind, k - 1, r[kind])
      /\ q.refused <=> p.refused \/ \E kind \in K : ~Fresh(c[kind], p[kind])
  BY DEF RegisteredSoFar, Claimed
<1>2. \A kind : ClaimsUpto(ms, kind, k) = ClaimsUpto(ms, kind, k - 1) \cup ToSet(c[kind])
  BY OneMoreFresh
<1>3. \A kind, S : AllFresh(ms, kind, k, S) <=>
                     AllFresh(ms, kind, k - 1, S) /\ Fresh(c[kind], S \cup ClaimsUpto(ms, kind, k - 1))
  BY OneMoreFresh
<1>4. CASE p.refused
  <2>1. r.refused \/ \E kind \in K : ~AllFresh(ms, kind, k, r[kind])
    BY <1>1, <1>3, <1>4
  <2> QED BY <1>1, <1>4, <2>1 DEF RegisteredSoFar
<1>5. CASE ~p.refused
  <2>1. /\ \A kind \in K : p[kind] = r[kind] \cup ClaimsUpto(ms, kind, k - 1)
        /\ \A kind \in NameKinds \ K : p[kind] = r[kind]
        /\ ~r.refused /\ \A kind \in K : AllFresh(ms, kind, k - 1, r[kind])
    BY <1>1, <1>5 DEF RegisteredSoFar
  <2>2. ~q.refused => /\ \A kind \in K : q[kind] = p[kind] \cup ToSet(c[kind])
                      /\ \A kind \in NameKinds \ K : q[kind] = p[kind]
    BY DEF Claimed
  <2>3. \A kind \in K : AllFresh(ms, kind, k, r[kind]) <=> Fresh(c[kind], p[kind])
    BY <1>3, <2>1
  <2>4. q.refused <=> r.refused \/ \E kind \in K : ~AllFresh(ms, kind, k, r[kind])
    BY <1>1, <1>5, <2>1, <2>3
  <2>5. \A kind \in K : p[kind] \cup ToSet(c[kind]) = r[kind] \cup ClaimsUpto(ms, kind, k)
    BY <1>2, <2>1
  <2>6. ~q.refused => /\ \A kind \in K : q[kind] = r[kind] \cup ClaimsUpto(ms, kind, k)
                      /\ \A kind \in NameKinds \ K : q[kind] = r[kind]
    BY <2>1, <2>2, <2>5
  <2> QED BY <1>1, <2>4, <2>6 DEF RegisteredSoFar
<1> QED BY <1>4, <1>5

ModulesOk(ms, N) == DOMAIN ms = 1..Len(ms) /\ Len(ms) \in Nat /\ \A i \in 1..Len(ms) : ModuleOk(ms[i], N)

ClaimTables(r, m) == Claim(r, "tables", m.tables)

LEMMA ClaimTablesIs ==
  ASSUME NEW N, NEW r \in Registries(N), NEW m, ModuleOk(m, N)
  PROVE  Claimed(ClaimTables(r, m), r, ClaimsOf(m), {"tables"}, N)
<1> DEFINE c == ClaimsOf(m)
<1>1. c["tables"] = m.tables /\ c["tables"] \in Seq(N) /\ "tables" \in NameKinds
  BY ClaimsAre DEF NameKinds
<1> HIDE DEF c
<1>2. Claimed(Claim(r, "tables", c["tables"]), r, c, {"tables"}, N)
  BY <1>1, ClaimIs
<1> QED BY <1>1, <1>2 DEF ClaimTables, c

RegisterFold(g, r, ms) ==
  g = [s \in SUBSET DOMAIN ms |-> IF s = {} THEN r ELSE RegisterModule(g[s \ {Max(s)}], ms[Max(s)])]

LEMMA RegisterFoldExists ==
  ASSUME NEW N, NEW r \in Registries(N), NEW ms, ModulesOk(ms, N)
  PROVE  \E g : RegisterFold(g, r, ms)
<1> DEFINE n == Len(ms)
           V == Registries(N)
           chosen == [s \in SUBSET (1..n) |-> Max(s)]
           step == [t \in (1..n) \X V |-> RegisterModule(t[2], ms[t[1]])]
<1>1. n \in Nat /\ DOMAIN ms = 1..n /\ \A i \in 1..n : ModuleOk(ms[i], N)
  BY DEF ModulesOk
<1>2. ASSUME NEW i \in 1..n, NEW c \in V PROVE RegisterModule(c, ms[i]) \in V
  <2>1. Claimed(RegisterModule(c, ms[i]), c, ClaimsOf(ms[i]), {"id", "permissions", "jobs"}, N)
    BY <1>1, RegisterModuleIs
  <2> QED BY <2>1 DEF Claimed
<1> HIDE DEF n, V
<1>3. step \in [(1..n) \X V -> V]
  BY <1>2
<1>4. \A i \in 1..n, c \in V : step[i, c] = RegisterModule(c, ms[i])
  OBVIOUS
<1> HIDE DEF step
<1>5. PICK g \in [SUBSET (1..n) -> V] : FoldOf(g, 1..n, r, chosen, step)
  BY <1>1, <1>3, LoopExists DEF V
<1>6. ASSUME NEW s \in SUBSET (1..n), s # {}
      PROVE  step[chosen[s], g[s \ {chosen[s]}]] = RegisterModule(g[s \ {Max(s)}], ms[Max(s)])
  <2>1. chosen[s] = Max(s) /\ Max(s) \in 1..n
    BY <1>1, <1>6, MaxOfPart
  <2>2. g[s \ {Max(s)}] \in V
    OBVIOUS
  <2> QED BY <1>4, <2>1, <2>2
<1>7. RegisterFold(g, r, ms)
  BY <1>1, <1>5, <1>6 DEF FoldOf, RegisterFold
<1> QED BY <1>7

\* register of every module.
LEMMA RegisteredAll ==
  ASSUME NEW N, NEW r \in Registries(N), NEW ms, ModulesOk(ms, N)
  PROVE  RegisteredSoFar(FoldLeft(RegisterModule, r, ms), r, ms, {"id", "permissions", "jobs"}, Len(ms), N)
<1> DEFINE n == Len(ms)
           K == {"id", "permissions", "jobs"}
           q == FoldLeft(RegisterModule, r, ms)
           G == CHOOSE g : RegisterFold(g, r, ms)
           Good == {k \in 0..n : RegisteredSoFar(G[1..k], r, ms, K, k, N)}
<1>1. n \in Nat /\ DOMAIN ms = 1..n /\ (\A i \in 1..n : ModuleOk(ms[i], N)) /\ K \in SUBSET NameKinds
  BY DEF ModulesOk, NameKinds
<1> HIDE DEF n
<1>2. q = G[DOMAIN ms]
  BY DEF FoldLeft, MapThenFoldSet, RegisterFold
<1>3. RegisterFold(G, r, ms)
  BY RegisterFoldExists
<1> HIDE DEF G, K, q
<1>4. 0 \in Good
  <2>1. 1..0 = {} /\ {} \in SUBSET DOMAIN ms
    OBVIOUS
  <2>2. G[1..0] = r
    BY <1>3, <2>1 DEF RegisterFold
  <2>3. RegisteredSoFar(r, r, ms, K, 0, N)
    BY <1>1, NothingRegistered
  <2> QED BY <1>1, <2>2, <2>3
<1>5. ASSUME NEW k \in 1..n, k - 1 \in Good PROVE k \in Good
  <2> DEFINE p == G[1..(k - 1)]
  <2>1. G[1..k] = RegisterModule(p, ms[k])
    <3>1. 1..k \in (SUBSET (1..n)) \ {{}} /\ Max(1..k) = k /\ (1..k) \ {Max(1..k)} = 1..(k - 1)
      BY <1>1, MaxOfPrefix
    <3> HIDE DEF Good
    <3>2. G[1..k] = RegisterModule(G[(1..k) \ {Max(1..k)}], ms[Max(1..k)])
      BY <1>1, <1>3, <3>1 DEF RegisterFold
    <3> QED BY <3>1, <3>2
  <2>2. RegisteredSoFar(p, r, ms, K, k - 1, N)
    BY <1>5
  <2> HIDE DEF p
  <2>3. Claimed(RegisterModule(p, ms[k]), p, ClaimsOf(ms[k]), K, N)
    <3>1. p \in Registries(N)
      BY <2>2 DEF RegisteredSoFar
    <3> QED BY <1>1, <3>1, RegisterModuleIs DEF K
  <2>4. k \in Nat \ {0}
    BY <1>1
  <2>5. RegisteredSoFar(RegisterModule(p, ms[k]), r, ms, K, k, N)
    BY <1>1, <2>2, <2>3, <2>4, RegisteredOneMore
  <2> QED BY <1>1, <2>1, <2>5
<1> HIDE DEF Good
<1>6. 0..n \subseteq Good
  BY <1>1, <1>4, <1>5, ByPrefixes
<1>7. RegisteredSoFar(q, r, ms, K, n, N)
  BY <1>1, <1>2, <1>6 DEF Good
<1> QED BY <1>7 DEF n, K, q

TablesFold(g, r, ms) ==
  g = [s \in SUBSET DOMAIN ms |-> IF s = {} THEN r ELSE ClaimTables(g[s \ {Max(s)}], ms[Max(s)])]

LEMMA TablesFoldExists ==
  ASSUME NEW N, NEW r \in Registries(N), NEW ms, ModulesOk(ms, N)
  PROVE  \E g : TablesFold(g, r, ms)
<1> DEFINE n == Len(ms)
           V == Registries(N)
           chosen == [s \in SUBSET (1..n) |-> Max(s)]
           step == [t \in (1..n) \X V |-> ClaimTables(t[2], ms[t[1]])]
<1>1. n \in Nat /\ DOMAIN ms = 1..n /\ \A i \in 1..n : ModuleOk(ms[i], N)
  BY DEF ModulesOk
<1>2. ASSUME NEW i \in 1..n, NEW c \in V PROVE ClaimTables(c, ms[i]) \in V
  <2>1. Claimed(ClaimTables(c, ms[i]), c, ClaimsOf(ms[i]), {"tables"}, N)
    BY <1>1, ClaimTablesIs
  <2> QED BY <2>1 DEF Claimed
<1> HIDE DEF n, V
<1>3. step \in [(1..n) \X V -> V]
  BY <1>2
<1>4. \A i \in 1..n, c \in V : step[i, c] = ClaimTables(c, ms[i])
  OBVIOUS
<1> HIDE DEF step
<1>5. PICK g \in [SUBSET (1..n) -> V] : FoldOf(g, 1..n, r, chosen, step)
  BY <1>1, <1>3, LoopExists DEF V
<1>6. ASSUME NEW s \in SUBSET (1..n), s # {}
      PROVE  step[chosen[s], g[s \ {chosen[s]}]] = ClaimTables(g[s \ {Max(s)}], ms[Max(s)])
  <2>1. chosen[s] = Max(s) /\ Max(s) \in 1..n
    BY <1>1, <1>6, MaxOfPart
  <2>2. g[s \ {Max(s)}] \in V
    OBVIOUS
  <2> QED BY <1>4, <2>1, <2>2
<1>7. TablesFold(g, r, ms)
  BY <1>1, <1>5, <1>6 DEF FoldOf, TablesFold
<1> QED BY <1>7

\* mergeSchemas of every module.
LEMMA TablesAll ==
  ASSUME NEW N, NEW r \in Registries(N), NEW ms, ModulesOk(ms, N)
  PROVE  RegisteredSoFar(FoldLeft(LAMBDA c, m : Claim(c, "tables", m.tables), r, ms), r, ms, {"tables"}, Len(ms), N)
<1> DEFINE n == Len(ms)
           K == {"tables"}
           q == FoldLeft(LAMBDA c, m : Claim(c, "tables", m.tables), r, ms)
           G == CHOOSE g : TablesFold(g, r, ms)
           Good == {k \in 0..n : RegisteredSoFar(G[1..k], r, ms, K, k, N)}
<1>1. n \in Nat /\ DOMAIN ms = 1..n /\ (\A i \in 1..n : ModuleOk(ms[i], N)) /\ K \in SUBSET NameKinds
  BY DEF ModulesOk, NameKinds
<1> HIDE DEF n
<1>2. q = G[DOMAIN ms]
  BY DEF FoldLeft, MapThenFoldSet, TablesFold, ClaimTables
<1>3. TablesFold(G, r, ms)
  BY TablesFoldExists
<1> HIDE DEF G, K, q
<1>4. 0 \in Good
  <2>1. 1..0 = {} /\ {} \in SUBSET DOMAIN ms
    OBVIOUS
  <2>2. G[1..0] = r
    BY <1>3, <2>1 DEF TablesFold
  <2>3. RegisteredSoFar(r, r, ms, K, 0, N)
    BY <1>1, NothingRegistered
  <2> QED BY <1>1, <2>2, <2>3
<1>5. ASSUME NEW k \in 1..n, k - 1 \in Good PROVE k \in Good
  <2> DEFINE p == G[1..(k - 1)]
  <2>1. G[1..k] = ClaimTables(p, ms[k])
    <3>1. 1..k \in (SUBSET (1..n)) \ {{}} /\ Max(1..k) = k /\ (1..k) \ {Max(1..k)} = 1..(k - 1)
      BY <1>1, MaxOfPrefix
    <3> HIDE DEF Good
    <3>2. G[1..k] = ClaimTables(G[(1..k) \ {Max(1..k)}], ms[Max(1..k)])
      BY <1>1, <1>3, <3>1 DEF TablesFold
    <3> QED BY <3>1, <3>2
  <2>2. RegisteredSoFar(p, r, ms, K, k - 1, N)
    BY <1>5
  <2> HIDE DEF p
  <2>3. Claimed(ClaimTables(p, ms[k]), p, ClaimsOf(ms[k]), K, N)
    <3>1. p \in Registries(N)
      BY <2>2 DEF RegisteredSoFar
    <3> QED BY <1>1, <3>1, ClaimTablesIs DEF K
  <2>4. k \in Nat \ {0}
    BY <1>1
  <2>5. RegisteredSoFar(ClaimTables(p, ms[k]), r, ms, K, k, N)
    BY <1>1, <2>2, <2>3, <2>4, RegisteredOneMore
  <2> QED BY <1>1, <2>1, <2>5
<1> HIDE DEF Good
<1>6. 0..n \subseteq Good
  BY <1>1, <1>4, <1>5, ByPrefixes
<1>7. RegisteredSoFar(q, r, ms, K, n, N)
  BY <1>1, <1>2, <1>6 DEF Good
<1> QED BY <1>7 DEF n, K, q

\* h joins the first sequences of f.
JoinsOf(h, f, N) == /\ h \in [0..Len(f) -> Seq(N)] /\ h[0] = <<>>
                    /\ \A i \in 1..Len(f) : h[i] = h[i - 1] \o f[i]
FlattenOf(h, f) == h = [i \in 1..Len(f) |-> IF i = 1 THEN f[i] ELSE h[i - 1] \o f[i]]

LEMMA JoinsExist ==
  ASSUME NEW N, NEW f \in Seq(Seq(N))
  PROVE  \E h : JoinsOf(h, f, N)
<1> DEFINE n == Len(f)
           V == Seq(N)
           chosen == [s \in SUBSET (1..n) |-> Max(s)]
           step == [t \in (1..n) \X V |-> t[2] \o f[t[1]]]
<1>1. n \in Nat /\ DOMAIN f = 1..n /\ <<>> \in V /\ \A i \in 1..n : f[i] \in V
  OBVIOUS
<1>2. ASSUME NEW i \in 1..n, NEW c \in V PROVE c \o f[i] \in V
  BY <1>1
<1> HIDE DEF n, V
<1>3. step \in [(1..n) \X V -> V]
  BY <1>2
<1>4. \A i \in 1..n, c \in V : step[i, c] = c \o f[i]
  OBVIOUS
<1> HIDE DEF step
<1>5. PICK g \in [SUBSET (1..n) -> V] : FoldOf(g, 1..n, <<>>, chosen, step)
  BY <1>1, <1>3, LoopExists
<1> DEFINE h == [i \in 0..n |-> g[1..i]]
<1>6. h \in [0..n -> V] /\ h[0] = <<>>
  <2>1. 1..0 = {} /\ {} \in SUBSET (1..n) /\ 0 \in 0..n
    BY <1>1
  <2>2. g[{}] = <<>>
    BY <1>5, <2>1 DEF FoldOf
  <2>3. \A i \in 0..n : 1..i \in SUBSET (1..n)
    BY <1>1
  <2> QED BY <2>1, <2>2, <2>3
<1>7. ASSUME NEW i \in 1..n PROVE h[i] = h[i - 1] \o f[i]
  <2>1. 1..i \in (SUBSET (1..n)) \ {{}} /\ Max(1..i) = i /\ (1..i) \ {Max(1..i)} = 1..(i - 1)
    BY <1>1, MaxOfPrefix
  <2>2. chosen[1..i] = i /\ i \in 0..n /\ i - 1 \in 0..n /\ 1..(i - 1) \in SUBSET (1..n)
    BY <1>1, <2>1
  <2>3. g[1..i] = step[chosen[1..i], g[(1..i) \ {chosen[1..i]}]]
    BY <1>5, <2>1 DEF FoldOf
  <2>4. g[1..i] = step[i, g[1..(i - 1)]]
    BY <2>1, <2>2, <2>3
  <2>5. g[1..(i - 1)] \in V
    BY <2>2
  <2>6. step[i, g[1..(i - 1)]] = g[1..(i - 1)] \o f[i]
    BY <1>4, <2>5
  <2> QED BY <2>2, <2>4, <2>6
<1> HIDE DEF h
<1> QED BY <1>6, <1>7 DEF JoinsOf, n, V

\* FlattenSeq joins them all.
LEMMA FlattenJoins ==
  ASSUME NEW N, NEW f \in Seq(Seq(N))
  PROVE  \E h : JoinsOf(h, f, N) /\ FlattenSeq(f) = h[Len(f)]
<1> DEFINE n == Len(f)
           F == CHOOSE h : FlattenOf(h, f)
<1>1. n \in Nat /\ DOMAIN f = 1..n /\ \A i \in 1..n : f[i] \in Seq(N)
  OBVIOUS
<1>2. PICK h : JoinsOf(h, f, N)
  BY JoinsExist
<1>3. h \in [0..n -> Seq(N)] /\ h[0] = <<>> /\ \A i \in 1..n : h[i] = h[i - 1] \o f[i]
  BY <1>2 DEF JoinsOf
<1>4. FlattenSeq(f) = IF n = 0 THEN f ELSE F[n]
  BY DEF FlattenSeq, FlattenOf
<1> HIDE DEF n, F
<1>5. CASE n = 0
  <2>1. f = <<>>
    BY <1>5 DEF n
  <2> QED BY <1>2, <1>3, <1>4, <1>5, <2>1 DEF n
<1>6. CASE n # 0
  <2>1. FlattenOf(F, f)
    <3> DEFINE k == [i \in 1..n |-> h[i]]
    <3>1. ASSUME NEW i \in 1..n PROVE k[i] = IF i = 1 THEN f[i] ELSE k[i - 1] \o f[i]
      <4>1. CASE i = 1
        <5>1. <<>> \o f[1] = f[1]
          BY <1>1, <4>1
        <5>2. 1 \in 1..n /\ 1 - 1 = 0
          BY <4>1
        <5>3. h[1] = h[0] \o f[1]
          BY <1>3, <5>2
        <5>4. h[1] = f[1]
          BY <1>3, <5>1, <5>3
        <5> QED BY <4>1, <5>4
      <4>2. CASE i # 1
        <5>1. i - 1 \in 1..n
          BY <1>1, <4>2
        <5> QED BY <1>3, <4>2, <5>1
      <4> QED BY <4>1, <4>2
    <3>2. k = [i \in 1..n |-> k[i]]
      OBVIOUS
    <3> HIDE DEF k
    <3>3. k = [i \in 1..n |-> IF i = 1 THEN f[i] ELSE k[i - 1] \o f[i]]
      BY <3>1, <3>2
    <3>4. FlattenOf(k, f)
      BY <3>3 DEF FlattenOf, n
    <3> QED BY <3>4 DEF F
  <2>2. \A i \in 1..n : F[i] = IF i = 1 THEN f[i] ELSE F[i - 1] \o f[i]
    BY <2>1 DEF FlattenOf, n
  <2> DEFINE Good == {i \in 0..n : i = 0 \/ F[i] = h[i]}
  <2>3. 0 \in Good
    BY <1>1
  <2>4. ASSUME NEW i \in 1..n, i - 1 \in Good PROVE i \in Good
    <3>1. CASE i = 1
      <4>1. <<>> \o f[1] = f[1]
        BY <1>1, <3>1
      <4>2. 1 \in 1..n /\ 1 - 1 = 0
        BY <3>1
      <4>3. h[1] = h[0] \o f[1]
        BY <1>3, <4>2
      <4>4. h[1] = f[1] /\ F[1] = f[1]
        BY <1>3, <2>2, <4>1, <4>2, <4>3
      <4> QED BY <1>1, <3>1, <4>4
    <3>2. CASE i # 1
      <4>1. F[i - 1] = h[i - 1]
        BY <2>4, <3>2
      <4>2. h[i] = h[i - 1] \o f[i] /\ F[i] = F[i - 1] \o f[i]
        BY <1>3, <2>2, <3>2
      <4>3. F[i] = h[i]
        BY <4>1, <4>2
      <4> QED BY <1>1, <4>3
    <3> QED BY <3>1, <3>2
  <2> HIDE DEF Good
  <2>5. 0..n \subseteq Good
    BY <1>1, <2>3, <2>4, ByPrefixes
  <2>6. F[n] = h[n]
    BY <1>1, <1>6, <2>5 DEF Good
  <2> QED BY <1>2, <1>4, <1>6, <2>6 DEF n
<1> QED BY <1>5, <1>6

\* v joins the claims of the first k modules.
JoinedSoFar(v, ms, kind, k) ==
  ToSet(v) = ClaimsUpto(ms, kind, k) /\ (Distinct(v) <=> AllFresh(ms, kind, k, {}))

LEMMA FreshBehind ==
  ASSUME NEW N, NEW x \in Seq(N), NEW y \in Seq(N)
  PROVE  /\ ToSet(x \o y) = ToSet(x) \cup ToSet(y)
         /\ Distinct(x \o y) <=> Distinct(x) /\ Fresh(y, ToSet(x))
<1> DEFINE w == x \o y
           a == Len(x)
           b == Len(y)
<1>1. /\ a \in Nat /\ b \in Nat /\ DOMAIN x = 1..a /\ DOMAIN y = 1..b /\ DOMAIN w = 1..(a + b)
      /\ \A i \in 1..a : w[i] = x[i]
      /\ \A j \in 1..b : w[a + j] = y[j]
  OBVIOUS
<1> HIDE DEF w, a, b
<1>2. /\ 1..a \subseteq 1..(a + b)
      /\ \A j \in 1..b : a + j \in 1..(a + b) /\ a + j \notin 1..a
      /\ \A i \in 1..(a + b) : i \in 1..a \/ \E j \in 1..b : i = a + j
  <2>1. \A i \in 1..(a + b) : i \notin 1..a => i - a \in 1..b /\ i = a + (i - a)
    BY <1>1
  <2>2. \A j \in 1..b : a + j \in 1..(a + b) /\ a + j \notin 1..a
    BY <1>1
  <2> QED BY <1>1, <2>1, <2>2
<1>3. ToSet(w) = ToSet(x) \cup ToSet(y)
  <2>0. /\ \A v : v \in ToSet(w) <=> \E i \in 1..(a + b) : w[i] = v
        /\ \A v : v \in ToSet(x) <=> \E i \in 1..a : x[i] = v
        /\ \A v : v \in ToSet(y) <=> \E i \in 1..b : y[i] = v
    BY <1>1 DEF ToSet
  <2>1. ASSUME NEW v \in ToSet(w) PROVE v \in ToSet(x) \/ v \in ToSet(y)
    <3>1. PICK i \in 1..(a + b) : w[i] = v
      BY <2>0
    <3>2. CASE i \in 1..a
      BY <1>1, <2>0, <3>1, <3>2
    <3>3. CASE i \notin 1..a
      <4>1. PICK j \in 1..b : i = a + j
        BY <1>2, <3>3
      <4> QED BY <1>1, <2>0, <3>1, <4>1
    <3> QED BY <3>2, <3>3
  <2>2. \A v \in ToSet(x) : v \in ToSet(w)
    BY <1>1, <1>2, <2>0
  <2>3. ASSUME NEW v \in ToSet(y) PROVE v \in ToSet(w)
    <3>1. PICK j \in 1..b : y[j] = v
      BY <2>0
    <3> QED BY <1>1, <1>2, <2>0, <3>1
  <2> QED BY <2>1, <2>2, <2>3
<1>4. Distinct(w) => Distinct(x) /\ Fresh(y, ToSet(x))
  <2> SUFFICES ASSUME Distinct(w) PROVE Distinct(x) /\ Fresh(y, ToSet(x))
    OBVIOUS
  <2>1. \A i, j \in 1..(a + b) : w[i] = w[j] => i = j
    BY <1>1 DEF Distinct
  <2>2. ASSUME NEW i \in 1..a, NEW j \in 1..a, x[i] = x[j] PROVE i = j
    BY <1>1, <1>2, <2>1, <2>2
  <2>3. ASSUME NEW i \in 1..b, NEW j \in 1..b, y[i] = y[j] PROVE i = j
    <3>1. a + i = a + j
      BY <1>1, <1>2, <2>1, <2>3
    <3> QED BY <1>1, <3>1
  <2>4. ASSUME NEW i \in 1..a, NEW j \in 1..b PROVE x[i] # y[j]
    BY <1>1, <1>2, <2>1
  <2>5. \A v \in ToSet(x) : \E i \in 1..a : x[i] = v
    BY <1>1 DEF ToSet
  <2>6. \A j \in 1..b : y[j] \notin ToSet(x)
    BY <2>4, <2>5
  <2> QED BY <1>1, <2>2, <2>3, <2>6 DEF Distinct, Fresh
<1>5. Distinct(x) /\ Fresh(y, ToSet(x)) => Distinct(w)
  <2> SUFFICES ASSUME Distinct(x), Fresh(y, ToSet(x)) PROVE Distinct(w)
    OBVIOUS
  <2>1. /\ \A i, j \in 1..a : x[i] = x[j] => i = j
        /\ \A i, j \in 1..b : y[i] = y[j] => i = j
        /\ \A i \in 1..a, j \in 1..b : x[i] # y[j]
    <3>1. \A i \in 1..a : x[i] \in ToSet(x)
      BY <1>1 DEF ToSet
    <3> QED BY <1>1, <3>1 DEF Distinct, Fresh
  <2>2. ASSUME NEW i \in 1..(a + b), NEW j \in 1..(a + b), w[i] = w[j] PROVE i = j
    <3>1. CASE i \in 1..a /\ j \in 1..a
      BY <1>1, <2>1, <2>2, <3>1
    <3>2. CASE i \in 1..a /\ j \notin 1..a
      BY <1>1, <1>2, <2>1, <2>2, <3>2
    <3>3. CASE i \notin 1..a /\ j \in 1..a
      <4>1. PICK k \in 1..b : i = a + k
        BY <1>2, <3>3
      <4>2. w[i] = y[k] /\ w[j] = x[j] /\ x[j] # y[k]
        BY <1>1, <2>1, <3>3, <4>1
      <4> QED BY <2>2, <4>2
    <3>4. CASE i \notin 1..a /\ j \notin 1..a
      <4>1. PICK k \in 1..b : i = a + k
        BY <1>2, <3>4
      <4>2. PICK l \in 1..b : j = a + l
        BY <1>2, <3>4
      <4>3. y[k] = y[l]
        BY <1>1, <2>2, <4>1, <4>2
      <4> QED BY <2>1, <4>1, <4>2, <4>3
    <3> QED BY <3>1, <3>2, <3>3, <3>4
  <2> QED BY <1>1, <2>2 DEF Distinct
<1> QED BY <1>3, <1>4, <1>5 DEF w

\* The names of a kind, joined.
LEMMA OfNameIs ==
  ASSUME NEW N, NEW ms, ModulesOk(ms, N), NEW kind \in {"permissions", "jobs", "tables"},
         NEW v, v = OfName(ms, kind)
  PROVE  v \in Seq(N) /\ JoinedSoFar(v, ms, kind, Len(ms))
<1> DEFINE n == Len(ms)
           f == [i \in DOMAIN ms |-> ms[i][kind]]
<1>1. n \in Nat /\ DOMAIN ms = 1..n /\ \A i \in 1..n : ModuleOk(ms[i], N)
  BY DEF ModulesOk
<1>2. ASSUME NEW i \in 1..n PROVE ms[i][kind] = ClaimsOf(ms[i])[kind] /\ ClaimsOf(ms[i])[kind] \in Seq(N)
  <2>1. ModuleOk(ms[i], N)
    BY <1>1
  <2>2. kind \in NameKinds /\ kind # "id"
    BY DEF NameKinds
  <2>3. ClaimsOf(ms[i])[kind] = ms[i][kind]
    BY <2>2 DEF ClaimsOf
  <2> QED BY <2>1, <2>2, <2>3, ClaimsAre
<1> HIDE DEF n
<1>3. f \in Seq(Seq(N)) /\ Len(f) = n /\ \A i \in 1..n : f[i] = ClaimsOf(ms[i])[kind]
  <2>1. f = [i \in 1..n |-> ms[i][kind]]
    BY <1>1
  <2> HIDE DEF f
  <2>2. f \in [1..n -> Seq(N)]
    BY <1>2, <2>1
  <2> QED BY <1>1, <1>2, <2>1, <2>2
<1>4. v = FlattenSeq(f)
  BY DEF OfName
<1> HIDE DEF f
<1>5. PICK h : JoinsOf(h, f, N) /\ FlattenSeq(f) = h[n]
  BY <1>3, FlattenJoins
<1>6. h \in [0..n -> Seq(N)] /\ h[0] = <<>> /\ \A i \in 1..n : h[i] = h[i - 1] \o f[i]
  BY <1>3, <1>5 DEF JoinsOf
<1> DEFINE Good == {k \in 0..n : JoinedSoFar(h[k], ms, kind, k)}
<1>7. 0 \in Good
  <2>1. JoinedSoFar(<<>>, ms, kind, 0)
    BY DEF JoinedSoFar, ToSet, ClaimsUpto, Distinct, AllFresh
  <2> QED BY <1>1, <1>6, <2>1
<1>8. ASSUME NEW k \in 1..n, k - 1 \in Good PROVE k \in Good
  <2> DEFINE x == h[k - 1]
             y == ClaimsOf(ms[k])[kind]
             S == ClaimsUpto(ms, kind, k - 1)
  <2>1. h[k] = x \o y /\ x \in Seq(N) /\ y \in Seq(N) /\ k \in Nat \ {0}
    <3>1. k - 1 \in 0..n /\ k \in Nat \ {0}
      BY <1>1
    <3> QED BY <1>2, <1>3, <1>6, <3>1
  <2>2. ToSet(x) = S /\ (Distinct(x) <=> AllFresh(ms, kind, k - 1, {}))
    BY <1>8 DEF JoinedSoFar
  <2>3. /\ ClaimsUpto(ms, kind, k) = S \cup ToSet(y)
        /\ AllFresh(ms, kind, k, {}) <=> AllFresh(ms, kind, k - 1, {}) /\ Fresh(y, {} \cup S)
    BY <2>1, OneMoreFresh
  <2> HIDE DEF x, y, S
  <2>4. {} \cup S = S
    OBVIOUS
  <2>5. ToSet(x \o y) = ToSet(x) \cup ToSet(y) /\ (Distinct(x \o y) <=> Distinct(x) /\ Fresh(y, ToSet(x)))
    BY <2>1, FreshBehind
  <2>6. JoinedSoFar(x \o y, ms, kind, k)
    BY <2>2, <2>3, <2>4, <2>5 DEF JoinedSoFar
  <2>7. k \in 0..n
    BY <1>1
  <2> QED BY <2>1, <2>6, <2>7
<1> HIDE DEF Good
<1>9. 0..n \subseteq Good
  BY <1>1, <1>7, <1>8, ByPrefixes
<1>10. n \in Good /\ h[n] \in Seq(N)
  BY <1>1, <1>6, <1>9
<1> QED BY <1>4, <1>5, <1>10 DEF Good, n

\* All modules registered, none of their names before.
RegisteredOf(q, ms, N) ==
  /\ q \in Registries(N)
  /\ q.refused <=> \E kind \in NameKinds : ~AllFresh(ms, kind, Len(ms), {})
  /\ ~q.refused => \A kind \in NameKinds : q[kind] = ClaimsUpto(ms, kind, Len(ms))

LEMMA CreateRegistryIs ==
  ASSUME NEW N, NEW ms, ModulesOk(ms, N), NEW q, q = CreateRegistry(ms)
  PROVE  RegisteredOf(q, ms, N)
<1> DEFINE n == Len(ms)
           p == FoldLeft(RegisterModule, NoModules, ms)
           K == {"id", "permissions", "jobs"}
           L == {"tables"}
<1>1. /\ NoModules \in Registries(N) /\ ~NoModules.refused
      /\ \A kind \in NameKinds : NoModules[kind] = {}
  BY DEF NoModules, Registries, NameKinds
<1>2. RegisteredSoFar(p, NoModules, ms, K, n, N)
  BY <1>1, RegisteredAll
<1>3. p \in Registries(N)
  BY <1>2 DEF RegisteredSoFar
<1>4. RegisteredSoFar(FoldLeft(LAMBDA c, m : Claim(c, "tables", m.tables), p, ms), p, ms, L, n, N)
  <2> HIDE DEF p
  <2> QED BY <1>3, TablesAll
<1>5. RegisteredSoFar(q, p, ms, L, n, N)
  BY <1>4 DEF CreateRegistry
<1> HIDE DEF p, n
<1>6. /\ NameKinds \ K = L /\ NameKinds \ L = K /\ K \cup L = NameKinds
      /\ K \subseteq NameKinds /\ L \subseteq NameKinds
  BY DEF NameKinds
<1> HIDE DEF K, L
<1>7. /\ p.refused <=> \E kind \in K : ~AllFresh(ms, kind, n, {})
      /\ ~p.refused => /\ \A kind \in K : p[kind] = ClaimsUpto(ms, kind, n)
                       /\ \A kind \in L : p[kind] = {}
  BY <1>1, <1>2, <1>6 DEF RegisteredSoFar
<1>8. /\ q \in Registries(N)
      /\ q.refused <=> p.refused \/ \E kind \in L : ~AllFresh(ms, kind, n, p[kind])
      /\ ~q.refused => /\ \A kind \in L : q[kind] = p[kind] \cup ClaimsUpto(ms, kind, n)
                       /\ \A kind \in K : q[kind] = p[kind]
  BY <1>5, <1>6 DEF RegisteredSoFar
<1>9. q.refused <=> \E kind \in NameKinds : ~AllFresh(ms, kind, n, {})
  BY <1>6, <1>7, <1>8
<1>10. ~q.refused => \A kind \in NameKinds : q[kind] = ClaimsUpto(ms, kind, n)
  BY <1>6, <1>7, <1>8
<1> QED BY <1>8, <1>9, <1>10 DEF RegisteredOf, n

\* As many names as places: none twice.
LEMMA NoDuplicatesIs ==
  ASSUME NEW N, NEW v \in Seq(N)
  PROVE  NoDuplicates(v) <=> Distinct(v)
<1> DEFINE n == Len(v)
           T == ToSet(v)
<1>1. n \in Nat /\ DOMAIN v = 1..n /\ v = [i \in 1..n |-> v[i]]
  OBVIOUS
<1>2. T = {v[i] : i \in 1..n}
  BY <1>1 DEF ToSet
<1>3. NoDuplicates(v) <=> Cardinality(T) = n
  BY DEF NoDuplicates
<1> HIDE DEF n, T
<1>4. v \in Surjection(1..n, T)
  <2>1. v \in [1..n -> T]
    BY <1>1, <1>2
  <2>2. \A t \in T : \E i \in 1..n : v[i] = t
    BY <1>2
  <2> QED BY <2>1, <2>2, Fun_IsSurj
<1>5. IsFiniteSet(1..n) /\ Cardinality(1..n) = n
  BY <1>1, FS_Interval
<1>6. Cardinality(T) = Cardinality(1..n) <=> v \in Injection(1..n, T)
  BY <1>4, <1>5, FS_Surjection
<1>7. v \in Injection(1..n, T) <=> \A i, j \in 1..n : v[i] = v[j] => i = j
  <2>1. v \in [1..n -> T]
    BY <1>1, <1>2
  <2> QED BY <2>1, Fun_IsInj, Fun_InjectionProperties DEF Injection, IsInjective
<1> QED BY <1>1, <1>3, <1>5, <1>6, <1>7 DEF Distinct

\* The ids, one of each module.
LEMMA IdsAre ==
  ASSUME NEW N, NEW ms, ModulesOk(ms, N), NEW v, v = [i \in DOMAIN ms |-> ms[i].id]
  PROVE  v \in Seq(N) /\ (Distinct(v) <=> AllFresh(ms, "id", Len(ms), {}))
<1> DEFINE n == Len(ms)
           c == [i \in 1..n |-> ClaimsOf(ms[i])["id"]]
<1>1. n \in Nat /\ DOMAIN ms = 1..n /\ \A i \in 1..n : ms[i].id \in N
  BY DEF ModulesOk, ModuleOk
<1> HIDE DEF n
<1>2. v \in [1..n -> N] /\ v \in Seq(N) /\ DOMAIN v = 1..n /\ \A i \in 1..n : v[i] = ms[i].id
  BY <1>1
<1>3. \A i \in 1..n : c[i] = ClaimsOf(ms[i])["id"] /\ c[i] = <<v[i]>>
  <2>1. \A i \in 1..n : ClaimsOf(ms[i])["id"] = <<ms[i].id>>
    BY DEF ClaimsOf, NameKinds
  <2> QED BY <1>2, <2>1
<1> HIDE DEF c
<1>4. \A i \in 1..n : Fresh(c[i], {}) /\ ToSet(c[i]) = {v[i]}
  BY <1>3 DEF Fresh, Distinct, ToSet
<1>5. AllFresh(ms, "id", n, {}) <=> \A i, j \in 1..n : i # j => ToSet(c[i]) \cap ToSet(c[j]) = {}
  BY <1>3, <1>4 DEF AllFresh
<1>6. AllFresh(ms, "id", n, {}) <=> \A i, j \in 1..n : i # j => v[i] # v[j]
  <2>1. \A i, j \in 1..n : ToSet(c[i]) \cap ToSet(c[j]) = {} <=> v[i] # v[j]
    <3>1. \A a, b : {a} \cap {b} = {} <=> a # b
      OBVIOUS
    <3> QED BY <1>4, <3>1
  <2> QED BY <1>5, <2>1
<1> QED BY <1>2, <1>6 DEF Distinct, n

\* In another order the modules claim the same.
LEMMA ReversedClaims ==
  ASSUME NEW N, NEW ms, ModulesOk(ms, N), NEW back, back = Reverse(ms)
  PROVE  /\ ModulesOk(back, N) /\ Len(back) = Len(ms)
         /\ \A kind : ClaimsUpto(back, kind, Len(ms)) = ClaimsUpto(ms, kind, Len(ms))
         /\ \A kind, S : AllFresh(back, kind, Len(ms), S) <=> AllFresh(ms, kind, Len(ms), S)
<1> DEFINE n == Len(ms)
<1>1. n \in Nat /\ DOMAIN ms = 1..n /\ \A i \in 1..n : ModuleOk(ms[i], N)
  BY DEF ModulesOk
<1>2. back = [i \in 1..n |-> ms[(n - i) + 1]]
  BY DEF Reverse
<1> HIDE DEF n
<1>3. \A i \in 1..n : (n - i) + 1 \in 1..n /\ (n - ((n - i) + 1)) + 1 = i
  BY <1>1
<1>4. DOMAIN back = 1..n /\ Len(back) = n /\ \A i \in 1..n : back[i] = ms[(n - i) + 1] /\ ms[i] = back[(n - i) + 1]
  <2>1. DOMAIN back = 1..n
    BY <1>2
  <2>2. Len(back) = n
    BY <1>1, <2>1
  <2>3. \A i \in 1..n : back[i] = ms[(n - i) + 1]
    BY <1>2
  <2>4. ASSUME NEW i \in 1..n PROVE ms[i] = back[(n - i) + 1]
    <3>1. back[(n - i) + 1] = ms[(n - ((n - i) + 1)) + 1]
      BY <1>3, <2>3
    <3> QED BY <1>3, <3>1
  <2> QED BY <2>1, <2>2, <2>3, <2>4
<1>5. ModulesOk(back, N)
  BY <1>1, <1>3, <1>4 DEF ModulesOk
<1>6. ASSUME NEW kind PROVE ClaimsUpto(back, kind, n) = ClaimsUpto(ms, kind, n)
  <2>1. ASSUME NEW x \in ClaimsUpto(back, kind, n) PROVE x \in ClaimsUpto(ms, kind, n)
    <3>1. PICK i \in 1..n : x \in ToSet(ClaimsOf(back[i])[kind])
      BY DEF ClaimsUpto
    <3> QED BY <1>3, <1>4, <3>1 DEF ClaimsUpto
  <2>2. ASSUME NEW x \in ClaimsUpto(ms, kind, n) PROVE x \in ClaimsUpto(back, kind, n)
    <3>1. PICK i \in 1..n : x \in ToSet(ClaimsOf(ms[i])[kind])
      BY DEF ClaimsUpto
    <3>2. ms[i] = back[(n - i) + 1] /\ (n - i) + 1 \in 1..n
      BY <1>3, <1>4
    <3>3. x \in ToSet(ClaimsOf(back[(n - i) + 1])[kind])
      BY <3>1, <3>2
    <3> QED BY <3>2, <3>3 DEF ClaimsUpto
  <2> QED BY <2>1, <2>2
<1> DEFINE Apart(x, y) == ToSet(x) \cap ToSet(y) = {}
<1>7. ASSUME NEW kind, NEW S, AllFresh(back, kind, n, S) PROVE AllFresh(ms, kind, n, S)
  <2>1. ASSUME NEW i \in 1..n PROVE Fresh(ClaimsOf(ms[i])[kind], S)
    BY <1>3, <1>4, <1>7 DEF AllFresh
  <2>2. ASSUME NEW i \in 1..n, NEW j \in 1..n, i # j
        PROVE  Apart(ClaimsOf(ms[i])[kind], ClaimsOf(ms[j])[kind])
    <3>1. (n - i) + 1 # (n - j) + 1 /\ (n - i) + 1 \in 1..n /\ (n - j) + 1 \in 1..n
      BY <1>1, <2>2
    <3>2. Apart(ClaimsOf(back[(n - i) + 1])[kind], ClaimsOf(back[(n - j) + 1])[kind])
      BY <1>7, <3>1 DEF AllFresh
    <3> HIDE DEF Apart
    <3> QED BY <1>4, <3>2
  <2> QED BY <2>1, <2>2 DEF AllFresh
<1>8. ASSUME NEW kind, NEW S, AllFresh(ms, kind, n, S) PROVE AllFresh(back, kind, n, S)
  <2>1. ASSUME NEW i \in 1..n PROVE Fresh(ClaimsOf(back[i])[kind], S)
    BY <1>3, <1>4, <1>8 DEF AllFresh
  <2>2. ASSUME NEW i \in 1..n, NEW j \in 1..n, i # j
        PROVE  Apart(ClaimsOf(back[i])[kind], ClaimsOf(back[j])[kind])
    <3>1. (n - i) + 1 # (n - j) + 1 /\ (n - i) + 1 \in 1..n /\ (n - j) + 1 \in 1..n
      BY <1>1, <2>2
    <3>2. Apart(ClaimsOf(ms[(n - i) + 1])[kind], ClaimsOf(ms[(n - j) + 1])[kind])
      BY <1>8, <3>1 DEF AllFresh
    <3> HIDE DEF Apart
    <3> QED BY <1>4, <3>2
  <2> QED BY <2>1, <2>2 DEF AllFresh
<1> HIDE DEF Apart
<1> QED BY <1>4, <1>5, <1>6, <1>7, <1>8 DEF n

\* The modules of the program, in whatever order: RegistryIsUnambiguous, for
\* every list of modules.
THEOREM RegistriesAlwaysUnambiguous ==
  ASSUME NEW N, NEW ms, ModulesOk(ms, N)
  PROVE  RegistryIsUnambiguous(ms, CreateRegistry(ms))
<1> DEFINE n == Len(ms)
           back == Reverse(ms)
           q == CreateRegistry(ms)
           r == CreateRegistry(back)
           ids == [i \in DOMAIN ms |-> ms[i].id]
<1>1. RegisteredOf(q, ms, N)
  BY CreateRegistryIs
<1>2. /\ ModulesOk(back, N) /\ Len(back) = n
      /\ \A kind : ClaimsUpto(back, kind, n) = ClaimsUpto(ms, kind, n)
      /\ \A kind, S : AllFresh(back, kind, n, S) <=> AllFresh(ms, kind, n, S)
  BY ReversedClaims
<1>3. RegisteredOf(r, back, N)
  BY <1>2, CreateRegistryIs
<1> HIDE DEF q, r, back
<1>6. ~q.refused => r = q
  <2> SUFFICES ASSUME ~q.refused PROVE r = q
    OBVIOUS
  <2>1. /\ q \in Registries(N) /\ \A kind \in NameKinds : AllFresh(ms, kind, n, {})
        /\ \A kind \in NameKinds : q[kind] = ClaimsUpto(ms, kind, n)
    BY <1>1 DEF RegisteredOf
  <2>2. ~r.refused /\ r \in Registries(N) /\ \A kind \in NameKinds : r[kind] = ClaimsUpto(ms, kind, n)
    BY <1>2, <1>3, <2>1 DEF RegisteredOf
  <2>3. q.refused = r.refused
    BY <2>1, <2>2 DEF Registries
  <2> HIDE DEF n
  <2> QED BY <2>1, <2>2, <2>3, SameRegistry
<1>7. ids \in Seq(N) /\ (NoDuplicates(ids) <=> AllFresh(ms, "id", n, {}))
  <2>1. ids \in Seq(N) /\ (Distinct(ids) <=> AllFresh(ms, "id", n, {}))
    BY IdsAre
  <2> HIDE DEF ids
  <2> QED BY <2>1, NoDuplicatesIs
<1>8. ASSUME NEW kind \in {"permissions", "jobs", "tables"}
      PROVE  /\ ToSet(OfName(ms, kind)) = ClaimsUpto(ms, kind, n)
             /\ NoDuplicates(OfName(ms, kind)) <=> AllFresh(ms, kind, n, {})
  <2>1. OfName(ms, kind) \in Seq(N) /\ JoinedSoFar(OfName(ms, kind), ms, kind, n)
    BY OfNameIs
  <2> QED BY <2>1, NoDuplicatesIs DEF JoinedSoFar
<1> HIDE DEF ids
<1>9. ~q.refused <=> NoDuplicates(ids) /\ \A kind \in {"permissions", "jobs", "tables"} : NoDuplicates(OfName(ms, kind))
  <2>1. ~q.refused <=> \A kind \in NameKinds : AllFresh(ms, kind, n, {})
    BY <1>1 DEF RegisteredOf
  <2>2. NameKinds = {"id"} \cup {"permissions", "jobs", "tables"}
    BY DEF NameKinds
  <2> QED BY <1>7, <1>8, <2>1, <2>2
<1>10. ~q.refused => \A kind \in {"permissions", "jobs", "tables"} : q[kind] = ToSet(OfName(ms, kind))
  <2>1. {"permissions", "jobs", "tables"} \subseteq NameKinds
    BY DEF NameKinds
  <2> QED BY <1>1, <1>8, <2>1 DEF RegisteredOf
<1>11. RegistryIsUnambiguous(ms, q)
  BY <1>6, <1>9, <1>10 DEF RegistryIsUnambiguous, r, back, ids
<1> QED BY <1>11 DEF q

-----------------------------------------------------------------------------
(* Navigation.                                                             *)

NavEntries == [module : Int, order : Int, label : Int]

LEMMA NavOrder ==
  /\ \A e \in NavEntries : ~NavBefore(e, e)
  /\ \A e, f, g \in NavEntries : NavBefore(e, f) /\ NavBefore(f, g) => NavBefore(e, g)
  /\ \A e, f \in NavEntries : e = f \/ NavBefore(e, f) \/ NavBefore(f, e)
<1>1. \A e, f \in NavEntries : e.module = f.module /\ e.order = f.order /\ e.label = f.label => e = f
  BY DEF NavEntries
<1>2. \A e \in NavEntries : e.module \in Int /\ e.order \in Int /\ e.label \in Int
  BY DEF NavEntries
<1>3. \A e \in NavEntries : ~NavBefore(e, e)
  BY <1>2 DEF NavBefore
<1>4. \A e, f, g \in NavEntries : NavBefore(e, f) /\ NavBefore(f, g) => NavBefore(e, g)
  BY <1>2 DEF NavBefore
<1>5. \A e, f \in NavEntries : e = f \/ NavBefore(e, f) \/ NavBefore(f, e)
  BY <1>1, <1>2 DEF NavBefore
<1> QED BY <1>3, <1>4, <1>5

\* Sorted goes through all entries, each once, in their order.
InOrder(nav, E) ==
  /\ nav \in [1..Cardinality(E) -> E]
  /\ \A e \in E : \E i \in 1..Cardinality(E) : nav[i] = e
  /\ \A i, j \in 1..Cardinality(E) : i < j => NavBefore(nav[i], nav[j])

LEMMA SortedInOrder ==
  ASSUME NEW E \in SUBSET NavEntries, IsFiniteSet(E), NEW nav, nav = Sorted(E)
  PROVE  InOrder(nav, E) /\ Cardinality(E) \in Nat
<1> DEFINE n == Cardinality(E)
           before == [e \in E |-> {f \in E : NavBefore(f, e)}]
           rank == [e \in E |-> Cardinality(before[e])]
<1>1. n \in Nat
  BY FS_CardinalityType
<1>2. ASSUME NEW i \in 1..n PROVE nav[i] = CHOOSE e \in E : Cardinality({f \in E : NavBefore(f, e)}) = i - 1
  BY DEF Sorted
<1>3. ASSUME NEW e \in E PROVE before[e] \in SUBSET E /\ IsFiniteSet(before[e]) /\ rank[e] \in 0..(n - 1)
  <2>1. before[e] \in SUBSET (E \ {e})
    BY NavOrder
  <2>2. IsFiniteSet(E \ {e}) /\ Cardinality(E \ {e}) = n - 1
    BY FS_RemoveElement
  <2>3. IsFiniteSet(before[e]) /\ Cardinality(before[e]) <= n - 1
    BY <2>1, <2>2, FS_Subset
  <2>4. Cardinality(before[e]) \in Nat
    BY <2>3, FS_CardinalityType
  <2> QED BY <1>1, <2>1, <2>3, <2>4
<1>4. ASSUME NEW e \in E, NEW f \in E, NavBefore(e, f) PROVE rank[e] < rank[f]
  <2>1. before[e] \in SUBSET before[f]
    BY <1>4, NavOrder
  <2>2. e \in before[f] /\ e \notin before[e]
    BY <1>4, NavOrder
  <2>3. Cardinality(before[e]) <= Cardinality(before[f]) /\ Cardinality(before[e]) # Cardinality(before[f])
    BY <1>3, <2>1, <2>2, FS_Subset
  <2>4. rank[e] = Cardinality(before[e]) /\ rank[f] = Cardinality(before[f])
    OBVIOUS
  <2>5. rank[e] \in Int /\ rank[f] \in Int
    <3>1. rank[e] \in 0..(n - 1) /\ rank[f] \in 0..(n - 1)
      BY <1>3
    <3> HIDE DEF rank
    <3> QED BY <3>1
  <2> HIDE DEF rank, before
  <2> QED BY <2>3, <2>4, <2>5
<1> HIDE DEF n
<1>5. \A r \in 0..(n - 1) : \E e \in E : rank[e] = r
  <2>1. rank \in [E -> 0..(n - 1)]
    BY <1>3
  <2> HIDE DEF rank, before
  <2>2. \A e, f \in E : rank[e] = rank[f] => e = f
    <3> SUFFICES ASSUME NEW e \in E, NEW f \in E, e # f PROVE rank[e] # rank[f]
      OBVIOUS
    <3>1. NavBefore(e, f) \/ NavBefore(f, e)
      BY NavOrder
    <3>2. rank[e] \in Int /\ rank[f] \in Int
      BY <2>1
    <3> QED BY <1>4, <3>1, <3>2
  <2>3. rank \in Injection(E, 0..(n - 1))
    BY <2>1, <2>2, Fun_IsInj
  <2>4. IsFiniteSet(0..(n - 1)) /\ Cardinality(0..(n - 1)) = n
    <3>1. 0 \in Int /\ n - 1 \in Int
      BY <1>1
    <3>2. IsFiniteSet(0..(n - 1)) /\ Cardinality(0..(n - 1)) = IF 0 > n - 1 THEN 0 ELSE (n - 1) - 0 + 1
      BY <3>1, FS_Interval
    <3> QED BY <1>1, <3>2
  <2>5. rank \in Surjection(E, 0..(n - 1))
    BY <2>3, <2>4, FS_Injection DEF n
  <2> QED BY <2>5 DEF Surjection
<1>6. \A e \in E : rank[e] \in 0..(n - 1)
  BY <1>3
<1>7. ASSUME NEW i \in 1..n PROVE nav[i] \in E /\ rank[nav[i]] = i - 1
  <2>1. \E e \in E : rank[e] = i - 1
    <3> HIDE DEF rank
    <3> QED BY <1>1, <1>5
  <2>2. \E e \in E : Cardinality({f \in E : NavBefore(f, e)}) = i - 1
    BY <2>1
  <2>3. nav[i] \in E /\ Cardinality({f \in E : NavBefore(f, nav[i])}) = i - 1
    BY <1>2, <2>2
  <2> QED BY <2>3
<1> HIDE DEF rank, before
<1>8. \A e, f \in E : rank[e] = rank[f] => e = f
  <2> SUFFICES ASSUME NEW e \in E, NEW f \in E, e # f PROVE rank[e] # rank[f]
    OBVIOUS
  <2>1. NavBefore(e, f) \/ NavBefore(f, e)
    BY NavOrder
  <2>2. rank[e] \in Int /\ rank[f] \in Int
    BY <1>6
  <2> QED BY <1>4, <2>1, <2>2
<1>9. nav \in [1..n -> E]
  <2>1. nav = [i \in 1..n |-> CHOOSE e \in E : Cardinality({f \in E : NavBefore(f, e)}) = i - 1]
    BY DEF Sorted, n
  <2>2. DOMAIN nav = 1..n /\ nav = [i \in DOMAIN nav |-> nav[i]]
    BY <2>1
  <2> QED BY <1>7, <2>2
<1>10. ASSUME NEW e \in E PROVE \E i \in 1..n : nav[i] = e
  <2>1. rank[e] + 1 \in 1..n /\ (rank[e] + 1) - 1 = rank[e]
    BY <1>1, <1>6
  <2>2. nav[rank[e] + 1] \in E /\ rank[nav[rank[e] + 1]] = rank[e]
    BY <1>7, <2>1
  <2> QED BY <1>8, <2>1, <2>2
<1>11. ASSUME NEW i \in 1..n, NEW j \in 1..n, i < j PROVE NavBefore(nav[i], nav[j])
  <2>1. /\ nav[i] \in E /\ rank[nav[i]] = i - 1 /\ nav[j] \in E /\ rank[nav[j]] = j - 1
    BY <1>7
  <2>2. nav[i] # nav[j]
    BY <1>1, <1>11, <2>1
  <2>3. ~NavBefore(nav[j], nav[i])
    <3> SUFFICES ASSUME NavBefore(nav[j], nav[i]) PROVE FALSE
      OBVIOUS
    <3>1. rank[nav[j]] < rank[nav[i]]
      BY <1>4, <2>1
    <3> QED BY <1>1, <1>11, <2>1, <3>1
  <2> QED BY <2>1, <2>2, <2>3, NavOrder
<1> QED BY <1>1, <1>9, <1>10, <1>11 DEF InOrder, n

\* Modules with ids of their own, none with two entries of one place and label.
NavEntry == [order : Int, label : Int, permission : Int]
NavModules(ms) ==
  /\ Len(ms) \in Nat /\ DOMAIN ms = 1..Len(ms)
  /\ \A i \in 1..Len(ms) : ms[i].id \in Int /\ ms[i].nav \in Seq(NavEntry)
  /\ \A i, j \in 1..Len(ms) : ms[i].id = ms[j].id => i = j
  /\ \A i \in 1..Len(ms) : \A e, f \in ToSet(ms[i].nav) : e.order = f.order /\ e.label = f.label => e = f

\* What somebody with the permissions P sees.
Shown(m, e) == [module |-> m.id, order |-> e.order, label |-> e.label]
SeenIn(m, P) == {e \in ToSet(m.nav) : e.permission = 0 \/ e.permission \in P}
Seen(ms, P) == UNION {{Shown(m, e) : e \in SeenIn(m, P)} : m \in ToSet(ms)}

LEMMA SeenAre ==
  ASSUME NEW ms, NavModules(ms), NEW P
  PROVE  /\ Seen(ms, P) \in SUBSET NavEntries /\ IsFiniteSet(Seen(ms, P))
         /\ \A x : x \in Seen(ms, P) <=> \E m \in ToSet(ms) : \E e \in SeenIn(m, P) : x = Shown(m, e)
<1> DEFINE n == Len(ms)
<1>1. n \in Nat /\ DOMAIN ms = 1..n /\ ToSet(ms) = {ms[i] : i \in 1..n} /\ IsFiniteSet(1..n)
  BY FS_Interval DEF NavModules, ToSet
<1> HIDE DEF n
<1>2. ASSUME NEW m \in ToSet(ms)
      PROVE  /\ m.id \in Int /\ ToSet(m.nav) \subseteq NavEntry /\ IsFiniteSet(ToSet(m.nav))
  <2>1. m.id \in Int /\ m.nav \in Seq(NavEntry)
    BY <1>1 DEF NavModules, n
  <2> DEFINE a == m.nav
             l == Len(a)
  <2>2. l \in Nat /\ DOMAIN a = 1..l /\ \A i \in 1..l : a[i] \in NavEntry
    BY <2>1
  <2> HIDE DEF a, l
  <2>3. ToSet(a) = {a[i] : i \in 1..l} /\ IsFiniteSet(1..l)
    BY <2>2, FS_Interval DEF ToSet
  <2>4. IsFiniteSet({a[i] : i \in 1..l})
    BY <2>3, ImagesAreFinite
  <2> QED BY <2>1, <2>2, <2>3, <2>4 DEF a
<1>3. ASSUME NEW m \in ToSet(ms)
      PROVE  {Shown(m, e) : e \in SeenIn(m, P)} \in SUBSET NavEntries /\ IsFiniteSet({Shown(m, e) : e \in SeenIn(m, P)})
  <2> DEFINE S == SeenIn(m, P)
             f == [e \in S |-> Shown(m, e)]
  <2>1. S \in SUBSET ToSet(m.nav)
    BY DEF SeenIn
  <2>2. IsFiniteSet(S)
    BY <1>2, <2>1, FS_Subset
  <2>3. ASSUME NEW e \in S PROVE Shown(m, e) \in NavEntries
    <3>1. e \in NavEntry /\ m.id \in Int
      BY <1>2, <2>1
    <3> QED BY <3>1 DEF Shown, NavEntry, NavEntries
  <2>4. {Shown(m, e) : e \in S} = {f[e] : e \in S}
    OBVIOUS
  <2> HIDE DEF S, f
  <2>5. IsFiniteSet({f[e] : e \in S})
    BY <2>2, ImagesAreFinite
  <2> QED BY <2>3, <2>4, <2>5 DEF S
<1> DEFINE U == {{Shown(m, e) : e \in SeenIn(m, P)} : m \in ToSet(ms)}
<1>4. IsFiniteSet(U)
  <2> DEFINE g == [m \in ToSet(ms) |-> {Shown(m, e) : e \in SeenIn(m, P)}]
  <2>1. U = {g[m] : m \in ToSet(ms)}
    OBVIOUS
  <2>2. IsFiniteSet(ToSet(ms))
    <3>1. IsFiniteSet({ms[i] : i \in 1..n})
      BY <1>1, ImagesAreFinite
    <3> QED BY <1>1, <3>1
  <2> HIDE DEF g, U
  <2> QED BY <2>1, <2>2, ImagesAreFinite
<1>5. \A T \in U : IsFiniteSet(T) /\ T \in SUBSET NavEntries
  BY <1>3
<1>6. IsFiniteSet(UNION U) /\ UNION U \in SUBSET NavEntries
  <2> HIDE DEF U
  <2> QED BY <1>4, <1>5, FS_UNION
<1>7. Seen(ms, P) = UNION U
  BY DEF Seen
<1>8. ASSUME NEW x PROVE x \in Seen(ms, P) <=> \E m \in ToSet(ms) : \E e \in SeenIn(m, P) : x = Shown(m, e)
  BY DEF Seen
<1> QED BY <1>6, <1>7, <1>8

LEMMA NavigationIs ==
  ASSUME NEW ms, NavModules(ms), NEW P
  PROVE  InOrder(Navigation(ms, P), Seen(ms, P)) /\ Cardinality(Seen(ms, P)) \in Nat
<1>1. Navigation(ms, P) = Sorted(Seen(ms, P))
  BY DEF Navigation, Seen, Shown, SeenIn
<1> QED BY <1>1, SeenAre, SortedInOrder

\* What a person sees of the program: NavigationIsFair, for every list of
\* modules and all permissions.
THEOREM NavigationAlwaysFair ==
  ASSUME NEW ms, NavModules(ms), NEW P, NEW more
  PROVE  NavigationIsFair(ms, P, more, Navigation(ms, P))
<1> DEFINE nav == Navigation(ms, P)
           E == Seen(ms, P)
           n == Cardinality(E)
           wider == Navigation(ms, P \cup more)
           F == Seen(ms, P \cup more)
<1>1. /\ n \in Nat /\ E \in SUBSET NavEntries /\ DOMAIN nav = 1..n
      /\ \A i \in 1..n : nav[i] \in E
      /\ \A e \in E : \E i \in 1..n : nav[i] = e
      /\ \A i, j \in 1..n : i < j => NavBefore(nav[i], nav[j])
  BY SeenAre, NavigationIs DEF InOrder
<1>2. \A e \in F : e \in ToSet(wider)
  <2>1. InOrder(wider, F)
    BY NavigationIs
  <2> HIDE DEF wider, F
  <2> QED BY <2>1 DEF InOrder, ToSet
<1>3. \A x : x \in E <=> \E m \in ToSet(ms) : \E e \in SeenIn(m, P) : x = Shown(m, e)
  BY SeenAre
<1>4. \A Q : \A x : x \in Seen(ms, Q) <=> \E m \in ToSet(ms) : \E e \in SeenIn(m, Q) : x = Shown(m, e)
  BY SeenAre
<1>5. \A x : x \in F <=> \E m \in ToSet(ms) : \E e \in SeenIn(m, P \cup more) : x = Shown(m, e)
  BY <1>4
<1> HIDE DEF nav, E, n, wider, F
<1>6. ToSet(nav) \subseteq ToSet(wider)
  <2>1. \A m : SeenIn(m, P) \subseteq SeenIn(m, P \cup more)
    BY DEF SeenIn
  <2>2. E \subseteq F
    BY <1>3, <1>5, <2>1
  <2>3. ToSet(nav) \subseteq E
    BY <1>1 DEF ToSet
  <2> QED BY <1>2, <2>2, <2>3
<1>7. ASSUME NEW i \in DOMAIN nav, NEW k \in DOMAIN nav, nav[i].module = nav[k].module, NEW j \in i..k
      PROVE  nav[j].module = nav[i].module
  <2>1. i \in 1..n /\ j \in 1..n /\ k \in 1..n /\ i <= j /\ j <= k
    BY <1>1, <1>7
  <2>2. /\ nav[i].module \in Int /\ nav[j].module \in Int /\ nav[k].module \in Int
    BY <1>1, <2>1 DEF NavEntries
  <2>3. i = j \/ NavBefore(nav[i], nav[j])
    BY <1>1, <2>1
  <2>4. j = k \/ NavBefore(nav[j], nav[k])
    BY <1>1, <2>1
  <2>5. nav[i].module <= nav[j].module /\ nav[j].module <= nav[k].module
    BY <2>2, <2>3, <2>4 DEF NavBefore
  <2> QED BY <1>7, <2>2, <2>5
<1>8. ASSUME NEW m \in ToSet(ms), NEW e \in ToSet(m.nav), e.permission # 0
      PROVE  e.permission \in P <=> \E f \in ToSet(m.nav), i \in DOMAIN nav : nav[i] = Shown(m, f) /\ f = e
  <2>1. ASSUME e.permission \in P PROVE \E i \in DOMAIN nav : nav[i] = Shown(m, e)
    <3>1. Shown(m, e) \in E
      BY <1>3, <2>1 DEF SeenIn
    <3> QED BY <1>1, <3>1
  <2>2. ASSUME NEW i \in DOMAIN nav, nav[i] = Shown(m, e) PROVE e.permission \in P
    <3>1. Shown(m, e) \in E
      BY <1>1, <2>2
    <3>2. PICK l \in ToSet(ms) : \E f \in SeenIn(l, P) : Shown(m, e) = Shown(l, f)
      BY <1>3, <3>1
    <3>3. PICK f \in SeenIn(l, P) : Shown(m, e) = Shown(l, f)
      BY <3>2
    <3>4. m.id = l.id /\ e.order = f.order /\ e.label = f.label
      BY <3>3 DEF Shown
    <3>5. m = l
      BY <3>4 DEF NavModules, ToSet
    <3>6. f \in ToSet(m.nav)
      BY <3>5 DEF SeenIn
    <3>7. e = f
      <4>1. PICK i1 \in 1..Len(ms) : m = ms[i1]
        BY DEF NavModules, ToSet
      <4> QED BY <3>4, <3>6, <4>1 DEF NavModules
    <3> QED BY <1>8, <3>7 DEF SeenIn
  <2> QED BY <2>1, <2>2
<1>9. NavigationIsFair(ms, P, more, nav)
  <2>1. \A x : Can([tenant |-> 1, permissions |-> P], x, 0) <=> x \in P
    BY DEF Can
  <2>2. \A m \in ToSet(ms) : \A e \in ToSet(m.nav) :
          e.permission # 0 =>
            (e.permission \in P <=> \E f \in ToSet(m.nav), i \in DOMAIN nav : nav[i] = Shown(m, f) /\ f = e)
    BY <1>8
  <2> QED BY <1>6, <1>7, <2>1, <2>2 DEF NavigationIsFair, wider, Shown
<1> QED BY <1>9 DEF nav

-----------------------------------------------------------------------------
(* Search keys.                                                            *)

\* A sequence of a finite set goes through all of it.
LEMMA SetToSeqIs ==
  ASSUME NEW S, IsFiniteSet(S)
  PROVE  SetToSeq(S) \in Seq(S) /\ ToSet(SetToSeq(S)) = S
<1> DEFINE n == Cardinality(S)
           f == SetToSeq(S)
<1>1. n \in Nat /\ \E g : g \in Bijection(1..n, S)
  BY FS_CardinalityType DEF ExistsBijection
<1>2. IsFiniteSet(1..n) /\ Cardinality(1..n) = n
  BY <1>1, FS_Interval
<1> HIDE DEF n
<1>3. \E g \in [1..n -> S] : IsInjective(g)
  BY <1>1 DEF Bijection, Injection
<1>4. f \in [1..n -> S] /\ IsInjective(f)
  BY <1>3 DEF SetToSeq, n
<1> HIDE DEF f
<1>5. f \in Injection(1..n, S)
  BY <1>4 DEF Injection
<1>6. f \in Surjection(1..n, S)
  BY <1>2, <1>5, FS_Injection DEF n
<1>7. f \in Seq(S) /\ DOMAIN f = 1..n
  BY <1>1, <1>4
<1>8. ToSet(f) = S
  BY <1>4, <1>6, <1>7 DEF ToSet, Surjection
<1> QED BY <1>7, <1>8 DEF f

\* v goes through the first i sequences of f.
JoinOf(v, f, i) ==
  (\A x \in ToSet(v) : \E j \in 1..i : x \in ToSet(f[j])) /\ \A j \in 1..i : ToSet(f[j]) \subseteq ToSet(v)

\* What is joined first stays in front.
LEMMA JoinedInFront ==
  ASSUME NEW N, NEW f \in Seq(Seq(N)), NEW h, JoinsOf(h, f, N), NEW i \in 0..Len(f)
  PROVE  /\ h[i] \in Seq(N) /\ JoinOf(h[i], f, i)
         /\ \A k \in i..Len(f) : /\ h[k] \in Seq(N) /\ Len(h[i]) <= Len(h[k])
                                 /\ \A p \in 1..Len(h[i]) : h[k][p] = h[i][p]
<1> DEFINE n == Len(f)
<1>1. n \in Nat /\ DOMAIN f = 1..n /\ \A j \in 1..n : f[j] \in Seq(N)
  OBVIOUS
<1>2. h \in [0..n -> Seq(N)] /\ h[0] = <<>> /\ \A j \in 1..n : h[j] = h[j - 1] \o f[j]
  BY DEF JoinsOf
<1> HIDE DEF n
<1> DEFINE Good == {k \in 0..n : \A x : x \in ToSet(h[k]) <=> \E j \in 1..k : x \in ToSet(f[j])}
           Ahead == {k \in 0..n : k < i \/ /\ Len(h[i]) <= Len(h[k])
                                           /\ \A p \in 1..Len(h[i]) : h[k][p] = h[i][p]}
<1>3. 0 \in Good
  BY <1>1, <1>2 DEF ToSet
<1>4. ASSUME NEW k \in 1..n, k - 1 \in Good PROVE k \in Good
  <2>1. k \in 0..n /\ k - 1 \in 0..n /\ 1..k = 1..(k - 1) \cup {k}
    BY <1>1
  <2>2. h[k] = h[k - 1] \o f[k] /\ h[k - 1] \in Seq(N) /\ f[k] \in Seq(N)
    BY <1>1, <1>2, <2>1
  <2>3. ToSet(h[k]) = ToSet(h[k - 1]) \cup ToSet(f[k])
    BY <2>2, FreshBehind
  <2>4. \A x : x \in ToSet(h[k - 1]) <=> \E j \in 1..(k - 1) : x \in ToSet(f[j])
    BY <1>4
  <2>5. ASSUME NEW x PROVE x \in ToSet(h[k]) <=> \E j \in 1..k : x \in ToSet(f[j])
    BY <2>1, <2>3, <2>4
  <2> QED BY <2>1, <2>5
<1>5. 0..n \subseteq Good
  <2> HIDE DEF Good
  <2> QED BY <1>1, <1>3, <1>4, ByPrefixes
<1>6. 0 \in Ahead
  <2>1. i = 0 => Len(h[i]) <= Len(h[0])
    BY <1>2
  <2> QED BY <1>1, <2>1
<1>7. ASSUME NEW k \in 1..n, k - 1 \in Ahead PROVE k \in Ahead
  <2>0. k \in 0..n /\ k - 1 \in 0..n /\ i \in 0..n
    BY <1>1 DEF n
  <2>1. h[k] = h[k - 1] \o f[k] /\ h[k - 1] \in Seq(N) /\ f[k] \in Seq(N) /\ h[i] \in Seq(N)
    BY <1>1, <1>2, <2>0
  <2>2. CASE k < i
    BY <2>0, <2>2
  <2>3. CASE k = i
    <3>1. \A x \in Seq(N) : Len(x) <= Len(x)
      OBVIOUS
    <3>2. Len(h[i]) <= Len(h[i])
      BY <2>1, <3>1
    <3> QED BY <2>0, <2>3, <3>2
  <2>4. CASE k > i
    <3> DEFINE x == h[k - 1]
               y == h[i]
    <3>1. Len(y) <= Len(x) /\ \A p \in 1..Len(y) : x[p] = y[p]
      BY <1>7, <2>0, <2>4
    <3> HIDE DEF x, y
    <3>2. x \in Seq(N) /\ y \in Seq(N) /\ h[k] = x \o f[k]
      BY <2>1 DEF x, y
    <3>3. Len(x \o f[k]) = Len(x) + Len(f[k]) /\ Len(x) \in Nat /\ Len(y) \in Nat /\ Len(f[k]) \in Nat
      BY <2>1, <3>2
    <3>4. \A p \in 1..Len(x) : (x \o f[k])[p] = x[p]
      BY <2>1, <3>2
    <3>5. Len(y) <= Len(h[k]) /\ \A p \in 1..Len(y) : h[k][p] = y[p]
      BY <3>1, <3>2, <3>3, <3>4
    <3> QED BY <2>0, <3>5 DEF y
  <2> QED BY <2>0, <2>2, <2>3, <2>4
<1>8. 0..n \subseteq Ahead
  <2> HIDE DEF Ahead
  <2> QED BY <1>1, <1>6, <1>7, ByPrefixes
<1>9. i \in 0..n
  BY DEF n
<1>10. /\ h[i] \in Seq(N) /\ \A x \in ToSet(h[i]) : \E j \in 1..i : x \in ToSet(f[j])
       /\ \A j \in 1..i : ToSet(f[j]) \subseteq ToSet(h[i])
  BY <1>2, <1>5, <1>9
<1>11. ASSUME NEW k \in i..n PROVE h[k] \in Seq(N) /\ Len(h[i]) <= Len(h[k]) /\ \A p \in 1..Len(h[i]) : h[k][p] = h[i][p]
  <2>1. k \in 0..n /\ ~(k < i)
    BY <1>1, <1>9
  <2> QED BY <1>2, <1>8, <2>1
<1>12. JoinOf(h[i], f, i)
  BY <1>10 DEF JoinOf
<1> QED BY <1>10, <1>11, <1>12 DEF n

KeyFold(g, w) ==
  g = [s \in SUBSET DOMAIN w |-> IF s = {} THEN {} ELSE AddUnique(g[s \ {Max(s)}], w[Max(s)])]

LEMMA AddUniqueIs ==
  ASSUME NEW q, NEW k, NEW r, r = AddUnique(q, k)
  PROVE  LET same == {e \in q : e.query = k.query} IN
         \/ same = {} /\ r = q \cup {k}
         \/ same # {} /\ k.type = "verwaltung" /\ r = (q \ same) \cup {k}
         \/ same # {} /\ r = q
  BY DEF AddUnique

LEMMA KeyFoldExists ==
  ASSUME NEW K, NEW w \in Seq(K)
  PROVE  \E g : KeyFold(g, w)
<1> DEFINE n == Len(w)
           V == SUBSET K
           chosen == [s \in SUBSET (1..n) |-> Max(s)]
           step == [t \in (1..n) \X V |-> AddUnique(t[2], w[t[1]])]
<1>1. n \in Nat /\ DOMAIN w = 1..n /\ {} \in V /\ \A i \in 1..n : w[i] \in K
  OBVIOUS
<1>2. ASSUME NEW i \in 1..n, NEW c \in V PROVE AddUnique(c, w[i]) \in V
  BY <1>1, AddUniqueIs
<1> HIDE DEF n, V
<1>3. step \in [(1..n) \X V -> V]
  BY <1>2
<1>4. \A i \in 1..n, c \in V : step[i, c] = AddUnique(c, w[i])
  OBVIOUS
<1> HIDE DEF step
<1>5. PICK g \in [SUBSET (1..n) -> V] : FoldOf(g, 1..n, {}, chosen, step)
  BY <1>1, <1>3, LoopExists
<1>6. ASSUME NEW s \in SUBSET (1..n), s # {}
      PROVE  step[chosen[s], g[s \ {chosen[s]}]] = AddUnique(g[s \ {Max(s)}], w[Max(s)])
  <2>1. chosen[s] = Max(s) /\ Max(s) \in 1..n
    BY <1>1, <1>6, MaxOfPart
  <2>2. g[s \ {Max(s)}] \in V
    OBVIOUS
  <2> QED BY <1>4, <2>1, <2>2
<1>7. KeyFold(g, w)
  BY <1>1, <1>5, <1>6 DEF FoldOf, KeyFold
<1> QED BY <1>7

\* What the first k keys come to: no query twice, and in the place of each the
\* first of its query, or that of an administration.
KeptSoFar(q, w, k) ==
  /\ \A e \in q : \E i \in 1..k : e = w[i]
  /\ \A e, f \in q : e.query = f.query => e = f
  /\ \A i \in 1..k : \E e \in q : e.query = w[i].query /\ ((\E j \in 1..i : e = w[j]) \/ e.type = "verwaltung")

LEMMA KeptOneMore ==
  ASSUME NEW w, NEW k \in Nat \ {0}, NEW q, KeptSoFar(q, w, k - 1), NEW r, r = AddUnique(q, w[k])
  PROVE  KeptSoFar(r, w, k)
<1> DEFINE x == w[k]
           same == {e \in q : e.query = x.query}
<1>1. 1..k = 1..(k - 1) \cup {k} /\ k \in 1..k
  OBVIOUS
<1>2. /\ \A e \in q : \E i \in 1..(k - 1) : e = w[i]
      /\ \A e, f \in q : e.query = f.query => e = f
      /\ \A i \in 1..(k - 1) : \E e \in q : e.query = w[i].query /\ ((\E j \in 1..i : e = w[j]) \/ e.type = "verwaltung")
  BY DEF KeptSoFar
<1>3. \/ same = {} /\ r = q \cup {x}
      \/ same # {} /\ x.type = "verwaltung" /\ r = (q \ same) \cup {x}
      \/ same # {} /\ r = q
  BY AddUniqueIs
<1>4. \A e \in r : e \in q \/ e = x
  BY <1>3
<1>5. ASSUME NEW e \in r PROVE \E i \in 1..k : e = w[i]
  BY <1>1, <1>2, <1>4
<1>6. ASSUME NEW e \in r, NEW f \in r, e.query = f.query PROVE e = f
  BY <1>2, <1>3, <1>6
<1>7. ASSUME NEW i \in 1..k
      PROVE  \E e \in r : e.query = w[i].query /\ ((\E j \in 1..i : e = w[j]) \/ e.type = "verwaltung")
  <2>1. CASE i = k
    <3>1. CASE x \in r
      BY <1>1, <2>1, <3>1
    <3>2. CASE x \notin r
      <4>1. r = q /\ same # {}
        BY <1>3, <3>2
      <4>2. PICK e \in q : e.query = x.query
        BY <4>1
      <4>3. \E j \in 1..k : e = w[j]
        BY <1>1, <1>2
      <4> QED BY <2>1, <4>1, <4>2, <4>3
    <3> QED BY <3>1, <3>2
  <2>2. CASE i # k
    <3>1. PICK e \in q : e.query = w[i].query /\ ((\E j \in 1..i : e = w[j]) \/ e.type = "verwaltung")
      BY <1>1, <1>2, <2>2
    <3>2. CASE e \in r
      BY <3>1, <3>2
    <3>3. CASE e \notin r
      <4>1. x.type = "verwaltung" /\ x \in r /\ e.query = x.query
        BY <1>3, <3>3
      <4> QED BY <3>1, <4>1
    <3> QED BY <3>2, <3>3
  <2> QED BY <2>1, <2>2
<1> HIDE DEF x
<1> QED BY <1>5, <1>6, <1>7 DEF KeptSoFar

LEMMA KeptAll ==
  ASSUME NEW K, NEW w \in Seq(K), NEW q, q = FoldLeft(AddUnique, {}, w)
  PROVE  KeptSoFar(q, w, Len(w))
<1> DEFINE n == Len(w)
           G == CHOOSE g : KeyFold(g, w)
           Good == {k \in 0..n : KeptSoFar(G[1..k], w, k)}
<1>1. n \in Nat /\ DOMAIN w = 1..n
  OBVIOUS
<1> HIDE DEF n
<1>2. q = G[DOMAIN w]
  BY DEF FoldLeft, MapThenFoldSet, KeyFold
<1>3. KeyFold(G, w)
  BY KeyFoldExists
<1> HIDE DEF G
<1>4. 0 \in Good
  <2>1. 1..0 = {} /\ {} \in SUBSET DOMAIN w
    OBVIOUS
  <2>2. G[1..0] = {}
    BY <1>3, <2>1 DEF KeyFold
  <2>3. KeptSoFar({}, w, 0)
    BY DEF KeptSoFar
  <2>4. KeptSoFar(G[1..0], w, 0)
    BY <2>2, <2>3, Zenon
  <2> QED BY <1>1, <2>4
<1>5. ASSUME NEW k \in 1..n, k - 1 \in Good PROVE k \in Good
  <2>1. G[1..k] = AddUnique(G[1..(k - 1)], w[k])
    <3>1. 1..k \in (SUBSET (1..n)) \ {{}} /\ Max(1..k) = k /\ (1..k) \ {Max(1..k)} = 1..(k - 1)
      BY <1>1, MaxOfPrefix
    <3> HIDE DEF Good
    <3>2. G[1..k] = AddUnique(G[(1..k) \ {Max(1..k)}], w[Max(1..k)])
      BY <1>1, <1>3, <3>1 DEF KeyFold
    <3> QED BY <3>1, <3>2
  <2>2. KeptSoFar(G[1..(k - 1)], w, k - 1)
    BY <1>5
  <2>3. k \in Nat \ {0} /\ k \in 0..n
    BY <1>1
  <2> HIDE DEF Good
  <2>4. KeptSoFar(G[1..k], w, k)
    BY <2>1, <2>2, <2>3, KeptOneMore
  <2> QED BY <2>3, <2>4 DEF Good
<1> HIDE DEF Good
<1>6. 0..n \subseteq Good
  BY <1>1, <1>4, <1>5, ByPrefixes
<1> QED BY <1>1, <1>2, <1>6 DEF Good, n

\* Areas and places as the program has them: finitely many, words not zero.
KeyInputs(areas, localities, administrations) ==
  /\ areas \in Seq([id : Nat, name : Nat, city : BOOLEAN])
  /\ IsFiniteSet(localities)
  /\ \A l \in localities : l.name \in Nat \ {Kind} /\ l.postal \in Nat /\ DistrictOf(l) \in Nat
  /\ IsFiniteSet(administrations)

LEMMA UnionsAreFinite ==
  ASSUME NEW S, IsFiniteSet(S), NEW f, \A x \in S : IsFiniteSet(f[x])
  PROVE  IsFiniteSet(UNION {f[x] : x \in S})
<1> DEFINE T == {f[x] : x \in S}
<1>1. IsFiniteSet(T) /\ \A t \in T : IsFiniteSet(t)
  BY ImagesAreFinite
<1> HIDE DEF T
<1>2. IsFiniteSet(UNION T)
  BY <1>1, FS_UNION
<1> QED BY <1>2 DEF T

LEMMA AreasAreFinite ==
  ASSUME NEW areas, NEW A, areas \in Seq(A), NEW f, NEW T \in SUBSET ToSet(areas)
  PROVE  IsFiniteSet(ToSet(areas)) /\ IsFiniteSet({f[a] : a \in T})
<1> DEFINE n == Len(areas)
<1>1. n \in Nat /\ DOMAIN areas = 1..n
  OBVIOUS
<1> HIDE DEF n
<1>2. IsFiniteSet(1..n) /\ ToSet(areas) = {areas[i] : i \in 1..n}
  BY <1>1, FS_Interval DEF ToSet
<1>3. IsFiniteSet({areas[i] : i \in 1..n})
  BY <1>2, ImagesAreFinite
<1>4. IsFiniteSet(ToSet(areas)) /\ IsFiniteSet(T)
  BY <1>2, <1>3, FS_Subset
<1> QED BY <1>4, ImagesAreFinite

LEMMA PlaceKeysFinite ==
  ASSUME NEW a, NEW localities, IsFiniteSet(localities)
  PROVE  IsFiniteSet(PlaceKeys(a, localities))
<1> DEFINE N == {l.name : l \in localities}
           names == {l.name : l \in {k \in localities : DistrictOf(k) = a.id}} \ {a.name}
           name == [l \in localities |-> l.name]
           key == [n \in names |-> PlaceKey(a, localities, n)]
<1>1. N = {name[l] : l \in localities} /\ names \in SUBSET N
  OBVIOUS
<1> HIDE DEF N, name
<1>2. IsFiniteSet(N)
  BY <1>1, ImagesAreFinite
<1>3. IsFiniteSet(names)
  <2> HIDE DEF names
  <2> QED BY <1>1, <1>2, FS_Subset
<1>4. PlaceKeys(a, localities) = {key[n] : n \in names}
  BY DEF PlaceKeys
<1> HIDE DEF names, key
<1> QED BY <1>3, <1>4, ImagesAreFinite

LEMMA PostalKeysFinite ==
  ASSUME NEW areas, NEW A, areas \in Seq(A), NEW localities, IsFiniteSet(localities)
  PROVE  IsFiniteSet(PostalKeys(areas, localities))
<1> DEFINE P == {l.postal : l \in localities}
           postal == [l \in localities |-> l.postal]
           T(p) == {b \in ToSet(areas) : b.id = Winner(localities, p)}
           f == [p \in P |-> {Key(a, "plz", p, <<p>>) : a \in T(p)}]
<1>1. P = {postal[l] : l \in localities}
  OBVIOUS
<1>2. IsFiniteSet(P)
  <2> HIDE DEF P, postal
  <2> QED BY <1>1, ImagesAreFinite
<1>3. ASSUME NEW p \in P PROVE IsFiniteSet({Key(a, "plz", p, <<p>>) : a \in T(p)})
  <2> DEFINE U == T(p)
             g == [a \in U |-> Key(a, "plz", p, <<p>>)]
  <2>1. U \in SUBSET ToSet(areas) /\ {Key(a, "plz", p, <<p>>) : a \in U} = {g[a] : a \in U}
    OBVIOUS
  <2> HIDE DEF U, g
  <2>2. IsFiniteSet({g[a] : a \in U})
    BY <2>1, AreasAreFinite
  <2>3. IsFiniteSet({Key(a, "plz", p, <<p>>) : a \in U})
    BY <2>1, <2>2, Zenon
  <2> QED BY <2>3 DEF U
<1>4. PostalKeys(areas, localities) = UNION {f[p] : p \in P}
  <2>1. PostalKeys(areas, localities) = UNION {{Key(a, "plz", p, <<p>>) : a \in T(p)} : p \in P}
    BY Zenon DEF PostalKeys
  <2>2. \A p \in P : f[p] = {Key(a, "plz", p, <<p>>) : a \in T(p)}
    OBVIOUS
  <2> HIDE DEF P, T, f
  <2>3. {{Key(a, "plz", p, <<p>>) : a \in T(p)} : p \in P} = {f[p] : p \in P}
    BY <2>2
  <2> QED BY <2>1, <2>3, Zenon
<1>5. \A p \in P : IsFiniteSet(f[p])
  BY <1>3
<1> HIDE DEF f, P
<1> QED BY <1>2, <1>4, <1>5, UnionsAreFinite

LEMMA AdministrationKeysFinite ==
  ASSUME NEW areas, NEW A, areas \in Seq(A), NEW administrations, IsFiniteSet(administrations)
  PROVE  IsFiniteSet(AdministrationKeys(areas, administrations))
<1> DEFINE T(s) == {b \in ToSet(areas) : b.id = s.district}
           f == [s \in administrations |-> {Key(a, "verwaltung", s.scope, <<s.scope>>) : a \in T(s)}]
<1>1. ASSUME NEW s \in administrations PROVE IsFiniteSet({Key(a, "verwaltung", s.scope, <<s.scope>>) : a \in T(s)})
  <2> DEFINE U == T(s)
             g == [a \in U |-> Key(a, "verwaltung", s.scope, <<s.scope>>)]
  <2>1. U \in SUBSET ToSet(areas) /\ {Key(a, "verwaltung", s.scope, <<s.scope>>) : a \in U} = {g[a] : a \in U}
    OBVIOUS
  <2> HIDE DEF U, g
  <2>2. IsFiniteSet({g[a] : a \in U})
    BY <2>1, AreasAreFinite
  <2>3. IsFiniteSet({Key(a, "verwaltung", s.scope, <<s.scope>>) : a \in U})
    BY <2>1, <2>2, Zenon
  <2> QED BY <2>3 DEF U
<1>2. AdministrationKeys(areas, administrations) = UNION {f[s] : s \in administrations}
  <2>1. AdministrationKeys(areas, administrations) =
          UNION {{Key(a, "verwaltung", s.scope, <<s.scope>>) : a \in T(s)} : s \in administrations}
    BY Zenon DEF AdministrationKeys
  <2>2. \A s \in administrations : f[s] = {Key(a, "verwaltung", s.scope, <<s.scope>>) : a \in T(s)}
    OBVIOUS
  <2> HIDE DEF T, f
  <2>3. {{Key(a, "verwaltung", s.scope, <<s.scope>>) : a \in T(s)} : s \in administrations} = {f[s] : s \in administrations}
    BY <2>2
  <2> QED BY <2>1, <2>3, Zenon
<1>3. \A s \in administrations : IsFiniteSet(f[s])
  BY <1>1
<1> HIDE DEF f
<1> QED BY <1>2, <1>3, UnionsAreFinite

KeysOfArea(a, localities) == {AreaKey(a)} \cup PlaceKeys(a, localities)

\* w are the keys in the order they are added: those of the areas first.
Steps(w, areas, localities, administrations) ==
  /\ \A x \in ToSet(w) : \/ \E i \in 1..Len(areas) : x \in KeysOfArea(areas[i], localities)
                         \/ x \in PostalKeys(areas, localities)
                         \/ x \in AdministrationKeys(areas, administrations)
  /\ \A i \in 1..Len(areas) : \A x \in KeysOfArea(areas[i], localities) :
       \E p \in 1..Len(w) : /\ w[p] = x
                            /\ \A j \in 1..p : \E b \in 1..i : w[j] \in KeysOfArea(areas[b], localities)

LEMMA KeysOfAreaIs ==
  ASSUME NEW a, NEW localities, IsFiniteSet(localities)
  PROVE  LET v == <<AreaKey(a)>> \o SetToSeq(PlaceKeys(a, localities))
         IN v \in Seq(KeysOfArea(a, localities)) /\ ToSet(v) = KeysOfArea(a, localities)
<1> DEFINE K == KeysOfArea(a, localities)
           x == <<AreaKey(a)>>
           y == SetToSeq(PlaceKeys(a, localities))
<1>1. y \in Seq(PlaceKeys(a, localities)) /\ ToSet(y) = PlaceKeys(a, localities)
  BY PlaceKeysFinite, SetToSeqIs
<1>2. AreaKey(a) \in K /\ PlaceKeys(a, localities) \subseteq K /\ K = {AreaKey(a)} \cup PlaceKeys(a, localities)
  BY DEF KeysOfArea
<1> HIDE DEF K, y
<1>3. x \in Seq(K) /\ y \in Seq(K) /\ ToSet(x) = {AreaKey(a)}
  <2>1. x \in Seq(K) /\ DOMAIN x = {1} /\ x[1] = AreaKey(a)
    BY <1>2
  <2>2. y \in Seq(K)
    BY <1>1, <1>2
  <2>3. ToSet(x) = {AreaKey(a)}
    BY <2>1 DEF ToSet
  <2> QED BY <2>1, <2>2, <2>3
<1> HIDE DEF x
<1>4. x \o y \in Seq(K) /\ ToSet(x \o y) = ToSet(x) \cup ToSet(y)
  BY <1>3, FreshBehind
<1>5. ToSet(x \o y) = K
  BY <1>1, <1>2, <1>3, <1>4
<1> QED BY <1>4, <1>5 DEF K, x, y

LEMMA StepsAre ==
  ASSUME NEW areas, NEW localities, NEW administrations, KeyInputs(areas, localities, administrations)
  PROVE  \E w, K : /\ w \in Seq(K) /\ Steps(w, areas, localities, administrations)
                   /\ BuildSearchKeys(areas, localities, administrations) = FoldLeft(AddUnique, {}, w)
<1> DEFINE n == Len(areas)
           B == [i \in 1..n |-> KeysOfArea(areas[i], localities)]
           P == PostalKeys(areas, localities)
           M == AdministrationKeys(areas, administrations)
           K == (UNION {B[i] : i \in 1..n}) \cup P \cup M
           f == [i \in DOMAIN areas |-> <<AreaKey(areas[i])>> \o SetToSeq(PlaceKeys(areas[i], localities))]
           y == SetToSeq(P)
           z == SetToSeq(M)
<1>1. n \in Nat /\ DOMAIN areas = 1..n /\ IsFiniteSet(localities) /\ IsFiniteSet(administrations)
      /\ areas \in Seq([id : Nat, name : Nat, city : BOOLEAN])
  BY DEF KeyInputs
<1>2. y \in Seq(P) /\ ToSet(y) = P /\ z \in Seq(M) /\ ToSet(z) = M
  <2>1. IsFiniteSet(P)
    BY <1>1, PostalKeysFinite
  <2>2. IsFiniteSet(M)
    BY <1>1, AdministrationKeysFinite
  <2> HIDE DEF P, M
  <2> QED BY <2>1, <2>2, SetToSeqIs
<1>3. BuildSearchKeys(areas, localities, administrations) = FoldLeft(AddUnique, {}, FlattenSeq(f) \o y \o z)
  BY DEF BuildSearchKeys
<1>4. \A i \in 1..n : f[i] \in Seq(B[i]) /\ ToSet(f[i]) = B[i]
  BY <1>1, KeysOfAreaIs
<1>16. \A i \in 1..n : B[i] = KeysOfArea(areas[i], localities)
  OBVIOUS
<1>5. f = [i \in 1..n |-> f[i]]
  BY <1>1
<1> HIDE DEF n, P, M, f, y, z, B
<1>6. (\A i \in 1..n : B[i] \subseteq K) /\ P \subseteq K /\ M \subseteq K
  OBVIOUS
<1>7. \A x \in K : (\E i \in 1..n : x \in B[i]) \/ x \in P \/ x \in M
  OBVIOUS
<1> HIDE DEF K
<1>8. f \in Seq(Seq(K)) /\ Len(f) = n /\ y \in Seq(K) /\ z \in Seq(K)
  <2>1. \A i \in 1..n : f[i] \in Seq(K)
    <3> SUFFICES ASSUME NEW i \in 1..n PROVE f[i] \in Seq(K)
      OBVIOUS
    <3>1. f[i] \in Seq(B[i]) /\ B[i] \subseteq K
      BY <1>4, <1>6
    <3> QED BY <3>1
  <2>2. f \in [1..n -> Seq(K)]
    BY <1>5, <2>1
  <2>3. f \in Seq(Seq(K)) /\ Len(f) = n
    BY <1>1, <2>2
  <2>4. y \in Seq(K)
    BY <1>2, <1>6
  <2>5. z \in Seq(K)
    BY <1>2, <1>6
  <2> QED BY <2>3, <2>4, <2>5
<1>9. PICK h : JoinsOf(h, f, K) /\ FlattenSeq(f) = h[n]
  BY <1>8, FlattenJoins
<1>10. ASSUME NEW i \in 0..n
       PROVE  /\ h[i] \in Seq(K) /\ JoinOf(h[i], f, i)
              /\ h[n] \in Seq(K) /\ Len(h[i]) <= Len(h[n]) /\ \A p \in 1..Len(h[i]) : h[n][p] = h[i][p]
  <2>1. n \in i..Len(f) /\ i \in 0..Len(f)
    BY <1>1, <1>8
  <2>2. /\ h[i] \in Seq(K) /\ JoinOf(h[i], f, i)
        /\ \A k \in i..Len(f) : /\ h[k] \in Seq(K) /\ Len(h[i]) <= Len(h[k])
                                /\ \A p \in 1..Len(h[i]) : h[k][p] = h[i][p]
    <3>1. f \in Seq(Seq(K)) /\ JoinsOf(h, f, K) /\ i \in 0..Len(f)
      BY <1>8, <1>9, <2>1
    <3> QED BY <3>1, JoinedInFront
  <2> QED BY <2>1, <2>2
<1> DEFINE a == h[n]
           w == a \o y \o z
<1>11. a \in Seq(K)
  <2>1. n \in 0..n
    BY <1>1
  <2> HIDE DEF w
  <2>2. h[n] \in Seq(K)
    BY <1>10, <2>1
  <2> QED BY <2>2
<1> HIDE DEF a
<1>12. /\ w \in Seq(K) /\ ToSet(w) = ToSet(a) \cup P \cup M
       /\ Len(a) \in Nat /\ Len(w) \in Nat /\ Len(a) <= Len(w) /\ \A p \in 1..Len(a) : w[p] = a[p]
  <2>1. a \o y \in Seq(K) /\ ToSet(a \o y) = ToSet(a) \cup P
    BY <1>2, <1>8, <1>11, FreshBehind
  <2>2. (a \o y) \o z \in Seq(K) /\ ToSet((a \o y) \o z) = ToSet(a \o y) \cup M
    <3> DEFINE u == a \o y
    <3>1. u \in Seq(K)
      BY <2>1
    <3> HIDE DEF u
    <3>2. u \o z \in Seq(K) /\ ToSet(u \o z) = ToSet(u) \cup ToSet(z)
      BY <1>8, <3>1, FreshBehind
    <3> QED BY <1>2, <3>2 DEF u
  <2>3. \A p \in 1..Len(a) : p \in 1..Len(a \o y) /\ (a \o y)[p] = a[p]
    BY <1>8, <1>11
  <2>4. \A p \in 1..Len(a \o y) : ((a \o y) \o z)[p] = (a \o y)[p]
    BY <1>8, <2>1
  <2>5. Len(a) \in Nat /\ Len(a \o y) = Len(a) + Len(y) /\ Len((a \o y) \o z) = Len(a \o y) + Len(z)
        /\ Len(y) \in Nat /\ Len(z) \in Nat
    BY <1>8, <1>11, <2>1
  <2> QED BY <2>1, <2>2, <2>3, <2>4, <2>5
<1> HIDE DEF w
<1>13. ASSUME NEW x \in ToSet(w) PROVE (\E i \in 1..n : x \in B[i]) \/ x \in P \/ x \in M
  <2>1. ToSet(w) \subseteq K
    BY <1>12 DEF ToSet
  <2> QED BY <1>7, <2>1
<1>14. ASSUME NEW i \in 1..n, NEW x \in B[i]
       PROVE  \E p \in 1..Len(w) : w[p] = x /\ \A j \in 1..p : \E b \in 1..i : w[j] \in B[b]
  <2> DEFINE v == h[i]
  <2>1. i \in 0..n /\ i \in 1..i /\ 1..i \subseteq 1..n
    BY <1>1
  <2>2. /\ v \in Seq(K) /\ \A e \in ToSet(v) : \E j \in 1..i : e \in ToSet(f[j])
        /\ \A j \in 1..i : ToSet(f[j]) \subseteq ToSet(v)
        /\ Len(v) <= Len(a) /\ \A p \in 1..Len(v) : a[p] = v[p]
    BY <1>10, <2>1 DEF a, JoinOf
  <2> HIDE DEF v
  <2>3. Len(v) \in Nat /\ DOMAIN v = 1..Len(v)
    BY <2>2
  <2>4. x \in ToSet(v)
    BY <1>4, <2>1, <2>2
  <2>5. PICK p \in 1..Len(v) : v[p] = x
    BY <2>3, <2>4 DEF ToSet
  <2>6. p \in 1..Len(w) /\ w[p] = x
    BY <1>12, <2>2, <2>3, <2>5
  <2>7. ASSUME NEW j \in 1..p PROVE \E b \in 1..i : w[j] \in B[b]
    <3>1. j \in 1..Len(v) /\ j \in 1..Len(a)
      BY <1>12, <2>2, <2>3
    <3>2. w[j] = v[j]
      BY <1>12, <2>2, <3>1
    <3>3. v[j] \in ToSet(v)
      BY <2>3, <3>1 DEF ToSet
    <3>4. PICK b \in 1..i : v[j] \in ToSet(f[b])
      BY <2>2, <3>3
    <3> QED BY <1>4, <2>1, <3>2, <3>4
  <2> QED BY <2>6, <2>7
<1>15. Steps(w, areas, localities, administrations)
  BY <1>16, <1>13, <1>14 DEF Steps, n, P, M
<1> QED BY <1>3, <1>9, <1>12, <1>15 DEF w, a

\* No district has more of a postal code than the one that gets it.
LEMMA WinnerHasMost ==
  ASSUME NEW localities, IsFiniteSet(localities), \A l \in localities : DistrictOf(l) \in Nat,
         NEW m \in localities, NEW d
  PROVE  Share(localities, m.postal, d) <= Share(localities, m.postal, Winner(localities, m.postal))
<1> DEFINE p == m.postal
           D == {DistrictOf(l) : l \in {k \in localities : k.postal = p}}
           share == [e \in D |-> Share(localities, p, e)]
           values == {share[e] : e \in D}
           best == {e \in D : \A f \in D : Share(localities, p, f) <= Share(localities, p, e)}
<1>1. ASSUME NEW e PROVE Share(localities, p, e) \in Nat /\ (e \notin D => Share(localities, p, e) = 0)
  <2> DEFINE L == {l \in localities : l.postal = p /\ DistrictOf(l) = e}
  <2>1. IsFiniteSet(L)
    BY FS_Subset
  <2>2. e \notin D => L = {}
    OBVIOUS
  <2>3. Share(localities, p, e) = Cardinality(L)
    BY DEF Share
  <2> HIDE DEF L, D
  <2> QED BY <2>1, <2>2, <2>3, FS_CardinalityType, FS_EmptySet
<1>2. IsFiniteSet(D) /\ D # {} /\ D \in SUBSET Nat
  <2> DEFINE district == [l \in localities |-> DistrictOf(l)]
             all == {district[l] : l \in localities}
  <2>1. IsFiniteSet(all)
    <3> HIDE DEF district
    <3> QED BY ImagesAreFinite
  <2>2. D \in SUBSET all /\ all \in SUBSET Nat /\ DistrictOf(m) \in D
    OBVIOUS
  <2> HIDE DEF D, all
  <2> QED BY <2>1, <2>2, FS_Subset
<1>3. \A e \in D : share[e] = Share(localities, p, e) /\ share[e] \in Nat
  BY <1>1
<1> HIDE DEF D, share
<1>4. values \in SUBSET Nat /\ values # {} /\ IsFiniteSet(values)
  <2>1. IsFiniteSet(values)
    BY <1>2, ImagesAreFinite
  <2> QED BY <1>2, <1>3, <2>1
<1>5. Max(values) \in values /\ \A k \in values : Max(values) >= k
  <2> HIDE DEF values
  <2> QED BY <1>4, MaxIsGreatest
<1>6. PICK e \in D : share[e] = Max(values)
  BY <1>5
<1>7. ASSUME NEW f \in D PROVE Share(localities, p, f) <= Share(localities, p, e)
  <2>1. share[f] \in values /\ Max(values) >= share[f]
    BY <1>5
  <2>2. share[f] \in Nat /\ share[e] \in Nat
    BY <1>3
  <2> HIDE DEF values
  <2> QED BY <1>3, <1>6, <2>1, <2>2
<1>8. best \in SUBSET Nat /\ best # {}
  BY <1>2, <1>7
<1>9. Min(best) \in best
  <2> HIDE DEF best
  <2> QED BY <1>8, MinIsLeast
<1>10. Winner(localities, p) = Min(best)
  BY DEF Winner, D
<1>11. \A f \in D : Share(localities, p, f) <= Share(localities, p, Winner(localities, p))
  BY <1>9, <1>10
<1>12. CASE d \in D
  BY <1>11, <1>12
<1>13. CASE d \notin D
  <2>1. Share(localities, p, d) = 0 /\ Share(localities, p, Winner(localities, p)) \in Nat
    BY <1>1, <1>13 DEF D
  <2> QED BY <2>1
<1> QED BY <1>12, <1>13

LEMMA Queries ==
  /\ \A a, b : <<a>> = <<b>> => a = b
  /\ \A a, b, c : <<a>> # <<b, c>>
  /\ \A a, b, c, d : <<a, b>> = <<c, d>> => a = c
<1>1. \A a, b : <<a>> = <<b>> => a = b
  <2>1. \A a : <<a>>[1] = a
    OBVIOUS
  <2> QED BY <2>1
<1>2. \A a, b, c : <<a>> # <<b, c>>
  <2>1. \A a : Len(<<a>>) = 1
    OBVIOUS
  <2>2. \A a, b : Len(<<a, b>>) = 2
    OBVIOUS
  <2> QED BY <2>1, <2>2
<1>3. \A a, b, c, d : <<a, b>> = <<c, d>> => a = c
  OBVIOUS
<1> QED BY <1>1, <1>2, <1>3

\* Two places of different districts have a name in common only if several
\* districts have it.
LEMMA NamedOnce ==
  ASSUME NEW localities, IsFiniteSet(localities), NEW k \in localities, NEW l \in localities, k.name = l.name,
         ~(Cardinality(DistrictsNamed(localities, l.name)) > 1)
  PROVE  DistrictOf(k) = DistrictOf(l)
<1> DEFINE D == DistrictsNamed(localities, l.name)
           district == [x \in localities |-> DistrictOf(x)]
           all == {district[x] : x \in localities}
           two == {DistrictOf(k)} \cup {DistrictOf(l)}
<1>1. IsFiniteSet(all)
  <2> HIDE DEF district
  <2> QED BY ImagesAreFinite
<1>2. D \in SUBSET all /\ DistrictOf(k) \in D /\ DistrictOf(l) \in D
  BY DEF DistrictsNamed
<1> HIDE DEF D, all
<1>3. IsFiniteSet(D) /\ Cardinality(D) \in Nat /\ two \in SUBSET D
  BY <1>1, <1>2, FS_Subset, FS_CardinalityType
<1>4. DistrictOf(k) # DistrictOf(l) => Cardinality(two) = 2
  <2>1. IsFiniteSet({DistrictOf(k)}) /\ Cardinality({DistrictOf(k)}) = 1
    BY FS_Singleton
  <2>2. Cardinality(two) = IF DistrictOf(l) \in {DistrictOf(k)} THEN 1 ELSE 1 + 1
    BY <2>1, FS_AddElement
  <2> HIDE DEF two
  <2> QED BY <2>2
<1>5. Cardinality(two) <= Cardinality(D)
  <2> HIDE DEF two
  <2> QED BY <1>3, FS_Subset
<1> HIDE DEF two
<1> QED BY <1>3, <1>4, <1>5 DEF D

\* The keys of the areas: one of the area, the others of its places.
LEMMA PlaceKeyIs ==
  ASSUME NEW a, NEW localities, NEW e \in PlaceKeys(a, localities)
  PROVE  \E k \in localities : DistrictOf(k) = a.id /\ k.name # a.name /\ e = PlaceKey(a, localities, k.name)
BY DEF PlaceKeys

\* Every place of the areas is searched for, no postal code by a district that
\* has less of it, and no query twice: EveryPlaceIsSearched, for every list of
\* areas, all their places and administrations.
THEOREM PlacesAlwaysSearched ==
  ASSUME NEW areas, NEW localities, NEW administrations, KeyInputs(areas, localities, administrations)
  PROVE  EveryPlaceIsSearched(areas, localities, BuildSearchKeys(areas, localities, administrations))
<1> DEFINE keys == BuildSearchKeys(areas, localities, administrations)
           n == Len(areas)
           B(i) == KeysOfArea(areas[i], localities)
<1>1. PICK w, K : /\ w \in Seq(K) /\ Steps(w, areas, localities, administrations)
                  /\ keys = FoldLeft(AddUnique, {}, w)
  BY StepsAre
<1>2. KeptSoFar(keys, w, Len(w))
  BY <1>1, KeptAll
<1> HIDE DEF keys
<1>3. /\ n \in Nat /\ DOMAIN areas = 1..n /\ IsFiniteSet(localities)
      /\ \A l \in localities : l.name \in Nat \ {Kind} /\ l.postal \in Nat /\ DistrictOf(l) \in Nat
  BY DEF KeyInputs
<1>4. /\ \A e \in keys : \E i \in 1..Len(w) : e = w[i]
      /\ \A e, f \in keys : e.query = f.query => e = f
      /\ \A i \in 1..Len(w) : \E e \in keys : e.query = w[i].query /\ ((\E j \in 1..i : e = w[j]) \/ e.type = "verwaltung")
  BY <1>2 DEF KeptSoFar
<1>5. /\ \A x \in ToSet(w) : \/ \E i \in 1..n : x \in B(i)
                             \/ x \in PostalKeys(areas, localities)
                             \/ x \in AdministrationKeys(areas, administrations)
      /\ \A i \in 1..n : \A x \in B(i) :
           \E p \in 1..Len(w) : w[p] = x /\ \A j \in 1..p : \E b \in 1..i : w[j] \in B(b)
  BY <1>1 DEF Steps
<1>6. \A e \in keys : e \in ToSet(w)
  BY <1>1, <1>4 DEF ToSet
<1> HIDE DEF n
<1>7. ASSUME NEW i \in 1..n, NEW e \in B(i)
      PROVE  e.type \in {"kreis", "ort"}
  <2>1. e = AreaKey(areas[i]) \/ e \in PlaceKeys(areas[i], localities)
    BY DEF KeysOfArea
  <2>2. CASE e = AreaKey(areas[i])
    BY <2>2 DEF AreaKey, Key
  <2>3. CASE e \in PlaceKeys(areas[i], localities)
    BY <2>3, PlaceKeyIs DEF PlaceKey, Key
  <2> QED BY <2>1, <2>2, <2>3
<1>8. ASSUME NEW e \in keys, e.type = "verwaltung"
      PROVE  e.query = <<e.scope>>
  <2>1. e \in AdministrationKeys(areas, administrations)
    <3>1. e \in PostalKeys(areas, localities) => e.type = "plz"
      BY DEF PostalKeys, Key
    <3> QED BY <1>5, <1>6, <1>7, <1>8, <3>1
  <2> QED BY <2>1 DEF AdministrationKeys, Key
<1>9. ASSUME NEW e \in keys, e.type = "plz", NEW a \in ToSet(areas)
      PROVE  Share(localities, e.scope, a.id) <= Share(localities, e.scope, e.area)
  <2>1. e \in PostalKeys(areas, localities)
    <3>1. e \in AdministrationKeys(areas, administrations) => e.type = "verwaltung"
      BY DEF AdministrationKeys, Key
    <3> QED BY <1>5, <1>6, <1>7, <1>9, <3>1
  <2>2. PICK m \in localities : e.scope = m.postal /\ e.area = Winner(localities, m.postal)
    BY <2>1 DEF PostalKeys, Key
  <2> QED BY <1>3, <2>2, WinnerHasMost
<1>10. ASSUME NEW i \in 1..n, NEW l \in localities, DistrictOf(l) = areas[i].id, l.name # areas[i].name
       PROVE  \E k \in keys :
           \/ k.type = "ort" /\ k.area = areas[i].id /\ k.scope = l.name
           \/ k.type = "verwaltung" /\ k.scope = l.name
           \/ k.type = "kreis" /\ k.query = <<l.name>>
           \/ /\ k.type = "ort" /\ \E j \in 1..(i - 1) : areas[j].id = k.area
              /\ k.query = <<l.name, Min(PostalCodesOf(localities, l.name, areas[i].id))>>
  <2> DEFINE name == l.name
             several == Cardinality(DistrictsNamed(localities, name)) > 1
             postal(j) == Min(PostalCodesOf(localities, name, areas[j].id))
             x == PlaceKey(areas[i], localities, name)
  <2>1. x \in B(i)
    BY <1>10 DEF PlaceKeys, KeysOfArea
  <2>2. PICK p \in 1..Len(w) : w[p] = x /\ \A j \in 1..p : \E b \in 1..i : w[j] \in B(b)
    BY <1>5, <2>1
  <2>3. PICK e \in keys : e.query = x.query /\ ((\E j \in 1..p : e = w[j]) \/ e.type = "verwaltung")
    <3> HIDE DEF x
    <3>1. \E e \in keys : e.query = w[p].query /\ ((\E j \in 1..p : e = w[j]) \/ e.type = "verwaltung")
      BY <1>4
    <3> QED BY <2>2, <3>1
  <2>4. \A j : PlaceKey(areas[j], localities, name).query = (IF several THEN <<name, postal(j)>> ELSE <<name>>)
    BY DEF PlaceKey, Key
  <2>5. x.query = IF several THEN <<name, postal(i)>> ELSE <<name>>
    BY <2>4
  <2> HIDE DEF x, name, several, postal
  <2>6. CASE e.type = "verwaltung"
    <3>1. e.query = <<e.scope>>
      BY <1>8, <2>6
    <3>2. e.scope = name
      BY <2>3, <2>5, <3>1, Queries
    <3> QED BY <2>6, <3>2 DEF name
  <2>7. CASE \E j \in 1..p : e = w[j]
    <3>1. PICK b \in 1..i : e \in B(b)
      BY <2>2, <2>7
    <3>2. e = AreaKey(areas[b]) \/ e \in PlaceKeys(areas[b], localities)
      BY <3>1 DEF KeysOfArea
    <3>3. CASE e = AreaKey(areas[b])
      <4>1. e.type = "kreis" /\ e.query = IF areas[b].city THEN <<areas[b].name>> ELSE <<Kind, areas[b].name>>
        BY <3>3 DEF AreaKey, Key
      <4>2. name # Kind
        BY <1>3 DEF name
      <4>3. e.query = <<name>>
        <5>1. CASE several
          <6>1. \A c : <<name, postal(i)>> # <<c>>
            BY Queries
          <6>2. \A c : <<name, postal(i)>> # <<Kind, c>>
            BY <4>2, Queries
          <6> QED BY <2>3, <2>5, <4>1, <5>1, <6>1, <6>2
        <5>2. CASE ~several
          BY <2>3, <2>5, <5>2
        <5> QED BY <5>1, <5>2
      <4> QED BY <4>1, <4>3 DEF name
    <3>4. CASE e \in PlaceKeys(areas[b], localities)
      <4>1. PICK k \in localities : DistrictOf(k) = areas[b].id /\ e = PlaceKey(areas[b], localities, k.name)
        BY <3>4, PlaceKeyIs
      <4>2. /\ e.type = "ort" /\ e.area = areas[b].id /\ e.scope = k.name
            /\ e.query = IF Cardinality(DistrictsNamed(localities, k.name)) > 1
                         THEN <<k.name, Min(PostalCodesOf(localities, k.name, areas[b].id))>> ELSE <<k.name>>
        BY <4>1 DEF PlaceKey, Key
      <4>3. k.name = name
        BY <2>3, <2>5, <4>2, Queries
      <4>4. CASE areas[b].id = areas[i].id
        BY <4>2, <4>3, <4>4 DEF name
      <4>5. CASE areas[b].id # areas[i].id
        <5>1. several
          BY <1>3, <1>10, <4>1, <4>3, <4>5, NamedOnce DEF name, several
        <5>2. e.query = <<name, postal(i)>>
          BY <2>3, <2>5, <5>1
        <5>3. b \in 1..(i - 1)
          BY <4>5
        <5> QED BY <4>2, <5>2, <5>3 DEF name, postal
      <4> QED BY <4>4, <4>5
    <3> QED BY <3>2, <3>3, <3>4
  <2> QED BY <2>3, <2>6, <2>7
<1>11. EveryPlaceIsSearched(areas, localities, keys)
  BY <1>3, <1>4, <1>9, <1>10 DEF EveryPlaceIsSearched
<1> QED BY <1>11 DEF keys

-----------------------------------------------------------------------------
(* All of them.                                                            *)

\* An input that the function of its kind is called with.
Proper(t) ==
  \/ t.kind = "keys" /\ KeyInputs(t.areas, t.localities, t.administrations)
  \/ t.kind = "stage" /\ Stock(t.stock) /\ t.order \in Order
  \/ t.kind = "place" /\ Contacts(t.contacts)
  \/ t.kind = "command" /\ \E W : t.line \in Seq(W)
  \/ t.kind = "period" /\ MarkedTexts(t.texts)
  \/ t.kind = "type" /\ \A s \in ToSet(TypeSources) : t.rules[s] \in SUBSET (Nat \ {0})
  \/ t.kind = "region" /\ RegionTextsOk(t.texts)
  \/ t.kind = "registry" /\ \E N : ModulesOk(t.modules, N)
  \/ t.kind = "navigation" /\ NavModules(t.modules)
  \/ t.kind = "items" /\ t.items \in Seq(Item)
  \/ t.kind = "amount" /\ t.value \in Int
  \/ t.kind = "reminder" /\ t.invoice \in Invoice /\ Levels(t.levels) /\ RunsInOrder(t.invoice, t.runs)
  \/ /\ t.kind = "schedule" /\ Jobs(t.jobs) /\ (t.selected = {"*"} \/ "*" \notin t.selected)
     /\ t.enabled \in BOOLEAN /\ t.folder \in BOOLEAN
  \/ t.kind = "delay" /\ t.attempt \in Nat /\ t.base \in Nat /\ t.limit \in Nat
  \/ t.kind = "export"
  \/ t.kind = "verdict" /\ \E O, W, R, S : t.file \in Seq(O \X W) /\ t.status \in [R -> S]

\* Every function answers what its module says of it.
THEOREM EveryTaskAgrees ==
  ASSUME NEW t, Proper(t)
  PROVE  Agrees(t, Evaluated(t))
<1>1. CASE t.kind = "keys"
  <2>1. KeyInputs(t.areas, t.localities, t.administrations)
    BY <1>1 DEF Proper
  <2>2. Evaluated(t) = BuildSearchKeys(t.areas, t.localities, t.administrations)
    BY <1>1 DEF Evaluated
  <2>3. EveryPlaceIsSearched(t.areas, t.localities, Evaluated(t))
    BY <2>1, <2>2, PlacesAlwaysSearched
  <2> QED BY <1>1, <2>3 DEF Agrees
<1>2. CASE t.kind = "stage"
  <2>1. Stock(t.stock) /\ t.order \in Order
    BY <1>2 DEF Proper
  <2>2. Evaluated(t) = Selected50(t.stock, t.order)
    BY <1>2 DEF Evaluated
  <2>3. StageReachesTarget(t.stock, t.order, Evaluated(t))
    BY <2>1, <2>2, StagesAlwaysReach
  <2>4. RefusalsAreExplained(t.stock, t.order, Evaluated(t))
    BY <2>1, <2>2, RefusalsAlwaysExplained
  <2> QED BY <1>2, <2>3, <2>4 DEF Agrees
<1>3. CASE t.kind = "place"
  <2>1. Contacts(t.contacts)
    BY <1>3 DEF Proper
  <2>2. Evaluated(t) = AreaFromContacts(t.contacts)
    BY <1>3 DEF Evaluated
  <2>3. PlaceIsAttested(t.contacts, Evaluated(t))
    BY <2>1, <2>2, PlacesAlwaysAttested
  <2> QED BY <1>3, <2>3 DEF Agrees
<1>4. CASE t.kind = "command"
  <2>1. PICK W : t.line \in Seq(W)
    BY <1>4 DEF Proper
  <2>2. Evaluated(t) = ParseArguments(t.line)
    BY <1>4 DEF Evaluated
  <2>3. CommandLineIsRead(t.line, Evaluated(t))
    BY <2>1, <2>2, CommandLinesAlwaysRead
  <2> QED BY <1>4, <2>3 DEF Agrees
<1>5. CASE t.kind = "period"
  <2>1. MarkedTexts(t.texts)
    BY <1>5 DEF Proper
  <2>2. Evaluated(t) = PeriodDecision(t.texts)
    BY <1>5 DEF Evaluated
  <2>3. PeriodIsEvidenced(t.texts, Evaluated(t))
    BY <2>1, <2>2, PeriodsAlwaysEvidenced
  <2> QED BY <1>5, <2>3 DEF Agrees
<1>6. CASE t.kind = "type"
  <2>1. \A s \in ToSet(TypeSources) : t.rules[s] \in SUBSET (Nat \ {0})
    BY <1>6 DEF Proper
  <2>2. Evaluated(t) = TypeDecision(t.rules)
    BY <1>6 DEF Evaluated
  <2>3. TypeIsOfFirstSource(t.rules, Evaluated(t))
    BY <2>1, <2>2, TypesAlwaysOfFirstSource
  <2> QED BY <1>6, <2>3 DEF Agrees
<1>7. CASE t.kind = "region"
  <2>1. RegionTextsOk(t.texts)
    BY <1>7 DEF Proper
  <2>2. Evaluated(t) = RegionOf(t.texts)
    BY <1>7 DEF Evaluated
  <2>3. RegionIsEvidenced(t.texts, Evaluated(t))
    BY <2>1, <2>2, RegionsAlwaysEvidenced
  <2> QED BY <1>7, <2>3 DEF Agrees
<1>8. CASE t.kind = "registry"
  <2>1. \E N : ModulesOk(t.modules, N)
    BY <1>8 DEF Proper
  <2>2. Evaluated(t) = CreateRegistry(t.modules)
    BY <1>8 DEF Evaluated
  <2>3. RegistryIsUnambiguous(t.modules, Evaluated(t))
    BY <2>1, <2>2, RegistriesAlwaysUnambiguous
  <2> QED BY <1>8, <2>3 DEF Agrees
<1>9. CASE t.kind = "navigation"
  <2>1. NavModules(t.modules)
    BY <1>9 DEF Proper
  <2>2. Evaluated(t) = Navigation(t.modules, t.permissions)
    BY <1>9 DEF Evaluated
  <2>3. NavigationIsFair(t.modules, t.permissions, t.more, Evaluated(t))
    BY <2>1, <2>2, NavigationAlwaysFair
  <2> QED BY <1>9, <2>3 DEF Agrees
<1>10. CASE t.kind = "items"
  <2>1. t.items \in Seq(Item)
    BY <1>10 DEF Proper
  <2>2. Evaluated(t) = Totals(t.items, t.treatment)
    BY <1>10 DEF Evaluated
  <2>3. TotalsAreNear(t.items, t.treatment, Evaluated(t))
    BY <2>1, <2>2, TotalsAlwaysNear
  <2> QED BY <1>10, <2>3 DEF Agrees
<1>11. CASE t.kind = "amount"
  <2>1. t.value \in Int
    BY <1>11 DEF Proper
  <2>2. Evaluated(t) = Decimal(t.value, 2)
    BY <1>11 DEF Evaluated
  <2>3. AmountIsReadBack(t.value, Evaluated(t))
    BY <2>1, <2>2, AmountsAlwaysReadBack
  <2> QED BY <1>11, <2>3 DEF Agrees
<1>12. CASE t.kind = "reminder"
  <2>1. t.invoice \in Invoice /\ Levels(t.levels) /\ RunsInOrder(t.invoice, t.runs)
    BY <1>12 DEF Proper
  <2>2. Evaluated(t) = Reminders(t.invoice, t.levels, t.runs)
    BY <1>12 DEF Evaluated
  <2>3. RemindersChargeOnce(t.invoice, t.levels, Evaluated(t))
    BY <2>1, <2>2, RemindersAlwaysChargeOnce
  <2> QED BY <1>12, <2>3 DEF Agrees
<1>13. CASE t.kind = "schedule"
  <2>1. Jobs(t.jobs) /\ (t.selected = {"*"} \/ "*" \notin t.selected)
    BY <1>13 DEF Proper
  <2>2. t.enabled \in BOOLEAN /\ t.folder \in BOOLEAN
    BY <1>13 DEF Proper
  <2>3. Evaluated(t) = BuildWorkerSchedules(t.jobs, t.selected, t.enabled, t.folder)
    BY <1>13 DEF Evaluated
  <2>4. SchedulesAreKnown(t.jobs, t.selected, t.enabled, t.folder, Evaluated(t))
    BY <2>1, <2>2, <2>3, SchedulesAlwaysKnown
  <2> QED BY <1>13, <2>4 DEF Agrees
<1>14. CASE t.kind = "delay"
  <2>1. t.attempt \in Nat /\ t.base \in Nat /\ t.limit \in Nat
    BY <1>14 DEF Proper
  <2>2. Evaluated(t) = RetryDelays(t.attempt, t.base, t.limit)
    BY <1>14 DEF Evaluated
  <2>3. DelaysAreBounded(t.attempt, t.base, t.limit, Evaluated(t))
    BY <2>1, <2>2, DelaysAlwaysBounded
  <2> QED BY <1>14, <2>3 DEF Agrees
<1>15. CASE t.kind = "export"
  <2>1. Evaluated(t) = WriteZip(Rows(t.occurrences, t.documents, t.document, t.status), t.storage)
    BY <1>15 DEF Evaluated
  <2>2. ExportIsConsistent(t.occurrences, t.documents, Evaluated(t))
    BY <2>1, ExportsAlwaysConsistent
  <2> QED BY <1>15, <2>2 DEF Agrees
<1>16. CASE t.kind = "verdict"
  <2>1. PICK O, W, R, S : t.file \in Seq(O \X W) /\ t.status \in [R -> S]
    BY <1>16, Zenon DEF Proper
  <2>2. Evaluated(t) = Apply(t.file, t.status)
    BY <1>16 DEF Evaluated
  <2>3. VerdictsAreSafe(t.file, t.status, Evaluated(t))
    <3>1. VerdictsAreSafe(t.file, t.status, Apply(t.file, t.status))
      BY <2>1, VerdictsAlwaysSafe
    <3> QED BY <2>2, <3>1, Zenon
  <2> QED BY <1>16, <2>3 DEF Agrees
<1> QED BY <1>1, <1>2, <1>3, <1>4, <1>5, <1>6, <1>7, <1>8, <1>9, <1>10, <1>11, <1>12, <1>13, <1>14, <1>15, <1>16 DEF Proper

\* The places of the runs are finitely many.
LEMMA LocalitiesAreFinite == IsFiniteSet(Localities)
<1> DEFINE towns == {<<1, 1>>, <<1, 2>>, <<2, 1>>}
           pairs == ({11, 12} \X {1, 2}) \X towns
           place == [p \in pairs |-> [name |-> p[1][1], postal |-> p[1][2], municipality |-> p[2]]]
<1>1. IsFiniteSet({11, 12}) /\ IsFiniteSet({1, 2}) /\ IsFiniteSet({<<1, 1>>} \cup {<<1, 2>>} \cup {<<2, 1>>})
  <2>1. {11, 12} = {11} \cup {12} /\ {1, 2} = {1} \cup {2}
    OBVIOUS
  <2>2. \A x : IsFiniteSet({x})
    BY FS_Singleton
  <2>3. IsFiniteSet({11} \cup {12}) /\ IsFiniteSet({1} \cup {2}) /\ IsFiniteSet({<<1, 1>>} \cup {<<1, 2>>})
    BY <2>2, FS_Union
  <2> QED BY <2>1, <2>2, <2>3, FS_Union
<1>2. towns = {<<1, 1>>} \cup {<<1, 2>>} \cup {<<2, 1>>}
  OBVIOUS
<1>3. IsFiniteSet(towns)
  BY <1>1, <1>2
<1>4. IsFiniteSet(pairs)
  <2> HIDE DEF towns
  <2>1. IsFiniteSet({11, 12} \X {1, 2})
    BY <1>1, FS_Product
  <2> QED BY <2>1, <1>3, FS_Product
<1>5. IsFiniteSet({place[p] : p \in pairs})
  <2> HIDE DEF place, pairs
  <2> QED BY <1>4, ImagesAreFinite
<1>6. Localities \subseteq {place[p] : p \in pairs}
  <2> SUFFICES ASSUME NEW l \in Localities PROVE \E p \in pairs : l = place[p]
    OBVIOUS
  <2>1. l = [name |-> l.name, postal |-> l.postal, municipality |-> l.municipality]
    BY DEF Localities
  <2>2. l.name \in {11, 12} /\ l.postal \in {1, 2} /\ l.municipality \in towns
    BY DEF Localities
  <2>3. <<<<l.name, l.postal>>, l.municipality>> \in pairs
    BY <2>2
  <2>4. place[<<<<l.name, l.postal>>, l.municipality>>] = l
    BY <2>1, <2>3
  <2> QED BY <2>3, <2>4
<1> QED BY <1>5, <1>6, FS_Subset

LEMMA KeyTasksProper == ASSUME NEW t \in KeyTasks PROVE Proper(t)
<1>1. t.kind = "keys" /\ t.areas \in AreaLists /\ t.localities \in SUBSET Localities
      /\ t.administrations \in {{}, {[scope |-> 11, district |-> 2]}}
  BY DEF KeyTasks
<1>2. t.areas \in Seq([id : Nat, name : Nat, city : BOOLEAN])
  <2> DEFINE A == [id : Nat, name : Nat, city : BOOLEAN]
  <2>1. CASE \E p \in A, q \in A : t.areas = <<p, q>>
    <3>1. \A p, q \in A : <<p, q>> \in Seq(A)
      OBVIOUS
    <3> QED BY <2>1, <3>1, Zenon
  <2>2. CASE t.areas = <<[id |-> 1, name |-> 11, city |-> TRUE]>>
    <3>1. [id |-> 1, name |-> 11, city |-> TRUE] \in A
      OBVIOUS
    <3>2. \A p \in A : <<p>> \in Seq(A)
      OBVIOUS
    <3> QED BY <2>2, <3>1, <3>2, Zenon
  <2>3. (\E p \in A, q \in A : t.areas = <<p, q>>) \/ t.areas = <<[id |-> 1, name |-> 11, city |-> TRUE]>>
    <3>1. [id : {1}, name : {11, 13}, city : BOOLEAN] \subseteq A /\ [id : {2}, name : {12}, city : BOOLEAN] \subseteq A
      OBVIOUS
    <3> DEFINE P == [id : {1}, name : {11, 13}, city : BOOLEAN]
               Q == [id : {2}, name : {12}, city : BOOLEAN]
               single == <<[id |-> 1, name |-> 11, city |-> TRUE]>>
    <3>2. t.areas \in {<<p, q>> : p \in P, q \in Q} \cup {single}
      BY <1>1 DEF AreaLists
    <3> HIDE DEF P, Q, A, single
    <3>3. (\E p \in P, q \in Q : t.areas = <<p, q>>) \/ t.areas = single
      BY <3>2
    <3> QED BY <3>1, <3>3 DEF A, P, Q, single
  <2> QED BY <2>1, <2>2, <2>3
<1>3. IsFiniteSet(t.localities)
  BY <1>1, LocalitiesAreFinite, FS_Subset
<1>4. \A l \in t.localities : l.name \in Nat \ {Kind} /\ l.postal \in Nat /\ DistrictOf(l) \in Nat
  BY <1>1 DEF Localities, Kind, DistrictOf
<1>5. IsFiniteSet(t.administrations)
  <2>1. \A x : IsFiniteSet({x})
    BY FS_Singleton
  <2>2. IsFiniteSet({})
    BY FS_EmptySet
  <2> QED BY <1>1, <2>1, <2>2
<1> QED BY <1>1, <1>2, <1>3, <1>4, <1>5 DEF Proper, KeyInputs

LEMMA StageTasksProper == ASSUME NEW t \in StageTasks PROVE Proper(t)
<1>1. t.kind = "stage" /\ t.stock \in Stocks /\ t.order \in Orders
  BY DEF StageTasks
<1>2. t.order \in Order
  <2>1. \A o \in Orders : /\ o.share \in {0, 1, 50, 100} /\ o.list = <<1, 2, 9>> /\ o.excluded \in {{}, {2}}
                           /\ o.maxPages \in {0, 2} /\ o.oldest = 2
                           /\ o = [share |-> o.share, list |-> o.list, excluded |-> o.excluded,
                                   maxPages |-> o.maxPages, oldest |-> o.oldest]
    BY DEF Orders
  <2>2. <<1, 2, 9>> \in Seq(Int) /\ {2} \in SUBSET Int /\ {} \in SUBSET Int
    OBVIOUS
  <2>3. /\ t.order.share \in Nat /\ t.order.list \in Seq(Int) /\ t.order.excluded \in SUBSET Int
        /\ t.order.maxPages \in Nat /\ t.order.oldest \in Nat
    <3>1. /\ t.order.share \in {0, 1, 50, 100} /\ t.order.list = <<1, 2, 9>> /\ t.order.excluded \in {{}, {2}}
          /\ t.order.maxPages \in {0, 2} /\ t.order.oldest = 2
      BY <1>1, <2>1, Zenon
    <3>2. t.order.list \in Seq(Int)
      BY <2>2, <3>1, Zenon
    <3>3. t.order.excluded \in SUBSET Int
      BY <3>1
    <3> QED BY <3>1, <3>2, <3>3
  <2>4. t.order = [share |-> t.order.share, list |-> t.order.list, excluded |-> t.order.excluded,
                   maxPages |-> t.order.maxPages, oldest |-> t.order.oldest]
    BY <1>1, <2>1, Zenon
  <2> QED BY <2>3, <2>4 DEF Order
<1>3. Stock(t.stock)
  <2> DEFINE stock == t.stock
  <2>1. AnyDocument \subseteq {d \in Document : d.id = 1}
    BY DEF AnyDocument, Document, DocumentStates
  <2>2. \A i \in 1..3 : Takable(i) \subseteq {d \in Document : d.id = i}
    <3> SUFFICES ASSUME NEW i \in 1..3, NEW d \in Takable(i) PROVE d \in Document /\ d.id = i
      OBVIOUS
    <3>1. d \in [id : {i}, state : {"processed"}, approved : {FALSE}, staged : {FALSE}, year : {0},
                filenameYear : {0}, pages : {0, 1, 5}, hash : {7}]
      BY DEF Takable
    <3> DEFINE no == {FALSE}
    <3>2. no \subseteq BOOLEAN
      OBVIOUS
    <3>3. d \in [id : {i}, state : {"processed"}, approved : no, staged : no, year : {0},
                filenameYear : {0}, pages : {0, 1, 5}, hash : {7}]
      BY <3>1
    <3> HIDE DEF no
    <3> QED BY <3>2, <3>3 DEF Document, DocumentStates
  <2>3. \/ \E a \in AnyDocument, b \in Takable(2) : stock = {a, b}
        \/ \E a \in Takable(1), b \in Takable(2), c \in Takable(3) : stock = {a, b, c}
    BY <1>1 DEF Stocks
  <2>4. PICK a, b, c : /\ stock = {a} \cup {b} \cup {c} /\ a \in Document /\ b \in Document /\ c \in Document
                       /\ a.id = 1 /\ b.id = 2 /\ c.id \in {1, 3} /\ (c.id = 1 => c = a)
    <3>1. CASE \E a \in AnyDocument, b \in Takable(2) : stock = {a, b}
      <4>1. PICK a \in AnyDocument, b \in Takable(2) : stock = {a, b}
        BY <3>1
      <4>2. stock = {a} \cup {b} \cup {a}
        BY <4>1
      <4>3. a \in Document /\ b \in Document /\ a.id = 1 /\ b.id = 2
        BY <2>1, <2>2
      <4> HIDE DEF stock
      <4> QED BY <4>2, <4>3, Zenon
    <3>2. CASE \E a \in Takable(1), b \in Takable(2), c \in Takable(3) : stock = {a, b, c}
      <4>1. PICK a \in Takable(1), b \in Takable(2), c \in Takable(3) : stock = {a, b, c}
        BY <3>2
      <4>2. stock = {a} \cup {b} \cup {c}
        BY <4>1
      <4>3. a \in Document /\ b \in Document /\ c \in Document /\ a.id = 1 /\ b.id = 2 /\ c.id = 3
        BY <2>2
      <4>4. c.id \in {1, 3} /\ (c.id = 1 => c = a)
        BY <4>3
      <4> HIDE DEF stock
      <4> QED BY <4>2, <4>3, <4>4, Zenon
    <3> QED BY <2>3, <3>1, <3>2
  <2>5. IsFiniteSet({a} \cup {b}) /\ IsFiniteSet({c})
    BY FS_Singleton, FS_Union
  <2> HIDE DEF stock
  <2>6. IsFiniteSet(stock)
    <3>1. IsFiniteSet(({a} \cup {b}) \cup {c})
      BY <2>5, FS_Union
    <3> QED BY <2>4, <3>1, Zenon
  <2>7. stock \subseteq Document /\ \A d, e \in stock : d.id = e.id => d = e
    BY <2>4
  <2> QED BY <2>6, <2>7 DEF Stock, stock
<1> QED BY <1>1, <1>2, <1>3 DEF Proper

LEMMA ContactTasksProper == ASSUME NEW t \in ContactTasks PROVE Proper(t)
<1> DEFINE all == ((0..2) \X (0..2)) \X {1, 2}
           trio == (0..2) \X (0..2) \X {1, 2}
           flat == [p \in all |-> <<p[1][1], p[1][2], p[2]>>]
<1>1. t.kind = "place" /\ t.contacts \in SUBSET trio
  BY DEF ContactTasks
<1>2. IsFiniteSet(0..2) /\ IsFiniteSet(1..2) /\ 1..2 = {1, 2}
  <2>1. \A a, b \in Int : IsFiniteSet(a..b)
    BY FS_Interval
  <2>2. 0 \in Int /\ 1 \in Int /\ 2 \in Int /\ 1..2 = {1, 2}
    OBVIOUS
  <2> QED BY <2>1, <2>2, Zenon
<1>3. IsFiniteSet(all)
  <2>1. IsFiniteSet((0..2) \X (0..2))
    BY <1>2, FS_Product
  <2>2. IsFiniteSet(((0..2) \X (0..2)) \X {1, 2})
    BY <1>2, <2>1, FS_Product
  <2> QED BY <2>2
<1>4. IsFiniteSet({flat[p] : p \in all})
  <2> HIDE DEF all, flat
  <2> QED BY <1>3, ImagesAreFinite
<1>5. trio \subseteq {flat[p] : p \in all}
  <2> SUFFICES ASSUME NEW c \in trio PROVE \E p \in all : c = flat[p]
    OBVIOUS
  <2>1. c = <<c[1], c[2], c[3]>> /\ c[1] \in 0..2 /\ c[2] \in 0..2 /\ c[3] \in {1, 2}
    OBVIOUS
  <2>2. <<<<c[1], c[2]>>, c[3]>> \in all
    BY <2>1
  <2>3. flat[<<<<c[1], c[2]>>, c[3]>>] = c
    BY <2>1, <2>2
  <2> QED BY <2>2, <2>3
<1>6. IsFiniteSet(trio)
  BY <1>4, <1>5, FS_Subset
<1>7. IsFiniteSet(t.contacts)
  BY <1>1, <1>6, FS_Subset
<1>8. \A c \in t.contacts : c[1] \in Nat /\ c[2] \in Nat
  BY <1>1
<1> QED BY <1>1, <1>7, <1>8 DEF Proper, Contacts

LEMMA CommandTasksProper == ASSUME NEW t \in CommandTasks PROVE Proper(t)
<1>1. t.kind = "command" /\ t.line \in Lines
  BY DEF CommandTasks
<1>2. \A n \in Nat : [1..n -> Words] \subseteq Seq(Words)
  OBVIOUS
<1>3. /\ UNION {[1..n -> Words] : n \in 0..4} \subseteq Seq(Words)
      /\ [1..3 -> Words] \subseteq Seq(Words) /\ [1..4 -> Words] \subseteq Seq(Words)
  <2>1. ASSUME NEW n \in 0..4 PROVE [1..n -> Words] \subseteq Seq(Words)
    BY <1>2
  <2>2. 3 \in 0..4 /\ 4 \in 0..4
    OBVIOUS
  <2> QED BY <2>1, <2>2
<1>4. "--mandant" \in Words /\ "7" \in Words /\ "--etappe" \in Words
  BY DEF Words
<1>5. <<"--mandant", "7", "--etappe">> \in Seq(Words) /\ <<"--mandant", "7", "--etappe", "7">> \in Seq(Words)
  <2>1. \A a, b, c \in Words : <<a, b, c>> \in Seq(Words) /\ <<a, b, c, b>> \in Seq(Words)
    OBVIOUS
  <2> QED BY <1>4, <2>1
<1>6. \A x, y \in Seq(Words) : x \o y \in Seq(Words)
  OBVIOUS
<1>7. t.line \in Seq(Words)
  <2>1. CASE t.line \in UNION {[1..n -> Words] : n \in 0..4}
    BY <1>3, <2>1, Zenon
  <2>2. CASE \E line \in [1..3 -> Words] : t.line = <<"--mandant", "7", "--etappe">> \o line
    BY <1>3, <1>5, <1>6, <2>2, Zenon
  <2>3. CASE \E line \in [1..4 -> Words] : t.line = <<"--mandant", "7", "--etappe", "7">> \o line
    BY <1>3, <1>5, <1>6, <2>3, Zenon
  <2>4. \/ t.line \in UNION {[1..n -> Words] : n \in 0..4}
        \/ \E line \in [1..3 -> Words] : t.line = <<"--mandant", "7", "--etappe">> \o line
        \/ \E line \in [1..4 -> Words] : t.line = <<"--mandant", "7", "--etappe", "7">> \o line
    BY <1>1 DEF Lines
  <2> QED BY <2>1, <2>2, <2>3, <2>4
<1> QED BY <1>1, <1>7 DEF Proper

LEMMA PeriodTasksProper == ASSUME NEW t \in PeriodTasks PROVE Proper(t)
<1>1. Marks \subseteq Mark /\ \A m \in Marks : m.kind # "issue" => m.year > 0 /\ m.until > 0
  BY DEF Marks, Mark
<1>2. ASSUME NEW n \in Nat, NEW x \in Texts(n) PROVE Marked(x)
  <2>1. PICK k \in 0..n : x \in [1..k -> Marks]
    BY DEF Texts
  <2>2. x \in Seq(Marks) /\ x \in Seq(Mark)
    BY <1>1, <2>1
  <2>3. \A m \in ToSet(x) : m \in Marks
    BY <2>1 DEF ToSet
  <2>4. ASSUME NEW m \in ToSet(x) PROVE (m.kind # "issue" => m.year > 0) /\ (m.kind = "range" => m.until > 0)
    BY <1>1, <2>3
  <2> QED BY <2>2, <2>4 DEF Marked
<1>3. PICK other \in ToSet(PeriodSources), x \in Texts(3), u \in Texts(1) :
        t = [kind |-> "period",
             texts |-> [s \in ToSet(PeriodSources) |->
                          IF s = "filename" THEN x ELSE IF s = other THEN u ELSE <<>>]]
  BY DEF PeriodTasks
<1>4. <<>> \in Texts(1)
  <2>1. <<>> \in [1..0 -> Marks] /\ 0 \in 0..1
    OBVIOUS
  <2> QED BY <2>1 DEF Texts
<1>5. Marked(x) /\ Marked(u) /\ Marked(<<>>)
  BY <1>2, <1>4
<1>6. t.kind = "period" /\ \A s \in ToSet(PeriodSources) : t.texts[s] \in {x, u, <<>>}
  BY <1>3
<1>7. MarkedTexts(t.texts)
  BY <1>5, <1>6 DEF MarkedTexts
<1> QED BY <1>6, <1>7 DEF Proper

LEMMA TypeTasksProper == ASSUME NEW t \in TypeTasks PROVE Proper(t)
<1>1. t.kind = "type" /\ t.rules \in [ToSet(TypeSources) -> {{}, {1}, {2, 3}}]
  BY DEF TypeTasks
<1>2. \A s \in ToSet(TypeSources) : t.rules[s] \in SUBSET (Nat \ {0})
  BY <1>1
<1> QED BY <1>1, <1>2 DEF Proper

LEMMA RegionTasksProper == ASSUME NEW t \in RegionTasks PROVE Proper(t)
<1> DEFINE Sources4 == {"filename", "pdf-metadata", "title-page", "later"}
<1>1. ASSUME NEW n \in Nat, NEW x \in RegionTexts(n) PROVE x \in Seq(RegionMark)
  <2>1. PICK k \in 0..n : x \in [1..k -> RegionMarks]
    BY DEF RegionTexts
  <2>2. RegionMarks \subseteq RegionMark
    BY DEF RegionMarks, RegionMark
  <2> QED BY <2>1, <2>2
<1>2. Named3 \in Seq(RegionMark)
  <2>1. [kind |-> "name", value |-> 3] \in RegionMark
    BY DEF RegionMark
  <2>2. Named3 \in [1..4 -> RegionMark]
    BY <2>1 DEF Named3
  <2>3. \A n \in Nat : [1..n -> RegionMark] \subseteq Seq(RegionMark)
    OBVIOUS
  <2> QED BY <2>2, <2>3
<1>3. PICK f \in RegionTexts(1), x \in RegionTexts(2), l \in RegionTexts(1) \cup {Named3} :
        t = [kind |-> "region",
             texts |-> [s \in {"filename", "pdf-metadata", "title-page", "later"} |->
                          IF s = "filename" THEN f ELSE IF s = "title-page" THEN x
                          ELSE IF s = "later" THEN l ELSE <<>>]]
  BY DEF RegionTasks
<1>4. f \in Seq(RegionMark) /\ x \in Seq(RegionMark) /\ l \in Seq(RegionMark) /\ <<>> \in Seq(RegionMark)
  BY <1>1, <1>2
<1>5. t.kind = "region" /\ RegionTextsOk(t.texts)
  BY <1>3, <1>4 DEF RegionTextsOk
<1> QED BY <1>5 DEF Proper

LEMMA SomeModulesOk ==
  ASSUME NEW ms \in ModuleLists
  PROVE  ms \in Seq(SomeModules) /\ ModulesOk(ms, Nat)
<1>1. PICK k \in 0..2 : ms \in [1..k -> SomeModules]
  BY DEF ModuleLists
<1>2. ms \in Seq(SomeModules) /\ DOMAIN ms = 1..Len(ms) /\ Len(ms) \in Nat
  BY <1>1
<1>3. ASSUME NEW m \in SomeModules PROVE ModuleOk(m, Nat)
  <2>1. m.id \in {1, 2} /\ m.permissions \in {<<>>, <<5>>, <<5, 6>>, <<6, 6>>}
        /\ m.jobs \in {<<>>, <<7>>} /\ m.tables \in {<<>>, <<8>>}
    BY DEF SomeModules
  <2>2. \A a, b \in Nat : <<>> \in Seq(Nat) /\ <<a>> \in Seq(Nat) /\ <<a, b>> \in Seq(Nat)
    OBVIOUS
  <2>3. m.permissions \in Seq(Nat) /\ m.jobs \in Seq(Nat) /\ m.tables \in Seq(Nat)
    BY <2>1, <2>2
  <2> QED BY <2>1, <2>3 DEF ModuleOk
<1> QED BY <1>1, <1>2, <1>3 DEF ModulesOk

LEMMA RegistryTasksProper == ASSUME NEW t \in RegistryTasks PROVE Proper(t)
<1>1. t.kind = "registry" /\ t.modules \in ModuleLists
  BY DEF RegistryTasks
<1>2. ModulesOk(t.modules, Nat)
  BY <1>1, SomeModulesOk
<1> QED BY <1>1, <1>2 DEF Proper

LEMMA NavigationTasksProper == ASSUME NEW t \in NavigationTasks PROVE Proper(t)
<1> DEFINE first == [order |-> 2, label |-> 1, permission |-> 5]
           second == [order |-> 1, label |-> 2, permission |-> 0]
<1>1. t.kind = "navigation" /\ t.modules \in ModuleLists /\ ~CreateRegistry(t.modules).refused
  BY DEF NavigationTasks
<1> DEFINE ms == t.modules
           ids == [i \in DOMAIN ms |-> ms[i].id]
<1> HIDE DEF ms
<1>2. ms \in Seq(SomeModules) /\ ModulesOk(ms, Nat) /\ Len(ms) \in Nat /\ DOMAIN ms = 1..Len(ms)
  BY <1>1, SomeModulesOk DEF ms
<1>3. RegistryIsUnambiguous(ms, CreateRegistry(ms))
  BY <1>2, RegistriesAlwaysUnambiguous
<1>4. ids \in Seq(Nat) /\ NoDuplicates(ids)
  <2>1. NoDuplicates(ids)
    BY <1>1, <1>3 DEF RegistryIsUnambiguous, ms
  <2>2. ids \in Seq(Nat)
    BY <1>2, IdsAre
  <2> QED BY <2>1, <2>2
<1>5. Distinct(ids)
  <2> HIDE DEF ids
  <2> QED BY <1>4, NoDuplicatesIs
<1>6. \A i, j \in 1..Len(ms) : ms[i].id = ms[j].id => i = j
  BY <1>2, <1>5 DEF Distinct
<1>7. ASSUME NEW m \in SomeModules
      PROVE  /\ m.id \in Int /\ m.nav \in Seq(NavEntry)
             /\ \A e, f \in ToSet(m.nav) : e.order = f.order /\ e.label = f.label => e = f
  <2>1. m.id \in {1, 2} /\ m.nav \in {<<>>, <<first, second>>}
    BY DEF SomeModules
  <2>2. first \in NavEntry /\ second \in NavEntry /\ first.order = 2 /\ second.order = 1
    BY DEF NavEntry
  <2> HIDE DEF first, second
  <2>3. CASE m.nav = <<>>
    BY <2>1, <2>3 DEF ToSet
  <2>4. CASE m.nav = <<first, second>>
    <3>1. m.nav \in Seq(NavEntry) /\ ToSet(m.nav) = {first, second}
      BY <2>2, <2>4 DEF ToSet
    <3> QED BY <2>1, <2>2, <3>1
  <2> QED BY <2>1, <2>3, <2>4
<1>8. \A i \in 1..Len(ms) : ms[i] \in SomeModules
  BY <1>2
<1>9. NavModules(ms)
  BY <1>2, <1>6, <1>7, <1>8 DEF NavModules
<1> QED BY <1>1, <1>9 DEF Proper, ms

LEMMA ItemTasksProper == ASSUME NEW t \in ItemTasks PROVE Proper(t)
<1>1. t.kind = "items" /\ t.items \in UNION {[1..n -> Items] : n \in 0..2}
  BY DEF ItemTasks
<1>2. Items \subseteq Item
  BY DEF Items, Item
<1>3. PICK n \in 0..2 : t.items \in [1..n -> Items]
  BY <1>1
<1>4. t.items \in Seq(Item)
  BY <1>2, <1>3
<1> QED BY <1>1, <1>4 DEF Proper

LEMMA NumberTasksProper ==
  ASSUME NEW t \in AmountTasks \cup DelayTasks PROVE Proper(t)
<1>1. CASE t \in AmountTasks
  <2>1. t.kind = "amount" /\ t.value \in -250..250
    BY <1>1 DEF AmountTasks
  <2> QED BY <2>1 DEF Proper
<1>2. CASE t \in DelayTasks
  <2>1. t.kind = "delay" /\ t.attempt \in 0..12 /\ t.base \in {0, 1, 1000} /\ t.limit \in {0, 1000, 60000}
    BY <1>2 DEF DelayTasks
  <2> QED BY <2>1 DEF Proper
<1> QED BY <1>1, <1>2

LEMMA TwoLevels ==
  ASSUME NEW one \in Level, NEW two \in Level, one.level # two.level
  PROVE  Levels({one, two})
<1>1. IsFiniteSet({one})
  BY FS_Singleton
<1>2. IsFiniteSet({one} \cup {two})
  BY <1>1, FS_AddElement, Zenon
<1>3. {one, two} = {one} \cup {two}
  OBVIOUS
<1>4. IsFiniteSet({one, two})
  BY <1>2, <1>3, Zenon
<1> QED BY <1>4 DEF Levels

\* The levels of the runs are finitely many, and no two of one number.
LEMMA DunningLevelsOk == ASSUME NEW L \in DunningLevels PROVE Levels(L)
<1>1. CASE \E low, high \in {0, 50000, 90000}, wait \in {0, 1, 3} :
             L = {[level |-> 1, after |-> 0, fee |-> 0, rate |-> low],
                  [level |-> 2, after |-> wait, fee |-> 250, rate |-> high]}
  <2>1. PICK low \in {0, 50000, 90000}, high \in {0, 50000, 90000}, wait \in {0, 1, 3} :
               L = {[level |-> 1, after |-> 0, fee |-> 0, rate |-> low],
                    [level |-> 2, after |-> wait, fee |-> 250, rate |-> high]}
    BY <1>1
  <2> DEFINE one == [level |-> 1, after |-> 0, fee |-> 0, rate |-> low]
             two == [level |-> 2, after |-> wait, fee |-> 250, rate |-> high]
  <2>2. one \in Level /\ two \in Level /\ one.level # two.level
    BY DEF Level
  <2>3. Levels({one, two})
    <3> HIDE DEF one, two
    <3> QED BY <2>2, TwoLevels
  <2> QED BY <2>1, <2>3
<1>2. CASE \E k \in {1, 3} : L = {[level |-> n, after |-> n, fee |-> 100 * n, rate |-> 90000] : n \in 1..k}
  <2>1. PICK k \in {1, 3} : L = {[level |-> n, after |-> n, fee |-> 100 * n, rate |-> 90000] : n \in 1..k}
    BY <1>2
  <2> DEFINE f == [n \in 1..k |-> [level |-> n, after |-> n, fee |-> 100 * n, rate |-> 90000]]
  <2>2. \A n \in 1..k : f[n] \in Level /\ f[n].level = n
    BY DEF Level
  <2>3. L = {f[n] : n \in 1..k} /\ DOMAIN f = 1..k
    BY <2>1
  <2> HIDE DEF f
  <2>4. IsFiniteSet({f[n] : n \in 1..k})
    <3>1. IsFiniteSet(1..k)
      BY FS_Interval
    <3>2. f \in Surjection(1..k, {f[n] : n \in 1..k})
      <4> DEFINE S == 1..k
      <4>1. f = [n \in S |-> f[n]]
        BY DEF f
      <4> HIDE DEF S, f
      <4>2. f \in Surjection(S, {f[n] : n \in S})
        BY <4>1 DEF Surjection
      <4> QED BY <4>2 DEF S
    <3> QED BY <3>1, <3>2, FS_Surjection
  <2> QED BY <2>2, <2>3, <2>4 DEF Levels
<1> QED BY <1>1, <1>2 DEF DunningLevels

LEMMA ReminderTasksProper == ASSUME NEW t \in ReminderTasks PROVE Proper(t)
<1> DEFINE invoice == [due |-> 0, total |-> 1000]
           D == [hour : {-1, 12, 36, 90, 400}, paid : {0, 400, 1000, 1200}]
<1>1. /\ t.kind = "reminder" /\ t.invoice = invoice /\ t.levels \in DunningLevels /\ t.runs \in DunningRuns
      /\ \A i, j \in DOMAIN t.runs : i <= j => t.runs[i].hour <= t.runs[j].hour
  BY DEF ReminderTasks
<1>2. PICK n \in 0..3 : t.runs \in [1..n -> D]
  BY <1>1 DEF DunningRuns
<1>3. invoice \in Invoice /\ invoice.total = 1000
  BY DEF Invoice
<1>4. D \subseteq Run
  BY <1>3 DEF Run
<1> HIDE DEF D, invoice
<1>5. t.runs \in [1..n -> Run]
  BY <1>2, <1>4
<1>6. t.runs \in Seq(Run) /\ DOMAIN t.runs = 1..Len(t.runs)
  BY <1>5
<1>7. RunsInOrder(t.invoice, t.runs)
  BY <1>1, <1>6 DEF RunsInOrder
<1> QED BY <1>1, <1>3, <1>7, DunningLevelsOk DEF Proper

LEMMA ScheduleTasksProper == ASSUME NEW t \in ScheduleTasks PROVE Proper(t)
<1>1. PICK by \in [JobNames -> {"none", "daily", "frequent"}],
           names \in (SUBSET JobNames) \cup {{"*"}, {"unknown"}, {"a", "unknown"}},
           on \in BOOLEAN, folder \in BOOLEAN :
        t = [kind |-> "schedule", jobs |-> {[name |-> n, schedule |-> by[n]] : n \in JobNames},
             selected |-> names, enabled |-> on, folder |-> folder]
  BY DEF ScheduleTasks
<1>2. /\ t.kind = "schedule" /\ t.jobs = {[name |-> n, schedule |-> by[n]] : n \in JobNames}
      /\ t.selected = names /\ t.enabled \in BOOLEAN /\ t.folder \in BOOLEAN
  BY <1>1
<1>3. "*" \notin JobNames
  BY DEF JobNames
<1>4. Jobs(t.jobs)
  BY <1>2, <1>3 DEF Jobs
<1>5. names = {"*"} \/ "*" \notin names
  BY <1>3
<1> QED BY <1>2, <1>4, <1>5 DEF Proper

LEMMA OtherTasksProper == ASSUME NEW t \in ExportTasks \cup VerdictTasks PROVE Proper(t)
<1>1. CASE t \in ExportTasks
  BY <1>1 DEF ExportTasks, Proper
<1>2. CASE t \in VerdictTasks
  <2> DEFINE O == 1..3
             W == {"treffer", "keine_anzeige"}
             S == {"detected", "confirmed", "rejected"}
  <2>1. t.kind = "verdict" /\ t.file \in UNION {[1..n -> O \X W] : n \in 0..3} /\ t.status \in [1..2 -> S]
    BY <1>2 DEF VerdictTasks, Verdicts
  <2>2. t.file \in Seq(O \X W)
    <3>1. PICK n \in 0..3 : t.file \in [1..n -> O \X W]
      BY <2>1
    <3> HIDE DEF O, W
    <3> QED BY <3>1
  <2> HIDE DEF O, W, S
  <2>3. \E O2, W2, R, S2 : t.file \in Seq(O2 \X W2) /\ t.status \in [R -> S2]
    BY <2>1, <2>2, Zenon
  <2> QED BY <2>1, <2>3 DEF Proper
<1> QED BY <1>1, <1>2

\* What the run evaluates are proper inputs.
LEMMA TasksAreProper == ASSUME NEW t \in Tasks PROVE Proper(t)
  BY KeyTasksProper, StageTasksProper, ContactTasksProper, CommandTasksProper, PeriodTasksProper,
     TypeTasksProper, RegionTasksProper, RegistryTasksProper, NavigationTasksProper, ItemTasksProper,
     NumberTasksProper, ReminderTasksProper, ScheduleTasksProper, OtherTasksProper
  DEF Tasks
=============================================================================
