-------------------------- MODULE AdmissionProofs --------------------------
(***************************************************************************)
(* What Admission promises of RateLimiter and authFailureTracker, for      *)
(* every rate, burst, interval and window and any finite number of         *)
(* requests: sums of a history, the bucket, the bound on admissions, and   *)
(* the bound on wrong keys with the reason for a lockout.                  *)
(***************************************************************************)
EXTENDS Admission, FiniteSetTheorems, TLAPS

-----------------------------------------------------------------------------
(* Sums.                                                                    *)

\* Of the subsets of a finite set in T, one has no other of them below it.
LEMMA SmallestSet ==
    ASSUME NEW S, IsFiniteSet(S), NEW T \in SUBSET (SUBSET S), T # {}
    PROVE  \E s \in T : \A t \in T : t \subseteq s => t = s
<1>1. FiniteSubsetsOf(S) = SUBSET S
  BY FS_FiniteSubsetsOfFinite
<1>2. IsWellFoundedOn(StrictSubsetOrdering(S), SUBSET S)
  BY <1>1, FS_StrictSubsetOrderingWellFounded
<1>3. PICK s \in T : \A t \in T : ~ (<<t, s>> \in StrictSubsetOrdering(S))
  BY <1>2, WFMin
<1>4. \A t \in T : t \subseteq s => t = s
  BY <1>3 DEF StrictSubsetOrdering
<1> QED
  BY <1>4

\* A sum of numbers counts cells: as many for each t as h[t] says.
Cells(h, S) == {c \in S \X Nat : 1 <= c[2] /\ c[2] <= h[c[1]]}
Column(h, x) == {c \in {x} \X Nat : 1 <= c[2] /\ c[2] <= h[x]}

\* A column has as many cells as its number says.
LEMMA ColumnCount ==
    ASSUME NEW h, NEW x, h[x] \in Nat
    PROVE  IsFiniteSet(Column(h, x)) /\ Cardinality(Column(h, x)) = h[x]
<1> DEFINE n == h[x]
<1> DEFINE f == [i \in 1..n |-> <<x, i>>]
<1>1. f \in [1..n -> Column(h, x)]
  BY DEF Column
<1>2. ASSUME NEW i \in 1..n, NEW j \in 1..n, f[i] = f[j]
      PROVE  i = j
  BY <1>2
<1>3. ASSUME NEW c \in Column(h, x)
      PROVE  \E i \in 1..n : f[i] = c
  <2>1. c[2] \in 1..n /\ c = <<x, c[2]>>
    BY DEF Column
  <2> QED
    BY <2>1
<1>4. ExistsBijection(1..n, Column(h, x))
  <2>1. f \in Bijection(1..n, Column(h, x))
    BY <1>1, <1>2, <1>3 DEF Bijection, Injection, Surjection, IsInjective
  <2> QED
    BY <2>1 DEF ExistsBijection
<1> QED
  BY <1>4, FS_CountingElements, FS_NatBijection

\* One more t adds a column of its own.
LEMMA CellsOfMore ==
    ASSUME NEW h, NEW S, NEW x \in S, h[x] \in Nat, IsFiniteSet(Cells(h, S \ {x}))
    PROVE  /\ IsFiniteSet(Cells(h, S))
           /\ Cardinality(Cells(h, S)) = h[x] + Cardinality(Cells(h, S \ {x}))
<1>1. Cells(h, S) = Cells(h, S \ {x}) \cup Column(h, x)
  BY DEF Cells, Column
<1>2. Cells(h, S \ {x}) \cap Column(h, x) = {}
  BY DEF Cells, Column
<1>3. IsFiniteSet(Column(h, x)) /\ Cardinality(Column(h, x)) = h[x]
  BY ColumnCount
<1>4. Cardinality(Cells(h, S \ {x})) \in Nat
  BY FS_CardinalityType
<1> DEFINE A == Cells(h, S \ {x})
<1> DEFINE B == Column(h, x)
<1> HIDE DEF A, B
<1>5. IsFiniteSet(A \cup B) /\ Cardinality(A \cup B) = Cardinality(A) + Cardinality(B) - Cardinality(A \cap B)
  BY <1>3, FS_Union DEF A, B
<1>6. Cardinality(A \cap B) = 0
  BY <1>2, FS_EmptySet DEF A, B
<1>7. Cells(h, S) = A \cup B /\ Cardinality(B) = h[x] /\ Cardinality(A) \in Nat
  BY <1>1, <1>3, <1>4 DEF A, B
<1>8. IsFiniteSet(Cells(h, S)) /\ Cardinality(Cells(h, S)) = h[x] + Cardinality(A)
  BY <1>5, <1>6, <1>7
<1> QED
  BY <1>8 DEF A

\* The cells of a finite set of times are finitely many.
LEMMA CellsFinite ==
    ASSUME NEW S, IsFiniteSet(S), NEW h, \A t \in S : h[t] \in Nat
    PROVE  IsFiniteSet(Cells(h, S))
<1> DEFINE T == {s \in SUBSET S : ~IsFiniteSet(Cells(h, s))}
<1> SUFFICES ASSUME T # {} PROVE FALSE
  OBVIOUS
<1>1. PICK s \in T : \A t \in T : t \subseteq s => t = s
  <2>1. T \in SUBSET (SUBSET S)
    OBVIOUS
  <2> HIDE DEF T
  <2> QED
    BY <2>1, SmallestSet
<1>2. CASE s = {}
  <2>1. Cells(h, s) = {}
    BY <1>2 DEF Cells
  <2> QED
    BY <2>1, FS_EmptySet
<1>3. CASE s # {}
  <2>1. PICK x \in s : TRUE
    BY <1>3
  <2>2. IsFiniteSet(Cells(h, s \ {x}))
    BY <1>1, <2>1
  <2> QED
    BY <2>1, <2>2, CellsOfMore
<1> QED
  BY <1>2, <1>3

Summed(h, S, g) ==
    g = [s \in SUBSET S |->
            IF s = {} THEN 0
            ELSE h[CHOOSE x \in s : TRUE] + g[s \ {CHOOSE x \in s : TRUE}]]

LEMMA SummedIsCount ==
    ASSUME NEW S, IsFiniteSet(S), NEW h, \A t \in S : h[t] \in Nat, NEW g, Summed(h, S, g)
    PROVE  g[S] = Cardinality(Cells(h, S))
<1> DEFINE T == {s \in SUBSET S : g[s] # Cardinality(Cells(h, s))}
<1> SUFFICES ASSUME T # {} PROVE FALSE
  OBVIOUS
<1>1. PICK s \in T : \A t \in T : t \subseteq s => t = s
  <2>1. T \in SUBSET (SUBSET S)
    OBVIOUS
  <2> HIDE DEF T
  <2> QED
    BY <2>1, SmallestSet
<1>2. CASE s = {}
  <2>1. Cells(h, s) = {} /\ g[s] = 0
    BY <1>2 DEF Cells, Summed
  <2> QED
    BY <2>1, FS_EmptySet
<1>3. CASE s # {}
  <2>1. PICK x \in s : x = CHOOSE y \in s : TRUE
    BY <1>3
  <2>2. g[s] = h[x] + g[s \ {x}]
    BY <1>3, <2>1 DEF Summed
  <2>3. g[s \ {x}] = Cardinality(Cells(h, s \ {x}))
    BY <1>1, <2>1
  <2>4. IsFiniteSet(Cells(h, s \ {x}))
    <3>1. IsFiniteSet(s \ {x})
      BY FS_Subset
    <3> QED
      BY <3>1, CellsFinite
  <2>5. Cardinality(Cells(h, s)) = h[x] + Cardinality(Cells(h, s \ {x}))
    <3>1. h[x] \in Nat
      OBVIOUS
    <3> HIDE DEF T
    <3> QED
      BY <2>4, <3>1, CellsOfMore
  <2> QED
    BY <2>2, <2>3, <2>5
<1> QED
  BY <1>2, <1>3

\* There is such a function: the count itself.
LEMMA SummedExists ==
    ASSUME NEW S, IsFiniteSet(S), NEW h, \A t \in S : h[t] \in Nat
    PROVE  \E g : Summed(h, S, g)
<1> DEFINE g == [s \in SUBSET S |-> Cardinality(Cells(h, s))]
<1>1. ASSUME NEW s \in SUBSET S
      PROVE  g[s] = IF s = {} THEN 0
                    ELSE h[CHOOSE x \in s : TRUE] + g[s \ {CHOOSE x \in s : TRUE}]
  <2>1. CASE s = {}
    <3>1. Cells(h, s) = {}
      BY <2>1 DEF Cells
    <3> QED
      BY <2>1, <3>1, FS_EmptySet
  <2>2. CASE s # {}
    <3>1. PICK x \in s : x = CHOOSE y \in s : TRUE
      BY <2>2
    <3>2. IsFiniteSet(s \ {x})
      BY FS_Subset
    <3>3. IsFiniteSet(Cells(h, s \ {x}))
      BY <3>2, CellsFinite
    <3>4. Cardinality(Cells(h, s)) = h[x] + Cardinality(Cells(h, s \ {x}))
      BY <3>3, CellsOfMore
    <3> QED
      BY <2>2, <3>1, <3>4
  <2> QED
    BY <2>1, <2>2
<1> HIDE DEF g
<1>2. g = [s \in SUBSET S |->
            IF s = {} THEN 0
            ELSE h[CHOOSE x \in s : TRUE] + g[s \ {CHOOSE x \in s : TRUE}]]
  <2>1. g = [s \in SUBSET S |-> g[s]]
    BY DEF g
  <2> QED
    BY <1>1, <2>1
<1> QED
  BY <1>2 DEF Summed

\* The fold by which the model sums is the number of cells.
LEMMA SumIsCount ==
    ASSUME NEW S, IsFiniteSet(S), NEW h, \A t \in S : h[t] \in Nat
    PROVE  MapThenSumSet(LAMBDA t : h[t], S) = Cardinality(Cells(h, S))
<1>1. PICK g : Summed(h, S, g)
  BY SummedExists
<1>2. \E g2 : /\ Summed(h, S, g2)
              /\ MapThenSumSet(LAMBDA t : h[t], S) = g2[S]
  BY <1>1 DEF Summed, MapThenSumSet, MapThenFoldSet
<1> QED
  BY <1>2, SummedIsCount

-----------------------------------------------------------------------------
(* Sums of a history over a span of time.                                   *)

Span(a, b) == Times \cap (a..b)

\* The sum of a history over a span is the number of its cells.
LEMMA DuringIsCount ==
    ASSUME NEW h \in [Times -> Nat], NEW a \in Int, NEW b \in Int
    PROVE  /\ IsFiniteSet(Cells(h, Span(a, b)))
           /\ During(h, a, b) = Cardinality(Cells(h, Span(a, b)))
           /\ During(h, a, b) \in Nat
<1>1. IsFiniteSet(Span(a, b))
  <2>1. IsFiniteSet(a..b)
    BY FS_Interval
  <2> QED
    BY <2>1, FS_Subset DEF Span
<1>2. \A t \in Span(a, b) : h[t] \in Nat
  BY DEF Span
<1>3. MapThenSumSet(LAMBDA t : h[t], Span(a, b)) = Cardinality(Cells(h, Span(a, b)))
  BY <1>1, <1>2, SumIsCount
<1>4. IsFiniteSet(Cells(h, Span(a, b)))
  BY <1>1, <1>2, CellsFinite
<1> QED
  BY <1>3, <1>4, FS_CardinalityType DEF During, Span

\* A history with nothing in a span sums to zero over it.
LEMMA DuringZero ==
    ASSUME NEW h \in [Times -> Nat], NEW a \in Int, NEW b \in Int,
           \A t \in Times : a <= t /\ t <= b => h[t] = 0
    PROVE  During(h, a, b) = 0
<1>1. Cells(h, Span(a, b)) = {}
  BY DEF Cells, Span
<1> QED
  BY <1>1, DuringIsCount, FS_EmptySet

\* A longer span has no smaller sum; nothing is later than Horizon.
LEMMA DuringTail ==
    ASSUME NEW h \in [Times -> Nat], NEW a \in Int, NEW b \in Int, NEW c \in Int, NEW d \in Int,
           c <= a, b <= d \/ d = Horizon
    PROVE  During(h, a, b) <= During(h, c, d)
<1>1. Cells(h, Span(a, b)) \subseteq Cells(h, Span(c, d))
  <2>1. Span(a, b) \subseteq Span(c, d)
    BY TrackerAssumption DEF Span, Times
  <2> QED
    BY <2>1 DEF Cells
<1>2. /\ IsFiniteSet(Cells(h, Span(c, d)))
      /\ During(h, a, b) = Cardinality(Cells(h, Span(a, b)))
      /\ During(h, c, d) = Cardinality(Cells(h, Span(c, d)))
  BY DuringIsCount
<1> QED
  BY <1>1, <1>2, FS_Subset

\* The sum up to the time after which there is nothing is the whole.
LEMMA DuringToNow ==
    ASSUME NEW h \in [Times -> Nat], NEW a \in Int, NEW n \in Int, NEW b \in Int, n <= b,
           \A t \in Times : t > n => h[t] = 0
    PROVE  During(h, a, b) = During(h, a, n)
<1>1. Cells(h, Span(a, b)) = Cells(h, Span(a, n))
  <2>1. \A t \in Times : t \in Nat
    BY TrackerAssumption DEF Times
  <2>2. ASSUME NEW c \in Cells(h, Span(a, b))
        PROVE  c \in Cells(h, Span(a, n))
    BY <2>1 DEF Cells, Span
  <2>3. ASSUME NEW c \in Cells(h, Span(a, n))
        PROVE  c \in Cells(h, Span(a, b))
    BY <2>1 DEF Cells, Span
  <2> QED
    BY <2>2, <2>3
<1> QED
  BY <1>1, DuringIsCount

\* A span is covered by its two parts.
LEMMA DuringSplit ==
    ASSUME NEW h \in [Times -> Nat], NEW a \in Int, NEW b \in Int, NEW c \in Int
    PROVE  During(h, a, b) <= During(h, a, c - 1) + During(h, c, b)
<1> DEFINE A == Cells(h, Span(a, c - 1))
<1> DEFINE B == Cells(h, Span(c, b))
<1>1. /\ IsFiniteSet(A) /\ During(h, a, c - 1) = Cardinality(A)
      /\ IsFiniteSet(B) /\ During(h, c, b) = Cardinality(B)
      /\ During(h, a, b) = Cardinality(Cells(h, Span(a, b)))
  <2>1. c - 1 \in Int
    OBVIOUS
  <2> QED
    BY <2>1, DuringIsCount
<1>2. Cells(h, Span(a, b)) \subseteq A \cup B
  BY DEF Cells, Span
<1> HIDE DEF A, B
<1>3. /\ IsFiniteSet(A \cup B)
      /\ Cardinality(A \cup B) = Cardinality(A) + Cardinality(B) - Cardinality(A \cap B)
  BY <1>1, FS_Union
<1>4. Cardinality(A) \in Nat /\ Cardinality(B) \in Nat /\ Cardinality(A \cap B) \in Nat
  BY <1>1, FS_CardinalityType, FS_Intersection
<1>5. /\ Cardinality(Cells(h, Span(a, b))) <= Cardinality(A \cup B)
      /\ Cardinality(Cells(h, Span(a, b))) \in Nat
  BY <1>2, <1>3, FS_Subset, FS_CardinalityType
<1> QED
  BY <1>1, <1>3, <1>4, <1>5

OneMore(h, n) == [h EXCEPT ![n] = h[n] + 1]

\* One more at one time is one more in each span that has the time.
LEMMA DuringAt ==
    ASSUME NEW h \in [Times -> Nat], NEW g \in [Times -> Nat], NEW n \in Times,
           g[n] = h[n] + 1, \A t \in Times \ {n} : g[t] = h[t],
           NEW a \in Int, NEW b \in Int
    PROVE  /\ a <= n /\ n <= b => During(g, a, b) = During(h, a, b) + 1
           /\ ~(a <= n /\ n <= b) => During(g, a, b) = During(h, a, b)
<1>1. /\ g \in [Times -> Nat] /\ g[n] = h[n] + 1 /\ \A t \in Times \ {n} : g[t] = h[t]
      /\ h[n] \in Nat /\ n \in Nat
  BY TrackerAssumption DEF Times
<1>2. /\ IsFiniteSet(Cells(h, Span(a, b))) /\ During(h, a, b) = Cardinality(Cells(h, Span(a, b)))
      /\ During(g, a, b) = Cardinality(Cells(g, Span(a, b))) /\ During(h, a, b) \in Nat
  BY <1>1, DuringIsCount
<1>3. CASE a <= n /\ n <= b
  <2>1. n \in Span(a, b)
    BY <1>1, <1>3 DEF Span
  <2>2. Cells(g, Span(a, b)) = Cells(h, Span(a, b)) \cup {<<n, h[n] + 1>>}
    <3>1. Span(a, b) \subseteq Times
      BY DEF Span
    <3>2. ASSUME NEW c \in Cells(g, Span(a, b))
          PROVE  c \in Cells(h, Span(a, b)) \cup {<<n, h[n] + 1>>}
      <4>1. PICK t \in Span(a, b), i \in Nat \ {0} : c = <<t, i>> /\ i <= g[t]
        BY DEF Cells
      <4>2. CASE t = n
        <5>1. i <= h[n] + 1
          BY <1>1, <4>1, <4>2
        <5>2. CASE i = h[n] + 1
          BY <4>1, <4>2, <5>2
        <5>3. CASE i <= h[n]
          BY <4>1, <4>2, <5>3 DEF Cells
        <5> QED
          BY <1>1, <5>1, <5>2, <5>3
      <4>3. CASE t # n
        <5>1. i <= h[t]
          BY <1>1, <3>1, <4>1, <4>3
        <5> QED
          BY <4>1, <5>1 DEF Cells
      <4> QED
        BY <4>2, <4>3
    <3>3. ASSUME NEW c \in Cells(h, Span(a, b)) \cup {<<n, h[n] + 1>>}
          PROVE  c \in Cells(g, Span(a, b))
      <4>1. CASE c = <<n, h[n] + 1>>
        <5>1. h[n] + 1 \in Nat \ {0} /\ h[n] + 1 <= g[n]
          BY <1>1
        <5> QED
          BY <2>1, <4>1, <5>1 DEF Cells
      <4>2. CASE c \in Cells(h, Span(a, b))
        <5>1. PICK t \in Span(a, b), i \in Nat \ {0} : c = <<t, i>> /\ i <= h[t]
          BY <4>2 DEF Cells
        <5>2. t \in Times /\ h[t] \in Nat
          BY <3>1
        <5>3. i <= g[t]
          BY <1>1, <5>1, <5>2
        <5> QED
          BY <5>1, <5>3 DEF Cells
      <4> QED
        BY <4>1, <4>2
    <3> QED
      BY <3>2, <3>3
  <2>3. <<n, h[n] + 1>> \notin Cells(h, Span(a, b))
    BY <1>1 DEF Cells
  <2>4. Cardinality(Cells(h, Span(a, b)) \cup {<<n, h[n] + 1>>}) = Cardinality(Cells(h, Span(a, b))) + 1
    BY <1>2, <2>3, FS_AddElement
  <2>5. During(g, a, b) = During(h, a, b) + 1
    BY <1>2, <2>2, <2>4
  <2> QED
    BY <1>3, <2>5
<1>4. CASE ~(a <= n /\ n <= b)
  <2>1. \A t \in Span(a, b) : t # n /\ t \in Times
    BY <1>1, <1>4 DEF Span
  <2>2. Cells(g, Span(a, b)) = Cells(h, Span(a, b))
    BY <1>1, <2>1 DEF Cells
  <2> QED
    BY <1>2, <1>4, <2>2
<1> QED
  BY <1>3, <1>4

LEMMA DuringMore ==
    ASSUME NEW h \in [Times -> Nat], NEW n \in Times, NEW g, g = OneMore(h, n),
           NEW a \in Int, NEW b \in Int
    PROVE  /\ a <= n /\ n <= b => During(g, a, b) = During(h, a, b) + 1
           /\ ~(a <= n /\ n <= b) => During(g, a, b) = During(h, a, b)
<1>1. g \in [Times -> Nat] /\ g[n] = h[n] + 1 /\ \A t \in Times \ {n} : g[t] = h[t]
  BY DEF OneMore
<1> QED
  BY <1>1, DuringAt

-----------------------------------------------------------------------------
(* The bucket.                                                              *)

\* Who takes the lesser of two numbers takes one of them.
LEMMA MinOfTwo ==
  ASSUME NEW a \in Int, NEW b \in Int
  PROVE  /\ Min({a, b}) \in {a, b}
         /\ Min({a, b}) <= a /\ Min({a, b}) <= b
<1>1. PICK m \in {a, b} : \A y \in {a, b} : m <= y
  <2>1. CASE a <= b
    BY <2>1
  <2>2. CASE ~(a <= b)
    BY <2>2
  <2>3. QED BY <2>1, <2>2
<1>2. \E x \in {a, b} : \A y \in {a, b} : x <= y
  BY <1>1
<1>3. Min({a, b}) \in {a, b} /\ \A y \in {a, b} : Min({a, b}) <= y
  BY <1>2 DEF Min
<1>4. QED BY <1>3

\* Less than an interval has no whole interval in it.
LEMMA WholeIntervals ==
  ASSUME NEW t \in Nat
  PROVE  t \div Interval \in Nat /\ (t \div Interval = 0 => t < Interval)
BY LimiterAssumption

\* Nothing to add means that no whole interval has passed since the last fill.
LEMMA RefillIsNat ==
  ASSUME TypeOK, bucket # None
  PROVE  Refill \in Nat /\ (Refill = 0 => now - bucket.lastFill < Interval)
<1>1. now - bucket.lastFill \in Nat
  BY DEF TypeOK, Times
<1> DEFINE n == (now - bucket.lastFill) \div Interval
<1>2. n \in Nat /\ (n = 0 => now - bucket.lastFill < Interval)
  BY <1>1, WholeIntervals
<1>3. Refill = n * Rate
  BY DEF Refill
<1> HIDE DEF n
<1>4. n * Rate \in Nat /\ (n * Rate = 0 => n = 0)
  BY <1>2, LimiterAssumption
<1>5. QED BY <1>2, <1>3, <1>4

\* A refill keeps the type; a bucket it leaves empty was filled within the last interval.
LEMMA RefilledOK ==
  ASSUME TypeOK, bucket # None
  PROVE  /\ Refilled \in [tokens : 0..Burst, lastFill : 0..now]
         /\ Refilled.lastFill \in {bucket.lastFill, now}
         /\ Refilled.tokens <= 0 => now - bucket.lastFill < Interval
<1> DEFINE sum == bucket.tokens + Refill
<1>1. bucket \in [tokens : 0..Burst, lastFill : 0..now] /\ now \in Nat /\ Burst \in Nat \ {0}
  BY LimiterAssumption DEF TypeOK, Times
<1>2. Refill \in Nat /\ (Refill = 0 => now - bucket.lastFill < Interval)
  BY RefillIsNat
<1>3. CASE Refill > 0
  <2>1. sum \in Nat /\ sum > 0
    BY <1>1, <1>2, <1>3
  <2> HIDE DEF sum
  <2>2. Min({sum, Burst}) \in {sum, Burst} /\ Min({sum, Burst}) <= Burst
    <3>1. sum \in Int /\ Burst \in Int
      BY <1>1, <2>1
    <3>2. QED BY <3>1, MinOfTwo, Zenon
  <2>3. Min({sum, Burst}) \in 1..Burst
    BY <1>1, <2>1, <2>2
  <2>4. Refilled = [tokens |-> Min({sum, Burst}), lastFill |-> now]
    BY <1>3 DEF Refilled, sum
  <2>5. QED BY <1>1, <2>3, <2>4
<1>4. CASE ~(Refill > 0)
  <2>1. Refilled = bucket
    BY <1>4 DEF Refilled
  <2>2. QED BY <1>1, <1>2, <1>4, <2>1
<1>5. QED BY <1>3, <1>4

\* Every fill of a bucket is the work of a request that was let through.
FilledByRequest == bucket # None => admitted[bucket.lastFill] > 0

IInv == TypeOK /\ FilledByRequest

LEMMA InitInv == Init => IInv
BY TrackerAssumption DEF Init, IInv, TypeOK, FilledByRequest, Times, Idle, Keys

LEMMA AllowInv ==
  ASSUME IInv, NEW r \in Requests, Allow(r)
  PROVE  IInv'
<1> DEFINE new == [tokens : 0..Burst, lastFill : 0..now]
<1>1. TypeOK /\ FilledByRequest /\ now \in Nat /\ Burst \in Nat \ {0}
  BY LimiterAssumption DEF IInv, TypeOK, Times
<1>2. /\ AfterAllow \in new
      /\ Allowed => AfterAllow.lastFill \in {now} \cup (IF bucket = None THEN {} ELSE {bucket.lastFill})
      /\ ~Allowed => bucket # None /\ AfterAllow = bucket
  <2>1. CASE bucket = None
    BY <1>1, <2>1 DEF AfterAllow, Allowed
  <2>2. CASE bucket # None /\ Allowed
    <3>1. Refilled \in new /\ Refilled.lastFill \in {bucket.lastFill, now} /\ Refilled.tokens > 0
      BY <1>1, <2>2, RefilledOK DEF Allowed
    <3>2. AfterAllow = [Refilled EXCEPT !.tokens = @ - 1]
      BY <2>2 DEF AfterAllow
    <3>3. QED BY <1>1, <2>2, <3>1, <3>2
  <2>3. CASE bucket # None /\ ~Allowed
    <3>1. Refilled.tokens <= 0
      BY <1>1, <2>3, RefilledOK DEF Allowed
    <3>2. Refilled = bucket
      <4>1. CASE Refill > 0
        <5>1. Refilled = [tokens |-> Min({bucket.tokens + Refill, Burst}), lastFill |-> now]
          BY <4>1 DEF Refilled
        <5>2. bucket.tokens + Refill \in Nat /\ bucket.tokens + Refill > 0
          BY <1>1, <2>3, <4>1, RefillIsNat DEF TypeOK
        <5>3. Min({bucket.tokens + Refill, Burst}) \in {bucket.tokens + Refill, Burst}
          <6>1. bucket.tokens + Refill \in Int /\ Burst \in Int
            BY <1>1, <5>2
          <6>2. QED BY <6>1, MinOfTwo, Zenon
        <5>4. Min({bucket.tokens + Refill, Burst}) \in Nat \ {0}
          BY <1>1, <5>2, <5>3
        <5>5. Refilled.tokens \in Nat \ {0}
          BY <5>1, <5>4
        <5>6. QED BY <3>1, <5>5
      <4>2. CASE ~(Refill > 0)
        BY <4>2 DEF Refilled
      <4>3. QED BY <4>1, <4>2
    <3>3. AfterAllow = bucket
      BY <2>3, <3>2 DEF AfterAllow
    <3>4. QED BY <1>1, <2>3, <3>3 DEF TypeOK
  <2>4. QED BY <2>1, <2>2, <2>3
<1>3. bucket' = AfterAllow /\ UNCHANGED <<now, failure, guessed>>
  BY DEF Allow
<1>4. CASE Allowed
  <2>1. admitted' = [admitted EXCEPT ![now] = @ + 1]
    BY <1>4 DEF Allow
  <2>2. admitted' \in [Times -> Nat] /\ admitted'[now] > 0 /\ \A t \in Times : admitted'[t] >= admitted[t]
    BY <1>1, <2>1 DEF TypeOK
  <2>3. req' \in [Requests -> [pc : {"idle", "check", "verify"}, key : Keys]]
    <3>1. PICK k \in Keys :
            req' = [req EXCEPT ![r] = IF k = "public" THEN Idle ELSE [pc |-> "check", key |-> k]]
      BY <1>4 DEF Allow
    <3>2. (IF k = "public" THEN Idle ELSE [pc |-> "check", key |-> k])
            \in [pc : {"idle", "check", "verify"}, key : Keys]
      BY DEF Idle, Keys
    <3>3. QED BY <1>1, <3>1, <3>2 DEF TypeOK
  <2>4. bucket' \in [tokens : 0..Burst, lastFill : 0..now']
    BY <1>2, <1>3
  <2>5. TypeOK'
    BY <1>1, <1>3, <2>2, <2>3, <2>4 DEF TypeOK
  <2>6. FilledByRequest'
    <3>1. bucket'.lastFill \in {now} \cup (IF bucket = None THEN {} ELSE {bucket.lastFill})
      BY <1>2, <1>3, <1>4
    <3>2. CASE bucket'.lastFill = now
      BY <2>2, <3>2 DEF FilledByRequest
    <3>3. CASE bucket # None /\ bucket'.lastFill = bucket.lastFill
      <4>1. bucket.lastFill \in Times
        <5>1. bucket \in [tokens : 0..Burst, lastFill : 0..now] /\ now \in 0..Horizon
          BY <1>1, <3>3 DEF TypeOK, Times
        <5>2. bucket.lastFill \in 0..now
          BY <5>1
        <5>3. QED BY <5>1, <5>2, TrackerAssumption DEF Times
      <4>2. QED BY <1>1, <2>2, <3>3, <4>1 DEF FilledByRequest, TypeOK
    <3>4. QED BY <3>1, <3>2, <3>3
  <2>7. QED BY <2>5, <2>6 DEF IInv
<1>5. CASE ~Allowed
  <2>1. UNCHANGED vars
    BY <1>2, <1>3, <1>5 DEF Allow, vars
  <2>2. QED BY <1>1, <2>1 DEF IInv, TypeOK, FilledByRequest, vars
<1>6. QED BY <1>4, <1>5

LEMMA OtherStepsInv ==
  ASSUME IInv, NEW r \in Requests, Check(r) \/ Fail(r) \/ Succeed(r)
  PROVE  IInv'
<1> USE DEF IInv, TypeOK, FilledByRequest, Return, Idle, Keys
<1>1. CASE Check(r)
  BY <1>1 DEF Check
<1>2. CASE Fail(r)
  <2>1. now \in 0..now /\ now \in Times
    BY DEF Times
  <2>2. failure' \in [count : Nat \ {0}, firstAt : 0..now']
    BY <1>2, <2>1 DEF Fail
  <2>3. guessed' \in [Times -> Nat]
    BY <1>2, <2>1 DEF Fail
  <2>4. QED BY <1>2, <2>2, <2>3 DEF Fail
<1>3. CASE Succeed(r)
  BY <1>3 DEF Succeed
<1>4. QED BY <1>1, <1>2, <1>3

LEMMA MapStepsInv ==
  ASSUME IInv, DropBucket \/ DropFailure \/ Tick
  PROVE  IInv'
<1> USE DEF IInv, TypeOK, FilledByRequest
<1>1. CASE DropBucket
  BY <1>1 DEF DropBucket
<1>2. CASE DropFailure
  BY <1>2 DEF DropFailure
<1>3. CASE Tick
  <2>1. now' \in Times /\ now' = now + 1 /\ \A t \in 0..now : t \in 0..now'
    BY <1>3, TrackerAssumption DEF Tick, Times
  <2>2. QED BY <1>3, <2>1 DEF Tick
<1>4. QED BY <1>1, <1>2, <1>3

LEMMA StepInv == IInv /\ [Next]_vars => IInv'
<1> SUFFICES ASSUME IInv, [Next]_vars PROVE IInv'
  OBVIOUS
<1>1. CASE UNCHANGED vars
  BY <1>1 DEF IInv, TypeOK, FilledByRequest, vars
<1>2. ASSUME NEW r \in Requests, Allow(r) \/ Check(r) \/ Fail(r) \/ Succeed(r) PROVE IInv'
  BY <1>2, AllowInv, OtherStepsInv
<1>3. CASE DropBucket \/ DropFailure \/ Tick
  BY <1>3, MapStepsInv
<1>4. QED BY <1>1, <1>2, <1>3 DEF Next

\* The state of the limiter and the tracker keeps its type: no bucket exceeds the burst or goes
\* below zero, and no entry is from the future.
THEOREM TypeCorrect == Spec => []TypeOK
<1>1. IInv => TypeOK
  BY DEF IInv
<1>2. QED BY InitInv, StepInv, <1>1, PTL DEF Spec

\* RateLimiter.allow refuses an address only if it let a request of it through in the last interval.
THEOREM IdleIsAdmitted == Spec => []RefusedAfterRequest
<1>1. IInv => RefusedAfterRequest
  <2> SUFFICES ASSUME IInv, ~Allowed PROVE \E t \in Times : now - Interval < t /\ t <= now /\ admitted[t] > 0
    BY DEF RefusedAfterRequest
  <2>1. TypeOK /\ bucket # None /\ admitted[bucket.lastFill] > 0
    BY DEF IInv, Allowed, FilledByRequest
  <2>2. bucket.lastFill \in 0..now /\ now \in 0..Horizon /\ Horizon \in Nat
    BY <2>1, TrackerAssumption DEF TypeOK, Times
  <2>3. now - bucket.lastFill < Interval
    <3>1. Refilled.tokens \in 0..Burst /\ ~(Refilled.tokens > 0)
      BY <2>1, RefilledOK DEF Allowed
    <3>2. Burst \in Nat
      BY LimiterAssumption
    <3>3. Refilled.tokens <= 0
      BY <3>1, <3>2
    <3>4. QED BY <2>1, <3>3, RefilledOK
  <2>4. bucket.lastFill \in Times /\ now - Interval < bucket.lastFill /\ bucket.lastFill <= now
    BY <2>2, <2>3, LimiterAssumption DEF Times
  <2>5. QED BY <2>1, <2>4
<1>2. QED BY InitInv, StepInv, <1>1, PTL DEF Spec

-----------------------------------------------------------------------------
(***************************************************************************)
(* The bound on admissions.  What was let through since time a and what is *)
(* in the bucket now were paid by one bucket that a request had already    *)
(* taken from and by one refill for each interval begun between a and the  *)
(* last fill.  A bucket that cleanup forgot was refilled by its age.       *)
(***************************************************************************)

Refills(x) == Rate * (x \div Interval + 1)

Since(a) == During(admitted, a, Horizon)

\* s requests since time a and k tokens in the bucket that was last filled at time f are paid for.
Paid(s, k, f, a) ==
    /\ a <= f => s + k <= Burst - 1 + Refills(f - a)
    /\ a > f => s + k <= Burst - 1 /\ (s > 0 => a < f + Interval)

BucketInv ==
    /\ bucket = None => \A a \in Times : a <= now => Since(a) + 1 <= Refills(now - a)
    /\ bucket # None =>
        /\ bucket.tokens <= Burst - 1
        /\ \A a \in Times : Paid(Since(a), bucket.tokens, bucket.lastFill, a)

\* The spans that are over keep to the bound.
PastBound ==
    \A a \in Times : \A b \in a..Horizon :
        b < now => During(admitted, a, b) <= Burst + Refills(b - a) - 1

BoundInv ==
    /\ \A t \in Times : t > now => admitted[t] = 0
    /\ BucketInv
    /\ PastBound

\* Multiplication keeps the order.
LEMMA ProductGrows ==
    ASSUME NEW m \in Nat, NEW n \in Nat, NEW k \in Nat, m <= n
    PROVE  /\ k * m \in Nat /\ k * n \in Nat /\ k * m <= k * n
           /\ m * k \in Nat /\ n * k \in Nat /\ m * k <= n * k
<1>1. PICK d \in Nat : n = m + d
  <2>1. n - m \in Nat /\ n = m + (n - m)
    OBVIOUS
  <2> QED
    BY <2>1
<1>2. k * n = k * m + k * d /\ k * d \in Nat /\ k * m \in Nat
  BY <1>1
<1>3. n * k = m * k + d * k /\ d * k \in Nat /\ m * k \in Nat
  BY <1>1
<1> QED
  BY <1>2, <1>3

\* The number of whole intervals in a span.
LEMMA Intervals ==
    ASSUME NEW x \in Nat
    PROVE  /\ x \div Interval \in Nat
           /\ (x \div Interval) * Interval <= x
           /\ x < (x \div Interval + 1) * Interval
BY LimiterAssumption

\* Two spans have no more whole intervals than both together.
LEMMA IntervalsAdd ==
    ASSUME NEW x \in Nat, NEW y \in Nat
    PROVE  x \div Interval + y \div Interval <= (x + y) \div Interval
<1>1. PICK p \in Nat : p = x \div Interval
  BY Intervals
<1>2. PICK q \in Nat : q = y \div Interval
  BY Intervals
<1>3. PICK r \in Nat : r = (x + y) \div Interval
  BY Intervals
<1>4. p * Interval <= x /\ q * Interval <= y /\ x + y < (r + 1) * Interval
  BY <1>1, <1>2, <1>3, Intervals
<1>5. Interval \in Nat \ {0}
  BY LimiterAssumption
<1>6. (p + q) * Interval = p * Interval + q * Interval
  BY <1>5
<1>7. ASSUME p + q >= r + 1
      PROVE  FALSE
  <2>1. (r + 1) * Interval <= (p + q) * Interval
    BY <1>5, <1>7, ProductGrows
  <2>2. p * Interval \in Nat /\ q * Interval \in Nat /\ (r + 1) * Interval \in Nat
    BY <1>5
  <2> QED
    BY <1>4, <1>6, <2>1, <2>2
<1> QED
  BY <1>1, <1>2, <1>3, <1>7

LEMMA RefillsType ==
    ASSUME NEW x \in Nat
    PROVE  Refills(x) \in Nat /\ Refills(x) >= Rate
<1>1. PICK q \in Nat : q = x \div Interval
  BY Intervals
<1>2. Rate \in Nat \ {0} /\ Refills(x) = Rate * q + Rate
  BY <1>1, LimiterAssumption DEF Refills
<1>3. Rate * q \in Nat
  BY <1>1, <1>2
<1> QED
  BY <1>2, <1>3

\* Refills of one span and of the whole intervals of the next.
LEMMA RefillsAdd ==
    ASSUME NEW x \in Nat, NEW y \in Nat
    PROVE  /\ Rate * (y \div Interval) \in Nat
           /\ Refills(x) + Rate * (y \div Interval) <= Refills(x + y)
<1>1. PICK p \in Nat : p = x \div Interval
  BY Intervals
<1>2. PICK q \in Nat : q = y \div Interval
  BY Intervals
<1>3. PICK r \in Nat : r = (x + y) \div Interval
  BY Intervals
<1>4. p + q <= r
  BY <1>1, <1>2, <1>3, IntervalsAdd
<1>5. Rate \in Nat
  BY LimiterAssumption
<1>6. Rate * (p + q) <= Rate * r
  BY <1>4, <1>5, ProductGrows
<1>7. /\ Refills(x) = Rate * p + Rate /\ Refills(x + y) = Rate * r + Rate
      /\ Rate * (p + q) = Rate * p + Rate * q
      /\ Rate * p \in Nat /\ Rate * q \in Nat /\ Rate * r \in Nat
  BY <1>1, <1>3, <1>5 DEF Refills
<1> DEFINE a == Rate * p
<1> DEFINE b == Rate * q
<1> DEFINE c == Rate * r
<1>8. /\ Refills(x) = a + Rate /\ Refills(x + y) = c + Rate /\ a + b <= c
      /\ a \in Nat /\ b \in Nat /\ c \in Nat /\ Rate * (y \div Interval) = b
  BY <1>2, <1>6, <1>7
<1> HIDE DEF a, b, c
<1> QED
  BY <1>5, <1>8

\* A longer span has no fewer refills.
LEMMA RefillsGrow ==
    ASSUME NEW x \in Nat, NEW y \in Nat, x <= y
    PROVE  Refills(x) <= Refills(y)
<1>1. PICK d \in Nat : y = x + d
  <2>1. y - x \in Nat /\ y = x + (y - x)
    OBVIOUS
  <2> QED
    BY <2>1
<1>2. Rate * (d \div Interval) \in Nat /\ Refills(x) + Rate * (d \div Interval) <= Refills(x + d)
  BY RefillsAdd
<1>3. Refills(x) \in Nat /\ Refills(x + d) \in Nat
  BY <1>1, RefillsType
<1> QED
  BY <1>1, <1>2, <1>3

\* A span that is less than an interval longer has at most one refill more.
LEMMA RefillsOfShorter ==
    ASSUME NEW x \in Nat, NEW y \in Nat, y < x + Interval
    PROVE  Rate * (y \div Interval) <= Refills(x)
<1>1. PICK p \in Nat : p = x \div Interval
  BY Intervals
<1>2. PICK q \in Nat : q = y \div Interval
  BY Intervals
<1>3. x < (p + 1) * Interval /\ q * Interval <= y
  BY <1>1, <1>2, Intervals
<1>4. Interval \in Nat \ {0} /\ Rate \in Nat \ {0}
  BY LimiterAssumption
<1>5. ASSUME q >= p + 2
      PROVE  FALSE
  <2>1. (p + 2) * Interval <= q * Interval /\ q * Interval \in Nat
    BY <1>4, <1>5, ProductGrows
  <2>2. (p + 2) * Interval = (p + 1) * Interval + Interval /\ (p + 1) * Interval \in Nat
    BY <1>4
  <2> QED
    BY <1>3, <1>4, <2>1, <2>2
<1>6. q <= p + 1
  BY <1>5
<1>7. Rate * q <= Rate * (p + 1)
  BY <1>4, <1>6, ProductGrows
<1> QED
  BY <1>1, <1>2, <1>7 DEF Refills

LEMMA Facts ==
    ASSUME IInv
    PROVE  /\ now \in Nat /\ Horizon \in Nat /\ now <= Horizon /\ Times = 0..Horizon
           /\ Burst \in Nat \ {0} /\ Rate \in Nat \ {0} /\ Interval \in Nat \ {0}
           /\ admitted \in [Times -> Nat] /\ guessed \in [Times -> Nat]
           /\ now \in Times /\ \A t \in Times : t \in Nat /\ t <= Horizon
           /\ bucket # None => /\ bucket.tokens \in Nat /\ bucket.tokens <= Burst
                               /\ bucket.lastFill \in Nat /\ bucket.lastFill <= now
BY LimiterAssumption, TrackerAssumption DEF IInv, TypeOK, Times

LEMMA SinceFacts ==
    ASSUME IInv, BoundInv, NEW a \in Times
    PROVE  Since(a) \in Nat /\ (a > now => Since(a) = 0)
<1>1. Since(a) \in Nat
  BY Facts, DuringIsCount DEF Since
<1>2. ASSUME a > now
      PROVE  Since(a) = 0
  <2>1. \A t \in Times : a <= t /\ t <= Horizon => admitted[t] = 0
    BY <1>2, Facts DEF BoundInv
  <2>2. admitted \in [Times -> Nat] /\ a \in Int /\ Horizon \in Int
    BY Facts
  <2>3. During(admitted, a, Horizon) = 0
    BY <2>1, <2>2, DuringZero
  <2> QED
    BY <2>3 DEF Since
<1> QED
  BY <1>1, <1>2

\* What a span that reaches the present has seen is within the bound.
LEMMA PresentBound ==
    ASSUME IInv, BoundInv, NEW a \in Times, NEW b \in Int, now <= b, a <= b, b <= Horizon
    PROVE  During(admitted, a, b) <= Burst + Refills(b - a) - 1
<1>1. PICK s \in Nat : s = Since(a)
  BY SinceFacts
<1>2. PICK d \in Nat : d = During(admitted, a, b)
  BY Facts, DuringIsCount
<1>3. d <= s
  BY <1>1, <1>2, Facts, DuringTail DEF Since
<1>4. b - a \in Nat
  BY Facts
<1>5. PICK m \in Nat : m = Refills(b - a) /\ m >= Rate
  BY <1>4, RefillsType
<1>6. Burst \in Nat \ {0} /\ Rate \in Nat \ {0}
  BY Facts
<1>7. s <= Burst + m - 1
  <2>1. CASE a > now
    <3>1. s = 0
      BY <1>1, <2>1, SinceFacts
    <3> QED
      BY <1>6, <3>1
  <2>2. CASE bucket = None /\ a <= now
    <3>1. s + 1 <= Refills(now - a)
      BY <1>1, <2>2 DEF BoundInv, BucketInv
    <3>2. now - a \in Nat /\ now - a <= b - a
      BY <2>2, Facts
    <3>3. Refills(now - a) <= m /\ Refills(now - a) \in Nat
      BY <1>4, <1>5, <3>2, RefillsGrow, RefillsType
    <3> QED
      BY <1>6, <3>1, <3>3
  <2>3. CASE bucket # None /\ a <= bucket.lastFill
    <3>1. s + bucket.tokens <= Burst - 1 + Refills(bucket.lastFill - a)
      BY <1>1, <2>3 DEF BoundInv, BucketInv, Paid
    <3>2. bucket.lastFill - a \in Nat /\ bucket.lastFill - a <= b - a /\ bucket.tokens \in Nat
      <4>1. /\ bucket.lastFill \in Nat /\ bucket.lastFill <= now /\ bucket.tokens \in Nat
            /\ now \in Nat /\ a \in Nat
        BY <2>3, Facts
      <4> QED
        BY <2>3, <4>1
    <3>3. Refills(bucket.lastFill - a) <= m /\ Refills(bucket.lastFill - a) \in Nat
      BY <1>4, <1>5, <3>2, RefillsGrow, RefillsType
    <3> QED
      BY <1>6, <3>1, <3>2, <3>3
  <2>4. CASE bucket # None /\ a > bucket.lastFill
    <3>1. s + bucket.tokens <= Burst - 1
      BY <1>1, <2>4 DEF BoundInv, BucketInv, Paid
    <3>2. bucket.tokens \in Nat
      BY <2>4, Facts
    <3> QED
      BY <1>6, <3>1, <3>2
  <2>5. a \in Nat /\ now \in Nat /\ (bucket # None => bucket.lastFill \in Nat)
    BY Facts
  <2> QED
    BY <2>1, <2>2, <2>3, <2>4, <2>5
<1> QED
  BY <1>2, <1>3, <1>5, <1>6, <1>7

\* What a request does to the bucket.
Filled(m) ==
    /\ bucket # None
    /\ now - bucket.lastFill \in Nat
    /\ Rate * ((now - bucket.lastFill) \div Interval) \in Nat
    /\ m <= Burst /\ m <= bucket.tokens + Rate * ((now - bucket.lastFill) \div Interval)
    /\ bucket' = [tokens |-> m - 1, lastFill |-> now]

Drawn ==
    /\ bucket # None /\ bucket.tokens > 0 /\ now - bucket.lastFill < Interval
    /\ bucket' = [tokens |-> bucket.tokens - 1, lastFill |-> bucket.lastFill]

Made == bucket = None /\ bucket' = [tokens |-> Burst - 1, lastFill |-> now]

\* A request that is let through made the bucket, found it refilled, or drew on what was left.
LEMMA AllowCases ==
    ASSUME IInv, NEW r \in Requests, Allow(r), Allowed
    PROVE  Made \/ Drawn \/ \E m \in Nat \ {0} : Filled(m)
<1>1. bucket' = AfterAllow
  BY DEF Allow
<1>2. CASE bucket = None
  BY <1>1, <1>2 DEF AfterAllow, Made
<1>3. CASE bucket # None /\ Refill > 0
  <2>1. Refilled = [tokens |-> Min({bucket.tokens + Refill, Burst}), lastFill |-> now]
    BY <1>3 DEF Refilled
  <2>2. PICK m : m = Min({bucket.tokens + Refill, Burst})
    OBVIOUS
  <2>3. TypeOK /\ Refill \in Nat
    BY <1>3, RefillIsNat DEF IInv
  <2>4. PICK n \in Nat : n = bucket.tokens + Refill
    BY <1>3, <2>3, Facts
  <2>5. m \in {n, Burst} /\ m <= n /\ m <= Burst
    <3>1. n \in Int /\ Burst \in Int
      BY Facts
    <3>2. m = Min({n, Burst})
      BY <2>2, <2>4
    <3>3. /\ Min({n, Burst}) \in {n, Burst}
          /\ Min({n, Burst}) <= n /\ Min({n, Burst}) <= Burst
      BY <3>1, MinOfTwo, Zenon
    <3> QED
      BY <3>2, <3>3
  <2>6. Refilled.tokens = m /\ Refilled.lastFill = now /\ Refilled = [tokens |-> m, lastFill |-> now]
    BY <2>1, <2>2
  <2>7. m > 0
    BY <1>3, <2>6 DEF Allowed
  <2>8. m \in Nat \ {0}
    BY <2>5, <2>7, Facts
  <2>9. bucket' = [tokens |-> m - 1, lastFill |-> now]
    BY <1>1, <1>3, <2>6 DEF AfterAllow
  <2>10. PICK k \in Nat : k = (now - bucket.lastFill) \div Interval
    <3>1. now - bucket.lastFill \in Nat
      BY <1>3, Facts
    <3> QED
      BY <3>1, Intervals
  <2>11. Refill = Rate * k
    BY <2>10, Facts DEF Refill
  <2>12. now - bucket.lastFill \in Nat /\ Rate \in Nat
    BY <1>3, Facts
  <2>13. Rate * k \in Nat /\ m <= bucket.tokens + Rate * k
    BY <2>4, <2>5, <2>11, <2>12
  <2>14. Filled(m)
    BY <1>3, <2>5, <2>9, <2>10, <2>12, <2>13 DEF Filled
  <2> QED
    BY <2>8, <2>14
<1>4. CASE bucket # None /\ ~(Refill > 0)
  <2>1. Refilled = bucket /\ bucket.tokens > 0
    BY <1>4 DEF Refilled, Allowed
  <2>2. bucket' = [bucket EXCEPT !.tokens = bucket.tokens - 1]
    BY <1>1, <1>4, <2>1 DEF AfterAllow
  <2>3. bucket \in [tokens : 0..Burst, lastFill : 0..now]
    BY <1>4 DEF IInv, TypeOK
  <2>4. now - bucket.lastFill < Interval
    BY <1>4, RefillIsNat DEF IInv
  <2> QED
    BY <1>4, <2>1, <2>2, <2>3, <2>4 DEF Drawn
<1> QED
  BY <1>2, <1>3, <1>4

\* A request that is let through is one admission more since every earlier time.
LEMMA SinceMore ==
    ASSUME IInv, BoundInv, NEW r \in Requests, Allow(r), Allowed, NEW a \in Times
    PROVE  /\ a <= now => Since(a)' = Since(a) + 1
           /\ a > now => Since(a)' = Since(a)
<1>1. admitted' = [admitted EXCEPT ![now] = @ + 1]
  BY DEF Allow
<1>2. PICK g : g = admitted'
  OBVIOUS
<1>3. /\ a <= now /\ now <= Horizon => During(g, a, Horizon) = During(admitted, a, Horizon) + 1
      /\ ~(a <= now /\ now <= Horizon) => During(g, a, Horizon) = During(admitted, a, Horizon)
  <2>1. /\ admitted \in [Times -> Nat] /\ now \in Times /\ g = OneMore(admitted, now)
        /\ a \in Int /\ Horizon \in Int
    BY <1>1, <1>2, Facts DEF OneMore
  <2> QED
    BY <2>1, DuringMore
<1>4. Since(a)' = During(g, a, Horizon)
  BY <1>2 DEF Since
<1> QED
  BY <1>3, <1>4, Facts DEF Since

\* A request that finds the bucket refilled is paid by the intervals since the last fill.
LEMMA FilledPays ==
    ASSUME NEW s \in Nat, NEW k \in Nat, NEW f \in Nat, NEW a \in Nat, NEW n \in Nat, f <= n,
           Paid(s, k, f, a), a > n => s = 0,
           NEW m \in Nat \ {0}, m <= Burst, m <= k + Rate * ((n - f) \div Interval),
           NEW z \in Nat, a <= n => z = s + 1, a > n => z = s
    PROVE  Paid(z, m - 1, n, a)
<1>1. Burst \in Nat \ {0} /\ Rate \in Nat \ {0} /\ Interval \in Nat \ {0}
  BY LimiterAssumption
<1>2. n - f \in Nat
  OBVIOUS
<1>3. CASE a <= f
  <2>1. f - a \in Nat /\ n - a \in Nat /\ (f - a) + (n - f) = n - a
    BY <1>3
  <2>2. PICK p : p = Refills(f - a)
    OBVIOUS
  <2>3. PICK q : q = Refills(n - a)
    OBVIOUS
  <2>4. PICK x : x = Rate * ((n - f) \div Interval)
    OBVIOUS
  <2>5. p \in Nat /\ q \in Nat /\ x \in Nat /\ p + x <= q
    BY <1>2, <2>1, <2>2, <2>3, <2>4, RefillsType, RefillsAdd
  <2>6. s + k <= Burst - 1 + p /\ m <= k + x
    BY <1>3, <2>2, <2>4 DEF Paid
  <2>7. z + (m - 1) <= Burst - 1 + q
    BY <1>1, <1>3, <2>5, <2>6
  <2> QED
    BY <1>3, <2>3, <2>7 DEF Paid
<1>4. CASE f < a /\ a <= n
  <2>1. n - a \in Nat
    BY <1>4
  <2>2. PICK q : q = Refills(n - a)
    OBVIOUS
  <2>3. PICK x : x = Rate * ((n - f) \div Interval)
    OBVIOUS
  <2>4. q \in Nat /\ q >= Rate
    BY <2>1, <2>2, RefillsType
  <2>5. s + k <= Burst - 1 /\ m <= k + x /\ (s > 0 => a < f + Interval)
    BY <1>4, <2>3 DEF Paid
  <2>6. z + (m - 1) <= Burst - 1 + q
    <3>1. CASE s = 0
      BY <1>1, <1>4, <2>4, <3>1
    <3>2. CASE s > 0
      <4>1. n - f < (n - a) + Interval
        BY <1>1, <2>5, <3>2
      <4>2. x <= q
        BY <1>2, <2>1, <2>2, <2>3, <4>1, RefillsOfShorter
      <4>3. PICK y \in Nat : y = (n - f) \div Interval
        BY <1>2, Intervals
      <4>4. x \in Nat
        BY <1>1, <2>3, <4>3
      <4> QED
        BY <1>1, <1>4, <2>4, <2>5, <4>2, <4>4
    <3> QED
      BY <3>1, <3>2
  <2> QED
    BY <1>4, <2>2, <2>6 DEF Paid
<1>5. CASE a > n
  <2>1. z = 0 /\ z + (m - 1) <= Burst - 1
    BY <1>1, <1>5
  <2> QED
    BY <1>5, <2>1 DEF Paid
<1> QED
  BY <1>3, <1>4, <1>5

\* A request that finds no interval passed is paid by a token.
LEMMA DrawnPays ==
    ASSUME NEW s \in Nat, NEW k \in Nat \ {0}, NEW f \in Nat, NEW a \in Nat, NEW n \in Nat, f <= n,
           Paid(s, k, f, a), a > n => s = 0, n - f < Interval,
           NEW z \in Nat, a <= n => z = s + 1, a > n => z = s
    PROVE  Paid(z, k - 1, f, a)
<1>1. Burst \in Nat \ {0} /\ Interval \in Nat \ {0}
  BY LimiterAssumption
<1>2. CASE a <= f
  <2>1. PICK p : p = Refills(f - a)
    OBVIOUS
  <2>2. f - a \in Nat
    BY <1>2
  <2>3. p \in Nat /\ s + k <= Burst - 1 + p
    BY <1>2, <2>1, <2>2, RefillsType DEF Paid
  <2>4. z + (k - 1) <= Burst - 1 + p
    BY <1>1, <1>2, <2>3
  <2> QED
    BY <1>2, <2>1, <2>4 DEF Paid
<1>3. CASE a > f
  <2>1. s + k <= Burst - 1
    BY <1>3 DEF Paid
  <2>2. z + (k - 1) <= Burst - 1 /\ (z > 0 => a < f + Interval)
    BY <1>1, <1>3, <2>1
  <2> QED
    BY <1>3, <2>2 DEF Paid
<1> QED
  BY <1>2, <1>3

\* A request that finds no bucket makes a full one and takes from it.
LEMMA MadePays ==
    ASSUME NEW s \in Nat, NEW a \in Nat, NEW n \in Nat,
           a <= n => s + 1 <= Refills(n - a), a > n => s = 0,
           NEW z \in Nat, a <= n => z = s + 1, a > n => z = s
    PROVE  Paid(z, Burst - 1, n, a)
<1>1. Burst \in Nat \ {0}
  BY LimiterAssumption
<1>2. CASE a <= n
  <2>1. PICK p : p = Refills(n - a)
    OBVIOUS
  <2>2. n - a \in Nat
    BY <1>2
  <2>3. p \in Nat /\ s + 1 <= p
    BY <1>2, <2>1, <2>2, RefillsType
  <2>4. z + (Burst - 1) <= Burst - 1 + p
    BY <1>1, <1>2, <2>3
  <2> QED
    BY <1>2, <2>1, <2>4 DEF Paid
<1>3. CASE a > n
  BY <1>1, <1>3 DEF Paid
<1> QED
  BY <1>2, <1>3

\* A bucket that is old enough for cleanup would have been full again.
LEMMA StalePays ==
    ASSUME NEW s \in Nat, NEW k \in Nat, NEW f \in Nat, NEW a \in Nat, NEW n \in Nat,
           n - f > Stale, a <= n, Paid(s, k, f, a)
    PROVE  s + 1 <= Refills(n - a)
<1>1. Burst \in Nat \ {0} /\ Rate \in Nat \ {0} /\ Interval \in Nat \ {0}
  BY LimiterAssumption
<1>2. PICK x : x = Rate * (Stale \div Interval)
  OBVIOUS
<1>3. PICK y \in Nat : y = Stale \div Interval
  BY StaleAssumption, Intervals
<1>4. Stale \in Nat /\ x \in Nat /\ Burst <= x
  BY <1>1, <1>2, <1>3, StaleAssumption
<1>5. n - a \in Nat
  OBVIOUS
<1>6. PICK q : q = Refills(n - a)
  OBVIOUS
<1>7. q \in Nat /\ q >= Rate
  BY <1>5, <1>6, RefillsType
<1>8. CASE a <= f
  <2>1. f - a \in Nat /\ (f - a) + Stale \in Nat /\ (f - a) + Stale <= n - a
    BY <1>4, <1>8
  <2>2. PICK p : p = Refills(f - a)
    OBVIOUS
  <2>3. PICK o : o = Refills((f - a) + Stale)
    OBVIOUS
  <2>4. p \in Nat /\ o \in Nat /\ p + x <= o
    BY <1>2, <1>4, <2>1, <2>2, <2>3, RefillsType, RefillsAdd
  <2>5. o <= q
    BY <1>5, <1>6, <2>1, <2>3, RefillsGrow
  <2>6. s + k <= Burst - 1 + p
    BY <1>8, <2>2 DEF Paid
  <2> QED
    BY <1>1, <1>4, <1>6, <1>7, <2>4, <2>5, <2>6
<1>9. CASE a > f
  <2>1. s + k <= Burst - 1 /\ (s > 0 => a < f + Interval)
    BY <1>9 DEF Paid
  <2>2. CASE s = 0
    BY <1>1, <1>6, <1>7, <2>2
  <2>3. CASE s > 0
    <3>1. Stale < (n - a) + Interval
      BY <1>1, <1>4, <2>1, <2>3
    <3>2. x <= q
      BY <1>2, <1>4, <1>5, <1>6, <3>1, RefillsOfShorter
    <3> QED
      BY <1>1, <1>4, <1>6, <1>7, <2>1, <3>2
  <2> QED
    BY <2>2, <2>3
<1> QED
  BY <1>8, <1>9

LEMMA InitBound == Init => BoundInv
<1> SUFFICES ASSUME Init
             PROVE  BoundInv
  OBVIOUS
<1>1. IInv
  BY InitInv
<1>2. now = 0 /\ bucket = None /\ \A t \in Times : admitted[t] = 0
  BY DEF Init
<1>3. \A a \in Times : a <= now => Since(a) + 1 <= Refills(now - a)
  <2> SUFFICES ASSUME NEW a \in Times, a <= now
               PROVE  Since(a) + 1 <= Refills(now - a)
    OBVIOUS
  <2>1. Since(a) = 0
    BY <1>1, <1>2, Facts, DuringZero DEF Since
  <2>2. now - a \in Nat
    BY <1>1, Facts
  <2>3. Refills(now - a) \in Nat /\ Refills(now - a) >= Rate /\ Rate \in Nat \ {0}
    BY <2>2, RefillsType, LimiterAssumption
  <2> QED
    BY <2>1, <2>3
<1>4. PastBound
  <2>1. \A a \in Times : \A b \in a..Horizon : ~(b < 0)
    BY <1>1, Facts
  <2> QED
    BY <1>2, <2>1 DEF PastBound
<1> QED
  BY <1>2, <1>3, <1>4 DEF BoundInv, BucketInv

\* The bucket that a request leaves is one.
LEMMA BucketLeft ==
    ASSUME IInv, IInv', NEW k, NEW f, bucket' = [tokens |-> k, lastFill |-> f],
           k \in 0..Burst, f \in 0..Horizon
    PROVE  bucket' # None /\ bucket'.tokens = k /\ bucket'.lastFill = f
<1>1. [tokens |-> k, lastFill |-> f] \in [tokens : 0..Burst, lastFill : 0..Horizon]
  OBVIOUS
<1> QED
  BY <1>1, NoneAssumption

LEMMA AllowBucket ==
    ASSUME IInv, IInv', BoundInv, NEW r \in Requests, Allow(r), Allowed
    PROVE  BucketInv'
<1> DEFINE Left(k, f) ==
      /\ k \in Nat /\ k <= Burst - 1 /\ f \in Nat /\ f <= now
      /\ bucket' = [tokens |-> k, lastFill |-> f]
      /\ \A a \in Times : Paid(Since(a)', k, f, a)
<1>1. ASSUME NEW a \in Times
      PROVE  /\ a \in Nat /\ Since(a) \in Nat /\ Since(a)' \in Nat /\ (a > now => Since(a) = 0)
             /\ a <= now => Since(a)' = Since(a) + 1
             /\ a > now => Since(a)' = Since(a)
  <2>1. a \in Nat /\ now \in Nat /\ Since(a) \in Nat /\ (a > now => Since(a) = 0)
    BY Facts, SinceFacts
  <2> QED
    BY <2>1, SinceMore
<1>2. now \in Nat /\ Burst \in Nat \ {0} /\ now <= Horizon /\ Horizon \in Nat
  BY Facts
<1>3. ASSUME Made
      PROVE  Left(Burst - 1, now)
  <2>1. \A a \in Times : Paid(Since(a)', Burst - 1, now, a)
    <3> SUFFICES ASSUME NEW a \in Times
                 PROVE  Paid(Since(a)', Burst - 1, now, a)
      OBVIOUS
    <3>1. a <= now => Since(a) + 1 <= Refills(now - a)
      BY <1>3 DEF Made, BoundInv, BucketInv
    <3> QED
      BY <1>1, <1>2, <3>1, MadePays
  <2>2. Burst - 1 \in Nat /\ bucket' = [tokens |-> Burst - 1, lastFill |-> now]
    BY <1>2, <1>3 DEF Made
  <2> QED
    BY <1>2, <2>1, <2>2
<1>4. ASSUME NEW m \in Nat \ {0}, Filled(m)
      PROVE  Left(m - 1, now)
  <2>1. /\ bucket # None /\ bucket.tokens \in Nat /\ bucket.lastFill \in Nat
        /\ bucket.lastFill <= now /\ m <= Burst
        /\ m <= bucket.tokens + Rate * ((now - bucket.lastFill) \div Interval)
    BY <1>4, Facts DEF Filled
  <2>2. \A a \in Times : Paid(Since(a)', m - 1, now, a)
    <3> SUFFICES ASSUME NEW a \in Times
                 PROVE  Paid(Since(a)', m - 1, now, a)
      OBVIOUS
    <3>1. Paid(Since(a), bucket.tokens, bucket.lastFill, a)
      BY <2>1 DEF BoundInv, BucketInv
    <3> QED
      BY <1>1, <1>2, <2>1, <3>1, FilledPays
  <2>3. m - 1 \in Nat /\ m - 1 <= Burst - 1
    BY <1>2, <2>1
  <2> QED
    BY <1>2, <1>4, <2>2, <2>3 DEF Filled
<1>5. ASSUME Drawn
      PROVE  Left(bucket.tokens - 1, bucket.lastFill)
  <2>1. /\ bucket # None /\ bucket.tokens \in Nat \ {0} /\ bucket.lastFill \in Nat
        /\ bucket.lastFill <= now /\ now - bucket.lastFill < Interval
    BY <1>5, Facts DEF Drawn
  <2>2. \A a \in Times : Paid(Since(a)', bucket.tokens - 1, bucket.lastFill, a)
    <3> SUFFICES ASSUME NEW a \in Times
                 PROVE  Paid(Since(a)', bucket.tokens - 1, bucket.lastFill, a)
      OBVIOUS
    <3>1. Paid(Since(a), bucket.tokens, bucket.lastFill, a)
      BY <2>1 DEF BoundInv, BucketInv
    <3> QED
      BY <1>1, <1>2, <2>1, <3>1, DrawnPays
  <2>3. bucket.tokens - 1 \in Nat /\ bucket.tokens - 1 <= Burst - 1
    BY <1>2, <2>1, Facts
  <2> QED
    BY <1>5, <2>1, <2>2, <2>3 DEF Drawn
<1>6. PICK k, f : Left(k, f)
  <2> HIDE DEF Left
  <2> QED
    BY <1>3, <1>4, <1>5, AllowCases
<1>7. bucket' # None /\ bucket'.tokens = k /\ bucket'.lastFill = f
  <2>1. k \in 0..Burst /\ f \in 0..Horizon /\ bucket' = [tokens |-> k, lastFill |-> f]
    BY <1>2, <1>6
  <2> QED
    BY <2>1, BucketLeft
<1> QED
  BY <1>6, <1>7 DEF BucketInv

\* A request that is refused leaves everything as it was.
LEMMA RefusedLeaves ==
    ASSUME IInv, NEW r \in Requests, Allow(r), ~Allowed
    PROVE  UNCHANGED vars
<1>1. /\ bucket # None /\ bucket' = AfterAllow /\ AfterAllow = Refilled
      /\ UNCHANGED <<now, failure, req, admitted, guessed>>
  BY DEF Allow, AfterAllow, Allowed
<1>2. ASSUME Refill > 0
      PROVE  FALSE
  <2>1. Refilled = [tokens |-> Min({bucket.tokens + Refill, Burst}), lastFill |-> now]
    BY <1>2 DEF Refilled
  <2>2. PICK n \in Nat : n = bucket.tokens + Refill /\ n > 0
    BY <1>1, <1>2, Facts, RefillIsNat DEF IInv
  <2>3. Min({n, Burst}) \in {n, Burst}
    <3>1. n \in Int /\ Burst \in Int
      BY Facts
    <3> QED
      BY <3>1, MinOfTwo, Zenon
  <2>4. Refilled.tokens = Min({n, Burst})
    BY <2>1, <2>2
  <2>5. Refilled.tokens > 0
    BY <2>2, <2>3, <2>4, Facts
  <2> QED
    BY <2>5 DEF Allowed
<1>3. Refilled = bucket
  BY <1>2 DEF Refilled
<1> QED
  BY <1>1, <1>3 DEF vars

LEMMA AllowBound ==
    ASSUME IInv, IInv', BoundInv, NEW r \in Requests, Allow(r)
    PROVE  BoundInv'
<1>1. CASE Allowed
  <2>1. admitted' = [admitted EXCEPT ![now] = @ + 1] /\ now' = now
    BY <1>1 DEF Allow
  <2>2. \A t \in Times : t > now => admitted'[t] = 0
    BY <2>1, Facts DEF BoundInv
  <2>3. PastBound'
    <3> SUFFICES ASSUME NEW a \in Times, NEW b \in a..Horizon, b < now
                 PROVE  During(admitted', a, b) <= Burst + Refills(b - a) - 1
      BY <2>1 DEF PastBound
    <3>1. During(admitted, a, b) <= Burst + Refills(b - a) - 1
      BY DEF BoundInv, PastBound
    <3>2. PICK g : g = admitted'
      OBVIOUS
    <3>3. During(g, a, b) = During(admitted, a, b)
      <4>1. /\ admitted \in [Times -> Nat] /\ now \in Times /\ g = OneMore(admitted, now)
            /\ a \in Int /\ b \in Int /\ ~(a <= now /\ now <= b)
        BY <2>1, <3>2, Facts DEF OneMore
      <4> QED
        BY <4>1, DuringMore
    <3> QED
      BY <3>1, <3>2, <3>3
  <2>4. BucketInv'
    BY <1>1, AllowBucket
  <2> QED
    BY <2>1, <2>2, <2>3, <2>4 DEF BoundInv
<1>2. CASE ~Allowed
  <2>1. UNCHANGED vars
    BY <1>2, RefusedLeaves
  <2> QED
    BY <2>1 DEF BoundInv, BucketInv, PastBound, Since, vars
<1> QED
  BY <1>1, <1>2

LEMMA DropBucketBound ==
    ASSUME IInv, IInv', BoundInv, DropBucket
    PROVE  BoundInv'
<1>1. /\ bucket # None /\ now - bucket.lastFill > Stale /\ bucket' = None
      /\ now' = now /\ admitted' = admitted
  BY DEF DropBucket
<1>2. \A a \in Times : a <= now => Since(a) + 1 <= Refills(now - a)
  <2> SUFFICES ASSUME NEW a \in Times, a <= now
               PROVE  Since(a) + 1 <= Refills(now - a)
    OBVIOUS
  <2>1. Paid(Since(a), bucket.tokens, bucket.lastFill, a)
    BY <1>1 DEF BoundInv, BucketInv
  <2>2. /\ Since(a) \in Nat /\ bucket.tokens \in Nat /\ bucket.lastFill \in Nat
        /\ a \in Nat /\ now \in Nat
    BY <1>1, Facts, SinceFacts
  <2> QED
    BY <1>1, <2>1, <2>2, StalePays
<1>3. BucketInv'
  BY <1>1, <1>2 DEF BucketInv, Since
<1> QED
  BY <1>1, <1>3 DEF BoundInv, PastBound

LEMMA TickBound ==
    ASSUME IInv, IInv', BoundInv, Tick
    PROVE  BoundInv'
<1>1. now < Horizon /\ now' = now + 1 /\ bucket' = bucket /\ admitted' = admitted
  BY DEF Tick
<1>2. now \in Nat
  BY Facts
<1>3. PICK n : n = now' /\ n = now + 1
  BY <1>1
<1>4. \A t \in Times : t > now' => admitted'[t] = 0
  BY <1>1, <1>2, Facts DEF BoundInv
<1>5. ASSUME bucket = None
      PROVE  \A a \in Times : a <= n => Since(a) + 1 <= Refills(n - a)
  <2> SUFFICES ASSUME NEW a \in Times, a <= n
               PROVE  Since(a) + 1 <= Refills(n - a)
    OBVIOUS
  <2>1. n - a \in Nat /\ a \in Nat
    BY <1>2, <1>3, Facts
  <2>2. PICK q : q = Refills(n - a)
    OBVIOUS
  <2>3. q \in Nat /\ q >= Rate /\ Rate \in Nat \ {0}
    BY <2>1, <2>2, RefillsType, LimiterAssumption
  <2>4. CASE a <= now
    <3>1. now - a \in Nat /\ now - a <= n - a
      BY <1>2, <1>3, <2>1, <2>4
    <3>2. Since(a) + 1 <= Refills(now - a)
      BY <1>5, <2>4 DEF BoundInv, BucketInv
    <3>3. Refills(now - a) <= q /\ Refills(now - a) \in Nat /\ Since(a) \in Nat
      BY <2>1, <2>2, <3>1, RefillsGrow, RefillsType, SinceFacts
    <3> QED
      BY <2>2, <2>3, <3>2, <3>3
  <2>5. CASE a > now
    BY <2>2, <2>3, <2>5, SinceFacts
  <2> QED
    BY <1>2, <1>3, <2>1, <2>4, <2>5
<1>6. BucketInv'
  <2>1. Times' = Times /\ \A a : Since(a)' = Since(a)
    BY <1>1 DEF Since, Times
  <2>2. ASSUME bucket = None
        PROVE  \A a \in Times : a <= now' => Since(a) + 1 <= Refills(now' - a)
    BY <1>5, <1>3, <2>2
  <2>3. ASSUME bucket # None
        PROVE  /\ bucket.tokens <= Burst - 1
               /\ \A a \in Times : Paid(Since(a), bucket.tokens, bucket.lastFill, a)
    BY <2>3 DEF BoundInv, BucketInv
  <2> QED
    BY <1>1, <2>1, <2>2, <2>3 DEF BucketInv
<1>7. PastBound'
  <2> SUFFICES ASSUME NEW a \in Times, NEW b \in a..Horizon, b < now + 1
               PROVE  During(admitted, a, b) <= Burst + Refills(b - a) - 1
    BY <1>1 DEF PastBound
  <2>1. a \in Nat /\ b \in Int /\ a <= b /\ b <= Horizon
    BY Facts
  <2>2. CASE b < now
    BY <2>2 DEF BoundInv, PastBound
  <2>3. CASE b = now
    BY <1>2, <2>1, <2>3, PresentBound
  <2> QED
    BY <1>2, <2>1, <2>2, <2>3
<1> QED
  BY <1>4, <1>6, <1>7 DEF BoundInv

LEMMA StepBound ==
    ASSUME IInv, IInv', BoundInv, [Next]_vars
    PROVE  BoundInv'
<1>1. ASSUME UNCHANGED <<now, bucket, admitted>>
      PROVE  BoundInv'
  BY <1>1 DEF BoundInv, BucketInv, PastBound, Since
<1>2. ASSUME NEW r \in Requests, Check(r) \/ Fail(r) \/ Succeed(r)
      PROVE  BoundInv'
  <2>1. UNCHANGED <<now, bucket, admitted>>
    BY <1>2 DEF Check, Fail, Succeed
  <2> QED
    BY <1>1, <2>1
<1>3. CASE DropFailure \/ UNCHANGED vars
  <2>1. UNCHANGED <<now, bucket, admitted>>
    BY <1>3 DEF DropFailure, vars
  <2> QED
    BY <1>1, <2>1
<1> QED
  BY <1>2, <1>3, AllowBound, DropBucketBound, TickBound DEF Next

\* In no span of time does RateLimiter.allow let more through than a full bucket and a refill for
\* each interval begun, although its cleanup forgets buckets and a request that finds none gets a full one.
THEOREM AdmissionsBounded == Spec => []AdmissionBound
<1>1. Init => IInv /\ BoundInv
  BY InitInv, InitBound
<1>2. IInv /\ BoundInv /\ [Next]_vars => (IInv /\ BoundInv)'
  BY StepInv, StepBound
<1>3. IInv /\ BoundInv => AdmissionBound
  <2> SUFFICES ASSUME IInv, BoundInv, NEW a \in Times, NEW b \in a..Horizon
               PROVE  During(admitted, a, b) <= Burst + Rate * ((b - a) \div Interval + 1) - 1
    BY DEF AdmissionBound
  <2>1. a \in Nat /\ b \in Int /\ a <= b /\ b <= Horizon /\ now \in Nat
    BY Facts
  <2>2. During(admitted, a, b) <= Burst + Refills(b - a) - 1
    BY <2>1, PresentBound DEF BoundInv, PastBound
  <2> QED
    BY <2>2 DEF Refills
<1> QED
  BY <1>1, <1>2, <1>3, PTL DEF Spec

-----------------------------------------------------------------------------
(***************************************************************************)
(* The bound on wrong keys.  An entry of the tracker counts the wrong keys *)
(* since it was made, and those that passed isBlocked may still add to it. *)
(* Entries are made more than a window apart, so the spans of one window   *)
(* meet two of them at most, and not the first key of the older one.       *)
(***************************************************************************)

Verifying == {r \in Requests : req[r].pc = "verify"}

Guesses(a, b) == During(guessed, a, b)

\* The most that one entry counts.
PerEntry == MaxFails - 1 + Cardinality(Requests)

EntryInv(count, f) ==
    /\ count + Cardinality(Verifying) <= PerEntry
    /\ Guesses(f, Horizon) = count
    /\ Guesses(f + 1, Horizon) <= count - 1
    /\ Guesses(f + Window + 1, Horizon) = 0
    /\ Guesses(f - Window, f - 1) <= PerEntry - 1

FailureInv ==
    /\ failure = None =>
        /\ Guesses(now, Horizon) = 0
        /\ Guesses(now - Window, Horizon) <= PerEntry - 1
    /\ failure # None => EntryInv(failure.count, failure.firstAt)

PastGuesses ==
    \A a \in Times : a + Window < now => Guesses(a, a + Window) <= 2 * PerEntry - 1

GuessInv ==
    /\ \A t \in Times : t > now => guessed[t] = 0
    /\ FailureInv
    /\ PastGuesses

LEMMA GuessFacts ==
    ASSUME IInv
    PROVE  /\ now \in Nat /\ Horizon \in Nat /\ now \in Times /\ Window \in Nat /\ MaxFails \in Nat \ {0}
           /\ Horizon >= now
           /\ guessed \in [Times -> Nat] /\ \A t \in Times : t \in Nat
           /\ failure # None => /\ failure.count \in Nat \ {0}
                                /\ failure.firstAt \in Nat /\ failure.firstAt <= now
                                /\ failure.firstAt \in Times
BY TrackerAssumption DEF IInv, TypeOK, Times

LEMMA GuessesType ==
    ASSUME IInv, NEW a \in Int, NEW b \in Int
    PROVE  Guesses(a, b) \in Nat
BY GuessFacts, DuringIsCount DEF Guesses

LEMMA GuessesTail ==
    ASSUME IInv, NEW a \in Int, NEW b \in Int, NEW c \in Int, c <= a
    PROVE  Guesses(a, b) <= Guesses(c, Horizon)
<1>1. guessed \in [Times -> Nat] /\ Horizon \in Int
  BY GuessFacts
<1> QED
  BY <1>1, DuringTail DEF Guesses

\* The requests that passed isBlocked and have no answer yet.
LEMMA VerifyingCount ==
    ASSUME IInv
    PROVE  /\ IsFiniteSet(Verifying) /\ Cardinality(Verifying) \in Nat
           /\ Cardinality(Verifying) <= Cardinality(Requests)
           /\ PerEntry \in Nat \ {0} /\ Cardinality(Verifying) <= PerEntry
<1>1. Verifying \subseteq Requests /\ IsFiniteSet(Requests)
  BY RequestsAssumption DEF Verifying
<1>2. /\ IsFiniteSet(Verifying) /\ Cardinality(Verifying) \in Nat /\ Cardinality(Requests) \in Nat
      /\ Cardinality(Verifying) <= Cardinality(Requests)
  BY <1>1, FS_Subset, FS_CardinalityType
<1>3. Cardinality(Requests) # 0
  BY <1>1, RequestsAssumption, FS_EmptySet
<1> QED
  BY <1>2, <1>3, TrackerAssumption DEF PerEntry

\* Without an entry, or with one that is over, there is room for a new one.
LEMMA NoEntry ==
    ASSUME IInv, GuessInv, failure = None \/ Expired
    PROVE  /\ Guesses(now, Horizon) = 0
           /\ Guesses(now - Window, Horizon) <= PerEntry - 1
<1>1. CASE failure = None
  BY <1>1 DEF GuessInv, FailureInv
<1>2. CASE failure # None /\ Expired
  <2>1. PICK c \in Nat, f \in Nat : c = failure.count /\ f = failure.firstAt
    BY <1>2, GuessFacts
  <2>2. now > f + Window /\ now \in Nat /\ Window \in Nat /\ Horizon \in Nat
    BY <1>2, <2>1, GuessFacts DEF Expired
  <2>3. EntryInv(c, f)
    BY <1>2, <2>1 DEF GuessInv, FailureInv
  <2>4. Guesses(now, Horizon) <= Guesses(f + Window + 1, Horizon)
    BY <2>2, GuessesTail
  <2>5. Guesses(now - Window, Horizon) <= Guesses(f + 1, Horizon)
    BY <2>2, GuessesTail
  <2>6. /\ Guesses(now, Horizon) \in Nat /\ Guesses(now - Window, Horizon) \in Nat
        /\ Guesses(f + 1, Horizon) \in Nat
    BY <2>2, GuessesType
  <2>7. /\ Guesses(f + Window + 1, Horizon) = 0 /\ Guesses(f + 1, Horizon) <= c - 1
        /\ c + Cardinality(Verifying) <= PerEntry
    BY <2>3 DEF EntryInv
  <2>8. Cardinality(Verifying) \in Nat /\ PerEntry \in Nat
    BY VerifyingCount
  <2> QED
    BY <2>4, <2>5, <2>6, <2>7, <2>8
<1> QED
  BY <1>1, <1>2

\* A span of a window that reaches the present keeps to the bound.
LEMMA PresentGuess ==
    ASSUME IInv, GuessInv, NEW a \in Times, a + Window >= now
    PROVE  Guesses(a, a + Window) <= 2 * PerEntry - 1
<1>1. a \in Nat /\ now \in Nat /\ Window \in Nat /\ Horizon \in Nat
  BY GuessFacts
<1>2. PerEntry \in Nat \ {0} /\ Cardinality(Verifying) \in Nat
  BY VerifyingCount
<1>3. PICK g \in Nat : g = Guesses(a, a + Window)
  BY <1>1, GuessesType
<1>4. CASE failure = None
  <2>1. PICK h \in Nat : h = Guesses(now - Window, Horizon)
    BY <1>1, GuessesType
  <2>2. g <= h /\ h <= PerEntry - 1
    BY <1>1, <1>3, <1>4, <2>1, GuessesTail, NoEntry
  <2> QED
    BY <1>2, <1>3, <2>2
<1>5. CASE failure # None
  <2>1. PICK c \in Nat, f \in Nat : c = failure.count /\ f = failure.firstAt /\ f <= now
    BY <1>5, GuessFacts
  <2>2. EntryInv(c, f)
    BY <1>5, <2>1 DEF GuessInv, FailureInv
  <2>3. c + Cardinality(Verifying) <= PerEntry /\ Guesses(f, Horizon) = c
    BY <2>2 DEF EntryInv
  <2>4. c <= PerEntry
    BY <1>2, <2>3
  <2>5. CASE a > f
    <3>1. g <= c
      BY <1>1, <1>3, <2>3, <2>5, GuessesTail
    <3> QED
      BY <1>2, <1>3, <2>4, <3>1
  <2>6. CASE a <= f
    <3>1. PICK x \in Nat : x = Guesses(a, f - 1)
      BY <1>1, GuessesType
    <3>2. PICK y \in Nat : y = Guesses(f - Window, f - 1)
      BY <1>1, GuessesType
    <3>3. PICK z \in Nat : z = Guesses(a, Horizon)
      BY <1>1, GuessesType
    <3>4. g <= z
      BY <1>1, <1>3, <3>3, GuessesTail
    <3>5. z <= x + c
      <4>1. guessed \in [Times -> Nat] /\ a \in Int /\ Horizon \in Int /\ f \in Int
        BY <1>1, GuessFacts
      <4> QED
        BY <2>3, <3>1, <3>3, <4>1, DuringSplit DEF Guesses
    <3>6. x <= y
      <4>1. /\ guessed \in [Times -> Nat] /\ a \in Int /\ f - 1 \in Int /\ f - Window \in Int
            /\ f - Window <= a /\ f - 1 <= f - 1
        BY <1>1, <2>1, GuessFacts
      <4> QED
        BY <3>1, <3>2, <4>1, DuringTail DEF Guesses
    <3>7. y <= PerEntry - 1
      BY <2>2, <3>2 DEF EntryInv
    <3> QED
      BY <1>2, <1>3, <2>4, <3>4, <3>5, <3>6, <3>7
  <2> QED
    BY <1>1, <2>5, <2>6
<1> QED
  BY <1>4, <1>5

LEMMA InitGuess == Init => GuessInv
<1> SUFFICES ASSUME Init
             PROVE  GuessInv
  OBVIOUS
<1>1. IInv
  BY InitInv
<1>2. now = 0 /\ failure = None /\ \A t \in Times : guessed[t] = 0
  BY DEF Init
<1>3. guessed \in [Times -> Nat] /\ now \in Nat /\ Window \in Nat /\ Horizon \in Nat
  BY <1>1, GuessFacts
<1>4. \A a \in Int, b \in Int : Guesses(a, b) = 0
  BY <1>2, <1>3, DuringZero DEF Guesses
<1>5. PerEntry \in Nat \ {0}
  BY <1>1, VerifyingCount
<1>6. FailureInv
  <2>1. Guesses(now, Horizon) = 0 /\ Guesses(now - Window, Horizon) = 0
    BY <1>3, <1>4
  <2> QED
    BY <1>2, <1>5, <2>1 DEF FailureInv
<1>7. PastGuesses
  <2>1. \A a \in Times : ~(a + Window < now)
    BY <1>1, <1>2, <1>3, GuessFacts
  <2> QED
    BY <2>1 DEF PastGuesses
<1> QED
  BY <1>2, <1>6, <1>7 DEF GuessInv

\* A step that tries no key keeps the entry, with no more keys under verification than it has
\* room for, or deletes it when it is over.
LEMMA QuietStep ==
    ASSUME IInv, GuessInv, now' = now, guessed' = guessed,
           \/ failure' = None /\ (failure = None \/ Expired)
           \/ failure' = failure /\ (failure # None => failure.count + Cardinality(Verifying') <= PerEntry)
    PROVE  GuessInv'
<1>1. \A a, b : Guesses(a, b)' = Guesses(a, b)
  BY DEF Guesses
<1>2. FailureInv'
  <2>1. CASE failure' = None /\ (failure = None \/ Expired)
    BY <1>1, <2>1, NoEntry DEF FailureInv
  <2>2. CASE failure' = failure /\ failure # None /\ failure.count + Cardinality(Verifying') <= PerEntry
    <3>1. EntryInv(failure.count, failure.firstAt)
      BY <2>2 DEF GuessInv, FailureInv
    <3>2. EntryInv(failure.count, failure.firstAt)'
      BY <1>1, <2>2, <3>1 DEF EntryInv, PerEntry
    <3> QED
      BY <2>2, <3>2 DEF FailureInv
  <2> QED
    BY <2>1, <2>2
<1> QED
  BY <1>1, <1>2 DEF GuessInv, PastGuesses, PerEntry

\* With no more keys under verification, the entry has room for them still.
LEMMA RoomKept ==
    ASSUME IInv, GuessInv, failure # None, Cardinality(Verifying') <= Cardinality(Verifying),
           Cardinality(Verifying') \in Nat
    PROVE  failure.count + Cardinality(Verifying') <= PerEntry
<1>1. failure.count + Cardinality(Verifying) <= PerEntry
  BY DEF GuessInv, FailureInv, EntryInv
<1> QED
  BY <1>1, GuessFacts, VerifyingCount

LEMMA AllowGuess ==
    ASSUME IInv, IInv', GuessInv, NEW r \in Requests, Allow(r)
    PROVE  GuessInv'
<1>1. now' = now /\ guessed' = guessed /\ failure' = failure
  BY DEF Allow
<1>2. Verifying' \subseteq Verifying
  BY DEF Allow, Verifying, At, Idle, IInv, TypeOK
<1>3. Cardinality(Verifying') <= Cardinality(Verifying) /\ Cardinality(Verifying') \in Nat
  BY <1>2, VerifyingCount, FS_Subset, FS_CardinalityType
<1> QED
  BY <1>1, <1>3, RoomKept, QuietStep

LEMMA CheckGuess ==
    ASSUME IInv, IInv', GuessInv, NEW r \in Requests, Check(r)
    PROVE  GuessInv'
<1>1. now' = now /\ guessed' = guessed /\ failure' = IF Expired THEN None ELSE failure
  BY DEF Check
<1>2. CASE Expired
  BY <1>1, <1>2, QuietStep
<1>3. CASE ~Expired /\ (failure = None)
  BY <1>1, <1>3, QuietStep
<1>4. CASE ~Expired /\ failure # None /\ (Blocked \/ req[r].key = "missing")
  <2>1. Verifying' \subseteq Verifying
    BY <1>4 DEF Check, Verifying, Return, Idle, IInv, TypeOK
  <2>2. Cardinality(Verifying') <= Cardinality(Verifying) /\ Cardinality(Verifying') \in Nat
    BY <2>1, VerifyingCount, FS_Subset, FS_CardinalityType
  <2> QED
    BY <1>1, <1>4, <2>2, RoomKept, QuietStep
<1>5. CASE ~Expired /\ failure # None /\ ~Blocked
  <2>1. failure.count \in Nat /\ MaxFails \in Nat /\ failure.count <= MaxFails - 1
    BY <1>5, GuessFacts DEF Blocked
  <2>2. Verifying' \subseteq Requests /\ IsFiniteSet(Requests)
    BY RequestsAssumption DEF Verifying
  <2>3. /\ Cardinality(Verifying') <= Cardinality(Requests)
        /\ Cardinality(Verifying') \in Nat /\ Cardinality(Requests) \in Nat
    BY <2>2, FS_Subset, FS_CardinalityType
  <2>4. failure.count + Cardinality(Verifying') <= PerEntry
    BY <2>1, <2>3 DEF PerEntry
  <2> QED
    BY <1>1, <1>5, <2>4, QuietStep
<1> QED
  BY <1>2, <1>3, <1>4, <1>5

\* What a wrong key adds to the sums.
LEMMA GuessMore ==
    ASSUME IInv, NEW r \in Requests, Fail(r), NEW a \in Int, NEW b \in Int
    PROVE  /\ a <= now /\ now <= b => Guesses(a, b)' = Guesses(a, b) + 1
           /\ ~(a <= now /\ now <= b) => Guesses(a, b)' = Guesses(a, b)
<1>1. guessed' = [guessed EXCEPT ![now] = @ + 1]
  BY DEF Fail
<1>2. PICK g : g = guessed'
  OBVIOUS
<1>3. guessed \in [Times -> Nat] /\ now \in Times /\ g = OneMore(guessed, now)
  BY <1>1, <1>2, GuessFacts DEF OneMore
<1>4. /\ a <= now /\ now <= b => During(g, a, b) = During(guessed, a, b) + 1
      /\ ~(a <= now /\ now <= b) => During(g, a, b) = During(guessed, a, b)
  BY <1>3, DuringMore
<1>5. Guesses(a, b)' = During(g, a, b)
  BY <1>2 DEF Guesses
<1> QED
  BY <1>4, <1>5 DEF Guesses

\* A request that has tried its key is no longer under verification.
LEMMA VerifyingLess ==
    ASSUME IInv, NEW r \in Requests, Fail(r)
    PROVE  /\ Cardinality(Verifying') = Cardinality(Verifying) - 1
           /\ Cardinality(Verifying) \in Nat \ {0}
<1>1. r \in Verifying /\ IsFiniteSet(Verifying)
  BY VerifyingCount DEF Fail, At, Verifying
<1>2. Verifying' = Verifying \ {r}
  BY DEF Fail, Return, Verifying, Idle, IInv, TypeOK
<1>3. Cardinality(Verifying \ {r}) = Cardinality(Verifying) - 1
  BY <1>1, FS_RemoveElement
<1>4. Cardinality(Verifying) # 0
  BY <1>1, FS_EmptySet
<1> QED
  BY <1>2, <1>3, <1>4, VerifyingCount

\* The first wrong key of a new entry.
LEMMA FirstGuess ==
    ASSUME IInv, IInv', GuessInv, NEW r \in Requests, Fail(r), failure = None \/ Expired
    PROVE  FailureInv'
<1>1. now \in Nat /\ Window \in Nat /\ Horizon \in Nat /\ now <= Horizon /\ MaxFails \in Nat \ {0}
  BY GuessFacts
<1>2. failure' = [count |-> 1, firstAt |-> now]
  BY DEF Fail
<1>3. failure' # None /\ failure'.count = 1 /\ failure'.firstAt = now
  <2>1. [count |-> 1, firstAt |-> now] \in [count : Nat \ {0}, firstAt : 0..Horizon]
    BY <1>1
  <2> QED
    BY <1>2, <2>1, NoneAssumption
<1>4. PICK n : n = now
  OBVIOUS
<1>5. /\ Guesses(n, Horizon)' = Guesses(n, Horizon) + 1
      /\ Guesses(n + 1, Horizon)' = Guesses(n + 1, Horizon)
      /\ Guesses(n + Window + 1, Horizon)' = Guesses(n + Window + 1, Horizon)
      /\ Guesses(n - Window, n - 1)' = Guesses(n - Window, n - 1)
  BY <1>1, <1>4, GuessMore
<1>6. /\ Guesses(n + 1, Horizon) <= Guesses(n, Horizon)
      /\ Guesses(n + Window + 1, Horizon) <= Guesses(n, Horizon)
      /\ Guesses(n - Window, n - 1) <= Guesses(n - Window, Horizon)
  BY <1>1, <1>4, GuessesTail
<1>7. /\ Guesses(n + 1, Horizon) \in Nat /\ Guesses(n + Window + 1, Horizon) \in Nat
      /\ Guesses(n - Window, n - 1) \in Nat /\ Guesses(n - Window, Horizon) \in Nat
  BY <1>1, <1>4, GuessesType
<1>8. Guesses(n, Horizon) = 0 /\ Guesses(n - Window, Horizon) <= PerEntry - 1
  BY <1>4, NoEntry
<1>9. 1 + Cardinality(Verifying') <= PerEntry /\ PerEntry \in Nat
  BY VerifyingLess, VerifyingCount
<1>10. EntryInv(1, n)'
  <2>1. /\ Guesses(n, Horizon)' = 1 /\ Guesses(n + 1, Horizon)' <= 0
        /\ Guesses(n + Window + 1, Horizon)' = 0
        /\ Guesses(n - Window, n - 1)' <= PerEntry - 1
    BY <1>5, <1>6, <1>7, <1>8, <1>9
  <2>2. Guesses(n + 1, Horizon)' <= 1 - 1
    BY <2>1
  <2> QED
    BY <1>9, <2>1, <2>2 DEF EntryInv, PerEntry
<1> QED
  BY <1>3, <1>4, <1>10 DEF FailureInv

\* One more wrong key of an entry.
LEMMA NextGuess ==
    ASSUME IInv, IInv', GuessInv, NEW r \in Requests, Fail(r), failure # None, ~Expired
    PROVE  FailureInv'
<1>1. PICK c \in Nat \ {0}, f \in Nat :
        c = failure.count /\ f = failure.firstAt /\ f <= now
  BY GuessFacts
<1>2. /\ now \in Nat /\ Window \in Nat /\ Horizon \in Nat /\ now <= Horizon
      /\ now <= f + Window
  BY <1>1, GuessFacts DEF Expired
<1>3. failure' # None /\ failure'.count = c + 1 /\ failure'.firstAt = f
  <2>1. failure' = [failure EXCEPT !.count = @ + 1]
    BY DEF Fail
  <2>2. failure \in [count : Nat \ {0}, firstAt : 0..now]
    BY DEF IInv, TypeOK
  <2>3. failure'.count = c + 1 /\ failure'.firstAt = f
    BY <1>1, <2>1, <2>2
  <2>4. failure' \in [count : Nat \ {0}, firstAt : 0..Horizon]
    <3>1. failure \in [count : Nat \ {0}, firstAt : 0..Horizon]
      BY <1>2, <2>2
    <3> QED
      BY <2>1, <3>1
  <2> QED
    BY <2>3, <2>4, NoneAssumption
<1>4. /\ Guesses(f, Horizon)' = Guesses(f, Horizon) + 1
      /\ \/ Guesses(f + 1, Horizon)' = Guesses(f + 1, Horizon) + 1
         \/ Guesses(f + 1, Horizon)' = Guesses(f + 1, Horizon)
      /\ Guesses(f + Window + 1, Horizon)' = Guesses(f + Window + 1, Horizon)
      /\ Guesses(f - Window, f - 1)' = Guesses(f - Window, f - 1)
  BY <1>1, <1>2, GuessMore
<1>5. EntryInv(c, f)
  BY <1>1 DEF GuessInv, FailureInv
<1>6. Guesses(f + 1, Horizon) \in Nat
  BY <1>2, GuessesType
<1>7. /\ Cardinality(Verifying') = Cardinality(Verifying) - 1
      /\ Cardinality(Verifying) \in Nat /\ PerEntry \in Nat
  BY VerifyingLess, VerifyingCount
<1>8. EntryInv(c + 1, f)'
  <2>1. c + 1 + Cardinality(Verifying') <= PerEntry
    BY <1>5, <1>7 DEF EntryInv
  <2>2. Guesses(f, Horizon)' = c + 1 /\ Guesses(f + 1, Horizon)' <= c + 1 - 1
    BY <1>4, <1>5, <1>6 DEF EntryInv
  <2>3. Guesses(f + Window + 1, Horizon)' = 0 /\ Guesses(f - Window, f - 1)' <= PerEntry - 1
    BY <1>4, <1>5 DEF EntryInv
  <2> QED
    BY <2>1, <2>2, <2>3 DEF EntryInv, PerEntry
<1> QED
  BY <1>3, <1>8 DEF FailureInv

LEMMA FailGuess ==
    ASSUME IInv, IInv', GuessInv, NEW r \in Requests, Fail(r)
    PROVE  GuessInv'
<1>1. now' = now /\ guessed' = [guessed EXCEPT ![now] = @ + 1]
  BY DEF Fail
<1>2. \A t \in Times : t > now => guessed'[t] = 0
  BY <1>1, GuessFacts DEF GuessInv
<1>3. FailureInv'
  BY FirstGuess, NextGuess
<1>4. PastGuesses'
  <2> SUFFICES ASSUME NEW a \in Times, a + Window < now
               PROVE  Guesses(a, a + Window)' <= 2 * PerEntry - 1
    BY <1>1 DEF PastGuesses, PerEntry
  <2>1. a \in Int /\ a + Window \in Int /\ now \in Nat
    BY GuessFacts
  <2>2. Guesses(a, a + Window)' = Guesses(a, a + Window)
    BY <2>1, GuessMore
  <2> QED
    BY <2>2 DEF GuessInv, PastGuesses
<1> QED
  BY <1>1, <1>2, <1>3, <1>4 DEF GuessInv

LEMMA SucceedGuess ==
    ASSUME IInv, IInv', GuessInv, NEW r \in Requests, Succeed(r)
    PROVE  GuessInv'
<1>1. now' = now /\ failure' = None /\ guessed' = [t \in Times |-> 0]
  BY DEF Succeed
<1>2. PICK g : g = guessed'
  OBVIOUS
<1>3. g \in [Times -> Nat] /\ \A t \in Times : g[t] = 0
  BY <1>1, <1>2
<1>4. now \in Nat /\ Window \in Nat /\ Horizon \in Nat /\ \A t \in Times : t \in Nat
  BY GuessFacts
<1>5. \A a \in Int, b \in Int : Guesses(a, b)' = 0
  <2> SUFFICES ASSUME NEW a \in Int, NEW b \in Int
               PROVE  Guesses(a, b)' = 0
    OBVIOUS
  <2>1. During(g, a, b) = 0
    BY <1>3, DuringZero
  <2> QED
    BY <1>2, <2>1 DEF Guesses
<1>6. PerEntry \in Nat \ {0}
  BY VerifyingCount
<1>7. FailureInv'
  <2>1. PICK n : n = now
    OBVIOUS
  <2>2. Guesses(n, Horizon)' = 0 /\ Guesses(n - Window, Horizon)' <= PerEntry - 1
    BY <1>4, <1>5, <1>6, <2>1
  <2> QED
    BY <1>1, <2>1, <2>2 DEF FailureInv, PerEntry
<1>8. PastGuesses'
  <2>1. \A a \in Times : Guesses(a, a + Window)' <= 2 * PerEntry - 1
    BY <1>4, <1>5, <1>6
  <2> QED
    BY <2>1 DEF PastGuesses, PerEntry
<1> QED
  BY <1>1, <1>2, <1>3, <1>7, <1>8 DEF GuessInv

LEMMA TickGuess ==
    ASSUME IInv, IInv', GuessInv, Tick
    PROVE  GuessInv'
<1>1. now' = now + 1 /\ failure' = failure /\ guessed' = guessed /\ req' = req
  BY DEF Tick
<1>2. now \in Nat /\ Window \in Nat /\ Horizon \in Nat /\ \A t \in Times : t \in Nat
  BY GuessFacts
<1>3. \A t \in Times : t > now' => guessed'[t] = 0
  BY <1>1, <1>2 DEF GuessInv
<1>4. \A a, b : Guesses(a, b)' = Guesses(a, b)
  BY <1>1 DEF Guesses
<1>5. FailureInv'
  <2>1. CASE failure = None
    <3>1. PICK n : n = now'
      OBVIOUS
    <3>2. n = now + 1
      BY <1>1, <3>1
    <3>3. Guesses(n, Horizon) <= Guesses(now, Horizon) /\ Guesses(n, Horizon) \in Nat
      BY <1>2, <3>2, GuessesTail, GuessesType
    <3>4. /\ Guesses(n - Window, Horizon) <= Guesses(now - Window, Horizon)
          /\ Guesses(n - Window, Horizon) \in Nat /\ Guesses(now - Window, Horizon) \in Nat
      BY <1>2, <3>2, GuessesTail, GuessesType
    <3>5. Guesses(now, Horizon) = 0 /\ Guesses(now - Window, Horizon) <= PerEntry - 1
      BY <2>1, NoEntry
    <3>6. Guesses(n, Horizon) = 0 /\ Guesses(n - Window, Horizon) <= PerEntry - 1
      BY <3>3, <3>4, <3>5, VerifyingCount
    <3> QED
      BY <1>1, <1>4, <2>1, <3>1, <3>6 DEF FailureInv, PerEntry
  <2>2. CASE failure # None
    <3>1. EntryInv(failure.count, failure.firstAt)
      BY <2>2 DEF GuessInv, FailureInv
    <3>2. EntryInv(failure.count, failure.firstAt)'
      BY <1>1, <1>4, <3>1 DEF EntryInv, PerEntry, Verifying
    <3> QED
      BY <1>1, <2>2, <3>2 DEF FailureInv
  <2> QED
    BY <2>1, <2>2
<1>6. PastGuesses'
  <2> SUFFICES ASSUME NEW a \in Times, a + Window < now + 1
               PROVE  Guesses(a, a + Window) <= 2 * PerEntry - 1
    BY <1>1, <1>4 DEF PastGuesses, PerEntry
  <2>1. CASE a + Window < now
    BY <2>1 DEF GuessInv, PastGuesses
  <2>2. CASE a + Window >= now
    BY <2>2, PresentGuess
  <2> QED
    BY <1>2, <2>1, <2>2
<1> QED
  BY <1>3, <1>5, <1>6 DEF GuessInv

LEMMA StepGuess ==
    ASSUME IInv, IInv', GuessInv, [Next]_vars
    PROVE  GuessInv'
<1>1. CASE DropFailure
  BY <1>1, QuietStep DEF DropFailure
<1>2. CASE DropBucket \/ UNCHANGED vars
  <2>1. UNCHANGED <<now, failure, req, guessed>>
    BY <1>2 DEF DropBucket, vars
  <2>2. Cardinality(Verifying') = Cardinality(Verifying)
    BY <2>1 DEF Verifying
  <2>3. failure # None => failure.count + Cardinality(Verifying') <= PerEntry
    BY <2>2, RoomKept, VerifyingCount
  <2> QED
    BY <2>1, <2>3, QuietStep
<1> QED
  BY <1>1, <1>2, AllowGuess, CheckGuess, FailGuess, SucceedGuess, TickGuess DEF Next

\* In no span of a window are more wrong keys tried than two entries of authFailureTracker count,
\* although requests that passed isBlocked together may all be wrong and cleanup deletes entries.
THEOREM GuessesBounded == Spec => []GuessBound
<1>1. Init => IInv /\ GuessInv
  BY InitInv, InitGuess
<1>2. IInv /\ GuessInv /\ [Next]_vars => (IInv /\ GuessInv)'
  BY StepInv, StepGuess
<1>3. IInv /\ GuessInv => GuessBound
  <2> SUFFICES ASSUME IInv, GuessInv, NEW a \in Times
               PROVE  Guesses(a, a + Window) <= 2 * PerEntry - 1
    BY DEF GuessBound, Guesses, PerEntry
  <2>1. a \in Nat /\ Window \in Nat /\ now \in Nat
    BY GuessFacts
  <2> QED
    BY <2>1, PresentGuess DEF GuessInv, PastGuesses
<1> QED
  BY <1>1, <1>2, <1>3, PTL DEF Spec

\* Neither the limiter nor the tracker refuses an address without a recent cause: a request that was
\* let through within the last interval, or MaxFails wrong keys within the last window.
THEOREM RefusalsJustified == Spec => []RefusedForAReason
<1>1. Init => IInv /\ GuessInv
  BY InitInv, InitGuess
<1>2. IInv /\ GuessInv /\ [Next]_vars => (IInv /\ GuessInv)'
  BY StepInv, StepGuess
<1>3. IInv /\ GuessInv => LockedAfterFailures
  <2> SUFFICES ASSUME IInv, GuessInv, Blocked
               PROVE  During(guessed, now - Window, now) >= MaxFails
    BY DEF LockedAfterFailures
  <2>1. PICK c \in Nat, f \in Nat : c = failure.count /\ f = failure.firstAt
    BY GuessFacts DEF Blocked
  <2>2. /\ now \in Nat /\ Window \in Nat /\ Horizon \in Nat /\ now <= Horizon /\ MaxFails \in Nat
        /\ now - f <= Window /\ c >= MaxFails
    BY <2>1, GuessFacts DEF Blocked, Expired
  <2>3. During(guessed, f, Horizon) = c
    BY <2>1 DEF GuessInv, FailureInv, EntryInv, Blocked, Guesses
  <2>4. During(guessed, now - Window, Horizon) = During(guessed, now - Window, now)
    BY <2>2, GuessFacts, DuringToNow DEF GuessInv
  <2>5. During(guessed, f, Horizon) <= During(guessed, now - Window, Horizon)
    <3>1. now - Window <= f /\ now - Window \in Int
      BY <2>2
    <3> QED
      BY <2>2, <3>1, GuessFacts, DuringTail
  <2>6. During(guessed, now - Window, now) \in Nat
    BY <2>2, GuessesType DEF Guesses
  <2> QED
    BY <2>2, <2>3, <2>4, <2>5, <2>6
<1>4. []RefusedAfterRequest /\ []LockedAfterFailures => []RefusedForAReason
  BY PTL DEF RefusedForAReason
<1>5. Spec => []LockedAfterFailures
  BY <1>1, <1>2, <1>3, PTL DEF Spec
<1> QED
  BY <1>4, <1>5, IdleIsAdmitted, PTL
=============================================================================
