----------------------- MODULE HistoricalReplay_proofs -----------------------
(***************************************************************************)
(* What holds of the replay for every dataset, configuration and schedule, *)
(* any proposals and any number of frames, decisions and outcomes.         *)
(*                                                                         *)
(* A view is the candles of a set of times in order; two datasets that     *)
(* agree on the times before some moment give views that agree up to it.   *)
(* The walk of the evaluator is followed from candle to candle.            *)
(*                                                                         *)
(* A summary's numbers are sums over the positions of a sequence.  A sum   *)
(* may be taken in any order and in parts; the loop of the drawdown is     *)
(* followed from value to value, as the walk is, and the median is read    *)
(* off an order of the values.                                             *)
(***************************************************************************)
EXTENDS HistoricalReplay, FiniteSetTheorems, FunctionTheorems, SequenceTheorems,
        WellFoundedInduction, TLAPS

\* A non-empty set of finite sets has one with the fewest elements.
LEMMA Fewest ==
  ASSUME NEW B, B # {}, \A S \in B : IsFiniteSet(S)
  PROVE  \E S \in B : \A T \in B : Cardinality(S) <= Cardinality(T)
<1> DEFINE N == {Cardinality(S) : S \in B}
<1>1. N \subseteq Nat /\ N # {}
  BY FS_CardinalityType
<1>2. PICK n \in N : \A m \in N : ~ (<<m, n>> \in OpToRel(<, Nat))
  <2> HIDE DEF N
  <2>1. QED
    BY <1>1, NatLessThanWellFounded, WFMin, Zenon
<1>3. \A m \in N : ~ (m < n)
  <2> HIDE DEF N
  <2>1. QED
    BY <1>1, <1>2 DEF OpToRel
<1>4. \A m \in N : n <= m
  <2> HIDE DEF N
  <2>1. QED
    BY <1>1, <1>3
<1>5. QED
  BY <1>4

-----------------------------------------------------------------------------
(* Sequences of times                                                      *)

Increasing(s) == \A i, j \in DOMAIN s : i < j => s[i] < s[j]

\* A finite set of times can be put in order.
LEMMA OrderExists ==
  ASSUME NEW S \in SUBSET Nat, IsFiniteSet(S)
  PROVE  \E s \in [1..Cardinality(S) -> S] : Increasing(s)
<1> DEFINE Ordered(T) == \E s \in [1..Cardinality(T) -> T] : Increasing(s)
           B == {T \in SUBSET S : ~ Ordered(T)}
<1> SUFFICES ASSUME B # {} PROVE FALSE
  OBVIOUS
<1>1. \A T \in SUBSET S : IsFiniteSet(T) /\ Cardinality(T) \in Nat
  BY FS_Subset, FS_CardinalityType
<1>2. PICK T \in B : \A U \in B : Cardinality(T) <= Cardinality(U)
  <2>1. \A U \in B : IsFiniteSet(U)
    BY <1>1
  <2> HIDE DEF B
  <2>2. QED
    BY <2>1, Fewest
<1>3. T \in SUBSET S /\ ~ Ordered(T)
  OBVIOUS
<1>4. CASE T = {}
  <2>1. Cardinality(T) = 0
    BY <1>4, FS_EmptySet
  <2>2. PICK s : s = [i \in 1..0 |-> 0]
    OBVIOUS
  <2>3. s \in [1..Cardinality(T) -> T] /\ Increasing(s)
    BY <2>1, <2>2 DEF Increasing
  <2>4. QED
    BY <1>3, <2>3
<1>5. CASE T # {}
  <2>1. PICK m \in T : \A x \in T : m <= x
    <3>1. T \subseteq Nat
      BY <1>3
    <3>2. PICK m \in T : \A x \in T : ~ (<<x, m>> \in OpToRel(<, Nat))
      BY <1>5, <3>1, NatLessThanWellFounded, WFMin, Zenon
    <3>3. \A x \in T : ~ (x < m)
      BY <3>1, <3>2 DEF OpToRel
    <3>4. QED
      BY <3>1, <3>3
  <2>2. PICK n \in Nat : n = Cardinality(T \ {m}) /\ Cardinality(T) = n + 1
    <3>1. Cardinality(T \ {m}) \in Nat /\ Cardinality(T) \in Nat
      BY <1>1, <1>3
    <3>2. Cardinality(T \ {m}) = Cardinality(T) - 1
      BY <1>1, <1>3, FS_RemoveElement
    <3>3. QED
      BY <3>1, <3>2
  <2>3. T \ {m} \notin B
    <3>1. T \ {m} \in B => Cardinality(T) <= Cardinality(T \ {m})
      BY <1>2
    <3> HIDE DEF B
    <3>2. QED
      BY <2>2, <3>1
  <2>4. PICK r \in [1..n -> T \ {m}] : Increasing(r)
    BY <1>3, <2>2, <2>3
  <2>5. PICK s : s = [i \in 1..(n + 1) |-> IF i = 1 THEN m ELSE r[i - 1]]
    OBVIOUS
  <2>6. \A i \in 1..(n + 1) : i # 1 => i - 1 \in 1..n /\ r[i - 1] \in T \ {m}
    BY <2>4
  <2>7. s \in [1..(n + 1) -> T]
    BY <2>5, <2>6
  <2>8. Increasing(s)
    <3> SUFFICES ASSUME NEW i \in 1..(n + 1), NEW j \in 1..(n + 1), i < j PROVE s[i] < s[j]
      BY <2>5 DEF Increasing
    <3>1. j # 1 /\ s[j] = r[j - 1] /\ r[j - 1] \in T \ {m} /\ j - 1 \in 1..n
      BY <2>5, <2>6
    <3>2. CASE i = 1
      <4>1. m \in Nat /\ r[j - 1] \in Nat /\ m <= r[j - 1] /\ m # r[j - 1]
        BY <1>3, <2>1, <3>1
      <4>2. s[i] = m
        BY <2>5, <3>2
      <4>3. QED
        BY <3>1, <4>1, <4>2
    <3>3. CASE i # 1
      <4>1. s[i] = r[i - 1] /\ i - 1 \in 1..n /\ i - 1 < j - 1
        BY <2>5, <2>6, <3>3
      <4>2. QED
        BY <2>4, <3>1, <4>1 DEF Increasing
    <3>4. QED
      BY <3>2, <3>3
  <2>9. QED
    BY <1>3, <2>2, <2>7, <2>8
<1>6. QED
  BY <1>4, <1>5

\* What Ascending gives: each time once, in order.
LEMMA AscendingIs ==
  ASSUME NEW S \in SUBSET Nat, IsFiniteSet(S), NEW s, s = Ascending(S)
  PROVE  /\ Cardinality(S) \in Nat /\ s \in [1..Cardinality(S) -> S]
         /\ Increasing(s)
         /\ \A x \in S : \E i \in 1..Cardinality(S) : s[i] = x
<1>1. s \in [1..Cardinality(S) -> S] /\ Increasing(s)
  BY OrderExists DEF Ascending, Increasing
<1>2. PICK n \in Nat : n = Cardinality(S)
  BY FS_CardinalityType
<1>3. PICK a \in Int, b \in Int : a = 1 /\ b = n
  BY <1>2
<1>4. IsFiniteSet(a..b) /\ Cardinality(a..b) = n
  BY <1>3, FS_Interval
<1>5. s \in [a..b -> S]
  BY <1>1, <1>2, <1>3
<1>6. \A i, j \in a..b : s[i] = s[j] => i = j
  <2> SUFFICES ASSUME NEW i \in a..b, NEW j \in a..b, s[i] = s[j], i # j PROVE FALSE
    OBVIOUS
  <2>1. s[i] \in Nat /\ s[j] \in Nat
    BY <1>5
  <2>2. i < j \/ j < i
    BY <1>3
  <2>3. s[i] < s[j] \/ s[j] < s[i]
    BY <1>1, <1>5, <2>2 DEF Increasing
  <2>4. QED
    BY <2>1, <2>3
<1>7. s \in Injection(a..b, S)
  BY <1>5, <1>6, Fun_IsInj
<1>8. s \in Surjection(a..b, S)
  BY <1>2, <1>4, <1>7, FS_Injection
<1>9. \A x \in S : \E i \in a..b : s[i] = x
  BY <1>8, Fun_SurjectionProperties
<1>10. QED
  BY <1>1, <1>2, <1>3, <1>9

\* Sets with the same times before t have the same first times.
LEMMA AscendingAgree ==
  ASSUME NEW A \in SUBSET Nat, IsFiniteSet(A), NEW B \in SUBSET Nat, IsFiniteSet(B),
         NEW t \in Nat, \A x \in Nat : x < t => (x \in A <=> x \in B),
         NEW a, a = Ascending(A), NEW b, b = Ascending(B)
  PROVE  \A i \in 1..Cardinality(A) : a[i] < t => i <= Cardinality(B) /\ b[i] = a[i]
<1>1. PICK n \in Nat : n = Cardinality(A)
  BY AscendingIs
<1>2. PICK m \in Nat : m = Cardinality(B)
  BY AscendingIs
<1>3. /\ a \in [1..n -> A] /\ Increasing(a) /\ \A x \in A : \E i \in 1..n : a[i] = x
      /\ b \in [1..m -> B] /\ Increasing(b) /\ \A x \in B : \E i \in 1..m : b[i] = x
  BY <1>1, <1>2, AscendingIs
<1>0. /\ \A i \in 1..n : a[i] \in A /\ a[i] \in Nat
      /\ \A i \in 1..m : b[i] \in B /\ b[i] \in Nat
      /\ \A i, j \in 1..n : i < j => a[i] < a[j]
      /\ \A i, j \in 1..m : i < j => b[i] < b[j]
  BY <1>3 DEF Increasing
<1> DEFINE Bad == {i \in 1..n : a[i] < t /\ ~ (i <= m /\ b[i] = a[i])}
<1> SUFFICES ASSUME Bad # {} PROVE FALSE
  BY <1>1, <1>2
<1>4. Bad \subseteq Nat
  OBVIOUS
<1>5. PICK i \in Bad : \A j \in Bad : ~ (<<j, i>> \in OpToRel(<, Nat))
  <2> HIDE DEF Bad
  <2>1. QED
    BY <1>4, NatLessThanWellFounded, WFMin, Zenon
<1>6. \A j \in Bad : ~ (j < i)
  <2> HIDE DEF Bad
  <2>1. QED
    BY <1>4, <1>5 DEF OpToRel
<1>7. i \in 1..n /\ a[i] < t /\ a[i] \in A /\ a[i] \in Nat /\ ~ (i <= m /\ b[i] = a[i])
  BY <1>3
<1>8. \A j \in 1..n : j < i => a[j] < a[i]
  BY <1>7, <1>0
<1>9. \A j \in 1..n : j < i => j <= m /\ b[j] = a[j]
  <2> SUFFICES ASSUME NEW j \in 1..n, j < i PROVE j <= m /\ b[j] = a[j]
    OBVIOUS
  <2>1. a[j] \in Nat /\ a[j] < t
    BY <1>7, <1>8, <1>0
  <2>2. QED
    BY <1>6, <2>1
<1>10. PICK k \in 1..m : b[k] = a[i]
  BY <1>3, <1>7
<1>11. k >= i
  <2> SUFFICES ASSUME k < i PROVE FALSE
    BY <1>7, <1>10
  <2>1. k \in 1..n /\ b[k] = a[k] /\ a[k] < a[i] /\ a[k] \in Nat
    BY <1>7, <1>8, <1>9, <1>0
  <2>2. QED
    BY <1>7, <1>10, <2>1
<1>12. CASE k = i
  BY <1>7, <1>10, <1>12
<1>13. CASE k > i
  <2>1. i \in 1..m /\ b[i] < b[k] /\ b[i] \in Nat
    BY <1>7, <1>10, <1>13, <1>0
  <2>2. b[i] < t /\ b[i] \in A
    BY <1>3, <1>7, <1>10, <2>1
  <2>3. PICK l \in 1..n : a[l] = b[i]
    BY <1>3, <2>2
  <2>4. l < i
    <3> SUFFICES ASSUME l >= i PROVE FALSE
      BY <1>7
    <3>0. l >= i
      OBVIOUS
    <3>1. a[l] >= a[i] /\ a[l] \in Nat
      <4>1. l = i \/ l > i
        BY <1>7, <3>0
      <4>2. QED
        BY <1>7, <1>0, <4>1
    <3>2. QED
      BY <1>7, <1>10, <2>1, <2>3, <3>1
  <2>5. b[l] = a[l] /\ l \in 1..m
    BY <1>9, <2>4
  <2>6. b[l] < b[i]
    BY <1>0, <2>1, <2>4, <2>5
  <2>7. QED
    BY <2>1, <2>3, <2>5, <2>6
<1>14. QED
  BY <1>7, <1>11, <1>12, <1>13

-----------------------------------------------------------------------------
(* Views                                                                   *)

Dataset == [Opens -> {None} \cup [low : Int, high : Int]]
CandleRecord == [open : Nat, low : Int, high : Int]

Filled(d, S) == {o \in S : d[o] # None}
Candle(d, o) == [open |-> o, low |-> d[o].low, high |-> d[o].high]

LEMMA FilledIs ==
  ASSUME NEW d, NEW S \in SUBSET Opens, NEW A, A = Filled(d, S)
  PROVE  A \in SUBSET Nat /\ IsFiniteSet(A) /\ A \subseteq S
  BY DatasetAssumption, FS_Subset DEF Filled

LEMMA InOrderIs ==
  ASSUME NEW d \in Dataset, NEW S \in SUBSET Opens,
         NEW s, s = InOrder(d, S), NEW a, a = Ascending(Filled(d, S))
  PROVE  /\ Cardinality(Filled(d, S)) \in Nat
         /\ s \in [1..Cardinality(Filled(d, S)) -> CandleRecord]
         /\ Len(s) = Cardinality(Filled(d, S))
         /\ \A i \in 1..Cardinality(Filled(d, S)) : s[i] = Candle(d, a[i]) /\ a[i] \in S
<1>1. PICK A : A = Filled(d, S)
  OBVIOUS
<1>2. A \in SUBSET Nat /\ IsFiniteSet(A) /\ A \subseteq S /\ a = Ascending(A)
  BY <1>1, FilledIs
<1>3. PICK n \in Nat : n = Cardinality(A)
  BY <1>2, AscendingIs
<1>4. a \in [1..n -> A]
  BY <1>2, <1>3, AscendingIs
<1>5. s = [i \in 1..n |-> Candle(d, a[i])]
  <2>1. s = [i \in DOMAIN a |-> Candle(d, a[i])]
    BY <1>1, <1>2 DEF InOrder, Filled, Candle
  <2>2. QED
    BY <1>4, <2>1
<1>6. \A i \in 1..n : Candle(d, a[i]) \in CandleRecord /\ a[i] \in S
  <2> SUFFICES ASSUME NEW i \in 1..n PROVE Candle(d, a[i]) \in CandleRecord /\ a[i] \in S
    OBVIOUS
  <2>1. a[i] \in A /\ a[i] \in S /\ a[i] \in Nat /\ d[a[i]] # None
    BY <1>1, <1>2, <1>4 DEF Filled
  <2>2. d[a[i]] \in [low : Int, high : Int]
    BY <2>1 DEF Dataset
  <2>3. QED
    BY <2>1, <2>2 DEF Candle, CandleRecord
<1>7. Len(s) = n
  BY <1>5
<1>8. QED
  BY <1>1, <1>3, <1>5, <1>6, <1>7

\* Only the times of the set matter.
LEMMA SameInOrder ==
  ASSUME NEW d \in Dataset, NEW e \in Dataset, NEW S \in SUBSET Opens, \A o \in S : d[o] = e[o]
  PROVE  InOrder(d, S) = InOrder(e, S)
<1>1. PICK A : A = Filled(d, S)
  OBVIOUS
<1>2. A = Filled(e, S)
  BY <1>1 DEF Filled
<1>3. PICK a : a = Ascending(A)
  OBVIOUS
<1>4. A \in SUBSET Nat /\ IsFiniteSet(A) /\ A \subseteq S
  BY <1>1, FilledIs
<1>5. a \in [1..Cardinality(A) -> A]
  BY <1>3, <1>4, AscendingIs
<1>6. /\ InOrder(d, S) = [i \in DOMAIN a |-> Candle(d, a[i])]
      /\ InOrder(e, S) = [i \in DOMAIN a |-> Candle(e, a[i])]
  BY <1>1, <1>2, <1>3 DEF InOrder, Filled, Candle
<1>7. \A i \in DOMAIN a : Candle(d, a[i]) = Candle(e, a[i])
  BY <1>4, <1>5 DEF Candle
<1>8. QED
  BY <1>6, <1>7

\* The times whose candles are in a view, and how many of them it keeps.
ViewTimes(p, cutoff, horizon) ==
    IF horizon.unit = "bars" THEN OutcomeTimes(p, cutoff)
    ELSE {o \in OutcomeTimes(p, cutoff) : Closes(o) <= cutoff + horizon.size}
Kept(horizon, n) == IF horizon.unit = "bars" /\ n > horizon.size THEN horizon.size ELSE n

HorizonRecord == [unit : {"bars", "elapsed"}, size : Nat \ {0}]

LEMMA ViewIs ==
  ASSUME NEW d \in Dataset, NEW p, NEW cutoff, NEW h \in HorizonRecord,
         NEW T, T = ViewTimes(p, cutoff, h), NEW a, a = Ascending(Filled(d, T)),
         NEW n, n = Cardinality(Filled(d, T)), NEW k, k = Kept(h, n),
         NEW w, w = OutcomeView(d, p, cutoff, h)
  PROVE  /\ n \in Nat /\ k \in Nat /\ k <= n /\ T \in SUBSET Opens
         /\ w \in [1..k -> CandleRecord] /\ Len(w) = k
         /\ \A i \in 1..k : w[i] = Candle(d, a[i]) /\ a[i] \in T
<1>1. T \in SUBSET Opens
  BY DEF ViewTimes, OutcomeTimes
<1>2. PICK s : s = InOrder(d, T)
  OBVIOUS
<1>3. /\ n \in Nat /\ s \in [1..n -> CandleRecord] /\ Len(s) = n
      /\ \A i \in 1..n : s[i] = Candle(d, a[i]) /\ a[i] \in T
  BY <1>1, <1>2, InOrderIs
<1>4. k \in Nat /\ k <= n
  BY <1>3 DEF Kept, HorizonRecord
<1>5. CASE h.unit = "bars"
  <2>1. w = SubSeq(s, 1, k)
    <3>1. w = SubSeq(s, 1, IF Len(s) > h.size THEN h.size ELSE Len(s))
      BY <1>2, <1>5 DEF OutcomeView, ViewTimes
    <3>2. QED
      BY <1>3, <1>5, <3>1 DEF Kept
  <2>2. PICK x \in Int : x = 1
    OBVIOUS
  <2>3. \A i \in x..k : s[i] \in CandleRecord
    BY <1>3, <1>4, <2>2
  <2>4. /\ SubSeq(s, x, k) \in Seq(CandleRecord)
        /\ Len(SubSeq(s, x, k)) = IF x <= k THEN k - x + 1 ELSE 0
        /\ \A i \in 1..(k - x + 1) : SubSeq(s, x, k)[i] = s[x + i - 1]
    BY <1>4, <2>3, SubSeqProperties
  <2>5. w \in Seq(CandleRecord) /\ Len(w) = k
    BY <1>4, <2>1, <2>2, <2>4
  <2>6. \A i \in 1..k : w[i] = s[i]
    BY <1>4, <2>1, <2>2, <2>4
  <2>7. w \in [1..k -> CandleRecord]
    BY <2>5, LenProperties
  <2>8. QED
    BY <1>1, <1>3, <1>4, <2>5, <2>6, <2>7
<1>6. CASE h.unit # "bars"
  <2>1. w = s /\ k = n
    BY <1>2, <1>6 DEF OutcomeView, ViewTimes, Kept
  <2>2. QED
    BY <1>1, <1>3, <1>4, <2>1
<1>7. QED
  BY <1>5, <1>6

\* A view of two datasets that agree on its times is the same, and that of two
\* which agree before a time has the same candles up to there.
LEMMA SameView ==
  ASSUME NEW d \in Dataset, NEW e \in Dataset, NEW p, NEW cutoff, NEW h \in HorizonRecord,
         \A o \in OutcomeTimes(p, cutoff) : d[o] = e[o]
  PROVE  OutcomeView(d, p, cutoff, h) = OutcomeView(e, p, cutoff, h)
<1>1. PICK T \in SUBSET Opens : T = ViewTimes(p, cutoff, h)
  BY DEF ViewTimes, OutcomeTimes
<1>2. \A o \in T : d[o] = e[o]
  BY <1>1 DEF ViewTimes
<1>3. InOrder(d, T) = InOrder(e, T)
  BY <1>2, SameInOrder
<1>4. QED
  BY <1>1, <1>3 DEF OutcomeView, ViewTimes

LEMMA ViewAgree ==
  ASSUME NEW d \in Dataset, NEW e \in Dataset, NEW p, NEW cutoff, NEW h \in HorizonRecord,
         NEW t \in Nat, \A o \in Opens : o < t => d[o] = e[o],
         NEW w, w = OutcomeView(d, p, cutoff, h), NEW v, v = OutcomeView(e, p, cutoff, h),
         NEW m \in 1..Len(w), w[m].open < t
  PROVE  m <= Len(v) /\ \A i \in 1..m : v[i] = w[i]
<1>1. PICK T : T = ViewTimes(p, cutoff, h)
  OBVIOUS
<1>2. PICK A, B : A = Filled(d, T) /\ B = Filled(e, T)
  OBVIOUS
<1>3. PICK a, b : a = Ascending(A) /\ b = Ascending(B)
  OBVIOUS
<1>4. PICK n, l : n = Cardinality(A) /\ l = Cardinality(B)
  OBVIOUS
<1>5. PICK k, j : k = Kept(h, n) /\ j = Kept(h, l)
  OBVIOUS
<1>6. /\ n \in Nat /\ k \in Nat /\ k <= n /\ T \in SUBSET Opens /\ Len(w) = k
      /\ \A i \in 1..k : w[i] = Candle(d, a[i]) /\ a[i] \in T
  BY <1>1, <1>2, <1>3, <1>4, <1>5, ViewIs
<1>7. /\ l \in Nat /\ j \in Nat /\ j <= l /\ Len(v) = j
      /\ \A i \in 1..j : v[i] = Candle(e, b[i]) /\ b[i] \in T
  BY <1>1, <1>2, <1>3, <1>4, <1>5, ViewIs
<1>8. A \in SUBSET Nat /\ IsFiniteSet(A) /\ B \in SUBSET Nat /\ IsFiniteSet(B)
  BY <1>2, <1>6, FilledIs
<1>9. \A x \in Nat : x < t => (x \in A <=> x \in B)
  BY <1>2, <1>6 DEF Filled
<1>10. \A i \in 1..n : a[i] < t => i <= l /\ b[i] = a[i]
  BY <1>3, <1>4, <1>8, <1>9, AscendingAgree
<1>11. a \in [1..n -> A] /\ Increasing(a)
  BY <1>3, <1>4, <1>8, AscendingIs
<1>12. m \in 1..k /\ a[m] < t
  BY <1>6 DEF Candle
<1>13. \A i \in 1..m : i \in 1..n /\ i <= l /\ b[i] = a[i] /\ a[i] < t /\ a[i] \in Nat
  <2> SUFFICES ASSUME NEW i \in 1..m
               PROVE  i \in 1..n /\ i <= l /\ b[i] = a[i] /\ a[i] < t /\ a[i] \in Nat
    OBVIOUS
  <2>1. i \in 1..n /\ m \in 1..n
    BY <1>6, <1>12
  <2>2. a[i] \in Nat /\ a[m] \in Nat
    BY <1>8, <1>11, <2>1
  <2>3. i < m => a[i] < a[m]
    BY <1>11, <2>1 DEF Increasing
  <2>4. a[i] < t
    BY <1>12, <2>2, <2>3
  <2>5. QED
    BY <1>10, <2>1, <2>2, <2>4
<1>14. m <= j
  <2>1. m <= l
    BY <1>6, <1>12, <1>13
  <2>2. QED
    BY <1>5, <1>6, <1>7, <1>12, <2>1 DEF Kept, HorizonRecord
<1>15. \A i \in 1..m : v[i] = w[i]
  <2> SUFFICES ASSUME NEW i \in 1..m PROVE v[i] = w[i]
    OBVIOUS
  <2>1. i \in 1..k /\ i \in 1..j
    BY <1>6, <1>7, <1>12, <1>14
  <2>2. a[i] \in Opens /\ d[a[i]] = e[a[i]]
    BY <1>6, <1>13, <2>1
  <2>3. QED
    BY <1>6, <1>7, <1>13, <2>1, <2>2 DEF Candle
<1>16. QED
  BY <1>7, <1>14, <1>15

-----------------------------------------------------------------------------
(* The walk                                                                *)

\* A finite set of integers has a greatest element.
LEMMA Greatest ==
  ASSUME NEW S \in SUBSET Int, IsFiniteSet(S), S # {}
  PROVE  \E m \in S : \A x \in S : m >= x
<1> DEFINE B == {T \in SUBSET S : T # {} /\ ~ \E m \in T : \A x \in T : m >= x}
<1> SUFFICES ASSUME B # {} PROVE FALSE
  OBVIOUS
<1>1. \A T \in SUBSET S : IsFiniteSet(T)
  BY FS_Subset
<1>2. PICK T \in B : \A U \in B : Cardinality(T) <= Cardinality(U)
  <2>1. \A U \in B : IsFiniteSet(U)
    BY <1>1
  <2> HIDE DEF B
  <2>2. QED
    BY <2>1, Fewest
<1>3. T \in SUBSET S /\ T # {} /\ ~ \E m \in T : \A x \in T : m >= x
  OBVIOUS
<1>4. PICK a \in T : TRUE
  BY <1>3
<1>5. T \ {a} \notin B
  <2>1. T \ {a} \in B => Cardinality(T) <= Cardinality(T \ {a})
    BY <1>2
  <2>2. Cardinality(T \ {a}) = Cardinality(T) - 1 /\ Cardinality(T) \in Nat
    BY <1>1, <1>3, FS_RemoveElement, FS_CardinalityType
  <2> HIDE DEF B
  <2>3. QED
    BY <2>1, <2>2
<1>6. CASE T \ {a} = {}
  <2>1. T = {a} /\ a \in Int
    BY <1>3, <1>6
  <2>2. QED
    BY <1>3, <2>1
<1>7. CASE T \ {a} # {}
  <2>1. PICK m \in T \ {a} : \A x \in T \ {a} : m >= x
    BY <1>3, <1>5, <1>7
  <2>2. \A x \in T : x \in Int
    BY <1>3
  <2>3. \A x \in T : x # a => m >= x
    BY <2>1
  <2>4. \A x \in T : (IF m >= a THEN m ELSE a) >= x
    BY <2>1, <2>2, <2>3
  <2>5. QED
    BY <1>3, <2>1, <2>4
<1>8. QED
  BY <1>6, <1>7

LEMMA MaxIs ==
  ASSUME NEW S \in SUBSET Int, NEW m \in S, \A x \in S : m >= x
  PROVE  Max(S) = m
<1>1. \A y \in S : (\A x \in S : y >= x) => y = m
  OBVIOUS
<1>2. QED
  BY <1>1 DEF Max

LEMMA MinIs ==
  ASSUME NEW S \in SUBSET Int, NEW m \in S, \A x \in S : m <= x
  PROVE  Min(S) = m
<1>1. \A y \in S : (\A x \in S : y =< x) => y = m
  OBVIOUS
<1>2. QED
  BY <1>1 DEF Min

\* A proposal that the evaluator accepts.
Levels(p) ==
    /\ p.side \in {"BUY", "SELL"} /\ p.entry \in Int /\ p.stop \in Int /\ p.target \in Int
    /\ ValidGeometry(p)

\* The candles of s that touch a level, and those that the walk along s
\* looks at: none after the first touch.
Touched(p, w, s) == {i \in s : TpHit(p, w[i]) \/ SlHit(p, w[i])}
Followed(p, w, s) == {i \in s : \A j \in Touched(p, w, s) : i <= j}

\* Where the walk along the candles of s ends.
ReachedBy(p, w, F) ==
    [status    |-> IF F = {} THEN "UNRESOLVED_HORIZON"
                   ELSE StatusOf(TpHit(p, w[Max(F)]), SlHit(p, w[Max(F)])),
     bars      |-> Cardinality(F),
     ended     |-> IF F = {} THEN 0 ELSE Closes(w[Max(F)].open),
     favorable |-> Max({0} \cup {Favorable(p, w[i]) : i \in F}),
     adverse   |-> Max({0} \cup {Adverse(p, w[i]) : i \in F})]
Reached(p, w, s) == ReachedBy(p, w, Followed(p, w, s))

LEMMA FinitePart ==
  ASSUME NEW n \in Nat, NEW s \in SUBSET (1..n)
  PROVE  IsFiniteSet(s) /\ Cardinality(s) \in Nat
<1>1. PICK a \in Int, b \in Int : a = 1 /\ b = n
  OBVIOUS
<1>2. IsFiniteSet(a..b)
  BY FS_Interval
<1>3. QED
  BY <1>1, <1>2, FS_Subset, FS_CardinalityType

\* The greatest number of a set of candles, when one is added.
LEMMA MaxGrows ==
  ASSUME NEW n \in Nat, NEW F \in SUBSET (1..n), NEW x \in 1..n,
         NEW f, \A i \in 1..n : f[i] \in Int
  PROVE  Max({0} \cup {f[i] : i \in F \cup {x}}) =
            Greater(Max({0} \cup {f[i] : i \in F}), f[x])
<1>1. PICK S : S = {0} \cup {f[i] : i \in F}
  OBVIOUS
<1>2. PICK V : V = {0} \cup {f[i] : i \in F \cup {x}}
  OBVIOUS
<1>3. S \in SUBSET Int /\ S # {} /\ V = S \cup {f[x]} /\ f[x] \in Int
  BY <1>1, <1>2
<1>4. IsFiniteSet(S)
  <2>1. IsFiniteSet(F)
    BY FinitePart
  <2>2. IsFiniteSet({f[i] : i \in F})
    <3>1. PICK g : g = [i \in F |-> f[i]]
      OBVIOUS
    <3>2. g \in Surjection(F, {f[i] : i \in F})
      BY <3>1 DEF Surjection
    <3>3. QED
      BY <2>1, <3>2, FS_Surjection
  <2>3. IsFiniteSet({0})
    BY FS_Singleton
  <2>4. QED
    BY <1>1, <2>2, <2>3, FS_Union
<1>5. PICK m \in S : \A y \in S : m >= y
  BY <1>3, <1>4, Greatest
<1>6. Max(S) = m
  BY <1>3, <1>5, MaxIs
<1>7. PICK k : k = IF m < f[x] THEN f[x] ELSE m
  OBVIOUS
<1>8. k \in V /\ V \in SUBSET Int /\ \A y \in V : k >= y
  <2>1. m \in Int /\ f[x] \in Int /\ k >= m /\ k >= f[x] /\ (k = m \/ k = f[x]) /\ k \in Int
    BY <1>3, <1>5, <1>7
  <2>2. k \in V /\ V \in SUBSET Int
    BY <1>3, <1>5, <2>1
  <2>3. \A y \in S : k >= y
    <3> SUFFICES ASSUME NEW y \in S PROVE k >= y
      OBVIOUS
    <3>1. m >= y /\ y \in Int
      BY <1>3, <1>5
    <3>2. QED
      BY <2>1, <3>1
  <2>4. QED
    BY <1>3, <2>1, <2>2, <2>3
<1>9. Max(V) = k
  BY <1>8, MaxIs
<1>10. QED
  BY <1>1, <1>2, <1>6, <1>7, <1>9 DEF Greater

\* The walk takes the candle x that comes last.
LEMMA WalkStep ==
  ASSUME NEW p, Levels(p), NEW n \in Nat, NEW w \in [1..n -> CandleRecord],
         NEW s \in SUBSET (1..n), NEW x \in s, \A y \in s : x >= y
  PROVE  Reached(p, w, s) = Walked(p, Reached(p, w, s \ {x}), w[x])
<1>1. PICK r, T, U : r = s \ {x} /\ T = Touched(p, w, s) /\ U = Touched(p, w, r)
  OBVIOUS
<1>2. PICK F, G : F = Followed(p, w, s) /\ G = Followed(p, w, r)
  OBVIOUS
<1>3. /\ r \in SUBSET (1..n) /\ x \in 1..n /\ U = T \ {x} /\ U \subseteq r
      /\ (\A y \in r : y < x) /\ s = r \cup {x}
  BY <1>1 DEF Touched
<1>4. F = {i \in s : \A j \in T : i <= j} /\ G = {i \in r : \A j \in U : i <= j}
  BY <1>1, <1>2 DEF Followed
<1>5. CASE U # {}
  <2>1. PICK j \in U : \A i \in U : ~ (<<i, j>> \in OpToRel(<, Nat))
    <3>1. U \subseteq Nat
      BY <1>3
    <3>2. QED
      BY <1>5, <3>1, NatLessThanWellFounded, WFMin, Zenon
  <2>2. \A i \in U : j <= i
    <3>1. U \subseteq Nat
      BY <1>3
    <3>2. \A i \in U : ~ (i < j)
      BY <2>1, <3>1 DEF OpToRel
    <3>3. QED
      BY <3>1, <3>2
  <2>3. j \in r /\ j \in T /\ j < x /\ \A i \in T : j <= i
    BY <1>1, <1>3, <2>2
  <2>4. \A i \in s : i \in Nat /\ (i \in F <=> i <= j) /\ (i \in r => (i \in G <=> i <= j))
    <3> SUFFICES ASSUME NEW i \in s
                 PROVE  i \in Nat /\ (i \in F <=> i <= j) /\ (i \in r => (i \in G <=> i <= j))
      OBVIOUS
    <3>1. i \in Nat /\ j \in Nat /\ T \subseteq Nat
      <4>1. T \subseteq s /\ r \subseteq s
        BY <1>1 DEF Touched
      <4>2. j \in 1..n /\ T \subseteq 1..n
        BY <2>3, <4>1
      <4>3. QED
        BY <4>2
    <3>2. i <= j => \A l \in T : i <= l
      BY <2>3, <3>1
    <3>3. QED
      BY <1>3, <1>4, <2>1, <2>3, <3>1, <3>2
  <2>5. F = G
    <3>1. F \subseteq s /\ G \subseteq r /\ r \subseteq s /\ s = r \cup {x}
      BY <1>1, <1>4
    <3>2. x \notin F
      BY <1>3, <2>3, <2>4
    <3>3. QED
      BY <2>4, <3>1, <3>2
  <2>6. j \in G /\ (\A i \in G : j >= i) /\ G \in SUBSET Int
    <3>1. G \subseteq r /\ r \subseteq s /\ j \in r
      BY <1>1, <1>4, <2>3
    <3>2. \A i \in G : i \in Nat /\ i <= j
      BY <2>4, <3>1
    <3>3. j \in Nat /\ j \in G
      BY <2>4, <3>1
    <3>4. QED
      BY <3>2, <3>3
  <2>7. Max(G) = j
    BY <2>6, MaxIs
  <2>8. TpHit(p, w[j]) \/ SlHit(p, w[j])
    BY <1>1, <2>1 DEF Touched
  <2>9. Reached(p, w, r).status # "UNRESOLVED_HORIZON"
    BY <1>2, <2>6, <2>7, <2>8 DEF Reached, ReachedBy, StatusOf
  <2>10. Walked(p, Reached(p, w, r), w[x]) = Reached(p, w, r)
    BY <2>9 DEF Walked
  <2>11. QED
    BY <1>1, <1>2, <2>5, <2>10 DEF Reached
<1>6. CASE U = {}
  <2>1. G = r
    BY <1>4, <1>6
  <2>2. T \subseteq {x}
    BY <1>3, <1>6
  <2>3. F = s
    <3>1. \A i \in s : \A j \in T : i <= j
      BY <1>3, <2>2
    <3>2. QED
      BY <1>4, <3>1
  <2>4. Reached(p, w, r).status = "UNRESOLVED_HORIZON"
    <3>1. CASE r = {}
      BY <1>2, <2>1, <3>1 DEF Reached, ReachedBy
    <3>2. CASE r # {}
      <4>1. PICK m \in r : \A i \in r : m >= i
        <5>1. r \in SUBSET (1..n)
          BY <1>3
        <5>2. IsFiniteSet(r)
          BY <5>1, FinitePart
        <5>3. r \in SUBSET Int
          BY <5>1
        <5>4. QED
          BY <3>2, <5>2, <5>3, Greatest
      <4>2. Max(r) = m
        <5>1. r \in SUBSET Int
          BY <1>3
        <5>2. QED
          BY <4>1, <5>1, MaxIs
      <4>3. ~ TpHit(p, w[m]) /\ ~ SlHit(p, w[m])
        BY <1>1, <1>6, <4>1 DEF Touched
      <4>4. QED
        BY <1>2, <2>1, <3>2, <4>2, <4>3 DEF Reached, ReachedBy, StatusOf
    <3>3. QED
      BY <3>1, <3>2
  <2>5. Max(s) = x
    <3>1. s \in SUBSET Int
      BY <1>3
    <3>2. QED
      BY <3>1, MaxIs
  <2>6. Cardinality(s) = Cardinality(r) + 1
    <3>0. r \in SUBSET (1..n)
      BY <1>3
    <3>1. IsFiniteSet(r) /\ x \notin r
      BY <1>1, <3>0, FinitePart
    <3>2. Cardinality(r \cup {x}) = Cardinality(r) + 1
      BY <3>1, FS_AddElement
    <3>3. QED
      BY <1>3, <3>2
  <2>7. \A i \in 1..n : Favorable(p, w[i]) \in Int /\ Adverse(p, w[i]) \in Int
    <3> SUFFICES ASSUME NEW i \in 1..n
                 PROVE  Favorable(p, w[i]) \in Int /\ Adverse(p, w[i]) \in Int
      OBVIOUS
    <3>1. w[i].low \in Int /\ w[i].high \in Int /\ p.entry \in Int
      BY DEF Levels, CandleRecord
    <3>2. QED
      BY <3>1 DEF Favorable, Adverse
  <2>8. Max({0} \cup {Favorable(p, w[i]) : i \in s}) =
           Greater(Max({0} \cup {Favorable(p, w[i]) : i \in r}), Favorable(p, w[x]))
    <3>1. PICK f : f = [i \in 1..n |-> Favorable(p, w[i])]
      OBVIOUS
    <3>2. \A i \in 1..n : f[i] = Favorable(p, w[i]) /\ f[i] \in Int
      BY <2>7, <3>1
    <3>3. Max({0} \cup {f[i] : i \in r \cup {x}}) =
             Greater(Max({0} \cup {f[i] : i \in r}), f[x])
      BY <1>3, <3>2, MaxGrows
    <3>4. /\ {f[i] : i \in r \cup {x}} = {Favorable(p, w[i]) : i \in s}
          /\ {f[i] : i \in r} = {Favorable(p, w[i]) : i \in r}
          /\ f[x] = Favorable(p, w[x])
      BY <1>3, <3>2
    <3>5. QED
      BY <3>3, <3>4
  <2>9. Max({0} \cup {Adverse(p, w[i]) : i \in s}) =
           Greater(Max({0} \cup {Adverse(p, w[i]) : i \in r}), Adverse(p, w[x]))
    <3>1. PICK f : f = [i \in 1..n |-> Adverse(p, w[i])]
      OBVIOUS
    <3>2. \A i \in 1..n : f[i] = Adverse(p, w[i]) /\ f[i] \in Int
      BY <2>7, <3>1
    <3>3. Max({0} \cup {f[i] : i \in r \cup {x}}) =
             Greater(Max({0} \cup {f[i] : i \in r}), f[x])
      BY <1>3, <3>2, MaxGrows
    <3>4. /\ {f[i] : i \in r \cup {x}} = {Adverse(p, w[i]) : i \in s}
          /\ {f[i] : i \in r} = {Adverse(p, w[i]) : i \in r}
          /\ f[x] = Adverse(p, w[x])
      BY <1>3, <3>2
    <3>5. QED
      BY <3>3, <3>4
  <2>10. PICK v : v = Reached(p, w, r)
    OBVIOUS
  <2>11. /\ v.bars = Cardinality(r)
         /\ v.favorable = Max({0} \cup {Favorable(p, w[i]) : i \in r})
         /\ v.adverse = Max({0} \cup {Adverse(p, w[i]) : i \in r})
    BY <1>2, <2>1, <2>10 DEF Reached, ReachedBy
  <2>12. Walked(p, v, w[x]) =
            [status    |-> StatusOf(TpHit(p, w[x]), SlHit(p, w[x])),
             bars      |-> v.bars + 1,
             ended     |-> Closes(w[x].open),
             favorable |-> Greater(v.favorable, Favorable(p, w[x])),
             adverse   |-> Greater(v.adverse, Adverse(p, w[x]))]
    BY <2>4, <2>10 DEF Walked
  <2>13. Reached(p, w, s) =
            [status    |-> StatusOf(TpHit(p, w[x]), SlHit(p, w[x])),
             bars      |-> Cardinality(s),
             ended     |-> Closes(w[x].open),
             favorable |-> Max({0} \cup {Favorable(p, w[i]) : i \in s}),
             adverse   |-> Max({0} \cup {Adverse(p, w[i]) : i \in s})]
    BY <1>2, <2>3, <2>5 DEF Reached, ReachedBy
  <2>14. QED
    BY <1>1, <2>6, <2>8, <2>9, <2>10, <2>11, <2>12, <2>13
<1>7. QED
  BY <1>5, <1>6

WalkStart == [status |-> "UNRESOLVED_HORIZON", bars |-> 0, ended |-> 0,
              favorable |-> 0, adverse |-> 0]

\* What the recursive function under a walk satisfies.
Walking(p, w, S, h) ==
    h = [s \in SUBSET S |->
            IF s = {} THEN WalkStart ELSE Walked(p, h[s \ {Max(s)}], w[Max(s)])]

LEMMA LastCandle ==
  ASSUME NEW n \in Nat, NEW s \in SUBSET (1..n), s # {}
  PROVE  Max(s) \in s /\ \A y \in s : Max(s) >= y
<1>1. IsFiniteSet(s)
  BY FinitePart
<1>2. s \in SUBSET Int
  OBVIOUS
<1>3. PICK m \in s : \A y \in s : m >= y
  BY <1>1, <1>2, Greatest
<1>4. Max(s) = m
  BY <1>2, <1>3, MaxIs
<1>5. QED
  BY <1>3, <1>4

LEMMA WalkStarts ==
  ASSUME NEW p, NEW w
  PROVE  Reached(p, w, {}) = WalkStart
<1>1. Followed(p, w, {}) = {}
  BY DEF Followed
<1>2. Cardinality({}) = 0
  BY FS_EmptySet
<1>3. PICK S : S = {0}
  OBVIOUS
<1>4. S \in SUBSET Int /\ 0 \in S /\ \A x \in S : 0 >= x
  BY <1>3
<1>5. PICK z \in S : z = 0
  BY <1>4
<1>6. Max(S) = z
  BY <1>4, <1>5, MaxIs
<1>7. /\ {0} \cup {Favorable(p, w[i]) : i \in {}} = S
      /\ {0} \cup {Adverse(p, w[i]) : i \in {}} = S
  BY <1>3
<1>8. QED
  BY <1>1, <1>2, <1>5, <1>6, <1>7 DEF Reached, ReachedBy, WalkStart

LEMMA ReachedWalks ==
  ASSUME NEW p, Levels(p), NEW n \in Nat, NEW w \in [1..n -> CandleRecord]
  PROVE  Walking(p, w, 1..n, [s \in SUBSET (1..n) |-> Reached(p, w, s)])
<1> DEFINE h == [s \in SUBSET (1..n) |-> Reached(p, w, s)]
<1>1. ASSUME NEW s \in SUBSET (1..n)
      PROVE  h[s] = IF s = {} THEN WalkStart ELSE Walked(p, h[s \ {Max(s)}], w[Max(s)])
  <2>1. CASE s = {}
    BY <2>1, WalkStarts
  <2>2. CASE s # {}
    <3>1. PICK x \in s : x = Max(s) /\ \A y \in s : x >= y
      BY <2>2, LastCandle
    <3>2. Reached(p, w, s) = Walked(p, Reached(p, w, s \ {x}), w[x])
      BY <3>1, WalkStep
    <3>3. h[s \ {x}] = Reached(p, w, s \ {x}) /\ h[s] = Reached(p, w, s)
      OBVIOUS
    <3>4. QED
      BY <2>2, <3>1, <3>2, <3>3
  <2>3. QED
    BY <2>1, <2>2
<1>2. h = [s \in SUBSET (1..n) |->
              IF s = {} THEN WalkStart ELSE Walked(p, h[s \ {Max(s)}], w[Max(s)])]
  BY <1>1
<1>3. QED
  BY <1>2 DEF Walking

LEMMA OneWalk ==
  ASSUME NEW p, Levels(p), NEW n \in Nat, NEW w \in [1..n -> CandleRecord],
         NEW h, Walking(p, w, 1..n, h)
  PROVE  \A s \in SUBSET (1..n) : h[s] = Reached(p, w, s)
<1> DEFINE B == {s \in SUBSET (1..n) : h[s] # Reached(p, w, s)}
<1> SUFFICES ASSUME B # {} PROVE FALSE
  OBVIOUS
<1>1. PICK s \in B : \A r \in B : Cardinality(s) <= Cardinality(r)
  <2>1. \A r \in B : IsFiniteSet(r)
    <3> SUFFICES ASSUME NEW r \in B PROVE IsFiniteSet(r)
      OBVIOUS
    <3>1. r \in SUBSET (1..n)
      OBVIOUS
    <3>2. QED
      BY <3>1, FinitePart
  <2> HIDE DEF B
  <2>2. QED
    BY <2>1, Fewest
<1>2. s \in SUBSET (1..n) /\ h[s] # Reached(p, w, s)
  OBVIOUS
<1>3. h[s] = IF s = {} THEN WalkStart ELSE Walked(p, h[s \ {Max(s)}], w[Max(s)])
  BY <1>2 DEF Walking
<1>4. s # {}
  BY <1>2, <1>3, WalkStarts
<1>5. PICK x \in s : x = Max(s) /\ \A y \in s : x >= y
  BY <1>2, <1>4, LastCandle
<1>6. Reached(p, w, s) = Walked(p, Reached(p, w, s \ {x}), w[x])
  BY <1>2, <1>5, WalkStep
<1>7. s \ {x} \in B
  BY <1>2, <1>3, <1>4, <1>5, <1>6
<1>8. Cardinality(s) <= Cardinality(s \ {x})
  BY <1>1, <1>7
<1>9. Cardinality(s \ {x}) = Cardinality(s) - 1 /\ Cardinality(s) \in Nat
  <2>1. IsFiniteSet(s)
    BY <1>2, FinitePart
  <2>2. QED
    BY <1>5, <2>1, FS_RemoveElement, FS_CardinalityType
<1>10. QED
  BY <1>8, <1>9

\* OutcomeEvaluator's loop ends where the first touch is.
LEMMA WalkIs ==
  ASSUME NEW p, Levels(p), NEW n \in Nat, NEW w \in [1..n -> CandleRecord]
  PROVE  Walk(p, w) = Reached(p, w, 1..n)
<1> DEFINE h == CHOOSE g : Walking(p, w, 1..n, g)
<1>1. Walk(p, w) = h[1..n]
  BY DEF Walk, FoldLeft, MapThenFoldSet, Walking, WalkStart
<1>2. Walking(p, w, 1..n, h)
  BY ReachedWalks
<1> HIDE DEF h
<1>3. QED
  BY <1>1, <1>2, OneWalk

\* A level is reached exactly when the move from the entry is large enough.
LEMMA HitsAreMoves ==
  ASSUME NEW p, Levels(p), NEW c \in CandleRecord
  PROVE  /\ TpHit(p, c) <=> Wins(p, c)
         /\ SlHit(p, c) <=> Loses(p, c)
         /\ Favorable(p, c) = Best(p, c)
         /\ Adverse(p, c) = -Worst(p, c)
  BY DEF Levels, ValidGeometry, CandleRecord, TpHit, SlHit, Wins, Loses, Best, Worst,
         Favorable, Adverse, Size

\* Where the window of a proposal is decided, or ends.
LastOf(p, w) == IF Touching(p, w) # {} THEN Min(Touching(p, w)) ELSE Len(w)

LEMMA TouchingIs ==
  ASSUME NEW p, Levels(p), NEW n \in Nat, n # 0, NEW w \in [1..n -> CandleRecord],
         NEW k, k = LastOf(p, w)
  PROVE  /\ k \in 1..n
         /\ Touched(p, w, 1..n) = Touching(p, w)
         /\ Touching(p, w) # {} => k \in Touching(p, w) /\ \A i \in Touching(p, w) : k <= i
         /\ Followed(p, w, 1..n) = 1..k
<1>1. PICK T : T = Touching(p, w)
  OBVIOUS
<1>2. T \subseteq 1..n /\ Len(w) = n
  BY <1>1 DEF Touching
<1>3. Touched(p, w, 1..n) = T
  <2>1. \A i \in 1..n : w[i] \in CandleRecord
    OBVIOUS
  <2>2. \A i \in 1..n : (TpHit(p, w[i]) \/ SlHit(p, w[i])) <=> (Wins(p, w[i]) \/ Loses(p, w[i]))
    BY <2>1, HitsAreMoves
  <2>3. QED
    BY <1>1, <2>2 DEF Touched, Touching
<1>4. CASE T = {}
  <2>1. k = n
    BY <1>1, <1>2, <1>4 DEF LastOf
  <2>2. Followed(p, w, 1..n) = 1..n
    BY <1>3, <1>4 DEF Followed
  <2>3. QED
    BY <1>1, <1>3, <1>4, <2>1, <2>2
<1>5. CASE T # {}
  <2>1. T \subseteq Nat
    BY <1>2
  <2>2. PICK m \in T : \A i \in T : ~ (<<i, m>> \in OpToRel(<, Nat))
    BY <1>5, <2>1, NatLessThanWellFounded, WFMin, Zenon
  <2>3. \A i \in T : m <= i
    <3>1. \A i \in T : ~ (i < m)
      BY <2>1, <2>2 DEF OpToRel
    <3>2. QED
      BY <2>1, <3>1
  <2>4. Min(T) = m
    <3>1. T \in SUBSET Int
      BY <2>1
    <3>2. QED
      BY <2>3, <3>1, MinIs
  <2>5. k = m
    BY <1>1, <1>5, <2>4 DEF LastOf
  <2>6. k \in T /\ k \in 1..n /\ \A i \in T : k <= i
    BY <1>2, <2>3, <2>5
  <2>7. \A i \in 1..n : (\A j \in T : i <= j) <=> i <= k
    <3> SUFFICES ASSUME NEW i \in 1..n PROVE (\A j \in T : i <= j) <=> i <= k
      OBVIOUS
    <3>1. ASSUME i <= k PROVE \A j \in T : i <= j
      BY <2>1, <2>6, <3>1
    <3>2. QED
      BY <2>6, <3>1
  <2>8. Followed(p, w, 1..n) = {i \in 1..n : i <= k}
    BY <1>3, <2>7 DEF Followed
  <2>9. {i \in 1..n : i <= k} = 1..k
    BY <2>6
  <2>10. QED
    BY <1>1, <1>3, <2>6, <2>8, <2>9
<1>6. QED
  BY <1>4, <1>5

\* The excursions of the first k candles.
MostFavorable(p, w, k) == Max({0} \cup {Best(p, w[i]) : i \in 1..k})
MostAdverse(p, w, k) == Max({0} \cup {-Worst(p, w[i]) : i \in 1..k})

\* What the walk reports is what the price path says.
LEMMA WalkIsVerdict ==
  ASSUME NEW p, Levels(p), NEW n \in Nat, n # 0, NEW w \in [1..n -> CandleRecord],
         NEW k, k = LastOf(p, w), NEW v, v = Walk(p, w)
  PROVE  /\ v.status = Verdict(p, w)
         /\ v.bars = k /\ v.ended = Closes(w[k].open)
         /\ v.favorable = MostFavorable(p, w, k) /\ v.adverse = MostAdverse(p, w, k)
<1>1. /\ k \in 1..n /\ Followed(p, w, 1..n) = 1..k
      /\ Touching(p, w) # {} => k \in Touching(p, w)
  BY TouchingIs
<1>2. v = ReachedBy(p, w, 1..k)
  BY <1>1, WalkIs DEF Reached
<1>3. PICK F : F = 1..k
  OBVIOUS
<1>4. F # {} /\ F \in SUBSET Int /\ k \in F /\ \A i \in F : k >= i
  BY <1>1, <1>3
<1>5. Max(F) = k
  BY <1>4, MaxIs
<1>6. Cardinality(F) = k
  <2>1. PICK a \in Int, b \in Int : a = 1 /\ b = k
    BY <1>1
  <2>2. Cardinality(a..b) = k
    BY <1>1, <2>1, FS_Interval
  <2>3. QED
    BY <1>3, <2>1, <2>2
<1>7. \A i \in 1..n : w[i] \in CandleRecord
  OBVIOUS
<1>8. \A i \in 1..n : Favorable(p, w[i]) = Best(p, w[i]) /\ Adverse(p, w[i]) = -Worst(p, w[i])
  BY <1>7, HitsAreMoves
<1>9. \A i \in 1..k : i \in 1..n
  BY <1>1
<1>10. /\ v.status = StatusOf(TpHit(p, w[k]), SlHit(p, w[k]))
       /\ v.bars = k /\ v.ended = Closes(w[k].open)
       /\ v.favorable = Max({0} \cup {Favorable(p, w[i]) : i \in 1..k})
       /\ v.adverse = Max({0} \cup {Adverse(p, w[i]) : i \in 1..k})
  BY <1>2, <1>3, <1>4, <1>5, <1>6 DEF ReachedBy
<1>11. /\ {Favorable(p, w[i]) : i \in 1..k} = {Best(p, w[i]) : i \in 1..k}
       /\ {Adverse(p, w[i]) : i \in 1..k} = {-Worst(p, w[i]) : i \in 1..k}
  BY <1>8, <1>9
<1>12. v.status = Verdict(p, w)
  <2>1. (TpHit(p, w[k]) <=> Wins(p, w[k])) /\ (SlHit(p, w[k]) <=> Loses(p, w[k]))
    BY <1>1, <1>7, HitsAreMoves
  <2>2. CASE Touching(p, w) = {}
    <3>1. k \notin Touching(p, w) /\ k \in DOMAIN w
      BY <1>1, <2>2
    <3>2. ~ TpHit(p, w[k]) /\ ~ SlHit(p, w[k])
      BY <2>1, <3>1 DEF Touching
    <3>3. QED
      BY <1>10, <2>2, <3>2 DEF Verdict, StatusOf
  <2>3. CASE Touching(p, w) # {}
    <3>1. k = Min(Touching(p, w))
      BY <2>3 DEF LastOf
    <3>2. Wins(p, w[k]) \/ Loses(p, w[k])
      BY <1>1, <2>3 DEF Touching
    <3>3. Verdict(p, w) = StatusOf(Wins(p, w[k]), Loses(p, w[k]))
      BY <2>3, <3>1, <3>2 DEF Verdict, StatusOf
    <3>4. QED
      BY <1>10, <2>1, <3>3 DEF StatusOf
  <2>4. QED
    BY <2>2, <2>3
<1>13. QED
  BY <1>10, <1>11, <1>12 DEF MostFavorable, MostAdverse

\* Candles after the deciding one make no difference.
LEMMA WalkEnds ==
  ASSUME NEW p, Levels(p), NEW n \in Nat, n # 0, NEW w \in [1..n -> CandleRecord],
         Touching(p, w) # {}, NEW k, k = LastOf(p, w),
         NEW m \in Nat, k <= m, NEW v \in [1..m -> CandleRecord], \A i \in 1..k : v[i] = w[i]
  PROVE  Walk(p, v) = Walk(p, w)
<1>1. /\ k \in 1..n /\ Followed(p, w, 1..n) = 1..k
      /\ k \in Touching(p, w) /\ \A i \in Touching(p, w) : k <= i
  BY TouchingIs
<1>2. k \in 1..m /\ m # 0
  BY <1>1
<1>3. PICK j : j = LastOf(p, v)
  OBVIOUS
<1>4. /\ j \in 1..m /\ Followed(p, v, 1..m) = 1..j
      /\ Touching(p, v) # {} => j \in Touching(p, v) /\ \A i \in Touching(p, v) : j <= i
  BY <1>2, <1>3, TouchingIs
<1>5. k \in Touching(p, v)
  BY <1>1, <1>2 DEF Touching
<1>6. j \in Touching(p, v) /\ j <= k
  BY <1>4, <1>5
<1>7. j \in Touching(p, w)
  <2>1. j \in 1..k /\ v[j] = w[j]
    BY <1>1, <1>4, <1>6
  <2>2. j \in 1..n
    BY <1>1, <2>1
  <2>3. QED
    BY <1>6, <2>1, <2>2 DEF Touching
<1>8. j = k
  BY <1>1, <1>4, <1>6, <1>7
<1>9. PICK F : F = 1..k
  OBVIOUS
<1>10. Walk(p, v) = ReachedBy(p, v, F) /\ Walk(p, w) = ReachedBy(p, w, F)
  BY <1>1, <1>4, <1>8, <1>9, WalkIs DEF Reached
<1>11. Max(F) = k /\ \A i \in F : v[i] = w[i]
  <2>1. F \in SUBSET Int /\ k \in F /\ \A i \in F : k >= i
    BY <1>1, <1>9
  <2>2. QED
    BY <1>9, <2>1, MaxIs
<1>12. k \in F
  BY <1>1, <1>9
<1>13. /\ {Favorable(p, v[i]) : i \in F} = {Favorable(p, w[i]) : i \in F}
       /\ {Adverse(p, v[i]) : i \in F} = {Adverse(p, w[i]) : i \in F}
  BY <1>11
<1>14. QED
  BY <1>10, <1>11, <1>12, <1>13 DEF ReachedBy

-----------------------------------------------------------------------------
(* The repository                                                          *)

DecisionRecord == [replay : Config, cutoff : Schedule, proposal : Proposals]
DecisionOf(o) == [replay |-> o.replay, cutoff |-> o.cutoff, proposal |-> o.proposal]

\* A frame shows what some engine read of the dataset.
FrameOK(f) ==
    /\ f.replay \in Config /\ f.cutoff \in Schedule
    /\ \E n \in EngineCounts :
          f.snapshot.seen = CompletedCandles(data, f.replay.partition, f.cutoff, n)

\* An outcome is that of its decision over a window that is not empty.
OutcomeOK(o) ==
    /\ DecisionOf(o) \in DecisionRecord /\ o.horizon \in Horizon
    /\ HasLevels(o.proposal) /\ ValidGeometry(o.proposal)
    /\ WindowOf(o, o.horizon) # <<>>
    /\ o = OutcomeOf(DecisionOf(o), WindowOf(o, o.horizon), o.horizon)

\* A tracked decision that is no longer pending has got an outcome of its own.
TrackedOK(t) ==
    /\ t = [decision |-> t.decision, horizon |-> t.horizon, state |-> t.state,
            outcome |-> t.outcome]
    /\ t.state # "PENDING" =>
          \E o \in outcomes : Matches(t, o) /\ t.state = TrackingState(o.status)

ReplayInv ==
    /\ data \in Datasets
    /\ \A f \in frames : FrameOK(f)
    /\ \A d \in decisions : d \in DecisionRecord
    /\ \A o \in outcomes : OutcomeOK(o)
    /\ \A t \in tracked : TrackedOK(t)

LEMMA ReplayStarts == Init => ReplayInv
  BY DEF Init, ReplayInv

LEMMA BuildFrameKeeps ==
  ASSUME ReplayInv, NEW c \in Config, NEW t \in Schedule, NEW n \in EngineCounts,
         BuildFrame(c, t, n)
  PROVE  ReplayInv'
<1>1. PICK f : f = [replay |-> c, cutoff |-> t, snapshot |-> Snapshot(c.partition, t, n)]
  OBVIOUS
<1>2. frames' = frames \cup {f}
      /\ UNCHANGED <<data, decisions, outcomes, summaries, tracked>>
  BY <1>1 DEF BuildFrame
<1>3. FrameOK(f)'
  BY <1>1, <1>2 DEF FrameOK, Snapshot
<1>4. \A g \in frames : FrameOK(g)'
  BY <1>2 DEF ReplayInv, FrameOK
<1>5. \A o \in outcomes' : OutcomeOK(o)'
  BY <1>2 DEF ReplayInv, OutcomeOK, WindowOf
<1>6. \A u \in tracked' : TrackedOK(u)'
  BY <1>2 DEF ReplayInv, TrackedOK
<1>7. QED
  BY <1>2, <1>3, <1>4, <1>5, <1>6 DEF ReplayInv

LEMMA FreezeKeeps ==
  ASSUME ReplayInv, NEW f \in frames, NEW p \in Proposals, Freeze(f, p)
  PROVE  ReplayInv'
<1>1. f.replay \in Config /\ f.cutoff \in Schedule
  BY DEF ReplayInv, FrameOK
<1>2. /\ decisions' = decisions \cup
            {[replay |-> f.replay, cutoff |-> f.cutoff, proposal |-> p]}
      /\ UNCHANGED <<data, frames, outcomes, summaries, tracked>>
  BY DEF Freeze
<1>3. \A d \in decisions' : d \in DecisionRecord
  BY <1>1, <1>2 DEF ReplayInv, DecisionRecord
<1>4. \A g \in frames' : FrameOK(g)'
  BY <1>2 DEF ReplayInv, FrameOK
<1>5. \A o \in outcomes' : OutcomeOK(o)'
  BY <1>2 DEF ReplayInv, OutcomeOK, WindowOf
<1>6. \A u \in tracked' : TrackedOK(u)'
  BY <1>2 DEF ReplayInv, TrackedOK
<1>7. QED
  BY <1>2, <1>3, <1>4, <1>5, <1>6 DEF ReplayInv

LEMMA EvaluateKeeps ==
  ASSUME ReplayInv, NEW f \in frames, NEW d \in decisions, NEW c \in Config,
         Evaluate(f, d, c)
  PROVE  ReplayInv'
<1>1. d \in DecisionRecord /\ d = [replay |-> d.replay, cutoff |-> d.cutoff, proposal |-> d.proposal]
  BY DEF ReplayInv, DecisionRecord
<1>2. PICK w : w = OutcomeView(data, d.replay.partition, d.cutoff, c.horizon)
  OBVIOUS
<1>3. PICK o : o = OutcomeOf(d, w, c.horizon)
  OBVIOUS
<1>4. /\ f.replay = d.replay /\ w # <<>>
      /\ HasLevels(d.proposal) /\ ValidGeometry(d.proposal)
      /\ outcomes' = outcomes \cup {o}
      /\ UNCHANGED <<data, frames, decisions, summaries, tracked>>
  BY <1>2, <1>3 DEF Evaluate
<1>5. /\ o.replay = d.replay /\ o.cutoff = d.cutoff /\ o.proposal = d.proposal
      /\ o.horizon = c.horizon
  BY <1>3 DEF OutcomeOf
<1>6. DecisionOf(o) = d
  BY <1>1, <1>5 DEF DecisionOf
<1>7. OutcomeOK(o)'
  BY <1>1, <1>2, <1>3, <1>4, <1>5, <1>6 DEF OutcomeOK, WindowOf, Horizon
<1>8. \A e \in outcomes : OutcomeOK(e)'
  BY <1>4 DEF ReplayInv, OutcomeOK, WindowOf
<1>9. \A g \in frames' : FrameOK(g)'
  BY <1>4 DEF ReplayInv, FrameOK
<1>10. \A u \in tracked' : TrackedOK(u)'
  BY <1>4 DEF ReplayInv, TrackedOK
<1>11. QED
  BY <1>4, <1>7, <1>8, <1>9, <1>10 DEF ReplayInv

LEMMA RegisterKeeps ==
  ASSUME ReplayInv, NEW d \in decisions, NEW h \in Horizon, Register(d, h)
  PROVE  ReplayInv'
<1>1. PICK t : t = [decision |-> d, horizon |-> h, state |-> "PENDING", outcome |-> None]
  OBVIOUS
<1>2. tracked' = tracked \cup {t} /\ UNCHANGED <<data, frames, decisions, outcomes, summaries>>
  BY <1>1 DEF Register
<1>3. TrackedOK(t)'
  BY <1>1 DEF TrackedOK
<1>4. \A u \in tracked : TrackedOK(u)'
  BY <1>2 DEF ReplayInv, TrackedOK
<1>5. \A o \in outcomes' : OutcomeOK(o)'
  BY <1>2 DEF ReplayInv, OutcomeOK, WindowOf
<1>6. \A g \in frames' : FrameOK(g)'
  BY <1>2 DEF ReplayInv, FrameOK
<1>7. QED
  BY <1>2, <1>3, <1>4, <1>5, <1>6 DEF ReplayInv

LEMMA AttachKeeps ==
  ASSUME ReplayInv, NEW t \in tracked, NEW o \in outcomes, Attach(t, o)
  PROVE  ReplayInv'
<1>1. PICK u : u = [t EXCEPT !.state = TrackingState(o.status), !.outcome = o]
  OBVIOUS
<1>2. /\ tracked' = (tracked \ {t}) \cup {u} /\ Matches(t, o)
      /\ UNCHANGED <<data, frames, decisions, outcomes, summaries>>
  BY <1>1 DEF Attach
<1>3. t = [decision |-> t.decision, horizon |-> t.horizon, state |-> t.state,
           outcome |-> t.outcome]
  BY DEF ReplayInv, TrackedOK
<1>4. u = [decision |-> t.decision, horizon |-> t.horizon,
           state |-> TrackingState(o.status), outcome |-> o]
  BY <1>1, <1>3
<1>5. Matches(u, o)
  BY <1>2, <1>4 DEF Matches
<1>6. TrackedOK(u)'
  BY <1>2, <1>4, <1>5 DEF TrackedOK, Matches
<1>7. \A v \in tracked : TrackedOK(v)'
  BY <1>2 DEF ReplayInv, TrackedOK
<1>8. \A e \in outcomes' : OutcomeOK(e)'
  BY <1>2 DEF ReplayInv, OutcomeOK, WindowOf
<1>9. \A g \in frames' : FrameOK(g)'
  BY <1>2 DEF ReplayInv, FrameOK
<1>10. QED
  BY <1>2, <1>6, <1>7, <1>8, <1>9 DEF ReplayInv

LEMMA OthersKeep ==
  ASSUME ReplayInv, UNCHANGED <<data, frames, decisions, outcomes, tracked>>
  PROVE  ReplayInv'
<1>1. \A o \in outcomes' : OutcomeOK(o)'
  BY DEF ReplayInv, OutcomeOK, WindowOf
<1>2. \A g \in frames' : FrameOK(g)'
  BY DEF ReplayInv, FrameOK
<1>3. \A u \in tracked' : TrackedOK(u)'
  BY DEF ReplayInv, TrackedOK
<1>4. QED
  BY <1>1, <1>2, <1>3 DEF ReplayInv

LEMMA ReplayStep == ReplayInv /\ [Next]_vars => ReplayInv'
<1> SUFFICES ASSUME ReplayInv, [Next]_vars PROVE ReplayInv'
  OBVIOUS
<1>1. CASE \E c \in Config, t \in Schedule, n \in EngineCounts : BuildFrame(c, t, n)
  BY <1>1, BuildFrameKeeps
<1>2. CASE \E f \in frames, p \in Proposals : Freeze(f, p)
  BY <1>2, FreezeKeeps
<1>3. CASE \E f \in frames, d \in decisions, c \in Config : Evaluate(f, d, c)
  BY <1>3, EvaluateKeeps
<1>4. CASE \E c \in Config, side \in {"BUY", "SELL", None} : Summarize(c, side)
  <2>1. UNCHANGED <<data, frames, decisions, outcomes, tracked>>
    BY <1>4 DEF Summarize
  <2>2. QED
    BY <2>1, OthersKeep
<1>5. CASE \E d \in decisions, h \in Horizon : Register(d, h)
  BY <1>5, RegisterKeeps
<1>6. CASE \E t \in tracked, o \in outcomes : Attach(t, o)
  BY <1>6, AttachKeeps
<1>7. CASE UNCHANGED vars
  <2>1. UNCHANGED <<data, frames, decisions, outcomes, tracked>>
    BY <1>7 DEF vars
  <2>2. QED
    BY <2>1, OthersKeep
<1>8. QED
  BY <1>1, <1>2, <1>3, <1>4, <1>5, <1>6, <1>7 DEF Next

LEMMA ReplayAlways == Spec => []ReplayInv
  BY ReplayStarts, ReplayStep, PTL DEF Spec

-----------------------------------------------------------------------------
(* The properties                                                          *)

LEMMA DatasetTypes ==
  ASSUME data \in Datasets
  PROVE  /\ data \in Dataset
         /\ \A o \in Opens : \A r \in AnyRange : Altered(o, r) \in Dataset
         /\ \A o \in Opens : \A r \in AnyRange : \A q \in Opens :
               q # o => Altered(o, r)[q] = data[q]
<1>1. \A d \in Datasets : d \in Dataset
  BY ReplayAssumption DEF Dataset
<1>2. \A r \in AnyRange : r \in {None} \cup [low : Int, high : Int]
  BY <1>1 DEF AnyRange, Dataset
<1>3. data \in Dataset
  BY <1>1
<1>4. QED
  BY <1>2, <1>3 DEF Altered, Dataset

LEMMA ProposalLevels ==
  ASSUME NEW p \in Proposals, HasLevels(p), ValidGeometry(p)
  PROVE  Levels(p)
<1>1. p \in [side : {"BUY", "SELL"}, entry : Int \cup {None},
             stop : Int \cup {None}, target : Int \cup {None}]
  BY ReplayAssumption
<1>2. p.entry # None /\ p.stop # None /\ p.target # None
  BY DEF HasLevels
<1>3. QED
  BY <1>1, <1>2 DEF Levels

\* A frame shows nothing that had not closed by its cutoff.
LEMMA FramesLookBack == ReplayInv => NoLookAhead
<1> SUFFICES ASSUME ReplayInv, NEW f \in frames, NEW o \in Opens, NEW r \in AnyRange,
                    Closes(o) > f.cutoff
             PROVE  \E n \in EngineCounts :
                       f.snapshot.seen = CompletedCandles(Altered(o, r), f.replay.partition,
                                                          f.cutoff, n)
  BY DEF NoLookAhead
<1>1. f.cutoff \in Nat /\ Closes(o) \in Nat
  <2>1. f.cutoff \in Schedule /\ Schedule \subseteq Nat
    BY ReplayAssumption DEF ReplayInv, FrameOK
  <2>2. o \in Nat /\ Duration \in Nat
    BY DatasetAssumption
  <2>3. f.cutoff \in Nat
    BY <2>1
  <2>4. QED
    BY <2>2, <2>3 DEF Closes
<1>2. PICK n \in EngineCounts :
         f.snapshot.seen = CompletedCandles(data, f.replay.partition, f.cutoff, n)
  BY DEF ReplayInv, FrameOK
<1>3. PICK e \in Dataset : e = Altered(o, r) /\ \A q \in Opens : q # o => data[q] = e[q]
  BY DatasetTypes DEF ReplayInv
<1>4. PICK S \in SUBSET Opens : S = DecisionTimes(f.replay.partition, f.cutoff)
  BY DEF DecisionTimes
<1>5. o \notin S
  BY <1>1, <1>4 DEF DecisionTimes
<1>6. \A q \in S : data[q] = e[q]
  BY <1>3, <1>5
<1>7. data \in Dataset
  BY DatasetTypes DEF ReplayInv
<1>8. InOrder(data, S) = InOrder(e, S)
  BY <1>6, <1>7, SameInOrder
<1>9. CompletedCandles(data, f.replay.partition, f.cutoff, n) =
         CompletedCandles(e, f.replay.partition, f.cutoff, n)
  BY <1>4, <1>8 DEF CompletedCandles
<1>10. QED
  BY <1>2, <1>3, <1>9

\* The window of an outcome, and what is known of it.
LEMMA WindowIs ==
  ASSUME ReplayInv, NEW o \in outcomes, NEW w, w = WindowOf(o, o.horizon)
  PROVE  /\ Levels(o.proposal) /\ o.cutoff \in Nat /\ o.horizon \in HorizonRecord
         /\ Len(w) \in Nat /\ Len(w) # 0 /\ w \in [1..Len(w) -> CandleRecord]
         /\ \A i \in 1..Len(w) : w[i].open \in Opens
<1>1. OutcomeOK(o)
  BY DEF ReplayInv
<1>2. Levels(o.proposal)
  BY <1>1, ProposalLevels DEF OutcomeOK, DecisionRecord, DecisionOf
<1>3. o.cutoff \in Nat
  BY <1>1, ReplayAssumption DEF OutcomeOK, DecisionRecord, DecisionOf
<1>4. o.horizon \in HorizonRecord
  BY <1>1, ReplayAssumption DEF OutcomeOK, Horizon, HorizonRecord
<1>5. PICK p : p = o.replay.partition
  OBVIOUS
<1>6. PICK T, A, a, n, k : /\ T = ViewTimes(p, o.cutoff, o.horizon)
                           /\ A = Filled(data, T) /\ a = Ascending(A)
                           /\ n = Cardinality(A) /\ k = Kept(o.horizon, n)
  OBVIOUS
<1>7. data \in Dataset
  BY DatasetTypes DEF ReplayInv
<1>8. w = OutcomeView(data, p, o.cutoff, o.horizon)
  BY <1>5 DEF WindowOf
<1>9. /\ k \in Nat /\ T \in SUBSET Opens /\ Len(w) = k /\ w \in [1..k -> CandleRecord]
      /\ \A i \in 1..k : w[i] = Candle(data, a[i]) /\ a[i] \in T
  BY <1>4, <1>6, <1>7, <1>8, ViewIs
<1>10. Len(w) # 0
  <2>1. CASE k = 0
    <3>1. w = <<>>
      BY <1>9, <2>1
    <3>2. QED
      BY <1>1, <3>1 DEF OutcomeOK
  <2>2. QED
    BY <1>9, <2>1
<1>11. \A i \in 1..k : w[i].open \in Opens
  <2> SUFFICES ASSUME NEW i \in 1..k PROVE w[i].open \in Opens
    OBVIOUS
  <2>1. w[i] = Candle(data, a[i]) /\ a[i] \in Opens
    BY <1>9
  <2>2. QED
    BY <2>1 DEF Candle
<1>12. QED
  BY <1>2, <1>3, <1>4, <1>9, <1>10, <1>11

\* An outcome says what its window says.
LEMMA OutcomeIsVerdict ==
  ASSUME ReplayInv, NEW o \in outcomes, NEW w, w = WindowOf(o, o.horizon),
         NEW k, k = LastOf(o.proposal, w)
  PROVE  /\ o.status = Verdict(o.proposal, w)
         /\ o.bars = k /\ o.ended = Closes(w[k].open) /\ k \in 1..Len(w)
         /\ o.favorable = MostFavorable(o.proposal, w, k)
         /\ o.adverse = MostAdverse(o.proposal, w, k)
<1>1. PICK p, n : p = o.proposal /\ n = Len(w)
  OBVIOUS
<1>2. Levels(p) /\ n \in Nat /\ n # 0 /\ w \in [1..n -> CandleRecord]
  BY <1>1, WindowIs
<1>3. PICK v : v = Walk(p, w)
  OBVIOUS
<1>4. /\ v.status = Verdict(p, w)
      /\ v.bars = k /\ v.ended = Closes(w[k].open)
      /\ v.favorable = MostFavorable(p, w, k)
      /\ v.adverse = MostAdverse(p, w, k)
  <2>1. k = LastOf(p, w)
    BY <1>1
  <2>2. QED
    BY <1>2, <1>3, <2>1, WalkIsVerdict
<1>5. k \in 1..n
  BY <1>1, <1>2, TouchingIs
<1>6. o = OutcomeOf(DecisionOf(o), w, o.horizon)
  BY DEF ReplayInv, OutcomeOK
<1>7. /\ o.status = v.status /\ o.bars = v.bars /\ o.ended = v.ended
      /\ o.favorable = v.favorable /\ o.adverse = v.adverse
  BY <1>1, <1>3, <1>6 DEF OutcomeOf, DecisionOf
<1>8. QED
  BY <1>1, <1>4, <1>5, <1>7

\* Nor does a candle outside the part of the window that decided it matter.
LEMMA OutcomeStays ==
  ASSUME ReplayInv, NEW o \in outcomes, NEW w, w = WindowOf(o, o.horizon),
         NEW t \in Opens, NEW r \in AnyRange,
         \/ t < o.cutoff
         \/ Touching(o.proposal, w) # {} /\ t >= o.ended
  PROVE  OutcomeOf(DecisionOf(o), OutcomeView(Altered(t, r), o.replay.partition, o.cutoff,
                                              o.horizon), o.horizon) = o
<1>1. PICK p, q, h, n, k : /\ p = o.proposal /\ q = o.replay.partition /\ h = o.horizon
                           /\ n = Len(w) /\ k = LastOf(p, w)
  OBVIOUS
<1>2. /\ Levels(p) /\ o.cutoff \in Nat /\ h \in HorizonRecord
      /\ n \in Nat /\ n # 0 /\ w \in [1..n -> CandleRecord]
      /\ \A i \in 1..n : w[i].open \in Opens
  BY <1>1, WindowIs
<1>3. data \in Dataset
  BY DatasetTypes DEF ReplayInv
<1>4. PICK e \in Dataset : e = Altered(t, r) /\ \A x \in Opens : x # t => data[x] = e[x]
  BY DatasetTypes DEF ReplayInv
<1>5. w = OutcomeView(data, q, o.cutoff, h)
  BY <1>1 DEF WindowOf
<1>6. PICK v : v = OutcomeView(e, q, o.cutoff, h)
  OBVIOUS
<1>7. o = OutcomeOf(DecisionOf(o), w, h)
  BY <1>1 DEF ReplayInv, OutcomeOK
<1>8. Opens \subseteq Nat
  BY DatasetAssumption
<1>9. Walk(p, v) = Walk(p, w)
  <2>1. CASE t < o.cutoff
    <3>1. t \in Nat /\ ~ (t >= o.cutoff)
      BY <1>2, <1>8, <2>1
    <3>2. t \notin OutcomeTimes(q, o.cutoff)
      BY <3>1 DEF OutcomeTimes
    <3>3. \A x \in OutcomeTimes(q, o.cutoff) : data[x] = e[x]
      BY <1>4, <3>2 DEF OutcomeTimes
    <3>4. v = w
      BY <1>2, <1>3, <1>4, <1>5, <1>6, <3>3, SameView
    <3>5. QED
      BY <3>4
  <2>2. CASE Touching(o.proposal, w) # {} /\ t >= o.ended
    <3>1. k \in 1..n /\ o.ended = Closes(w[k].open)
      BY <1>1, OutcomeIsVerdict
    <3>2. w[k].open \in Nat /\ t \in Nat /\ w[k].open < t
      <4>1. w[k].open \in Nat
        BY <1>2, <1>8, <3>1
      <4>2. t \in Nat /\ Duration \in Nat \ {0}
        BY <1>8, DatasetAssumption
      <4>3. t >= w[k].open + Duration
        BY <2>2, <3>1 DEF Closes
      <4>4. QED
        BY <4>1, <4>2, <4>3
    <3>3. \A x \in Opens : x < t => data[x] = e[x]
      <4>1. \A x \in Opens : x \in Nat /\ (x < t => x # t)
        BY <1>8
      <4>2. QED
        BY <1>4, <4>1
    <3>4. k \in 1..Len(w)
      BY <1>1, <3>1
    <3>5. k <= Len(v) /\ \A i \in 1..k : v[i] = w[i]
      <4>1. PICK u \in 1..Len(w) : u = k /\ w[u].open < t
        BY <3>2, <3>4
      <4>2. PICK g \in HorizonRecord, b \in Nat : g = h /\ b = t
        BY <1>2, <3>2
      <4>3. PICK a : /\ a = o.cutoff
                     /\ w = OutcomeView(data, q, a, g) /\ v = OutcomeView(e, q, a, g)
        BY <1>5, <1>6, <4>2
      <4>4. u <= Len(v) /\ \A i \in 1..u : v[i] = w[i]
        BY <1>3, <3>3, <4>1, <4>2, <4>3, ViewAgree
      <4>5. QED
        BY <4>1, <4>4
    <3>6. Len(v) \in Nat /\ v \in [1..Len(v) -> CandleRecord]
      <4>1. PICK T, A, a, j, l : /\ T = ViewTimes(q, o.cutoff, h)
                                 /\ A = Filled(e, T) /\ a = Ascending(A)
                                 /\ j = Cardinality(A) /\ l = Kept(h, j)
        OBVIOUS
      <4>2. l \in Nat /\ Len(v) = l /\ v \in [1..l -> CandleRecord]
        BY <1>2, <1>4, <1>6, <4>1, ViewIs
      <4>3. QED
        BY <4>2
    <3>7. PICK m \in Nat : m = Len(v) /\ v \in [1..m -> CandleRecord]
      BY <3>6
    <3>8. QED
      BY <1>1, <1>2, <2>2, <3>5, <3>7, WalkEnds
  <2>3. QED
    BY <2>1, <2>2
<1>10. OutcomeOf(DecisionOf(o), v, h) = OutcomeOf(DecisionOf(o), w, h)
  BY <1>1, <1>9 DEF OutcomeOf, DecisionOf
<1>11. QED
  BY <1>1, <1>4, <1>6, <1>7, <1>10

LEMMA OutcomesAreRight == ReplayInv => FirstTouch
<1> SUFFICES ASSUME ReplayInv, NEW o \in outcomes
             PROVE  LET p == o.proposal
                        window == WindowOf(o, o.horizon)
                        decided == Touching(p, window) # {}
                        last == IF decided THEN Min(Touching(p, window)) ELSE Len(window)
                        d == [replay |-> o.replay, cutoff |-> o.cutoff, proposal |-> p]
                    IN  /\ o.status = Verdict(p, window)
                        /\ o.bars = last /\ o.ended = Closes(window[last].open)
                        /\ o.favorable = Max({0} \cup {Best(p, window[i]) : i \in 1..last})
                        /\ o.adverse = Max({0} \cup {-Worst(p, window[i]) : i \in 1..last})
                        /\ \A t \in Opens : \A r \in AnyRange :
                              (t < o.cutoff \/ (decided /\ t >= o.ended)) =>
                                 OutcomeOf(d, OutcomeView(Altered(t, r), o.replay.partition,
                                                          o.cutoff, o.horizon), o.horizon) = o
  BY DEF FirstTouch
<1>1. PICK w, k : w = WindowOf(o, o.horizon) /\ k = LastOf(o.proposal, w)
  OBVIOUS
<1>2. /\ o.status = Verdict(o.proposal, w)
      /\ o.bars = k /\ o.ended = Closes(w[k].open) /\ k \in 1..Len(w)
      /\ o.favorable = MostFavorable(o.proposal, w, k)
      /\ o.adverse = MostAdverse(o.proposal, w, k)
  BY <1>1, OutcomeIsVerdict
<1>3. \A t \in Opens : \A r \in AnyRange :
         (t < o.cutoff \/ (Touching(o.proposal, w) # {} /\ t >= o.ended)) =>
            OutcomeOf(DecisionOf(o), OutcomeView(Altered(t, r), o.replay.partition,
                                                 o.cutoff, o.horizon), o.horizon) = o
  BY <1>1, OutcomeStays
<1>4. k = IF Touching(o.proposal, w) # {} THEN Min(Touching(o.proposal, w)) ELSE Len(w)
  BY <1>1 DEF LastOf
<1>5. QED
  BY <1>1, <1>2, <1>3, <1>4 DEF DecisionOf, MostFavorable, MostAdverse

LEMMA TrackedIsVerdict == ReplayInv => TrackedAgrees
<1> SUFFICES ASSUME ReplayInv, NEW t \in tracked, t.state # "PENDING"
             PROVE  t.state = TrackingState(Verdict(t.decision.proposal,
                                                    WindowOf(t.decision, t.horizon)))
  BY DEF TrackedAgrees
<1>1. PICK o \in outcomes : Matches(t, o) /\ t.state = TrackingState(o.status)
  BY DEF ReplayInv, TrackedOK
<1>2. PICK w, k : w = WindowOf(o, o.horizon) /\ k = LastOf(o.proposal, w)
  OBVIOUS
<1>3. o.status = Verdict(o.proposal, w)
  BY <1>2, OutcomeIsVerdict
<1>4. w = WindowOf(t.decision, t.horizon) /\ o.proposal = t.decision.proposal
  BY <1>1, <1>2 DEF Matches, WindowOf
<1>5. QED
  BY <1>1, <1>3, <1>4

\* HistoricalReplayEngine.build_frame shows no candle that closes after the
\* cutoff: whatever the dataset held there, the history of a frame is the same.
THEOREM ReplayLooksBack == Spec => []NoLookAhead
  BY ReplayAlways, FramesLookBack, PTL

\* OutcomeEvaluator.evaluate reports, of every proposal over every window, the
\* verdict, the bars and the excursions up to the first candle that touches a
\* level, and nothing before the cutoff or after that candle could change it.
THEOREM FirstTouchDecides == Spec => []FirstTouch
  BY ReplayAlways, OutcomesAreRight, PTL

\* What ShadowOutcomeTracker.attach_outcome records of a decision is what the
\* prices made of it over the horizon it was registered with.
THEOREM TrackingIsTrue == Spec => []TrackedAgrees
  BY ReplayAlways, TrackedIsVerdict, PTL

-----------------------------------------------------------------------------
(* Sums over finite sets.                                                  *)

\* The element that is added first.
First(s) == CHOOSE x \in s : TRUE

\* What the recursive function under a sum satisfies, for the sets of at most
\* n elements and for all.
SummingUpTo(f, S, n, g) ==
    \A s \in SUBSET S : Cardinality(s) <= n =>
        g[s] = IF s = {} THEN 0 ELSE f[First(s)] + g[s \ {First(s)}]
Summing(f, S, g) ==
    g = [s \in SUBSET S |-> IF s = {} THEN 0 ELSE f[First(s)] + g[s \ {First(s)}]]

\* The subsets of a finite set, by their number of elements.
LEMMA Sizes ==
  ASSUME NEW S, IsFiniteSet(S)
  PROVE  /\ \A s \in SUBSET S : Cardinality(s) \in Nat /\ (Cardinality(s) = 0 <=> s = {})
         /\ \A s \in SUBSET S : s # {} =>
               First(s) \in s /\ Cardinality(s \ {First(s)}) = Cardinality(s) - 1
<1>1. \A s \in SUBSET S : IsFiniteSet(s) /\ Cardinality(s) \in Nat
  BY FS_Subset, FS_CardinalityType
<1>2. Cardinality({}) = 0
  BY FS_EmptySet
<1>3. ASSUME NEW s \in SUBSET S, s # {}
      PROVE  First(s) \in s /\ Cardinality(s \ {First(s)}) = Cardinality(s) - 1
  <2>1. First(s) \in s
    BY <1>3 DEF First
  <2>2. QED
    BY <1>1, <2>1, FS_RemoveElement
<1>4. ASSUME NEW s \in SUBSET S, s # {} PROVE Cardinality(s) # 0
  <2>1. s \ {First(s)} \in SUBSET S
    OBVIOUS
  <2>2. Cardinality(s \ {First(s)}) \in Nat
    BY <1>1, <2>1
  <2>3. Cardinality(s \ {First(s)}) = Cardinality(s) - 1
    BY <1>3, <1>4
  <2>4. QED
    BY <1>1, <2>2, <2>3
<1>5. QED
  BY <1>1, <1>2, <1>3, <1>4

\* The function of the sets of one more element.
LEMMA SumOneMore ==
  ASSUME NEW S, IsFiniteSet(S), NEW f, \A x \in S : f[x] \in Int,
         NEW n \in Nat, n # 0, NEW g \in [SUBSET S -> Int], SummingUpTo(f, S, n - 1, g)
  PROVE  \E h \in [SUBSET S -> Int] : SummingUpTo(f, S, n, h)
<1> DEFINE h == [s \in SUBSET S |->
                    IF Cardinality(s) <= n - 1 THEN g[s] ELSE f[First(s)] + g[s \ {First(s)}]]
<1>1. \A s \in SUBSET S : g[s] \in Int /\ s \ {First(s)} \in SUBSET S
  OBVIOUS
<1>2. ASSUME NEW s \in SUBSET S, ~ (Cardinality(s) <= n - 1) PROVE s # {}
  BY <1>2, Sizes
<1>3. h \in [SUBSET S -> Int]
  <2> SUFFICES ASSUME NEW s \in SUBSET S, ~ (Cardinality(s) <= n - 1)
               PROVE  f[First(s)] + g[s \ {First(s)}] \in Int
    BY <1>1
  <2>1. f[First(s)] \in Int
    BY <1>2, Sizes
  <2>2. QED
    BY <1>1, <2>1
<1>4. ASSUME NEW s \in SUBSET S, Cardinality(s) <= n
      PROVE  h[s] = IF s = {} THEN 0 ELSE f[First(s)] + h[s \ {First(s)}]
  <2>1. CASE s = {}
    <3>1. Cardinality(s) = 0 /\ 0 <= n - 1
      BY <2>1, Sizes
    <3>2. QED
      BY <2>1, <3>1 DEF SummingUpTo
  <2>2. CASE s # {}
    <3>1. /\ s \ {First(s)} \in SUBSET S
          /\ Cardinality(s \ {First(s)}) <= n - 1
      BY <1>4, <2>2, Sizes
    <3>2. h[s \ {First(s)}] = g[s \ {First(s)}]
      BY <3>1
    <3>3. h[s] = f[First(s)] + g[s \ {First(s)}]
      BY <2>2 DEF SummingUpTo
    <3>4. QED
      BY <2>2, <3>2, <3>3
  <2>3. QED
    BY <2>1, <2>2
<1>5. SummingUpTo(f, S, n, h)
  BY <1>4 DEF SummingUpTo
<1>6. QED
  BY <1>3, <1>5

\* The function exists, up to any number of elements and for all of them.
LEMMA SumExists ==
  ASSUME NEW S, IsFiniteSet(S), NEW f, \A x \in S : f[x] \in Int
  PROVE  \E g \in [SUBSET S -> Int] : Summing(f, S, g)
<1> DEFINE B == {n \in Nat : ~ \E g \in [SUBSET S -> Int] : SummingUpTo(f, S, n, g)}
<1>1. B \subseteq Nat
  OBVIOUS
<1>2. ASSUME B # {} PROVE FALSE
  <2>1. PICK n \in B : \A m \in B : ~ (<<m, n>> \in OpToRel(<, Nat))
    <3> HIDE DEF B
    <3>1. QED
      BY <1>1, <1>2, NatLessThanWellFounded, WFMin, Zenon
  <2>2. \A m \in Nat : m < n => m \notin B
    <3> HIDE DEF B
    <3>1. QED
      BY <1>1, <2>1 DEF OpToRel
  <2>3. CASE n = 0
    <3> DEFINE z == [s \in SUBSET S |-> 0]
    <3>1. \A s \in SUBSET S : Cardinality(s) <= n => s = {}
      BY <2>3, Sizes
    <3>2. SummingUpTo(f, S, n, z) /\ z \in [SUBSET S -> Int]
      BY <3>1 DEF SummingUpTo
    <3>3. QED
      BY <3>2
  <2>4. CASE n # 0
    <3>1. n \in Nat /\ n - 1 \in Nat /\ n - 1 < n
      BY <2>4
    <3>2. PICK g \in [SUBSET S -> Int] : SummingUpTo(f, S, n - 1, g)
      BY <2>2, <3>1
    <3>3. \E h \in [SUBSET S -> Int] : SummingUpTo(f, S, n, h)
      BY <2>4, <3>1, <3>2, SumOneMore
    <3>4. QED
      BY <2>1, <3>3
  <2>5. QED
    BY <2>3, <2>4
<1>3. PICK n \in Nat : n = Cardinality(S)
  BY FS_CardinalityType
<1>4. PICK g \in [SUBSET S -> Int] : SummingUpTo(f, S, n, g)
  BY <1>2
<1>5. \A s \in SUBSET S : Cardinality(s) <= n
  BY <1>3, FS_Subset
<1>6. Summing(f, S, g)
  BY <1>4, <1>5 DEF SummingUpTo, Summing
<1>7. QED
  BY <1>6

\* The functions under the sums of a set and of a subset agree.
LEMMA SumAgree ==
  ASSUME NEW S, IsFiniteSet(S), NEW U \in SUBSET S, NEW f, NEW g, NEW h,
         Summing(f, S, g), Summing(f, U, h)
  PROVE  \A u \in SUBSET U : g[u] = h[u]
<1> DEFINE B == {u \in SUBSET U : g[u] # h[u]}
<1> SUFFICES ASSUME B # {} PROVE FALSE
  OBVIOUS
<1>1. \A u \in B : IsFiniteSet(u)
  BY FS_Subset
<1>2. PICK u \in B : \A v \in B : Cardinality(u) <= Cardinality(v)
  <2> HIDE DEF B
  <2>1. QED
    BY <1>1, Fewest
<1>3. u \in SUBSET S /\ u \in SUBSET U /\ g[u] # h[u]
  OBVIOUS
<1>4. /\ g[u] = IF u = {} THEN 0 ELSE f[First(u)] + g[u \ {First(u)}]
      /\ h[u] = IF u = {} THEN 0 ELSE f[First(u)] + h[u \ {First(u)}]
  BY <1>3 DEF Summing
<1>5. u # {} /\ g[u \ {First(u)}] # h[u \ {First(u)}]
  BY <1>3, <1>4
<1>6. u \ {First(u)} \in B
  BY <1>3, <1>5
<1>7. Cardinality(u \ {First(u)}) = Cardinality(u) - 1 /\ Cardinality(u) \in Nat
  BY <1>3, <1>5, Sizes
<1>8. Cardinality(u) <= Cardinality(u \ {First(u)})
  BY <1>2, <1>6
<1>9. QED
  BY <1>7, <1>8

\* What a sum is: nothing for no element, else one element and the rest.
LEMMA SumUnfolds ==
  ASSUME NEW S, IsFiniteSet(S), NEW f, \A x \in S : f[x] \in Int
  PROVE  /\ SumFunctionOnSet(f, S) \in Int
         /\ S = {} => SumFunctionOnSet(f, S) = 0
         /\ S # {} => SumFunctionOnSet(f, S) =
                         f[First(S)] + SumFunctionOnSet(f, S \ {First(S)})
<1> DEFINE Under(U) == CHOOSE g : Summing(f, U, g)
<1>1. ASSUME NEW U \in SUBSET S PROVE Summing(f, U, Under(U))
  <2>1. IsFiniteSet(U) /\ \A x \in U : f[x] \in Int
    BY FS_Subset
  <2>2. \E g : Summing(f, U, g)
    BY <2>1, SumExists
  <2>3. QED
    BY <2>2
<1>2. ASSUME NEW U \in SUBSET S PROVE SumFunctionOnSet(f, U) = Under(U)[U]
  BY DEF SumFunctionOnSet, FoldFunctionOnSet, MapThenFoldSet, Summing, First
<1> HIDE DEF Under
<1>3. PICK g \in [SUBSET S -> Int] : Summing(f, S, g)
  BY SumExists
<1>4. \A U \in SUBSET S : SumFunctionOnSet(f, U) = g[U]
  <2> SUFFICES ASSUME NEW U \in SUBSET S PROVE SumFunctionOnSet(f, U) = g[U]
    OBVIOUS
  <2>1. Summing(f, U, Under(U)) /\ SumFunctionOnSet(f, U) = Under(U)[U]
    BY <1>1, <1>2
  <2>2. \A u \in SUBSET U : g[u] = Under(U)[u]
    BY <1>3, <2>1, SumAgree
  <2>3. QED
    BY <2>1, <2>2
<1>5. g[S] = IF S = {} THEN 0 ELSE f[First(S)] + g[S \ {First(S)}]
  BY <1>3 DEF Summing
<1>6. S \in SUBSET S /\ S \ {First(S)} \in SUBSET S
  OBVIOUS
<1>7. QED
  BY <1>3, <1>4, <1>5, <1>6

\* The element that is taken first may be any.
LEMMA SumAdd ==
  ASSUME NEW S, IsFiniteSet(S), NEW f, \A y \in S : f[y] \in Int, NEW x \in S
  PROVE  SumFunctionOnSet(f, S) = f[x] + SumFunctionOnSet(f, S \ {x})
<1> DEFINE Sum(U) == SumFunctionOnSet(f, U)
           B == {U \in SUBSET S : \E y \in U : Sum(U) # f[y] + Sum(U \ {y})}
<1>1. \A U \in SUBSET S : IsFiniteSet(U) /\ \A y \in U : f[y] \in Int
  BY FS_Subset
<1>2. \A U \in SUBSET S : /\ Sum(U) \in Int
                          /\ U # {} => /\ First(U) \in U
                                       /\ Sum(U) = f[First(U)] + Sum(U \ {First(U)})
  <2> SUFFICES ASSUME NEW U \in SUBSET S
               PROVE  /\ Sum(U) \in Int
                      /\ U # {} => /\ First(U) \in U
                                   /\ Sum(U) = f[First(U)] + Sum(U \ {First(U)})
    OBVIOUS
  <2>1. IsFiniteSet(U) /\ \A y \in U : f[y] \in Int
    BY <1>1
  <2>2. U # {} => First(U) \in U
    BY DEF First
  <2>3. QED
    BY <2>1, <2>2, SumUnfolds
<1> HIDE DEF Sum
<1>3. ASSUME B # {} PROVE FALSE
  <2>1. PICK U \in B : \A V \in B : Cardinality(U) <= Cardinality(V)
    <3>1. \A V \in B : IsFiniteSet(V)
      BY <1>1
    <3> HIDE DEF B
    <3>2. QED
      BY <1>3, <3>1, Fewest
  <2>2. U \in SUBSET S /\ \E y \in U : Sum(U) # f[y] + Sum(U \ {y})
    OBVIOUS
  <2>3. PICK y \in U : Sum(U) # f[y] + Sum(U \ {y})
    BY <2>2
  <2>4. PICK c \in U : Sum(U) = f[c] + Sum(U \ {c})
    BY <1>2, <2>2
  <2>5. c # y /\ y \in U \ {c} /\ c \in U \ {y}
    BY <2>3, <2>4
  <2>6. \A z \in U : U \ {z} \in SUBSET S /\ U \ {z} \notin B
    <3> SUFFICES ASSUME NEW z \in U PROVE U \ {z} \in SUBSET S /\ U \ {z} \notin B
      OBVIOUS
    <3>1. U \ {z} \in B => Cardinality(U) <= Cardinality(U \ {z})
      BY <2>1
    <3>2. Cardinality(U \ {z}) = Cardinality(U) - 1 /\ Cardinality(U) \in Nat
      BY <1>1, <2>2, FS_RemoveElement, FS_CardinalityType
    <3> HIDE DEF B
    <3>3. U \ {z} \notin B
      BY <3>1, <3>2
    <3>4. QED
      BY <2>2, <3>3
  <2>7. Sum(U \ {c}) = f[y] + Sum((U \ {c}) \ {y})
    BY <2>5, <2>6
  <2>8. Sum(U \ {y}) = f[c] + Sum((U \ {y}) \ {c})
    BY <2>5, <2>6
  <2>9. (U \ {c}) \ {y} = (U \ {y}) \ {c}
    OBVIOUS
  <2>10. PICK r : r = Sum((U \ {c}) \ {y})
    OBVIOUS
  <2>11. r \in Int /\ f[c] \in Int /\ f[y] \in Int
    <3>1. (U \ {c}) \ {y} \in SUBSET S
      BY <2>2
    <3>2. QED
      BY <1>1, <1>2, <2>2, <2>4, <2>10, <3>1
  <2>12. Sum(U \ {c}) = f[y] + r /\ Sum(U \ {y}) = f[c] + r
    BY <2>7, <2>8, <2>9, <2>10
  <2>13. QED
    BY <2>3, <2>4, <2>11, <2>12
<1>4. S \in SUBSET S /\ S \notin B
  BY <1>3
<1>5. QED
  BY <1>4 DEF Sum

\* A sum over some positions of a sequence of integers.
LEMMA SumIs ==
  ASSUME NEW n \in Nat, NEW v \in [1..n -> Int], NEW S \in SUBSET (1..n)
  PROVE  /\ SumFunctionOnSet(v, S) \in Int
         /\ S = {} => SumFunctionOnSet(v, S) = 0
         /\ \A x \in S : SumFunctionOnSet(v, S) = v[x] + SumFunctionOnSet(v, S \ {x})
<1>1. IsFiniteSet(S) /\ \A x \in S : v[x] \in Int
  BY FinitePart
<1>2. QED
  BY <1>1, SumUnfolds, SumAdd

\* Two parts of the positions.
LEMMA SumParts ==
  ASSUME NEW n \in Nat, NEW v \in [1..n -> Int], NEW S \in SUBSET (1..n),
         NEW T \in SUBSET (1..n), S \cap T = {}
  PROVE  SumFunctionOnSet(v, S \cup T) = SumFunctionOnSet(v, S) + SumFunctionOnSet(v, T)
<1> DEFINE Sum(U) == SumFunctionOnSet(v, U)
           B == {U \in SUBSET T : Sum(S \cup U) # Sum(S) + Sum(U)}
<1>1. \A U \in SUBSET (1..n) : /\ IsFiniteSet(U) /\ Cardinality(U) \in Nat
                               /\ Sum(U) \in Int
                               /\ U = {} => Sum(U) = 0
                               /\ \A x \in U : Sum(U) = v[x] + Sum(U \ {x})
  BY FinitePart, SumIs
<1> HIDE DEF Sum
<1>2. ASSUME B # {} PROVE FALSE
  <2>1. PICK U \in B : \A V \in B : Cardinality(U) <= Cardinality(V)
    <3>1. \A V \in B : IsFiniteSet(V)
      BY <1>1
    <3> HIDE DEF B
    <3>2. QED
      BY <1>2, <3>1, Fewest
  <2>2. /\ U \in SUBSET T /\ U \in SUBSET (1..n) /\ S \cup U \in SUBSET (1..n)
        /\ Sum(S \cup U) # Sum(S) + Sum(U)
    OBVIOUS
  <2>3. U # {}
    <3>1. ASSUME U = {} PROVE FALSE
      <4>1. Sum(U) = 0 /\ Sum(S) \in Int
        BY <1>1, <2>2, <3>1
      <4>2. S \cup U = S
        BY <3>1
      <4>3. Sum(S \cup U) = Sum(S)
        BY <4>2
      <4>4. PICK a \in Int : a = Sum(S)
        BY <4>1
      <4>5. QED
        BY <2>2, <4>1, <4>3, <4>4
    <3>2. QED
      BY <3>1
  <2>4. PICK x \in U : TRUE
    BY <2>3
  <2>5. Sum(U) = v[x] + Sum(U \ {x}) /\ Sum(S \cup U) = v[x] + Sum((S \cup U) \ {x})
    BY <1>1, <2>2
  <2>6. (S \cup U) \ {x} = S \cup (U \ {x})
    BY <2>2
  <2>7. U \ {x} \notin B
    <3>1. U \ {x} \in B => Cardinality(U) <= Cardinality(U \ {x})
      BY <2>1
    <3>2. Cardinality(U \ {x}) = Cardinality(U) - 1 /\ Cardinality(U) \in Nat
      BY <1>1, <2>2, FS_RemoveElement
    <3> HIDE DEF B
    <3>3. QED
      BY <3>1, <3>2
  <2>8. Sum(S \cup (U \ {x})) = Sum(S) + Sum(U \ {x})
    BY <2>2, <2>7
  <2>9. PICK a \in Int, b \in Int, d \in Int : a = Sum(S) /\ b = Sum(U \ {x}) /\ d = v[x]
    <3>1. U \ {x} \in SUBSET (1..n) /\ x \in 1..n
      BY <2>2
    <3>2. QED
      BY <1>1, <3>1
  <2>10. Sum(U) = d + b /\ Sum(S \cup U) = d + (a + b)
    BY <2>5, <2>6, <2>8, <2>9
  <2>11. d + (a + b) = a + (d + b)
    OBVIOUS
  <2>12. QED
    BY <2>2, <2>9, <2>10, <2>11
<1>3. T \notin B
  BY <1>2
<1>4. QED
  BY <1>3 DEF Sum

\* A sum of numbers of a set that is closed under addition is one of them.
LEMMA SumStays ==
  ASSUME NEW n \in Nat, NEW v \in [1..n -> Int], NEW S \in SUBSET (1..n), S # {},
         NEW G \in SUBSET Int, \A a, b \in G : a + b \in G, \A x \in S : v[x] \in G
  PROVE  SumFunctionOnSet(v, S) \in G
<1> DEFINE Sum(U) == SumFunctionOnSet(v, U)
           B == {U \in SUBSET S : U # {} /\ Sum(U) \notin G}
<1>1. \A U \in SUBSET (1..n) : /\ IsFiniteSet(U) /\ Cardinality(U) \in Nat
                               /\ U = {} => Sum(U) = 0
                               /\ \A x \in U : Sum(U) = v[x] + Sum(U \ {x})
  BY FinitePart, SumIs
<1> HIDE DEF Sum
<1>2. ASSUME B # {} PROVE FALSE
  <2>1. PICK U \in B : \A V \in B : Cardinality(U) <= Cardinality(V)
    <3>1. \A V \in B : IsFiniteSet(V)
      BY <1>1
    <3> HIDE DEF B
    <3>2. QED
      BY <1>2, <3>1, Fewest
  <2>2. U \in SUBSET S /\ U \in SUBSET (1..n) /\ U # {} /\ Sum(U) \notin G
    OBVIOUS
  <2>3. PICK x \in U : TRUE
    BY <2>2
  <2>4. PICK r \in SUBSET (1..n) : r = U \ {x} /\ r \in SUBSET S
    BY <2>2
  <2>5. Sum(U) = v[x] + Sum(r) /\ v[x] \in G
    BY <1>1, <2>2, <2>4
  <2>6. r \notin B
    <3>1. r \in B => Cardinality(U) <= Cardinality(r)
      BY <2>1
    <3>2. Cardinality(r) = Cardinality(U) - 1 /\ Cardinality(U) \in Nat
      BY <1>1, <2>2, <2>4, FS_RemoveElement
    <3> HIDE DEF B
    <3>3. QED
      BY <3>1, <3>2
  <2>7. CASE r = {}
    <3>1. Sum(r) = 0 /\ v[x] \in Int
      BY <1>1, <2>5, <2>7
    <3>2. Sum(U) = v[x]
      BY <2>5, <3>1
    <3>3. QED
      BY <2>2, <2>5, <3>2
  <2>8. CASE r # {}
    <3>1. Sum(r) \in G
      BY <2>4, <2>6, <2>8
    <3>2. QED
      BY <2>2, <2>5, <3>1
  <2>9. QED
    BY <2>7, <2>8
<1>3. S \notin B
  BY <1>2
<1>4. QED
  BY <1>3 DEF Sum

-----------------------------------------------------------------------------
(* The drawdown                                                            *)

\* The greatest and the least of the positions.
LEMMA EndsOf ==
  ASSUME NEW n \in Nat, NEW s \in SUBSET (1..n), s # {}
  PROVE  (\E x \in s : \A y \in s : x >= y) /\ (\E x \in s : \A y \in s : x <= y)
<1>1. \E x \in s : \A y \in s : x >= y
  BY LastCandle
<1>2. \E x \in s : \A y \in s : x <= y
  <2>1. s \subseteq Nat
    OBVIOUS
  <2>2. PICK x \in s : \A y \in s : ~ (<<y, x>> \in OpToRel(<, Nat))
    BY <2>1, NatLessThanWellFounded, WFMin, Zenon
  <2>3. \A y \in s : ~ (y < x)
    BY <2>1, <2>2 DEF OpToRel
  <2>4. QED
    BY <2>1, <2>3
<1>3. QED
  BY <1>1, <1>2

LEMMA MaxOf ==
  ASSUME NEW S \in SUBSET Int, IsFiniteSet(S), S # {}
  PROVE  Max(S) \in S /\ Max(S) \in Int /\ \A x \in S : Max(S) >= x
<1>1. PICK m \in S : \A x \in S : m >= x
  BY Greatest
<1>2. Max(S) = m
  BY <1>1, MaxIs
<1>3. QED
  BY <1>1, <1>2

LEMMA MaxOneMore ==
  ASSUME NEW S \in SUBSET Int, IsFiniteSet(S), S # {}, NEW a \in Int, NEW T, T = S \cup {a}
  PROVE  Max(T) = Greater(Max(S), a)
<1>1. PICK m \in S : m = Max(S) /\ \A x \in S : m >= x
  BY MaxOf
<1>2. PICK k : k = IF m < a THEN a ELSE m
  OBVIOUS
<1>3. k \in T /\ T \in SUBSET Int
  BY <1>2
<1>4. \A x \in T : k >= x
  <2> SUFFICES ASSUME NEW x \in T PROVE k >= x
    OBVIOUS
  <2>1. m \in Int /\ x \in Int /\ (x = a \/ m >= x)
    BY <1>1, <1>3
  <2>2. QED
    BY <1>2, <2>1
<1>5. Max(T) = k
  BY <1>3, <1>4, MaxIs
<1>6. QED
  BY <1>1, <1>2, <1>5 DEF Greater

\* What the running total was after j, and what came after i up to j, of the
\* positions s.
Level(v, s, j) == SumFunctionOnSet(v, {k \in s : k <= j})
Change(v, s, i, j) == SumFunctionOnSet(v, {k \in s : i <= k /\ k <= j})

Heights(v, s) == {0} \cup {Level(v, s, j) : j \in s}
Falls(v, s) == {0} \cup {-Change(v, s, z[1], z[2]) : z \in s \X s}

\* Where the loop of _sequence_max_drawdown is after the positions s.
DrawnAfter(v, s) ==
    [running |-> SumFunctionOnSet(v, s), peak |-> Max(Heights(v, s)),
     maximum |-> Max(Falls(v, s))]

LEMMA HeightsAndFalls ==
  ASSUME NEW n \in Nat, NEW v \in [1..n -> Int], NEW s \in SUBSET (1..n)
  PROVE  /\ Heights(v, s) \in SUBSET Int /\ IsFiniteSet(Heights(v, s)) /\ 0 \in Heights(v, s)
         /\ Falls(v, s) \in SUBSET Int /\ IsFiniteSet(Falls(v, s)) /\ 0 \in Falls(v, s)
<1>1. IsFiniteSet(s) /\ IsFiniteSet({0})
  BY FinitePart, FS_Singleton
<1>2. \A j : Level(v, s, j) \in Int
  <2>1. \A j : {k \in s : k <= j} \in SUBSET (1..n)
    OBVIOUS
  <2>2. QED
    BY <2>1, SumIs DEF Level
<1>3. \A i, j : Change(v, s, i, j) \in Int
  <2> SUFFICES ASSUME NEW i, NEW j PROVE Change(v, s, i, j) \in Int
    OBVIOUS
  <2>1. PICK U : U = {k \in s : i <= k /\ k <= j}
    OBVIOUS
  <2>2. U \in SUBSET (1..n)
    BY <2>1
  <2>3. QED
    BY <2>1, <2>2, SumIs DEF Change
<1>4. IsFiniteSet({Level(v, s, j) : j \in s})
  <2>1. PICK g : g = [j \in s |-> Level(v, s, j)]
    OBVIOUS
  <2>2. g \in Surjection(s, {Level(v, s, j) : j \in s})
    BY <2>1 DEF Surjection
  <2>3. QED
    BY <1>1, <2>2, FS_Surjection
<1>5. IsFiniteSet({-Change(v, s, z[1], z[2]) : z \in s \X s})
  <2>1. PICK g : g = [z \in s \X s |-> -Change(v, s, z[1], z[2])]
    OBVIOUS
  <2>2. g \in Surjection(s \X s, {-Change(v, s, z[1], z[2]) : z \in s \X s})
    BY <2>1 DEF Surjection
  <2>3. IsFiniteSet(s \X s)
    BY <1>1, FS_Product
  <2>4. QED
    BY <2>2, <2>3, FS_Surjection
<1>6. IsFiniteSet(Heights(v, s)) /\ IsFiniteSet(Falls(v, s))
  <2>1. PICK A, B, C : /\ A = {Level(v, s, j) : j \in s}
                       /\ B = {-Change(v, s, z[1], z[2]) : z \in s \X s}
                       /\ C = {0}
    OBVIOUS
  <2>2. IsFiniteSet(C \cup A) /\ IsFiniteSet(C \cup B)
    BY <1>1, <1>4, <1>5, <2>1, FS_Union
  <2>3. QED
    BY <2>1, <2>2 DEF Heights, Falls
<1>7. QED
  BY <1>2, <1>3, <1>6 DEF Heights, Falls

\* The part of the positions s before one of them, and the part from it on.
LEMMA Parts ==
  ASSUME NEW n \in Nat, NEW v \in [1..n -> Int], NEW s \in SUBSET (1..n),
         NEW U \in SUBSET s
  PROVE  SumFunctionOnSet(v, s) = SumFunctionOnSet(v, s \ U) + SumFunctionOnSet(v, U)
<1>1. s \ U \in SUBSET (1..n) /\ U \in SUBSET (1..n) /\ (s \ U) \cap U = {}
  OBVIOUS
<1>2. SumFunctionOnSet(v, (s \ U) \cup U) = SumFunctionOnSet(v, s \ U) + SumFunctionOnSet(v, U)
  BY <1>1, SumParts
<1>3. (s \ U) \cup U = s
  OBVIOUS
<1>4. QED
  BY <1>2, <1>3

\* Before any position i of s the running total was one of the heights.
LEMMA BeforeIsHeight ==
  ASSUME NEW n \in Nat, NEW v \in [1..n -> Int], NEW s \in SUBSET (1..n), NEW i \in s
  PROVE  SumFunctionOnSet(v, {k \in s : k < i}) \in Heights(v, s)
<1>1. PICK L : L = {k \in s : k < i}
  OBVIOUS
<1>2. L \in SUBSET (1..n)
  BY <1>1
<1>3. CASE L = {}
  <2>1. SumFunctionOnSet(v, L) = 0
    BY <1>2, <1>3, SumIs
  <2>2. QED
    BY <1>1, <2>1 DEF Heights
<1>4. CASE L # {}
  <2>1. PICK j \in L : \A y \in L : j >= y
    BY <1>2, <1>4, EndsOf
  <2>2. L = {k \in s : k <= j} /\ j \in s
    <3>1. \A k \in s : k \in Int /\ i \in Int
      OBVIOUS
    <3>2. j \in s /\ j < i
      BY <1>1, <2>1
    <3>3. ASSUME NEW k \in s PROVE k \in L <=> k <= j
      BY <1>1, <2>1, <3>1, <3>2, <3>3
    <3>4. QED
      BY <1>1, <3>2, <3>3
  <2>3. SumFunctionOnSet(v, L) = Level(v, s, j)
    BY <2>2 DEF Level
  <2>4. QED
    BY <1>1, <2>2, <2>3 DEF Heights
<1>5. QED
  BY <1>3, <1>4

\* From any height of s to its end the total has changed by one of the falls.
LEMMA HeightToFall ==
  ASSUME NEW n \in Nat, NEW v \in [1..n -> Int], NEW s \in SUBSET (1..n),
         NEW x \in s, \A y \in s : x >= y, NEW h \in Heights(v, s)
  PROVE  h - SumFunctionOnSet(v, s) \in Falls(v, s)
<1>1. PICK L \in SUBSET s : h = SumFunctionOnSet(v, L) /\ \A a \in L, b \in s \ L : a < b
  <2>1. CASE h = 0
    <3>1. PICK L : L = {}
      OBVIOUS
    <3>2. L \in SUBSET (1..n) /\ L \in SUBSET s
      BY <3>1
    <3>3. SumFunctionOnSet(v, L) = 0
      BY <3>1, <3>2, SumIs
    <3>4. QED
      BY <2>1, <3>1, <3>2, <3>3
  <2>2. ASSUME NEW j \in s, h = Level(v, s, j)
        PROVE  \E L \in SUBSET s : h = SumFunctionOnSet(v, L) /\ \A a \in L, b \in s \ L : a < b
    <3>1. PICK L : L = {k \in s : k <= j}
      OBVIOUS
    <3>2. h = SumFunctionOnSet(v, L)
      BY <2>2, <3>1 DEF Level
    <3>3. L \in SUBSET s /\ \A a \in L, b \in s \ L : a < b
      BY <3>1
    <3>4. QED
      BY <3>2, <3>3
  <2>3. QED
    BY <2>1, <2>2 DEF Heights
<1>2. PICK U : U = s \ L
  OBVIOUS
<1>3. U \in SUBSET s /\ U \in SUBSET (1..n) /\ s \ U = L /\ L \in SUBSET (1..n)
  BY <1>2
<1>4. PICK a \in Int, b \in Int, r \in Int :
         a = SumFunctionOnSet(v, L) /\ b = SumFunctionOnSet(v, U) /\ r = SumFunctionOnSet(v, s)
  BY <1>3, SumIs
<1>5. r = a + b
  <2>1. SumFunctionOnSet(v, s) = SumFunctionOnSet(v, s \ U) + SumFunctionOnSet(v, U)
    BY <1>3, Parts
  <2>2. QED
    BY <1>3, <1>4, <2>1
<1>6. h - SumFunctionOnSet(v, s) = -b
  BY <1>1, <1>4, <1>5
<1>7. CASE U = {}
  <2>1. SumFunctionOnSet(v, U) = 0
    BY <1>3, <1>7, SumIs
  <2>2. QED
    BY <1>4, <1>6, <2>1 DEF Falls
<1>8. CASE U # {}
  <2>1. PICK i \in U : \A y \in U : i <= y
    BY <1>3, <1>8, EndsOf
  <2>2. U = {k \in s : i <= k /\ k <= x} /\ i \in s
    <3>1. \A k \in s : k \in Int
      OBVIOUS
    <3>2. i \in s /\ i \notin L /\ i \in s \ L
      BY <1>2, <2>1
    <3>3. ASSUME NEW k \in s PROVE k \in U <=> (i <= k /\ k <= x)
      <4>1. CASE k \in U
        BY <2>1, <4>1
      <4>2. CASE k \notin U
        <5>1. k \in L /\ k < i
          BY <1>1, <1>2, <3>2, <4>2
        <5>2. QED
          BY <3>1, <3>2, <4>2, <5>1
      <4>3. QED
        BY <4>1, <4>2
    <3>4. QED
      BY <1>3, <3>2, <3>3
  <2>3. b = Change(v, s, i, x)
    BY <1>4, <2>2 DEF Change
  <2>4. <<i, x>> \in s \X s /\ -b = -Change(v, s, <<i, x>>[1], <<i, x>>[2])
    BY <2>2, <2>3
  <2>5. QED
    BY <1>6, <2>4 DEF Falls
<1>9. QED
  BY <1>7, <1>8

\* What falls from i to j in s falls in its part r before x too, unless x is
\* an end of it.
LEMMA FallsBefore ==
  ASSUME NEW n \in Nat, NEW v \in [1..n -> Int], NEW s \in SUBSET (1..n),
         NEW x \in s, \A y \in s : x >= y, NEW i \in s, NEW j \in s \ {x}
  PROVE  -Change(v, s, i, j) \in Falls(v, s \ {x})
<1>1. PICK U : U = {k \in s : i <= k /\ k <= j}
  OBVIOUS
<1>2. j < x /\ U \in SUBSET (1..n)
  <2>1. x \in Int /\ j \in Int /\ x >= j /\ j # x
    OBVIOUS
  <2>2. j < x
    BY <2>1
  <2>3. QED
    BY <1>1, <2>2
<1>3. CASE i = x
  <2>1. U = {}
    BY <1>1, <1>2, <1>3
  <2>2. SumFunctionOnSet(v, U) = 0
    BY <1>2, <2>1, SumIs
  <2>3. Change(v, s, i, j) = 0
    BY <1>1, <2>2 DEF Change
  <2>4. -Change(v, s, i, j) = 0
    <3>1. PICK c \in Int : c = Change(v, s, i, j)
      BY <2>3
    <3>2. -c = 0
      <4>1. PICK d \in Int : d = -c
        OBVIOUS
      <4>2. d + c = 0
        BY <4>1
      <4>3. c = 0
        BY <2>3, <3>1
      <4>4. d = 0
        BY <4>2, <4>3
      <4>5. QED
        BY <4>1, <4>4
    <3>3. QED
      BY <3>1, <3>2
  <2>5. QED
    BY <2>4 DEF Falls
<1>4. CASE i # x
  <2>1. U = {k \in s \ {x} : i <= k /\ k <= j}
    BY <1>1, <1>2
  <2>2. Change(v, s, i, j) = Change(v, s \ {x}, i, j)
    BY <1>1, <2>1 DEF Change
  <2>3. /\ <<i, j>> \in (s \ {x}) \X (s \ {x})
        /\ -Change(v, s, i, j) = -Change(v, s \ {x}, <<i, j>>[1], <<i, j>>[2])
    BY <1>4, <2>2
  <2>4. QED
    BY <2>3 DEF Falls
<1>5. QED
  BY <1>3, <1>4

\* And the other way round.
LEMMA FallsStay ==
  ASSUME NEW n \in Nat, NEW v \in [1..n -> Int], NEW s \in SUBSET (1..n),
         NEW x \in s, \A y \in s : x >= y
  PROVE  Falls(v, s \ {x}) \subseteq Falls(v, s)
<1>1. ASSUME NEW f \in Falls(v, s \ {x}), f # 0 PROVE f \in Falls(v, s)
  <2>1. PICK z \in (s \ {x}) \X (s \ {x}) : f = -Change(v, s \ {x}, z[1], z[2])
    BY <1>1 DEF Falls
  <2>2. PICK i \in s \ {x}, j \in s \ {x} : i = z[1] /\ j = z[2]
    OBVIOUS
  <2>3. j < x
    OBVIOUS
  <2>4. {k \in s : i <= k /\ k <= j} = {k \in s \ {x} : i <= k /\ k <= j}
    BY <2>3
  <2>5. Change(v, s \ {x}, i, j) = Change(v, s, i, j)
    BY <2>4 DEF Change
  <2>6. <<i, j>> \in s \X s /\ f = -Change(v, s, <<i, j>>[1], <<i, j>>[2])
    BY <2>1, <2>2, <2>5
  <2>7. QED
    BY <2>6 DEF Falls
<1>2. 0 \in Falls(v, s)
  BY DEF Falls
<1>3. QED
  BY <1>1, <1>2

\* The heights of s are those before x and the total.
LEMMA HeightsGrow ==
  ASSUME NEW n \in Nat, NEW v \in [1..n -> Int], NEW s \in SUBSET (1..n),
         NEW x \in s, \A y \in s : x >= y
  PROVE  Heights(v, s) = Heights(v, s \ {x}) \cup {SumFunctionOnSet(v, s)}
<1>1. \A j \in s \ {x} : Level(v, s, j) = Level(v, s \ {x}, j)
  <2> SUFFICES ASSUME NEW j \in s \ {x} PROVE Level(v, s, j) = Level(v, s \ {x}, j)
    OBVIOUS
  <2>1. j < x
    OBVIOUS
  <2>2. {k \in s : k <= j} = {k \in s \ {x} : k <= j}
    BY <2>1
  <2>3. QED
    BY <2>2 DEF Level
<1>2. Level(v, s, x) = SumFunctionOnSet(v, s)
  <2>1. {k \in s : k <= x} = s
    OBVIOUS
  <2>2. QED
    BY <2>1 DEF Level
<1>3. QED
  BY <1>1, <1>2 DEF Heights

\* One value of the loop.
LEMMA DrawnStep ==
  ASSUME NEW n \in Nat, NEW v \in [1..n -> Int], NEW s \in SUBSET (1..n),
         NEW x \in s, \A y \in s : x >= y
  PROVE  DrawnAfter(v, s) = Drawn(DrawnAfter(v, s \ {x}), v[x])
<1>1. PICK r \in SUBSET (1..n) : r = s \ {x}
  OBVIOUS
<1>2. PICK a \in Int, b \in Int : a = SumFunctionOnSet(v, s) /\ b = SumFunctionOnSet(v, r)
  BY <1>1, SumIs
<1>3. a = b + v[x] /\ v[x] \in Int
  <2>1. SumFunctionOnSet(v, s) = v[x] + SumFunctionOnSet(v, s \ {x}) /\ v[x] \in Int
    BY SumIs
  <2>2. QED
    BY <1>1, <1>2, <2>1
<1>4. PICK p \in Int, q \in Int : p = Max(Heights(v, s)) /\ q = Max(Falls(v, r))
  BY <1>1, HeightsAndFalls, MaxOf
<1>5. Max(Heights(v, s)) = Greater(Max(Heights(v, r)), a)
  <2>1. Heights(v, s) = Heights(v, r) \cup {a}
    BY <1>1, <1>2, HeightsGrow
  <2>2. /\ Heights(v, r) \in SUBSET Int /\ IsFiniteSet(Heights(v, r))
        /\ Heights(v, r) # {}
    BY HeightsAndFalls
  <2>3. QED
    BY <2>1, <2>2, MaxOneMore
<1>6. p \in Heights(v, s) /\ \A h \in Heights(v, s) : p >= h
  BY <1>4, HeightsAndFalls, MaxOf
<1>7. q \in Falls(v, r) /\ \A f \in Falls(v, r) : q >= f
  BY <1>1, <1>4, HeightsAndFalls, MaxOf
<1>8. PICK m \in Int : m = Greater(q, p - a)
  <2>1. p - a \in Int
    OBVIOUS
  <2>2. Greater(q, p - a) \in Int
    BY <2>1 DEF Greater
  <2>3. QED
    BY <2>2
<1>9. m \in Falls(v, s)
  <2>1. q \in Falls(v, s)
    BY <1>1, <1>7, FallsStay
  <2>2. p - a \in Falls(v, s)
    BY <1>2, <1>6, HeightToFall
  <2>3. QED
    BY <1>8, <2>1, <2>2 DEF Greater
<1>10. m >= q /\ m >= p - a
  BY <1>8 DEF Greater
<1>11. \A f \in Falls(v, s) : m >= f
  <2>1. m >= 0
    <3>1. q >= 0
      BY <1>1, <1>7, HeightsAndFalls
    <3>2. QED
      BY <1>10, <3>1
  <2>2. ASSUME NEW i \in s, NEW j \in s PROVE m >= -Change(v, s, i, j)
    <3>1. PICK c \in Int : c = Change(v, s, i, j)
      <4>1. PICK U : U = {k \in s : i <= k /\ k <= j}
        OBVIOUS
      <4>2. U \in SUBSET (1..n)
        BY <4>1
      <4>3. QED
        BY <4>1, <4>2, SumIs DEF Change
    <3>2. CASE j # x
      <4>1. -c \in Falls(v, r)
        BY <1>1, <3>1, <3>2, FallsBefore
      <4>2. q >= -c
        BY <1>7, <4>1
      <4>3. QED
        BY <1>10, <3>1, <4>2
    <3>3. CASE j = x
      <4>1. PICK L, U : L = {k \in s : k < i} /\ U = {k \in s : i <= k /\ k <= j}
        OBVIOUS
      <4>2. U \in SUBSET s /\ L = s \ U /\ L \in SUBSET (1..n)
        <5>1. \A k \in s : k \in Int /\ i \in Int /\ j >= k
          BY <3>3
        <5>2. \A k \in s : k < i <=> ~ (i <= k /\ k <= j)
          BY <5>1
        <5>3. QED
          BY <4>1, <5>2
      <4>3. SumFunctionOnSet(v, s) = SumFunctionOnSet(v, s \ U) + SumFunctionOnSet(v, U)
        BY <4>2, Parts
      <4>4. PICK h \in Int : h = SumFunctionOnSet(v, L)
        BY <4>2, SumIs
      <4>5. a = h + c
        BY <1>2, <3>1, <4>1, <4>2, <4>3, <4>4 DEF Change
      <4>6. h \in Heights(v, s)
        BY <4>1, <4>4, BeforeIsHeight
      <4>7. p >= h
        BY <1>6, <4>6
      <4>8. QED
        BY <1>10, <3>1, <4>5, <4>7
    <3>4. QED
      BY <3>2, <3>3
  <2>3. QED
    <3> SUFFICES ASSUME NEW z \in s \X s PROVE m >= -Change(v, s, z[1], z[2])
      BY <2>1 DEF Falls
    <3>1. z[1] \in s /\ z[2] \in s
      OBVIOUS
    <3>2. QED
      BY <2>2, <3>1
<1>12. Max(Falls(v, s)) = m
  <2>1. Falls(v, s) \in SUBSET Int
    BY HeightsAndFalls
  <2>2. QED
    BY <1>9, <1>11, <2>1, MaxIs
<1>13. Max(Falls(v, s)) = Greater(Max(Falls(v, r)), Max(Heights(v, s)) - a)
  BY <1>4, <1>8, <1>12
<1>14. PICK d : d = DrawnAfter(v, r)
  OBVIOUS
<1>15. /\ d.running = b /\ d.peak = Max(Heights(v, r)) /\ d.maximum = Max(Falls(v, r))
  BY <1>2, <1>14 DEF DrawnAfter
<1>16. Drawn(d, v[x]) = [running |-> a, peak |-> Max(Heights(v, s)), maximum |-> Max(Falls(v, s))]
  BY <1>3, <1>5, <1>13, <1>15 DEF Drawn
<1>17. QED
  BY <1>1, <1>2, <1>14, <1>16 DEF DrawnAfter

\* The recursive function under the loop.
DrawnStart == [running |-> 0, peak |-> 0, maximum |-> 0]
Drawing(v, S, h) ==
    h = [s \in SUBSET S |->
            IF s = {} THEN DrawnStart ELSE Drawn(h[s \ {Max(s)}], v[Max(s)])]

LEMMA DrawnStarts ==
  ASSUME NEW n \in Nat, NEW v \in [1..n -> Int]
  PROVE  DrawnAfter(v, {}) = DrawnStart
<1>1. PICK s \in SUBSET (1..n) : s = {}
  OBVIOUS
<1>2. SumFunctionOnSet(v, s) = 0
  BY <1>1, SumIs
<1>3. PICK S : S = {0}
  OBVIOUS
<1>4. Heights(v, s) = S /\ Falls(v, s) = S
  BY <1>1, <1>3 DEF Heights, Falls
<1>5. S \in SUBSET Int /\ \A y \in S : 0 >= y
  BY <1>3
<1>6. PICK z \in S : z = 0
  BY <1>3
<1>7. Max(S) = z
  BY <1>5, <1>6, MaxIs
<1>8. QED
  BY <1>1, <1>2, <1>4, <1>6, <1>7 DEF DrawnAfter, DrawnStart

LEMMA DrawnDraws ==
  ASSUME NEW n \in Nat, NEW v \in [1..n -> Int]
  PROVE  Drawing(v, 1..n, [s \in SUBSET (1..n) |-> DrawnAfter(v, s)])
<1> DEFINE h == [s \in SUBSET (1..n) |-> DrawnAfter(v, s)]
<1>1. ASSUME NEW s \in SUBSET (1..n)
      PROVE  h[s] = IF s = {} THEN DrawnStart ELSE Drawn(h[s \ {Max(s)}], v[Max(s)])
  <2>1. CASE s = {}
    BY <2>1, DrawnStarts
  <2>2. CASE s # {}
    <3>1. PICK x \in s : x = Max(s) /\ \A y \in s : x >= y
      BY <2>2, LastCandle
    <3>2. DrawnAfter(v, s) = Drawn(DrawnAfter(v, s \ {x}), v[x])
      BY <3>1, DrawnStep
    <3>3. h[s \ {x}] = DrawnAfter(v, s \ {x}) /\ h[s] = DrawnAfter(v, s)
      OBVIOUS
    <3>4. QED
      BY <2>2, <3>1, <3>2, <3>3
  <2>3. QED
    BY <2>1, <2>2
<1>2. h = [s \in SUBSET (1..n) |->
              IF s = {} THEN DrawnStart ELSE Drawn(h[s \ {Max(s)}], v[Max(s)])]
  BY <1>1
<1>3. QED
  BY <1>2 DEF Drawing

LEMMA OneDrawing ==
  ASSUME NEW n \in Nat, NEW v \in [1..n -> Int], NEW h, Drawing(v, 1..n, h)
  PROVE  \A s \in SUBSET (1..n) : h[s] = DrawnAfter(v, s)
<1> DEFINE B == {s \in SUBSET (1..n) : h[s] # DrawnAfter(v, s)}
<1> SUFFICES ASSUME B # {} PROVE FALSE
  OBVIOUS
<1>1. PICK s \in B : \A r \in B : Cardinality(s) <= Cardinality(r)
  <2>1. \A r \in B : IsFiniteSet(r)
    <3> SUFFICES ASSUME NEW r \in B PROVE IsFiniteSet(r)
      OBVIOUS
    <3>1. r \in SUBSET (1..n)
      OBVIOUS
    <3>2. QED
      BY <3>1, FinitePart
  <2> HIDE DEF B
  <2>2. QED
    BY <2>1, Fewest
<1>2. s \in SUBSET (1..n) /\ h[s] # DrawnAfter(v, s)
  OBVIOUS
<1>3. h[s] = IF s = {} THEN DrawnStart ELSE Drawn(h[s \ {Max(s)}], v[Max(s)])
  BY <1>2 DEF Drawing
<1>4. s # {}
  BY <1>2, <1>3, DrawnStarts
<1>5. PICK x \in s : x = Max(s) /\ \A y \in s : x >= y
  BY <1>2, <1>4, LastCandle
<1>6. DrawnAfter(v, s) = Drawn(DrawnAfter(v, s \ {x}), v[x])
  BY <1>2, <1>5, DrawnStep
<1>7. s \ {x} \in B
  BY <1>2, <1>3, <1>4, <1>5, <1>6
<1>8. Cardinality(s) <= Cardinality(s \ {x})
  BY <1>1, <1>7
<1>9. Cardinality(s \ {x}) = Cardinality(s) - 1 /\ Cardinality(s) \in Nat
  <2>1. IsFiniteSet(s)
    BY <1>2, FinitePart
  <2>2. QED
    BY <1>5, <2>1, FS_RemoveElement, FS_CardinalityType
<1>10. QED
  BY <1>8, <1>9

\* _sequence_max_drawdown: the largest fall of the running total.
LEMMA DrawdownIs ==
  ASSUME NEW n \in Nat, NEW v \in [1..n -> Int]
  PROVE  SequenceMaxDrawdown(v) = Max(Drops(v))
<1> DEFINE h == CHOOSE g : Drawing(v, 1..n, g)
<1>1. SequenceMaxDrawdown(v) = h[1..n].maximum
  BY DEF SequenceMaxDrawdown, FoldLeft, MapThenFoldSet, Drawing, DrawnStart
<1>2. Drawing(v, 1..n, h)
  BY DrawnDraws
<1> HIDE DEF h
<1>3. h[1..n] = DrawnAfter(v, 1..n)
  BY <1>2, OneDrawing
<1>4. SequenceMaxDrawdown(v) = Max(Falls(v, 1..n))
  BY <1>1, <1>3 DEF DrawnAfter
<1>5. \A i, j \in 1..n : Change(v, 1..n, i, j) = SumFunctionOnSet(v, i..j)
  <2> SUFFICES ASSUME NEW i \in 1..n, NEW j \in 1..n
               PROVE  Change(v, 1..n, i, j) = SumFunctionOnSet(v, i..j)
    OBVIOUS
  <2>1. {k \in 1..n : i <= k /\ k <= j} = i..j
    OBVIOUS
  <2>2. QED
    BY <2>1 DEF Change
<1>6. \A y \in Falls(v, 1..n) : y \in Drops(v)
  BY <1>5 DEF Falls, Drops
<1>7. \A y \in Drops(v) : y \in Falls(v, 1..n)
  <2>1. ASSUME NEW i \in 1..n, NEW j \in 1..n PROVE -SumFunctionOnSet(v, i..j) \in Falls(v, 1..n)
    <3>1. /\ <<i, j>> \in (1..n) \X (1..n)
          /\ -SumFunctionOnSet(v, i..j) = -Change(v, 1..n, <<i, j>>[1], <<i, j>>[2])
      BY <1>5
    <3>2. QED
      BY <3>1 DEF Falls
  <2>2. 0 \in Falls(v, 1..n)
    BY DEF Falls
  <2>3. QED
    BY <2>1, <2>2 DEF Drops
<1>8. Falls(v, 1..n) = Drops(v)
  BY <1>6, <1>7
<1>9. QED
  BY <1>4, <1>8

-----------------------------------------------------------------------------
(* The median                                                              *)

\* Positions in an order in which the values never fall.
Arranges(v, p) == \A i, j \in DOMAIN p : i < j => p[i] # p[j] /\ v[p[i]] <= v[p[j]]

LEMMA ArrangementExists ==
  ASSUME NEW n \in Nat, NEW v \in [1..n -> Int], NEW S \in SUBSET (1..n)
  PROVE  \E p \in [1..Cardinality(S) -> S] : Arranges(v, p)
<1> DEFINE Arranged(T) == \E p \in [1..Cardinality(T) -> T] : Arranges(v, p)
           B == {T \in SUBSET S : ~ Arranged(T)}
<1> SUFFICES ASSUME B # {} PROVE FALSE
  OBVIOUS
<1>1. \A T \in SUBSET S : IsFiniteSet(T) /\ Cardinality(T) \in Nat
  <2> SUFFICES ASSUME NEW T \in SUBSET S PROVE IsFiniteSet(T) /\ Cardinality(T) \in Nat
    OBVIOUS
  <2>1. T \in SUBSET (1..n)
    OBVIOUS
  <2>2. QED
    BY <2>1, FinitePart
<1>2. PICK T \in B : \A U \in B : Cardinality(T) <= Cardinality(U)
  <2>1. \A U \in B : IsFiniteSet(U)
    BY <1>1
  <2> HIDE DEF B
  <2>2. QED
    BY <2>1, Fewest
<1>3. T \in SUBSET S /\ ~ Arranged(T)
  OBVIOUS
<1>4. CASE T = {}
  <2>1. Cardinality(T) = 0
    BY <1>4, FS_EmptySet
  <2>2. PICK p : p = [i \in 1..0 |-> 0]
    OBVIOUS
  <2>3. p \in [1..Cardinality(T) -> T] /\ Arranges(v, p)
    BY <2>1, <2>2 DEF Arranges
  <2>4. QED
    BY <1>3, <2>3
<1>5. CASE T # {}
  <2>1. PICK x \in T : \A y \in T : v[x] >= v[y]
    <3>1. PICK g, V : g = [y \in T |-> v[y]] /\ V = {v[y] : y \in T}
      OBVIOUS
    <3>2. g \in Surjection(T, V)
      BY <3>1 DEF Surjection
    <3>3. IsFiniteSet(V)
      BY <1>1, <1>3, <3>2, FS_Surjection
    <3>4. V \in SUBSET Int /\ V # {}
      BY <1>3, <1>5, <3>1
    <3>5. PICK m \in V : \A z \in V : m >= z
      BY <3>3, <3>4, Greatest
    <3>6. QED
      BY <3>1, <3>5
  <2>2. PICK m \in Nat : m = Cardinality(T \ {x}) /\ Cardinality(T) = m + 1
    <3>1. T \ {x} \in SUBSET S
      BY <1>3
    <3>2. Cardinality(T \ {x}) \in Nat /\ Cardinality(T) \in Nat
      BY <1>1, <1>3, <3>1
    <3>3. Cardinality(T \ {x}) = Cardinality(T) - 1
      BY <1>1, <1>3, FS_RemoveElement
    <3>4. QED
      BY <3>2, <3>3
  <2>3. T \ {x} \notin B
    <3>1. T \ {x} \in B => Cardinality(T) <= Cardinality(T \ {x})
      BY <1>2
    <3> HIDE DEF B
    <3>2. QED
      BY <2>2, <3>1
  <2>4. PICK r \in [1..m -> T \ {x}] : Arranges(v, r)
    BY <1>3, <2>2, <2>3
  <2>5. PICK p : p = [i \in 1..(m + 1) |-> IF i = m + 1 THEN x ELSE r[i]]
    OBVIOUS
  <2>6. \A i \in 1..(m + 1) : i # m + 1 => i \in 1..m /\ p[i] = r[i] /\ r[i] \in T \ {x}
    BY <2>4, <2>5
  <2>7. p \in [1..(m + 1) -> T]
    BY <2>5, <2>6
  <2>8. Arranges(v, p)
    <3> SUFFICES ASSUME NEW i \in 1..(m + 1), NEW j \in 1..(m + 1), i < j
                 PROVE  p[i] # p[j] /\ v[p[i]] <= v[p[j]]
      BY <2>5 DEF Arranges
    <3>1. i # m + 1
      OBVIOUS
    <3>2. i \in 1..m /\ p[i] = r[i] /\ r[i] \in T \ {x}
      BY <2>6, <3>1
    <3>3. CASE j = m + 1
      <4>1. p[j] = x /\ v[p[i]] \in Int /\ v[x] \in Int
        BY <1>3, <2>5, <3>2, <3>3
      <4>2. QED
        BY <2>1, <3>2, <4>1
    <3>4. CASE j # m + 1
      <4>1. j \in 1..m /\ p[j] = r[j]
        BY <2>6, <3>4
      <4>2. QED
        BY <2>4, <3>2, <4>1 DEF Arranges
    <3>5. QED
      BY <3>3, <3>4
  <2>9. QED
    BY <1>3, <2>2, <2>7, <2>8
<1>6. QED
  BY <1>4, <1>5

\* What sorted gives: the values at the positions in some order.
LEMMA SortedIs ==
  ASSUME NEW n \in Nat, NEW v \in [1..n -> Int]
  PROVE  \E p \in Bijection(1..n, 1..n) : Arranges(v, p) /\ Sorted(v) = [i \in 1..n |-> v[p[i]]]
<1>1. PICK a \in Int, b \in Int : a = 1 /\ b = n
  OBVIOUS
<1>2. IsFiniteSet(a..b) /\ Cardinality(a..b) = n
  BY <1>1, FS_Interval
<1>3. PICK p \in [1..n -> 1..n] : Arranges(v, p)
  <2>1. PICK S \in SUBSET (1..n) : S = 1..n
    OBVIOUS
  <2>2. Cardinality(S) = n
    BY <1>1, <1>2, <2>1
  <2>3. QED
    BY <2>1, <2>2, ArrangementExists
<1>4. p \in [a..b -> a..b]
  BY <1>1, <1>3
<1>5. \A i, j \in a..b : p[i] = p[j] => i = j
  <2> SUFFICES ASSUME NEW i \in a..b, NEW j \in a..b, p[i] = p[j], i # j PROVE FALSE
    OBVIOUS
  <2>1. i < j \/ j < i
    BY <1>1
  <2>2. QED
    BY <1>3, <1>4, <2>1 DEF Arranges
<1>6. p \in Injection(a..b, a..b)
  BY <1>4, <1>5, Fun_IsInj
<1>7. p \in Surjection(a..b, a..b)
  BY <1>2, <1>6, FS_Injection
<1>8. p \in Bijection(1..n, 1..n)
  BY <1>1, <1>6, <1>7 DEF Bijection
<1> DEFINE Orders(q) == /\ q \in Bijection(DOMAIN v, DOMAIN v)
                        /\ \A i, j \in DOMAIN v : i < j => v[q[i]] <= v[q[j]]
           order == CHOOSE q : Orders(q)
<1>9. Orders(p)
  BY <1>3, <1>8 DEF Arranges
<1>10. Orders(order)
  BY <1>9
<1>11. Sorted(v) = [i \in 1..n |-> v[order[i]]]
  BY DEF Sorted
<1> HIDE DEF order
<1>12. order \in Bijection(1..n, 1..n)
  BY <1>10
<1>13. order \in [1..n -> 1..n] /\ \A i, j \in 1..n : order[i] = order[j] => i = j
  <2>1. PICK D : D = 1..n
    OBVIOUS
  <2>2. order \in Bijection(D, D)
    BY <1>12, <2>1
  <2>3. order \in [D -> D] /\ \A i, j \in D : order[i] = order[j] => i = j
    BY <2>2, Fun_BijectionProperties
  <2>4. QED
    BY <2>1, <2>3
<1>14. Arranges(v, order)
  <2> SUFFICES ASSUME NEW i \in 1..n, NEW j \in 1..n, i < j
               PROVE  order[i] # order[j] /\ v[order[i]] <= v[order[j]]
    BY <1>13 DEF Arranges
  <2>1. i # j
    OBVIOUS
  <2>2. v[order[i]] <= v[order[j]]
    BY <1>10
  <2>3. QED
    BY <1>13, <2>1, <2>2
<1>15. QED
  BY <1>11, <1>12, <1>14

\* Different positions i, taken to a set T, are as many elements of it.
LEMMA AsMany ==
  ASSUME NEW n \in Nat, NEW p \in [1..n -> 1..n], \A i, j \in 1..n : i < j => p[i] # p[j],
         NEW a \in 1..n, NEW b \in 1..n, NEW T \in SUBSET (1..n), \A i \in a..b : p[i] \in T
  PROVE  Cardinality(T) \in Nat /\ Cardinality(T) >= b - a + 1
<1>1. PICK I : I = a..b
  OBVIOUS
<1>2. IsFiniteSet(I) /\ Cardinality(I) = IF a > b THEN 0 ELSE b - a + 1
  BY <1>1, FS_Interval
<1>3. IsFiniteSet(T) /\ Cardinality(T) \in Nat
  BY FinitePart
<1>4. PICK q : q = [i \in I |-> p[i]]
  OBVIOUS
<1>5. q \in [I -> T]
  BY <1>1, <1>4
<1>6. \A i, j \in I : q[i] = q[j] => i = j
  <2> SUFFICES ASSUME NEW i \in I, NEW j \in I, q[i] = q[j], i # j PROVE FALSE
    OBVIOUS
  <2>1. i \in 1..n /\ j \in 1..n /\ p[i] = p[j]
    BY <1>1, <1>4
  <2>2. i < j \/ j < i
    BY <2>1
  <2>3. QED
    BY <2>1, <2>2
<1>7. q \in Injection(I, T)
  BY <1>5, <1>6, Fun_IsInj
<1>8. Cardinality(I) <= Cardinality(T)
  BY <1>3, <1>7, FS_Injection
<1>9. QED
  BY <1>2, <1>3, <1>8

\* _median: half the values on each side.
LEMMA MedianIs ==
  ASSUME NEW n \in Nat, n # 0, NEW v \in [1..n -> Int], NEW m, m = TwiceMedian(v)
  PROVE  /\ 2 * Cardinality({i \in 1..n : 2 * v[i] <= m}) >= n
         /\ 2 * Cardinality({i \in 1..n : 2 * v[i] >= m}) >= n
<1>1. PICK p \in Bijection(1..n, 1..n) :
         Arranges(v, p) /\ Sorted(v) = [i \in 1..n |-> v[p[i]]]
  BY SortedIs
<1>2. p \in [1..n -> 1..n]
  <2>1. PICK D : D = 1..n
    OBVIOUS
  <2>2. p \in Bijection(D, D)
    BY <2>1
  <2>3. p \in [D -> D]
    BY <2>2, Fun_BijectionProperties
  <2>4. QED
    BY <2>1, <2>3
<1>3. \A i, j \in 1..n : i < j => p[i] # p[j] /\ v[p[i]] <= v[p[j]]
  BY <1>1, <1>2 DEF Arranges
<1>4. PICK s : s = Sorted(v) /\ Len(s) = n /\ \A i \in 1..n : s[i] = v[p[i]] /\ s[i] \in Int
  BY <1>1, <1>2
<1>5. PICK h \in Nat : h = n \div 2 /\ (IF n % 2 = 1 THEN n = 2 * h + 1 ELSE n = 2 * h /\ h # 0)
  OBVIOUS
<1>6. PICK A, B : A = {i \in 1..n : 2 * v[i] <= m} /\ B = {i \in 1..n : 2 * v[i] >= m}
  OBVIOUS
<1>7. m = IF n % 2 = 1 THEN 2 * s[h + 1] ELSE s[h] + s[h + 1]
  BY <1>4, <1>5 DEF TwiceMedian
<1>8. \A i, j \in 1..n : i <= j => s[i] <= s[j]
  <2> SUFFICES ASSUME NEW i \in 1..n, NEW j \in 1..n, i <= j PROVE s[i] <= s[j]
    OBVIOUS
  <2>1. i < j \/ i = j
    OBVIOUS
  <2>2. QED
    BY <1>3, <1>4, <2>1
<1>9. PICK a \in 1..n, b \in 1..n : a = 1 /\ b = n
  OBVIOUS
<1>10. A \in SUBSET (1..n) /\ B \in SUBSET (1..n)
  BY <1>6
<1>11. CASE n = 2 * h + 1
  <2>1. PICK k \in 1..n : k = h + 1 /\ m = 2 * s[k]
    BY <1>5, <1>7, <1>11
  <2>2. \A i \in a..k : p[i] \in A
    <3> SUFFICES ASSUME NEW i \in a..k PROVE p[i] \in A
      OBVIOUS
    <3>1. i \in 1..n /\ i <= k
      BY <1>9
    <3>2. s[i] <= s[k] /\ s[i] \in Int /\ s[k] \in Int /\ s[i] = v[p[i]] /\ p[i] \in 1..n
      BY <1>2, <1>4, <1>8, <3>1
    <3>3. 2 * s[i] <= 2 * s[k]
      <4>1. PICK x \in Int, y \in Int : x = s[i] /\ y = s[k]
        BY <3>2
      <4>2. x <= y
        BY <3>2, <4>1
      <4>3. 2 * x <= 2 * y
        BY <4>2
      <4>4. QED
        BY <4>1, <4>3
    <3>4. QED
      BY <1>6, <2>1, <3>2, <3>3
  <2>3. \A i \in k..b : p[i] \in B
    <3> SUFFICES ASSUME NEW i \in k..b PROVE p[i] \in B
      OBVIOUS
    <3>1. i \in 1..n /\ k <= i
      BY <1>9
    <3>2. s[i] >= s[k] /\ s[i] \in Int /\ s[k] \in Int /\ s[i] = v[p[i]] /\ p[i] \in 1..n
      BY <1>2, <1>4, <1>8, <3>1
    <3>3. 2 * s[i] >= 2 * s[k]
      <4>1. PICK x \in Int, y \in Int : x = s[i] /\ y = s[k]
        BY <3>2
      <4>2. x >= y
        BY <3>2, <4>1
      <4>3. 2 * x >= 2 * y
        BY <4>2
      <4>4. QED
        BY <4>1, <4>3
    <3>4. QED
      BY <1>6, <2>1, <3>2, <3>3
  <2>4. Cardinality(A) \in Nat /\ Cardinality(A) >= k - a + 1
    BY <1>2, <1>3, <1>10, <2>2, AsMany
  <2>5. Cardinality(B) \in Nat /\ Cardinality(B) >= b - k + 1
    BY <1>2, <1>3, <1>10, <2>3, AsMany
  <2>6. QED
    BY <1>6, <1>9, <1>11, <2>1, <2>4, <2>5
<1>12. CASE n = 2 * h /\ h # 0
  <2>1. PICK k \in 1..n, l \in 1..n : k = h /\ l = h + 1 /\ m = s[k] + s[l]
    <3>1. n % 2 # 1
      BY <1>5, <1>12
    <3>2. QED
      BY <1>5, <1>7, <1>12, <3>1
  <2>2. \A i \in a..k : p[i] \in A
    <3> SUFFICES ASSUME NEW i \in a..k PROVE p[i] \in A
      OBVIOUS
    <3>1. i \in 1..n /\ i <= k /\ i <= l
      BY <1>9, <2>1
    <3>2. /\ s[i] <= s[k] /\ s[i] <= s[l] /\ s[i] \in Int /\ s[k] \in Int /\ s[l] \in Int
          /\ s[i] = v[p[i]] /\ p[i] \in 1..n
      BY <1>2, <1>4, <1>8, <3>1
    <3>3. 2 * s[i] <= s[k] + s[l]
      <4>1. PICK x \in Int, y \in Int, z \in Int : x = s[i] /\ y = s[k] /\ z = s[l]
        BY <3>2
      <4>2. x <= y /\ x <= z
        BY <3>2, <4>1
      <4>3. 2 * x <= y + z
        BY <4>2
      <4>4. QED
        BY <4>1, <4>3
    <3>4. QED
      BY <1>6, <2>1, <3>2, <3>3
  <2>3. \A i \in l..b : p[i] \in B
    <3> SUFFICES ASSUME NEW i \in l..b PROVE p[i] \in B
      OBVIOUS
    <3>1. i \in 1..n /\ k <= i /\ l <= i
      BY <1>9, <2>1
    <3>2. /\ s[i] >= s[k] /\ s[i] >= s[l] /\ s[i] \in Int /\ s[k] \in Int /\ s[l] \in Int
          /\ s[i] = v[p[i]] /\ p[i] \in 1..n
      BY <1>2, <1>4, <1>8, <3>1
    <3>3. 2 * s[i] >= s[k] + s[l]
      <4>1. PICK x \in Int, y \in Int, z \in Int : x = s[i] /\ y = s[k] /\ z = s[l]
        BY <3>2
      <4>2. x >= y /\ x >= z
        BY <3>2, <4>1
      <4>3. 2 * x >= y + z
        BY <4>2
      <4>4. QED
        BY <4>1, <4>3
    <3>4. QED
      BY <1>6, <2>1, <3>2, <3>3
  <2>4. Cardinality(A) \in Nat /\ Cardinality(A) >= k - a + 1
    BY <1>2, <1>3, <1>10, <2>2, AsMany
  <2>5. Cardinality(B) \in Nat /\ Cardinality(B) >= b - l + 1
    BY <1>2, <1>3, <1>10, <2>3, AsMany
  <2>6. QED
    BY <1>6, <1>9, <1>12, <2>1, <2>4, <2>5
<1>13. QED
  BY <1>5, <1>11, <1>12

-----------------------------------------------------------------------------
(* The summary                                                             *)

\* Three parts of the positions.
LEMMA SumThree ==
  ASSUME NEW n \in Nat, NEW v \in [1..n -> Int], NEW W \in SUBSET (1..n),
         NEW L \in SUBSET (1..n), NEW Z \in SUBSET (1..n),
         W \cap (L \cup Z) = {}, L \cap Z = {}
  PROVE  SumFunctionOnSet(v, W \cup (L \cup Z)) =
            SumFunctionOnSet(v, W) + (SumFunctionOnSet(v, L) + SumFunctionOnSet(v, Z))
<1>1. SumFunctionOnSet(v, L \cup Z) = SumFunctionOnSet(v, L) + SumFunctionOnSet(v, Z)
  BY SumParts
<1>2. PICK R \in SUBSET (1..n) : R = L \cup Z
  OBVIOUS
<1>3. W \cap R = {}
  BY <1>2
<1>4. SumFunctionOnSet(v, W \cup R) = SumFunctionOnSet(v, W) + SumFunctionOnSet(v, R)
  BY <1>3, SumParts
<1>5. QED
  BY <1>1, <1>2, <1>4

\* What is won, at the positions W, and what is lost, at L.
WonAt(v, W) == \A i \in DOMAIN v : i \in W <=> v[i] > 0
LostAt(v, L) == \A i \in DOMAIN v : i \in L <=> v[i] < 0

LEMMA WonAndLost ==
  ASSUME NEW n \in Nat, NEW v \in [1..n -> Int],
         NEW W \in SUBSET (1..n), WonAt(v, W), NEW L \in SUBSET (1..n), LostAt(v, L)
  PROVE  \E w, l \in Int : /\ w = SumFunctionOnSet(v, W) /\ w >= 0 /\ (w > 0 <=> W # {})
                           /\ l = SumFunctionOnSet(v, L) /\ l <= 0 /\ (l < 0 <=> L # {})
                           /\ SumFunctionOnSet(v, 1..n) = w + l
<1>1. PICK Z \in SUBSET (1..n) : \A i \in 1..n : i \in Z <=> v[i] = 0
  <2>1. {i \in 1..n : v[i] = 0} \in SUBSET (1..n)
    OBVIOUS
  <2>2. QED
    BY <2>1
<1>2. W \cap (L \cup Z) = {} /\ L \cap Z = {} /\ W \cup (L \cup Z) = 1..n
  <2>1. \A i \in 1..n : v[i] \in Int
    OBVIOUS
  <2>2. \A i \in 1..n : i \in W \/ i \in L \/ i \in Z
    BY <1>1, <2>1 DEF WonAt, LostAt
  <2>3. \A i \in 1..n : ~ (i \in W /\ i \in L) /\ ~ (i \in W /\ i \in Z) /\ ~ (i \in L /\ i \in Z)
    BY <1>1, <2>1 DEF WonAt, LostAt
  <2>4. QED
    BY <2>2, <2>3
<1>3. PICK x \in Int, y \in Int, z \in Int :
         /\ x = SumFunctionOnSet(v, W) /\ y = SumFunctionOnSet(v, L)
         /\ z = SumFunctionOnSet(v, Z)
  BY SumIs
<1>4. x >= 0 /\ (x > 0 <=> W # {})
  <2>1. CASE W = {}
    <3>1. x = 0
      BY <1>3, <2>1, SumIs
    <3>2. QED
      BY <2>1, <3>1
  <2>2. CASE W # {}
    <3>1. PICK G \in SUBSET Int : G = {k \in Int : k > 0}
      OBVIOUS
    <3>2. (\A a, b \in G : a + b \in G) /\ (\A i \in W : v[i] \in G)
      BY <3>1 DEF WonAt
    <3>3. x \in G
      BY <1>3, <2>2, <3>2, SumStays
    <3>4. QED
      BY <2>2, <3>1, <3>3
  <2>3. QED
    BY <2>1, <2>2
<1>5. y <= 0 /\ (y < 0 <=> L # {})
  <2>1. CASE L = {}
    <3>1. y = 0
      BY <1>3, <2>1, SumIs
    <3>2. QED
      BY <2>1, <3>1
  <2>2. CASE L # {}
    <3>1. PICK G \in SUBSET Int : G = {k \in Int : k < 0}
      OBVIOUS
    <3>2. (\A a, b \in G : a + b \in G) /\ (\A i \in L : v[i] \in G)
      BY <3>1 DEF LostAt
    <3>3. y \in G
      BY <1>3, <2>2, <3>2, SumStays
    <3>4. QED
      BY <2>2, <3>1, <3>3
  <2>3. QED
    BY <2>1, <2>2
<1>6. z = 0
  <2>1. CASE Z = {}
    BY <1>3, <2>1, SumIs
  <2>2. CASE Z # {}
    <3>1. PICK G \in SUBSET Int : G = {k \in Int : k = 0}
      OBVIOUS
    <3>2. (\A a, b \in G : a + b \in G) /\ (\A i \in Z : v[i] \in G)
      BY <1>1, <3>1
    <3>3. z \in G
      BY <1>3, <2>2, <3>2, SumStays
    <3>4. QED
      BY <3>1, <3>3
  <2>3. QED
    BY <2>1, <2>2
<1>7. SumFunctionOnSet(v, W \cup (L \cup Z)) =
         SumFunctionOnSet(v, W) + (SumFunctionOnSet(v, L) + SumFunctionOnSet(v, Z))
  <2>1. W \cap (L \cup Z) = {} /\ L \cap Z = {}
    BY <1>2
  <2>2. QED
    BY <2>1, SumThree
<1>8. SumFunctionOnSet(v, 1..n) = x + y
  <2>1. x + (y + z) = x + y
    BY <1>6
  <2>2. QED
    BY <1>2, <1>3, <1>7, <2>1
<1>9. QED
  BY <1>3, <1>4, <1>5, <1>8

\* What a summary relies on: an outcome is resolved, and then won or lost, or
\* has no realized multiple.
Plain(o) ==
    /\ o.status \in Status
    /\ o.status = "TAKE_PROFIT_REACHED" => o.realized \in Int /\ o.realized > 0
    /\ o.status = "STOP_LOSS_REACHED" => o.realized \in Int /\ o.realized < 0
    /\ o.status \in {"AMBIGUOUS_INTRABAR", "UNRESOLVED_HORIZON"} => o.realized = None

\* The positions with a status.
With(ordered, status) == {i \in DOMAIN ordered : ordered[i].status = status}
Known(ordered) == {i \in DOMAIN ordered : ordered[i].realized # None}

\* Every position is counted once.
LEMMA StatusesCount ==
  ASSUME NEW n \in Nat, NEW q, DOMAIN q = 1..n, \A i \in 1..n : Plain(q[i]), None \notin Int,
         NEW a, a = Cardinality(With(q, "TAKE_PROFIT_REACHED")),
         NEW b, b = Cardinality(With(q, "STOP_LOSS_REACHED")),
         NEW c, c = Cardinality(With(q, "AMBIGUOUS_INTRABAR")),
         NEW d, d = Cardinality(With(q, "UNRESOLVED_HORIZON"))
  PROVE  /\ a \in Nat /\ b \in Nat /\ c \in Nat /\ d \in Nat
         /\ a + b + c + d = n
         /\ Cardinality(Known(q)) = a + b
         /\ a = 0 <=> With(q, "TAKE_PROFIT_REACHED") = {}
         /\ b = 0 <=> With(q, "STOP_LOSS_REACHED") = {}
<1>1. PICK A, B, C, D, E, F, G :
         /\ A = With(q, "TAKE_PROFIT_REACHED") /\ B = With(q, "STOP_LOSS_REACHED")
         /\ C = With(q, "AMBIGUOUS_INTRABAR") /\ D = With(q, "UNRESOLVED_HORIZON")
         /\ E = A \cup B /\ F = C \cup D /\ G = E \cup F
  OBVIOUS
<1>2. /\ A \in SUBSET (1..n) /\ B \in SUBSET (1..n) /\ C \in SUBSET (1..n)
      /\ D \in SUBSET (1..n) /\ E \in SUBSET (1..n) /\ F \in SUBSET (1..n)
  BY <1>1 DEF With
<1>3. A \cap B = {} /\ C \cap D = {} /\ E \cap F = {}
  BY <1>1 DEF With
<1>4. \A i \in 1..n : i \in G
  BY <1>1 DEF With, Plain, Status
<1>5. G = 1..n
  BY <1>1, <1>2, <1>4
<1>6. Known(q) = E
  <2>1. \A i \in E : q[i].realized # None
    BY <1>1 DEF With, Plain
  <2>2. \A i \in F : q[i].realized = None
    BY <1>1 DEF With, Plain
  <2>3. QED
    BY <1>1, <1>2, <1>4, <2>1, <2>2 DEF Known
<1>7. \A S \in SUBSET (1..n) : /\ IsFiniteSet(S) /\ Cardinality(S) \in Nat
                               /\ Cardinality(S) = 0 <=> S = {}
  <2>1. \A S \in SUBSET (1..n) : IsFiniteSet(S) /\ Cardinality(S) \in Nat
    BY FinitePart
  <2>2. QED
    BY <2>1, FS_EmptySet
<1>8. \A S, T \in SUBSET (1..n) : S \cap T = {} =>
         Cardinality(S \cup T) = Cardinality(S) + Cardinality(T)
  <2> SUFFICES ASSUME NEW S \in SUBSET (1..n), NEW T \in SUBSET (1..n), S \cap T = {}
               PROVE  Cardinality(S \cup T) = Cardinality(S) + Cardinality(T)
    OBVIOUS
  <2>1. Cardinality(S \cup T) = Cardinality(S) + Cardinality(T) - Cardinality(S \cap T)
    BY <1>7, FS_Union
  <2>2. Cardinality(S \cap T) = 0
    BY FS_EmptySet
  <2>3. PICK x \in Nat, y \in Nat : x = Cardinality(S) /\ y = Cardinality(T)
    BY <1>7
  <2>4. QED
    BY <2>1, <2>2, <2>3
<1>9. Cardinality(E) = a + b /\ Cardinality(F) = c + d
  BY <1>1, <1>2, <1>3, <1>8
<1>10. Cardinality(G) = Cardinality(E) + Cardinality(F)
  BY <1>1, <1>2, <1>3, <1>8
<1>11. Cardinality(G) = n
  <2>1. PICK x \in Int, y \in Int : x = 1 /\ y = n
    OBVIOUS
  <2>2. Cardinality(x..y) = n
    BY <2>1, FS_Interval
  <2>3. QED
    BY <1>5, <2>1, <2>2
<1>12. a \in Nat /\ b \in Nat /\ c \in Nat /\ d \in Nat
  BY <1>1, <1>2, <1>7
<1>13. a + b + c + d = n
  BY <1>9, <1>10, <1>11, <1>12
<1>14. QED
  BY <1>1, <1>2, <1>6, <1>7, <1>9, <1>12, <1>13

\* The realized multiples, in order: those of the won and the lost outcomes.
LEMMA RealizedIs ==
  ASSUME NEW n \in Nat, NEW q, DOMAIN q = 1..n, \A i \in 1..n : Plain(q[i]), None \notin Int,
         NEW v, v = KnownMultiples(q), NEW m, m = Cardinality(Known(q))
  PROVE  /\ m \in Nat /\ v \in [1..m -> Int] /\ Len(v) = m
         /\ {k \in 1..m : v[k] > 0} # {} <=> With(q, "TAKE_PROFIT_REACHED") # {}
         /\ {k \in 1..m : v[k] < 0} # {} <=> With(q, "STOP_LOSS_REACHED") # {}
<1>1. PICK K, s : K = Known(q) /\ s = Ascending(K)
  OBVIOUS
<1>2. K \in SUBSET (1..n)
  BY <1>1 DEF Known
<1>3. K \in SUBSET Nat /\ IsFiniteSet(K)
  BY <1>2, FinitePart
<1>4. /\ m \in Nat /\ s \in [1..m -> K]
      /\ \A x \in K : \E k \in 1..m : s[k] = x
  BY <1>1, <1>3, AscendingIs
<1>5. \A i \in K : /\ q[i].realized \in Int
                   /\ q[i].realized > 0 <=> i \in With(q, "TAKE_PROFIT_REACHED")
                   /\ q[i].realized < 0 <=> i \in With(q, "STOP_LOSS_REACHED")
  <2> SUFFICES ASSUME NEW i \in K
               PROVE  /\ q[i].realized \in Int
                      /\ q[i].realized > 0 <=> q[i].status = "TAKE_PROFIT_REACHED"
                      /\ q[i].realized < 0 <=> q[i].status = "STOP_LOSS_REACHED"
    BY <1>2 DEF With
  <2>1. i \in 1..n /\ q[i].realized # None /\ Plain(q[i])
    BY <1>1, <1>2 DEF Known
  <2>2. q[i].status \in {"TAKE_PROFIT_REACHED", "STOP_LOSS_REACHED"}
    BY <2>1 DEF Plain, Status
  <2>3. CASE q[i].status = "TAKE_PROFIT_REACHED"
    <3>1. q[i].realized \in Int /\ q[i].realized > 0
      BY <2>1, <2>3 DEF Plain
    <3>2. ~ (q[i].realized < 0)
      BY <3>1
    <3>3. QED
      BY <2>3, <3>1, <3>2
  <2>4. CASE q[i].status = "STOP_LOSS_REACHED"
    <3>1. q[i].realized \in Int /\ q[i].realized < 0
      BY <2>1, <2>4 DEF Plain
    <3>2. ~ (q[i].realized > 0)
      BY <3>1
    <3>3. QED
      BY <2>4, <3>1, <3>2
  <2>5. QED
    BY <2>2, <2>3, <2>4
<1>6. \A i \in With(q, "TAKE_PROFIT_REACHED") \cup With(q, "STOP_LOSS_REACHED") : i \in K
  BY <1>1 DEF With, Known, Plain
<1>7. v = [k \in 1..m |-> q[s[k]].realized]
  <2>1. DOMAIN s = 1..m
    BY <1>4
  <2>2. v = [k \in DOMAIN s |-> q[s[k]].realized]
    BY <1>1 DEF KnownMultiples, Known
  <2>3. QED
    BY <2>1, <2>2
<1>8. v \in [1..m -> Int] /\ Len(v) = m
  BY <1>4, <1>5, <1>7
<1>9. \A k \in 1..m : s[k] \in K /\ v[k] = q[s[k]].realized
  BY <1>4, <1>7
<1>10. {k \in 1..m : v[k] > 0} # {} <=> With(q, "TAKE_PROFIT_REACHED") # {}
  <2>1. ASSUME NEW k \in 1..m, v[k] > 0 PROVE With(q, "TAKE_PROFIT_REACHED") # {}
    BY <1>5, <1>9, <2>1
  <2>2. ASSUME NEW i \in With(q, "TAKE_PROFIT_REACHED") PROVE \E k \in 1..m : v[k] > 0
    BY <1>4, <1>5, <1>6, <1>9
  <2>3. QED
    BY <2>1, <2>2
<1>11. {k \in 1..m : v[k] < 0} # {} <=> With(q, "STOP_LOSS_REACHED") # {}
  <2>1. ASSUME NEW k \in 1..m, v[k] < 0 PROVE With(q, "STOP_LOSS_REACHED") # {}
    BY <1>5, <1>9, <2>1
  <2>2. ASSUME NEW i \in With(q, "STOP_LOSS_REACHED") PROVE \E k \in 1..m : v[k] < 0
    BY <1>4, <1>5, <1>6, <1>9
  <2>3. QED
    BY <2>1, <2>2
<1>12. QED
  BY <1>4, <1>8, <1>10, <1>11

\* The result, part by part.
LEMMA SummaryFields ==
  ASSUME NEW q
  PROVE  LET r == PerformanceSummary(q)
             v == KnownMultiples(q)
             w == SumFunctionOnSet(v, {k \in DOMAIN v : v[k] > 0})
             l == -SumFunctionOnSet(v, {k \in DOMAIN v : v[k] < 0})
         IN  /\ r.wins = Cardinality(With(q, "TAKE_PROFIT_REACHED"))
             /\ r.losses = Cardinality(With(q, "STOP_LOSS_REACHED"))
             /\ r.ambiguous = Cardinality(With(q, "AMBIGUOUS_INTRABAR"))
             /\ r.unresolved = Cardinality(With(q, "UNRESOLVED_HORIZON"))
             /\ r.values = v /\ r.won = w /\ r.lost = l
             /\ r.profitFactor = CASE l > 0 -> "VALID"
                                   [] l = 0 /\ w > 0 -> "UNBOUNDED"
                                   [] OTHER -> "UNAVAILABLE"
             /\ r.cumulative = IF v = <<>> THEN None ELSE Total(v)
             /\ r.median2 = IF v = <<>> THEN None ELSE TwiceMedian(v)
             /\ r.drawdown = IF v = <<>> THEN None ELSE SequenceMaxDrawdown(v)
  BY DEF PerformanceSummary, SummaryOf, With

LEMMA SummaryIs ==
  ASSUME NEW n \in Nat, NEW q, DOMAIN q = 1..n, \A i \in 1..n : Plain(q[i]), None \notin Int,
         NEW r, r = PerformanceSummary(q)
  PROVE  Right(r, n)
<1>1. PICK v, a, b, c, d, w, y :
         /\ v = KnownMultiples(q)
         /\ a = Cardinality(With(q, "TAKE_PROFIT_REACHED"))
         /\ b = Cardinality(With(q, "STOP_LOSS_REACHED"))
         /\ c = Cardinality(With(q, "AMBIGUOUS_INTRABAR"))
         /\ d = Cardinality(With(q, "UNRESOLVED_HORIZON"))
         /\ w = SumFunctionOnSet(v, {k \in DOMAIN v : v[k] > 0})
         /\ y = SumFunctionOnSet(v, {k \in DOMAIN v : v[k] < 0})
  OBVIOUS
<1> DEFINE l == -y
<1>2. l = -y
  OBVIOUS
<1> HIDE DEF l
<1>3. /\ r.wins = a /\ r.losses = b /\ r.ambiguous = c /\ r.unresolved = d
      /\ r.values = v /\ r.won = w /\ r.lost = l
      /\ r.profitFactor = CASE l > 0 -> "VALID"
                            [] l = 0 /\ w > 0 -> "UNBOUNDED"
                            [] OTHER -> "UNAVAILABLE"
      /\ v # <<>> => /\ r.cumulative = Total(v) /\ r.median2 = TwiceMedian(v)
                     /\ r.drawdown = SequenceMaxDrawdown(v)
  BY <1>1, SummaryFields DEF l
<1>4. /\ a \in Nat /\ b \in Nat /\ c \in Nat /\ d \in Nat
      /\ a + b + c + d = n /\ Cardinality(Known(q)) = a + b
      /\ a = 0 <=> With(q, "TAKE_PROFIT_REACHED") = {}
      /\ b = 0 <=> With(q, "STOP_LOSS_REACHED") = {}
  BY <1>1, StatusesCount
<1>5. PICK m \in Nat : m = a + b /\ m = Cardinality(Known(q))
  BY <1>4
<1>6. PICK W, L : W = {k \in 1..m : v[k] > 0} /\ L = {k \in 1..m : v[k] < 0}
  OBVIOUS
<1>7. /\ v \in [1..m -> Int] /\ Len(v) = m /\ DOMAIN v = 1..m
      /\ W # {} <=> a # 0
      /\ L # {} <=> b # 0
  <2>1. /\ v \in [1..m -> Int] /\ Len(v) = m
        /\ {k \in 1..m : v[k] > 0} # {} <=> With(q, "TAKE_PROFIT_REACHED") # {}
        /\ {k \in 1..m : v[k] < 0} # {} <=> With(q, "STOP_LOSS_REACHED") # {}
    BY <1>1, <1>5, RealizedIs
  <2>2. QED
    BY <1>4, <1>6, <2>1
<1>8. /\ w \in Int /\ w >= 0 /\ (w > 0 <=> W # {})
      /\ l \in Int /\ l >= 0 /\ (l > 0 <=> L # {})
      /\ SumFunctionOnSet(v, 1..m) = w - l
  <2>1. w = SumFunctionOnSet(v, W) /\ y = SumFunctionOnSet(v, L)
    BY <1>1, <1>6, <1>7
  <2>2. v \in [1..m -> Int] /\ W \in SUBSET (1..m) /\ L \in SUBSET (1..m)
    BY <1>6, <1>7
  <2>3. WonAt(v, W) /\ LostAt(v, L)
    BY <1>6, <1>7 DEF WonAt, LostAt
  <2>4. PICK x \in Int, z \in Int :
           /\ x = SumFunctionOnSet(v, W) /\ x >= 0 /\ (x > 0 <=> W # {})
           /\ z = SumFunctionOnSet(v, L) /\ z <= 0 /\ (z < 0 <=> L # {})
           /\ SumFunctionOnSet(v, 1..m) = x + z
    BY <2>2, <2>3, WonAndLost
  <2>5. l = -z /\ w = x
    BY <1>2, <2>1, <2>4
  <2>6. PICK k \in Int : k = -z
    OBVIOUS
  <2>7. k >= 0 /\ (k > 0 <=> z < 0) /\ x + z = x - k
    <3>1. z <= 0
      BY <2>4
    <3>2. QED
      BY <2>6, <3>1
  <2>8. l = k
    BY <2>5, <2>6
  <2>9. QED
    BY <2>4, <2>5, <2>7, <2>8
<1>9. (r.profitFactor = "UNBOUNDED") = (a > 0 /\ b = 0)
  <2>1. (r.profitFactor = "UNBOUNDED") <=> (w > 0 /\ l = 0)
    BY <1>3, <1>8
  <2>2. (w > 0 /\ l = 0) <=> (a # 0 /\ b = 0)
    BY <1>7, <1>8
  <2>3. a > 0 <=> a # 0
    BY <1>4
  <2>4. QED
    BY <2>1, <2>2, <2>3
<1>10. ASSUME v # <<>>
       PROVE  /\ r.cumulative = w - l /\ r.drawdown = Max(Drops(v))
              /\ 2 * Cardinality({i \in 1..m : 2 * v[i] <= r.median2}) >= m
              /\ 2 * Cardinality({i \in 1..m : 2 * v[i] >= r.median2}) >= m
  <2>1. m # 0
    BY <1>7, <1>10
  <2>2. Total(v) = w - l
    BY <1>7, <1>8 DEF Total, SumFunction
  <2>3. SequenceMaxDrawdown(v) = Max(Drops(v))
    BY <1>7, DrawdownIs
  <2>4. PICK t : t = TwiceMedian(v)
    OBVIOUS
  <2>5. /\ 2 * Cardinality({i \in 1..m : 2 * v[i] <= t}) >= m
        /\ 2 * Cardinality({i \in 1..m : 2 * v[i] >= t}) >= m
    BY <1>7, <2>1, <2>4, MedianIs
  <2>6. QED
    BY <1>3, <1>10, <2>2, <2>3, <2>4, <2>5
<1>11. QED
  BY <1>3, <1>4, <1>5, <1>7, <1>9, <1>10 DEF Right

\* The multiple of a target that the risk divides is positive.
LEMMA PositiveMultiple ==
  ASSUME NEW a \in Int, a > 0, NEW u \in Int, u > 0, a % u = 0
  PROVE  a \div u \in Int /\ a \div u > 0
<1>1. PICK k \in Int : k = a \div u
  OBVIOUS
<1>2. a = u * k + (a % u)
  BY <1>1
<1>3. a = u * k
  BY <1>2
<1>4. ASSUME k <= 0 PROVE u * k <= 0
  BY <1>4
<1>5. k > 0
  BY <1>3, <1>4
<1>6. QED
  BY <1>1, <1>5

LEMMA OutcomesArePlain ==
  ASSUME ReplayInv, NEW o \in outcomes
  PROVE  Plain(o)
<1>1. PICK w, k : w = WindowOf(o, o.horizon) /\ k = LastOf(o.proposal, w)
  OBVIOUS
<1>2. o.status = Verdict(o.proposal, w)
  BY <1>1, OutcomeIsVerdict
<1>3. o.status \in Status
  BY <1>2 DEF Verdict, Status
<1>4. PICK p : p = o.proposal
  OBVIOUS
<1>5. OutcomeOK(o)
  BY DEF ReplayInv
<1>6. p \in Proposals /\ HasLevels(p) /\ ValidGeometry(p)
  BY <1>4, <1>5 DEF OutcomeOK, DecisionRecord, DecisionOf
<1>7. Levels(p)
  BY <1>6, ProposalLevels
<1>8. o.realized = Realized(p, o.status)
  <2>1. PICK d, v : /\ d = DecisionOf(o) /\ v = WindowOf(o, o.horizon)
                    /\ o = OutcomeOf(d, v, o.horizon)
    BY <1>5 DEF OutcomeOK
  <2>2. d.proposal = p
    BY <1>4, <2>1 DEF DecisionOf
  <2>3. /\ o.status = Walk(d.proposal, v).status
        /\ o.realized = Realized(d.proposal, Walk(d.proposal, v).status)
    BY <2>1 DEF OutcomeOf
  <2>4. QED
    BY <2>2, <2>3
<1>9. PICK r \in Int, t \in Int, u \in Int :
         /\ r = RScale /\ t = Size(p.target, p.entry) /\ u = RiskUnit(p)
         /\ r > 0 /\ t > 0 /\ u > 0
  <2>1. RScale \in Int /\ RScale > 0
    BY DatasetAssumption
  <2>2. Size(p.target, p.entry) \in Int /\ Size(p.target, p.entry) > 0
    BY <1>7 DEF Levels, ValidGeometry, Size
  <2>3. RiskUnit(p) \in Int /\ RiskUnit(p) > 0
    BY <1>7 DEF Levels, ValidGeometry, RiskUnit, Size
  <2>4. QED
    BY <2>1, <2>2, <2>3
<1>10. CASE o.status = "TAKE_PROFIT_REACHED"
  <2>1. PICK a \in Int : a = r * t /\ a > 0
    <3>1. r * t \in Int /\ r * t > 0
      BY <1>9
    <3>2. QED
      BY <3>1
  <2>2. a % u = 0
    <3>1. (RScale * Size(p.target, p.entry)) % RiskUnit(p) = 0
      BY <1>6, ReplayAssumption
    <3>2. QED
      BY <1>9, <2>1, <3>1
  <2>3. a \div u \in Int /\ a \div u > 0
    BY <1>9, <2>1, <2>2, PositiveMultiple
  <2>4. o.realized = (RScale * Size(p.target, p.entry)) \div RiskUnit(p)
    BY <1>8, <1>10 DEF Realized
  <2>5. o.realized = a \div u
    BY <1>9, <2>1, <2>4
  <2>6. QED
    BY <1>3, <1>10, <2>3, <2>5 DEF Plain
<1>11. CASE o.status = "STOP_LOSS_REACHED"
  <2>1. o.realized = -RScale
    BY <1>8, <1>11 DEF Realized
  <2>2. o.realized \in Int /\ o.realized < 0
    BY <1>9, <2>1
  <2>3. QED
    BY <1>3, <1>11, <2>2 DEF Plain
<1>12. CASE o.status \in {"AMBIGUOUS_INTRABAR", "UNRESOLVED_HORIZON"}
  <2>1. o.realized = None
    BY <1>8, <1>12 DEF Realized
  <2>2. QED
    BY <1>3, <1>12, <2>1 DEF Plain
<1>13. QED
  BY <1>3, <1>10, <1>11, <1>12 DEF Status

\* A summary is that of its outcomes, which the repository still holds, in some
\* order.
SummaryOK(s) ==
    /\ s.outcomes \subseteq outcomes
    /\ \E ordered \in SetToSeqs(s.outcomes) : s.result = PerformanceSummary(ordered)

SummaryInv == IsFiniteSet(outcomes) /\ \A s \in summaries : SummaryOK(s)

LEMMA SummaryStarts == Init => SummaryInv
  BY FS_EmptySet DEF Init, SummaryInv

LEMMA SummaryStays ==
  ASSUME SummaryInv, outcomes \subseteq outcomes', IsFiniteSet(outcomes)', summaries' = summaries
  PROVE  SummaryInv'
  BY DEF SummaryInv, SummaryOK

LEMMA SummaryStep == SummaryInv /\ [Next]_vars => SummaryInv'
<1> SUFFICES ASSUME SummaryInv, [Next]_vars PROVE SummaryInv'
  OBVIOUS
<1>1. CASE \E f \in frames, d \in decisions, c \in Config : Evaluate(f, d, c)
  <2>1. PICK o : outcomes' = outcomes \cup {o} /\ summaries' = summaries
    BY <1>1 DEF Evaluate
  <2>2. IsFiniteSet(outcomes)'
    BY <2>1, FS_AddElement DEF SummaryInv
  <2>3. QED
    BY <2>1, <2>2, SummaryStays
<1>2. ASSUME NEW c \in Config, NEW side \in {"BUY", "SELL", None}, Summarize(c, side)
      PROVE  SummaryInv'
  <2>1. PICK group : group = {o \in outcomes : /\ o.replay = c
                                               /\ side # None => o.proposal.side = side}
    OBVIOUS
  <2>2. PICK ordered \in SetToSeqs(group) :
           summaries' = summaries \cup
              {[replay |-> c, outcomes |-> group, result |-> PerformanceSummary(ordered),
                generated |-> Max({o.ended : o \in group})]}
    BY <1>2, <2>1 DEF Summarize
  <2>3. outcomes' = outcomes
    BY <1>2 DEF Summarize
  <2>4. PICK s : /\ s.outcomes = group /\ s.result = PerformanceSummary(ordered)
                 /\ summaries' = summaries \cup {s}
    BY <2>2
  <2>5. SummaryOK(s)'
    BY <2>1, <2>2, <2>3, <2>4 DEF SummaryOK
  <2>6. \A z \in summaries : SummaryOK(z)'
    BY <2>3 DEF SummaryInv, SummaryOK
  <2>7. QED
    BY <2>3, <2>4, <2>5, <2>6 DEF SummaryInv
<1>3. CASE UNCHANGED <<outcomes, summaries>>
  BY <1>3, SummaryStays DEF SummaryInv
<1>4. CASE \E c \in Config, t \in Schedule, n \in EngineCounts : BuildFrame(c, t, n)
  BY <1>3, <1>4 DEF BuildFrame
<1>5. CASE \E f \in frames, p \in Proposals : Freeze(f, p)
  BY <1>3, <1>5 DEF Freeze
<1>6. CASE \E d \in decisions, h \in Horizon : Register(d, h)
  BY <1>3, <1>6 DEF Register
<1>7. CASE \E t \in tracked, o \in outcomes : Attach(t, o)
  BY <1>3, <1>7 DEF Attach
<1>8. CASE UNCHANGED vars
  BY <1>3, <1>8 DEF vars
<1>9. QED
  BY <1>1, <1>2, <1>4, <1>5, <1>6, <1>7, <1>8 DEF Next

LEMMA SummaryAlways == Spec => []SummaryInv
  BY SummaryStarts, SummaryStep, PTL DEF Spec

LEMMA SummariesHold == ReplayInv /\ SummaryInv => SummaryIsRight
<1> SUFFICES ASSUME ReplayInv, SummaryInv, NEW s \in summaries
             PROVE  Right(s.result, Cardinality(s.outcomes))
  BY DEF SummaryIsRight
<1>1. PICK S, q : /\ S = s.outcomes /\ S \subseteq outcomes /\ q \in SetToSeqs(S)
                  /\ s.result = PerformanceSummary(q)
  BY DEF SummaryInv, SummaryOK
<1>2. PICK n \in Nat : n = Cardinality(S)
  BY <1>1, FS_Subset, FS_CardinalityType DEF SummaryInv
<1>3. q \in [1..n -> S]
  BY <1>1, <1>2 DEF SetToSeqs
<1>4. \A i \in 1..n : Plain(q[i])
  BY <1>1, <1>3, OutcomesArePlain
<1>5. None \notin Int
  BY ReplayAssumption
<1>6. PICK r : r = PerformanceSummary(q)
  OBVIOUS
<1>7. DOMAIN q = 1..n
  BY <1>3
<1>8. Right(r, n)
  BY <1>4, <1>5, <1>6, <1>7, SummaryIs
<1>9. QED
  BY <1>1, <1>2, <1>6, <1>8

\* summarize_performance counts every outcome of the replay, or of a direction,
\* once, and reports the total, the median, the drawdown and the profit factor
\* that their definitions give, for any outcomes in any order of their digests.
THEOREM SummariesAreRight == Spec => []SummaryIsRight
  BY ReplayAlways, SummaryAlways, SummariesHold, PTL
=============================================================================
