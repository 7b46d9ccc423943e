-------------------------- MODULE MarketData_proofs --------------------------
(***************************************************************************)
(* Proofs about MarketData, for any timeframes, any shift of the server and *)
(* any corrections of the host clock.                                       *)
(*                                                                         *)
(* A candle that is not the newest ended, by the server's time, at or       *)
(* before the opening of a newer one, and that one holds a trade that has   *)
(* happened.  So no later trade belongs to it.                              *)
(***************************************************************************)
EXTENDS MarketData, FiniteSetTheorems, WellFoundedInduction, TLAPS

CandleRecord == [open : Int, made : SUBSET Nat]

BuildRecord ==
    [step : 1..LastStep, began : Nat, started : Int, low : Int, high : Int,
     account : Int \cup {None}, candles : [Timeframe -> SUBSET CandleRecord],
     position : Int \cup {None}, tick : Int \cup {None}, traded : Int \cup {None},
     read : Int \cup {None}]

\* The candles of tf are over.
Final(tf, candles) ==
    \A c \in candles : c.open \in Int /\ c = Candle(tf, c.open)
                       /\ c.open + DurationOf[tf] <= Label(now)

\* What the reads before step have found.
Found(b, step) ==
    /\ step > 2 => b.account \in Int
    /\ step = LastStep => /\ b.traded \in Int /\ b.read \in Int
                          /\ b.tick = b.traded + offset
    /\ \A tf \in Timeframe : Final(tf, b.candles[tf])
                             /\ (tf + 2 < step => b.candles[tf] # {})

World ==
    /\ now \in 0..MaxTime /\ correction \in Corrections /\ offset \in Offsets
    /\ trades \subseteq 0..now /\ position \in Nat \cup {None} /\ initialized \in BOOLEAN

IInv ==
    /\ World
    /\ OneConnection
    /\ build # None => build \in BuildRecord /\ Found(build, build.step)
    /\ snapshot # None => \A tf \in Timeframe : Final(tf, snapshot.candles[tf])
    /\ FreshIsRecent

-----------------------------------------------------------------------------
(* Candles                                                                 *)

LEMMA Greatest ==
    ASSUME NEW S \in SUBSET Int, S # {}, NEW top \in Int, \A n \in S : n <= top
    PROVE  Max(S) \in S
<1>. DEFINE T == {top - n : n \in S}
<1>1. T \in SUBSET Nat /\ T # {}
  <2>1. \A n \in S : n \in Int /\ top - n \in Nat
    OBVIOUS
  <2>. QED
    BY <2>1
<1>. HIDE DEF T
<1>2. PICK m \in T : \A n \in T : ~ (<<n, m>> \in OpToRel(<, Nat))
  BY <1>1, NatLessThanWellFounded, WFMin, Zenon
<1>3. \A n \in T : m <= n
  <2>1. \A n \in T : ~ (n < m)
    BY <1>1, <1>2 DEF OpToRel
  <2>. QED
    BY <1>1, <2>1
<1>4. PICK s \in S : \A n \in S : top - s <= top - n
  BY <1>2, <1>3 DEF T
<1>5. \A n \in S : s >= n
  BY <1>4
<1>. QED
  BY <1>5 DEF Max

LEMMA Constants ==
    /\ \A tf \in Timeframe : DurationOf[tf] \in Nat \ {0} /\ CountOf[tf] \in Nat \ {0}
                             /\ MaxAgeOf[tf] \in Nat \ {0} /\ tf \in Nat
    /\ Timeframes \in Nat \ {0} /\ LastStep = Timeframes + 5 /\ LastStep \in Nat
    /\ MaxTickAge \in Int /\ None \notin Int
BY MarketAssumption DEF Timeframe, LastStep

LEMMA Times ==
    ASSUME World
    PROVE  /\ now \in Nat /\ Clock \in Int /\ offset \in Int /\ correction \in Int
           /\ Label(now) \in Int
           /\ \A t \in trades : t \in Nat /\ Label(t) \in Int /\ Label(t) <= Label(now)
BY MarketAssumption DEF World, Clock, Label

\* The interval that a label falls into.
LEMMA Interval ==
    ASSUME NEW l \in Int, NEW d \in Nat \ {0}
    PROVE  \E k \in Int : l - (l % d) = d * k /\ d * k <= l
<1>1. l \div d \in Int /\ l % d \in 0..(d - 1)
  OBVIOUS
<1>2. l = d * (l \div d) + (l % d)
  OBVIOUS
<1>. DEFINE k == l \div d
            r == l % d
<1>3. k \in Int /\ r \in Nat /\ l = d * k + r /\ d * k \in Int
  BY <1>1, <1>2
<1>. HIDE DEF k, r
<1>4. l - r = d * k /\ d * k <= l
  BY <1>3
<1>. QED
  BY <1>3, <1>4 DEF r

LEMMA OpensAre ==
    ASSUME World, NEW tf \in Timeframe, NEW o \in Opens(tf)
    PROVE  \E k \in Int : o = DurationOf[tf] * k /\ o \in Int /\ o <= Label(now)
<1>1. PICK t \in trades : o = Label(t) - (Label(t) % DurationOf[tf])
  BY DEF Opens
<1>2. Label(t) \in Int /\ Label(t) <= Label(now) /\ Label(now) \in Int
  BY Times
<1>3. PICK k \in Int : o = DurationOf[tf] * k /\ DurationOf[tf] * k <= Label(t)
  BY <1>1, <1>2, Constants, Interval
<1>4. DurationOf[tf] * k \in Int
  BY <1>3, Constants
<1>. QED
  BY <1>2, <1>3, <1>4

\* A candle of get_candles is over.
LEMMA ReadCandlesAreFinal ==
    ASSUME World, NEW tf \in Timeframe, NEW count \in Nat
    PROVE  Final(tf, GetCandles(tf, count))
<1>. DEFINE d == DurationOf[tf]
<1>1. ASSUME NEW o \in Opens(tf), PositionOf(tf, o) \in 1..count
      PROVE  o \in Int /\ o + d <= Label(now)
  <2>1. PICK q \in Opens(tf) : q > o
    <3>1. {q \in Opens(tf) : q > o} # {}
      BY <1>1, FS_EmptySet DEF PositionOf
    <3>. QED
      BY <3>1
  <2>2. PICK k \in Int : o = d * k /\ o \in Int
    BY OpensAre
  <2>3. PICK j \in Int : q = d * j /\ q \in Int /\ q <= Label(now)
    BY OpensAre
  <2>. HIDE DEF d
  <2>4. d \in Nat \ {0}
    BY Constants DEF d
  <2>5. j > k
    <3>1. j <= k => d * j <= d * k
      BY <2>2, <2>3, <2>4
    <3>. QED
      BY <2>1, <2>2, <2>3, <3>1
  <2>6. d * (k + 1) <= d * j /\ d * (k + 1) = d * k + d
    BY <2>2, <2>3, <2>4, <2>5
  <2>7. Label(now) \in Int
    BY Times
  <2>. QED
    BY <2>2, <2>3, <2>4, <2>6, <2>7
<1>2. \A o : Candle(tf, o).open = o
  BY DEF Candle
<1>. QED
  BY <1>1, <1>2 DEF GetCandles, Final

LEMMA ReadCandlesAreRecords ==
    ASSUME World, NEW tf \in Timeframe, NEW count \in Nat
    PROVE  GetCandles(tf, count) \in SUBSET CandleRecord
<1>1. \A o \in Opens(tf) : o \in Int
  BY OpensAre
<1>2. ASSUME NEW o \in Int PROVE Candle(tf, o) \in CandleRecord
  <2>1. {t \in trades : o <= Label(t) /\ Label(t) < o + DurationOf[tf]} \in SUBSET Nat
    BY Times
  <2>. QED
    BY <2>1 DEF Candle, CandleRecord
<1>. QED
  BY <1>1, <1>2 DEF GetCandles

\* What is over stays as it is: trades come at the present, which only goes on.
LEMMA FinalStays ==
    ASSUME World, NEW tf \in Timeframe, NEW candles, Final(tf, candles), offset' = offset,
           \/ trades' = trades /\ now' \in Int /\ now <= now'
           \/ trades' = trades \cup {now} /\ now' = now
    PROVE  Final(tf, candles)'
<1>. SUFFICES ASSUME NEW c \in candles
              PROVE  (c.open \in Int /\ c = Candle(tf, c.open)
                      /\ c.open + DurationOf[tf] <= Label(now))'
  BY DEF Final
<1>1. c.open \in Int /\ c = Candle(tf, c.open) /\ c.open + DurationOf[tf] <= Label(now)
  BY DEF Final
<1>2. Label(now) \in Int /\ now \in Int /\ offset \in Int /\ DurationOf[tf] \in Int
  BY Times, Constants
<1>3. (c.open + DurationOf[tf] <= Label(now))'
  BY <1>1, <1>2 DEF Label
<1>4. Candle(tf, c.open)' = Candle(tf, c.open)
  <2>1. ~ (Label(now) < c.open + DurationOf[tf])
    BY <1>1, <1>2
  <2>. QED
    BY <2>1 DEF Candle, Label
<1>. QED
  BY <1>1, <1>3, <1>4

-----------------------------------------------------------------------------
(* One lemma per action                                                    *)


\* A read, of which the build goes on as changed.
LEMMA ObserveKeeps ==
    ASSUME IInv, NEW changed \in BuildRecord, changed.step < LastStep,
           Found(changed, changed.step + 1), Observe(changed)
    PROVE  IInv'
<1>1. /\ now' = now /\ correction' = correction /\ offset' = offset /\ trades' = trades
      /\ position' = position /\ initialized' = initialized /\ connections' = connections
      /\ snapshot' = snapshot
  BY DEF Observe, market, client
<1>. DEFINE low == IF Clock < changed.low THEN Clock ELSE changed.low
            high == IF Clock > changed.high THEN Clock ELSE changed.high
            b == [changed EXCEPT !.step = changed.step + 1, !.low = low, !.high = high]
<1>2. build' = b
  BY DEF Observe
<1>3. /\ changed.step + 1 \in 1..LastStep /\ low \in Int /\ high \in Int
  BY Times, Constants DEF BuildRecord, IInv
<1>. HIDE DEF low, high
<1>4. /\ b \in BuildRecord /\ b.step = changed.step + 1 /\ b.account = changed.account
      /\ b.traded = changed.traded /\ b.tick = changed.tick /\ b.read = changed.read
      /\ b.candles = changed.candles
  BY <1>3 DEF BuildRecord
<1>. HIDE DEF b
<1>5. Found(b, b.step)
  BY <1>4 DEF Found
<1>6. \A tf, candles : Final(tf, candles)' <=> Final(tf, candles)
  BY <1>1 DEF Final, Candle, Label
<1>7. (build # None => build \in BuildRecord /\ Found(build, build.step))'
  BY <1>1, <1>2, <1>4, <1>5, <1>6 DEF Found
<1>. QED
  BY <1>1, <1>6, <1>7 DEF IInv, World, OneConnection, FreshIsRecent, Final, Candle, Label

LEMMA ReadKeeps ==
    ASSUME IInv, ReadSymbolInfo \/ ReadAccount \/ (\E tf \in Timeframe : ReadCandles(tf))
                 \/ ReadPositions \/ ReadTick
    PROVE  IInv'
<1>1. build # None => build \in BuildRecord /\ Found(build, build.step) /\ build.step \in Nat
  BY Constants DEF IInv, BuildRecord
<1>2. World
  BY DEF IInv
<1>3. CASE ReadSymbolInfo
  <2>1. build # None /\ build.step = 1
    BY <1>3 DEF ReadSymbolInfo, At
  <2>2. build \in BuildRecord /\ Found(build, 1)
    BY <1>1, <2>1
  <2>3. Found(build, 2) /\ 1 < LastStep
    BY <2>2, Constants DEF Found
  <2>. QED
    BY <1>3, <2>1, <2>2, <2>3, ObserveKeeps DEF ReadSymbolInfo
<1>4. CASE ReadAccount
  <2>. DEFINE b == [build EXCEPT !.account = Clock]
  <2>1. build # None /\ build.step = 2 /\ Observe(b)
    BY <1>4 DEF ReadAccount, At
  <2>2. build \in BuildRecord /\ Found(build, 2) /\ Clock \in Int
    BY <1>1, <1>2, <2>1, Times
  <2>3. b \in BuildRecord /\ b.step = 2 /\ b.account = Clock /\ b.candles = build.candles
    BY <2>1, <2>2 DEF BuildRecord
  <2>. HIDE DEF b
  <2>4. Found(b, 3) /\ 2 < LastStep
    <3>1. 3 > 2 /\ 3 # LastStep /\ 2 < LastStep /\ \A tf \in Timeframe : ~ (tf + 2 < 3)
      BY Constants DEF Timeframe
    <3>. QED
      BY <2>2, <2>3, <3>1 DEF Found
  <2>5. b.step < LastStep /\ Found(b, b.step + 1)
    BY <2>3, <2>4
  <2>. QED
    BY <2>1, <2>3, <2>5, ObserveKeeps
<1>5. ASSUME NEW tf \in Timeframe, ReadCandles(tf) PROVE IInv'
  <2>. DEFINE candles == GetCandles(tf, CountOf[tf])
              b == [build EXCEPT !.candles[tf] = candles]
  <2>1. build # None /\ build.step = tf + 2 /\ Observe(b) /\ Cardinality(candles) = CountOf[tf]
    BY <1>5 DEF ReadCandles, At
  <2>2. build \in BuildRecord /\ Found(build, tf + 2)
    BY <1>1, <2>1
  <2>3. CountOf[tf] \in Nat \ {0} /\ tf \in Nat /\ tf >= 1 /\ tf <= Timeframes
    BY Constants DEF Timeframe
  <2>4. candles \in SUBSET CandleRecord /\ Final(tf, candles) /\ candles # {}
    <3>1. candles \in SUBSET CandleRecord /\ Final(tf, candles)
      BY <1>2, <2>3, ReadCandlesAreFinal, ReadCandlesAreRecords
    <3>. HIDE DEF candles
    <3>. QED
      BY <2>1, <2>3, <3>1, FS_EmptySet
  <2>. HIDE DEF candles
  <2>5. /\ b \in BuildRecord /\ b.step = tf + 2 /\ b.account = build.account
        /\ b.candles = [build.candles EXCEPT ![tf] = candles]
    BY <2>1, <2>2, <2>4 DEF BuildRecord
  <2>. HIDE DEF b
  <2>6. build.candles \in [Timeframe -> SUBSET CandleRecord]
    BY <2>2 DEF BuildRecord
  <2>7. ASSUME NEW i \in Timeframe
        PROVE  Final(i, b.candles[i]) /\ (i + 2 < tf + 3 => b.candles[i] # {})
    <3>1. CASE i = tf
      BY <2>4, <2>5, <2>6, <3>1
    <3>2. CASE i # tf
      <4>1. b.candles[i] = build.candles[i]
        BY <2>5, <2>6, <3>2
      <4>2. i + 2 < tf + 3 => i + 2 < tf + 2
        BY <2>3, <3>2 DEF Timeframe
      <4>. QED
        BY <2>2, <4>1, <4>2 DEF Found
    <3>. QED
      BY <3>1, <3>2
  <2>8. tf + 3 > 2 /\ tf + 3 # LastStep /\ tf + 2 < LastStep /\ b.account \in Int
    <3>1. tf + 2 > 2 /\ tf + 3 > 2 /\ tf + 3 # LastStep /\ tf + 2 < LastStep
      BY <2>3, Constants
    <3>. QED
      BY <2>2, <2>5, <3>1 DEF Found
  <2>9. Found(b, tf + 3)
    BY <2>7, <2>8 DEF Found
  <2>10. tf + 2 + 1 = tf + 3
    BY <2>3
  <2>. QED
    BY <2>1, <2>5, <2>8, <2>9, <2>10, ObserveKeeps
<1>6. CASE ReadPositions
  <2>. DEFINE label == IF position = None THEN None ELSE Label(position)
              b == [build EXCEPT !.position = label]
  <2>1. build # None /\ build.step = Timeframes + 3 /\ Observe(b)
    BY <1>6 DEF ReadPositions, At
  <2>2. build \in BuildRecord /\ Found(build, Timeframes + 3)
    BY <1>1, <2>1
  <2>3. label \in Int \cup {None}
    BY <1>2, Times DEF World, Label
  <2>. HIDE DEF label
  <2>4. /\ b \in BuildRecord /\ b.step = Timeframes + 3 /\ b.account = build.account
        /\ b.candles = build.candles
    BY <2>1, <2>2, <2>3 DEF BuildRecord
  <2>. HIDE DEF b
  <2>5. /\ Timeframes + 3 > 2 /\ Timeframes + 4 # LastStep /\ Timeframes + 3 < LastStep
        /\ \A tf \in Timeframe : tf + 2 < Timeframes + 3
        /\ Timeframes + 3 + 1 = Timeframes + 4
    BY Constants DEF Timeframe
  <2>6. Found(b, Timeframes + 4)
    BY <2>2, <2>4, <2>5 DEF Found
  <2>. QED
    BY <2>1, <2>4, <2>5, <2>6, ObserveKeeps
<1>7. CASE ReadTick
  <2>. DEFINE last == Max(trades)
              b == [build EXCEPT !.tick = Label(last), !.traded = last, !.read = Clock]
  <2>1. build # None /\ build.step = Timeframes + 4 /\ Observe(b) /\ trades # {}
    BY <1>7 DEF ReadTick, At
  <2>2. build \in BuildRecord /\ Found(build, Timeframes + 4)
    BY <1>1, <2>1
  <2>3. last \in Int
    <3>1. trades \in SUBSET Int /\ now \in Int /\ \A t \in trades : t <= now
      BY <1>2 DEF World
    <3>. QED
      BY <2>1, <3>1, Greatest
  <2>. HIDE DEF last
  <2>4. Label(last) \in Int /\ Label(last) = last + offset /\ Clock \in Int
    BY <1>2, <2>3, Times DEF Label
  <2>5. /\ b \in BuildRecord /\ b.step = Timeframes + 4 /\ b.account = build.account
        /\ b.candles = build.candles /\ b.tick = Label(last) /\ b.traded = last /\ b.read = Clock
    BY <2>1, <2>2, <2>3, <2>4 DEF BuildRecord
  <2>. HIDE DEF b
  <2>6. /\ Timeframes + 4 > 2 /\ Timeframes + 5 = LastStep /\ Timeframes + 4 < LastStep
        /\ \A tf \in Timeframe : tf + 2 < Timeframes + 4
        /\ Timeframes + 4 + 1 = LastStep
    BY Constants DEF Timeframe
  <2>7. Found(b, LastStep)
    BY <2>2, <2>3, <2>4, <2>5, <2>6 DEF Found
  <2>. QED
    BY <2>1, <2>5, <2>6, <2>7, ObserveKeeps
<1>. QED
  BY <1>3, <1>4, <1>5, <1>6, <1>7

LEMMA BuildKeeps ==
    ASSUME IInv, BuildSnapshot
    PROVE  IInv'
<1>1. /\ now' = now /\ correction' = correction /\ offset' = offset /\ trades' = trades
      /\ position' = position /\ initialized' = initialized /\ connections' = connections
      /\ snapshot' = snapshot
  BY DEF BuildSnapshot, market, client
<1>. DEFINE b == [step |-> 1, began |-> now, started |-> Clock, low |-> Clock, high |-> Clock,
                  account |-> None, candles |-> [tf \in Timeframe |-> {}], position |-> None,
                  tick |-> None, traded |-> None, read |-> None]
<1>2. build' = b
  BY DEF BuildSnapshot
<1>3. now \in Nat /\ Clock \in Int /\ 1 \in 1..LastStep
  BY Times, Constants DEF IInv
<1>4. b \in BuildRecord /\ b.step = 1 /\ \A tf \in Timeframe : b.candles[tf] = {}
  BY <1>3 DEF BuildRecord
<1>. HIDE DEF b
<1>5. Found(build, 1)'
  <2>1. ~ (1 > 2) /\ 1 # LastStep /\ \A tf \in Timeframe : ~ (tf + 2 < 1)
    BY Constants
  <2>2. \A tf \in Timeframe : build'.candles[tf] = {}
    BY <1>2, <1>4
  <2>3. \A tf \in Timeframe : Final(tf, {})'
    BY DEF Final
  <2>. QED
    BY <2>1, <2>2, <2>3 DEF Found
<1>6. (build # None => build \in BuildRecord /\ Found(build, build.step))'
  BY <1>2, <1>4, <1>5
<1>7. \A tf, candles : Final(tf, candles)' <=> Final(tf, candles)
  BY <1>1 DEF Final, Candle, Label
<1>. QED
  BY <1>1, <1>6, <1>7 DEF IInv, World, OneConnection, FreshIsRecent

LEMMA CompleteKeeps ==
    ASSUME IInv, CompleteSnapshot
    PROVE  IInv'
<1>1. /\ now' = now /\ correction' = correction /\ offset' = offset /\ trades' = trades
      /\ position' = position /\ initialized' = initialized /\ connections' = connections
      /\ build' = None
  BY DEF CompleteSnapshot, market, client
<1>2. build \in BuildRecord /\ Found(build, LastStep)
  BY DEF CompleteSnapshot, At, IInv
<1>3. /\ now \in Int /\ correction \in Int /\ offset \in Int /\ Clock = now + correction
  BY Times DEF IInv, Clock
<1>4. /\ snapshot'.candles = build.candles /\ snapshot'.traded = build.traded
      /\ snapshot'.at = now /\ snapshot'.correction = correction
      /\ snapshot'.fresh => Freshness(build)
  BY Zenon DEF CompleteSnapshot
<1>5. \A tf, candles : Final(tf, candles)' <=> Final(tf, candles)
  BY <1>1 DEF Final, Candle, Label
<1>6. (snapshot # None => \A tf \in Timeframe : Final(tf, snapshot.candles[tf]))'
  <2>1. \A tf \in Timeframe : Final(tf, build.candles[tf])
    BY <1>2 DEF Found
  <2>. QED
    BY <1>4, <1>5, <2>1
<1>7. FreshIsRecent'
  <2>. SUFFICES ASSUME snapshot'.fresh, offset <= correction
                PROVE  /\ now - build.traded <= MaxTickAge
                       /\ \A tf \in Timeframe :
                             now - (Max({c.open : c \in build.candles[tf]})
                                    + DurationOf[tf] - offset) <= MaxAgeOf[tf]
    BY <1>1, <1>4 DEF FreshIsRecent
  <2>1. Freshness(build)
    BY <1>4
  <2>2. now - build.traded <= MaxTickAge
    <3>1. /\ build.traded \in Int /\ build.tick = build.traded + offset
          /\ Clock - build.tick <= MaxTickAge
      BY <1>2, <2>1 DEF Found, Freshness, Fresh
    <3>. QED
      BY <1>3, <3>1, Constants
  <2>3. ASSUME NEW tf \in Timeframe
        PROVE  now - (Max({c.open : c \in build.candles[tf]}) + DurationOf[tf] - offset)
                  <= MaxAgeOf[tf]
    <3>. DEFINE opens == {c.open : c \in build.candles[tf]}
                newest == Max(opens)
    <3>1. tf + 2 < LastStep
      BY Constants DEF Timeframe
    <3>2. Final(tf, build.candles[tf]) /\ build.candles[tf] # {}
      BY <1>2, <3>1 DEF Found
    <3>3. \A c \in build.candles[tf] : c.open \in Int /\ c.open <= Label(now)
      BY <1>3, <3>2, Constants, Times DEF Final, IInv
    <3>4. newest \in Int
      <4>1. opens \in SUBSET Int /\ opens # {} /\ \A o \in opens : o <= Label(now)
        BY <3>2, <3>3
      <4>2. Label(now) \in Int
        BY Times DEF IInv
      <4>. HIDE DEF opens
      <4>. QED
        BY <4>1, <4>2, Greatest
    <3>5. Clock - (newest + DurationOf[tf]) <= MaxAgeOf[tf]
      BY <2>1 DEF Freshness, Fresh, LatestClose
    <3>. HIDE DEF newest
    <3>6. now - (newest + DurationOf[tf] - offset) <= MaxAgeOf[tf]
      BY <1>3, <3>4, <3>5, Constants
    <3>. QED
      BY <3>6 DEF newest
  <2>. QED
    BY <2>2, <2>3
<1>. QED
  BY <1>1, <1>6, <1>7 DEF IInv, World, OneConnection

\* What the world and the client do between the reads.
LEMMA WorldKeeps ==
    ASSUME IInv, UNCHANGED <<offset, build, snapshot>>, World', OneConnection',
           \/ trades' = trades /\ now <= now'
           \/ trades' = trades \cup {now} /\ now' = now
    PROVE  IInv'
<1>1. World /\ now' \in Int
  BY DEF IInv, World
<1>2. \A tf \in Timeframe : \A candles : Final(tf, candles) => Final(tf, candles)'
  BY <1>1, FinalStays
<1>3. (snapshot # None => \A tf \in Timeframe : Final(tf, snapshot.candles[tf]))'
  BY <1>2 DEF IInv
<1>4. (build # None => build \in BuildRecord /\ Found(build, build.step))'
  BY <1>2 DEF IInv, Found
<1>5. FreshIsRecent'
  BY DEF IInv, FreshIsRecent
<1>. QED
  BY <1>3, <1>4, <1>5 DEF IInv

LEMMA Inductive ==
    ASSUME IInv, [Next]_vars
    PROVE  IInv'
<1>1. /\ World /\ OneConnection /\ now \in Int /\ now <= now /\ MaxTime \in Int
  BY MarketAssumption DEF IInv, World
<1>2. ASSUME NEW outcome \in {"ok", "login_failed", "health_failed"}, Initialize(outcome)
      PROVE  IInv'
  <2>1. UNCHANGED <<market, build, snapshot>> /\ initialized' = (outcome = "ok")
    BY <1>2 DEF Initialize
  <2>2. World'
    BY <1>1, <2>1 DEF World, market
  <2>3. OneConnection'
    <3>1. connections = 0 /\ connections' = connections + 1 - Closings(outcome)
      BY <1>1, <1>2 DEF Initialize, OneConnection
    <3>2. Closings(outcome) = IF outcome = "ok" THEN 0 ELSE 1
      BY <1>2 DEF Closings
    <3>3. connections' = IF outcome = "ok" THEN 1 ELSE 0
      BY <3>1, <3>2
    <3>. QED
      BY <2>1, <3>3, Zenon DEF OneConnection
  <2>. QED
    BY <1>1, <2>1, <2>2, <2>3, WorldKeeps DEF market
<1>3. CASE Shutdown
  <2>1. UNCHANGED <<market, build, snapshot>> /\ initialized' = FALSE
    BY <1>3 DEF Shutdown
  <2>2. World'
    BY <1>1, <2>1 DEF World, market
  <2>3. OneConnection'
    <3>1. connections = 1 /\ connections' = connections - 1
      BY <1>1, <1>3 DEF Shutdown, OneConnection
    <3>. QED
      BY <2>1, <3>1 DEF OneConnection
  <2>. QED
    BY <1>1, <2>1, <2>2, <2>3, WorldKeeps DEF market
<1>4. CASE BuildSnapshot
  BY <1>4, BuildKeeps
<1>5. CASE \/ ReadSymbolInfo \/ ReadAccount \/ (\E tf \in Timeframe : ReadCandles(tf))
           \/ ReadPositions \/ ReadTick
  BY <1>5, ReadKeeps
<1>6. CASE CompleteSnapshot
  BY <1>6, CompleteKeeps
<1>7. CASE Refuse
  <2>1. UNCHANGED <<market, client, snapshot>> /\ build' = None
    BY <1>7 DEF Refuse
  <2>2. \A tf, candles : Final(tf, candles)' <=> Final(tf, candles)
    BY <2>1 DEF Final, Candle, Label, market
  <2>. QED
    BY <2>1, <2>2 DEF IInv, World, OneConnection, FreshIsRecent, market, client
<1>8. CASE Tick
  <2>1. /\ UNCHANGED <<correction, offset, trades, position, client, build, snapshot>>
        /\ now' = now + 1 /\ now < MaxTime
    BY <1>8 DEF Tick
  <2>2. World' /\ OneConnection' /\ now <= now'
    BY <1>1, <2>1 DEF World, OneConnection, client
  <2>. QED
    BY <2>1, <2>2, WorldKeeps
<1>9. CASE Trade
  <2>1. /\ UNCHANGED <<now, correction, offset, position, client, build, snapshot>>
        /\ trades' = trades \cup {now}
    BY <1>9 DEF Trade
  <2>2. World' /\ OneConnection'
    BY <1>1, <2>1 DEF World, OneConnection, client
  <2>. QED
    BY <2>1, <2>2, WorldKeeps
<1>10. CASE UpdatePosition
  <2>1. /\ UNCHANGED <<now, correction, offset, trades, client, build, snapshot>>
        /\ position' = now
    BY <1>10 DEF UpdatePosition
  <2>2. World' /\ OneConnection'
    BY <1>1, <2>1 DEF World, OneConnection, client
  <2>. QED
    BY <1>1, <2>1, <2>2, WorldKeeps
<1>11. ASSUME NEW c \in Corrections, CorrectClock(c) PROVE IInv'
  <2>1. /\ UNCHANGED <<now, offset, trades, position, client, build, snapshot>>
        /\ correction' = c
    BY <1>11 DEF CorrectClock
  <2>2. World' /\ OneConnection'
    BY <1>1, <2>1 DEF World, OneConnection, client
  <2>. QED
    BY <1>1, <2>1, <2>2, WorldKeeps
<1>12. CASE UNCHANGED vars
  <2>1. World' /\ OneConnection' /\ UNCHANGED <<now, offset, trades, build, snapshot>>
    BY <1>1, <1>12 DEF vars, market, client, World, OneConnection
  <2>. QED
    BY <1>1, <2>1, WorldKeeps
<1>. QED
  BY <1>2, <1>3, <1>4, <1>5, <1>6, <1>7, <1>8, <1>9, <1>10, <1>11, <1>12 DEF Next

LEMMA Initially == Init => IInv
<1>. SUFFICES ASSUME Init PROVE IInv
  OBVIOUS
<1>1. World
  <2>1. now \in 0..MaxTime
    BY MarketAssumption DEF Init
  <2>2. /\ correction \in Corrections /\ offset \in Offsets /\ trades \subseteq 0..now
        /\ position \in Nat \cup {None} /\ initialized \in BOOLEAN
    BY DEF Init
  <2>. QED
    BY <2>1, <2>2 DEF World
<1>2. OneConnection
  BY DEF Init, OneConnection
<1>3. build = None /\ snapshot = None
  BY DEF Init
<1>. QED
  BY <1>1, <1>2, <1>3 DEF IInv, FreshIsRecent

LEMMA Invariant == Spec => []IInv
<1>1. IInv /\ [Next]_vars => IInv'
  BY Inductive
<1>. QED
  BY <1>1, Initially, PTL DEF Spec

-----------------------------------------------------------------------------
(* The properties                                                          *)

\* A build has the observations of the steps that build_snapshot has passed,
\* for any number of timeframes.
THEOREM MarketTypeCorrect == Spec => []MarketTypeOK
<1>1. ASSUME IInv PROVE MarketTypeOK
  <2>1. World
    BY <1>1 DEF IInv
  <2>2. ASSUME build # None
        PROVE  /\ build.step \in 1..LastStep
               /\ build.step > 2 => build.account \in Int
               /\ At(LastStep) => build.tick \in Int /\ build.read \in Int
               /\ \A tf \in Timeframe : \A c \in build.candles[tf] :
                     c.open \in Int /\ c.made \subseteq trades
    <3>1. build \in BuildRecord /\ Found(build, build.step)
      BY <1>1, <2>2 DEF IInv
    <3>2. build.step \in 1..LastStep
      BY <3>1 DEF BuildRecord
    <3>3. build.step > 2 => build.account \in Int
      BY <3>1 DEF Found
    <3>4. At(LastStep) => build.tick \in Int /\ build.read \in Int
      BY <2>1, <3>1, Times DEF Found, At
    <3>5. \A tf \in Timeframe : \A c \in build.candles[tf] :
             c.open \in Int /\ c.made \subseteq trades
      <4>1. \A tf \in Timeframe : Final(tf, build.candles[tf])
        BY <3>1 DEF Found
      <4>2. \A tf, o : Candle(tf, o).made \subseteq trades
        BY DEF Candle
      <4>. QED
        BY <4>1, <4>2 DEF Final
    <3>. QED
      BY <3>2, <3>3, <3>4, <3>5
  <2>. QED
    BY <2>1, <2>2 DEF MarketTypeOK, World
<1>. QED
  BY <1>1, Invariant, PTL

\* MT5ReadOnlyClient closes the connection that it has opened, exactly once.
THEOREM OneConnectionAtATime == Spec => []OneConnection
<1>1. IInv => OneConnection
  BY DEF IInv
<1>. QED
  BY <1>1, Invariant, PTL

\* get_candles without the incomplete one never gives MarketDataService a candle
\* that still changes, whatever the server's time and the host clock.
THEOREM CandlesNeverChange == Spec => []CandlesAreFinal
<1>1. IInv => CandlesAreFinal
  BY DEF IInv, CandlesAreFinal, Final
<1>. QED
  BY <1>1, Invariant, PTL

\* What _freshness lets pass as FRESH is recent, for any shift of the server's time
\* that is not ahead of the host clock.
THEOREM FreshMeansRecent == Spec => []FreshIsRecent
<1>1. IInv => FreshIsRecent
  BY DEF IInv
<1>. QED
  BY <1>1, Invariant, PTL
=============================================================================
