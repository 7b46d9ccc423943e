------------------------------ MODULE MarketData ------------------------------
(***************************************************************************)
(* MT5ReadOnlyClient and MarketDataService: a client whose connection its   *)
(* caller opens and closes, and a snapshot that is put together from        *)
(* separate reads while the market, the clock and the client go on.         *)
(*                                                                         *)
(* A candle is the set of the trades in it.  The terminal labels its data   *)
(* with the time of its server, which need not be UTC; the client takes the *)
(* labels as UTC.  utc_now is the time with a correction that may change.   *)
(* Every method of the client holds its lock, so that each is one step.     *)
(* The service keeps nothing between builds: builds are tried until one     *)
(* gives a snapshot, and that one is followed.                              *)
(***************************************************************************)
EXTENDS Integers, FiniteSetsExt

CONSTANTS
    None,
    Timeframes,     \* how many there are; they are numbered as they are read
    DurationOf, CountOf, MaxAgeOf,      \* of each timeframe
    MaxTickAge, MaxAccountAge,          \* MarketDataSettings
    HasCredentials, \* MT5Settings.has_explicit_credentials
    Offsets,        \* what the server may add to UTC
    Corrections,    \* what the host clock may add to UTC
    MaxTime, MaxBuild, MaxCorrections   \* bounds: the time, that of a build, the corrections

Timeframe == 1..Timeframes

ASSUME MarketAssumption ==
    /\ Offsets \subseteq Int /\ Corrections \subseteq Int /\ None \notin Int
    /\ Timeframes \in Nat \ {0}
    /\ \A tf \in Timeframe : {DurationOf[tf], CountOf[tf], MaxAgeOf[tf]} \subseteq Nat \ {0}
    /\ {MaxTickAge, MaxAccountAge} \subseteq Nat \ {0}
    /\ MaxTime \in Nat

VARIABLES
    now,            \* UTC
    correction,     \* of the host clock
    corrected,      \* how often it changed
    offset,         \* of the server
    trades,         \* when the symbol was traded, in UTC
    position,       \* when the open position of the symbol was last updated, or None
    initialized,    \* MT5ReadOnlyClient._initialized
    connections,    \* calls of backend.initialize that succeeded less those of shutdown
    build,          \* the build_snapshot under way, or None
    snapshot        \* the snapshot, or None

client == <<initialized, connections>>
market == <<now, correction, corrected, offset, trades, position>>
vars == <<market, client, build, snapshot>>

Clock == now + correction
Label(t) == t + offset

Init ==
    /\ now = 0 /\ correction \in Corrections /\ corrected = 0 /\ offset \in Offsets
    /\ trades = {} /\ position = None
    /\ initialized = FALSE /\ connections = 0
    /\ build = None /\ snapshot = None

-----------------------------------------------------------------------------
(* The client *)

\* As Closings, but the handler of initialize closes what _authenticate closed.
ClosingsTwice(outcome) ==
    CASE outcome = "login_failed" -> 2
      [] outcome = "health_failed" -> 1
      [] OTHER -> 0

\* The calls of backend.shutdown when a started initialization ends so.
Closings(outcome) == IF outcome \in {"login_failed", "health_failed"} THEN 1 ELSE 0

\* When the client is initialized, initialize only checks its health.
Initialize(outcome) ==
    /\ ~initialized
    /\ outcome = "login_failed" => HasCredentials
    /\ connections' = connections + 1 - Closings(outcome)
    /\ initialized' = (outcome = "ok")
    /\ UNCHANGED <<market, build, snapshot>>

\* The client forgets the connection also when backend.shutdown raises.
Shutdown ==
    /\ initialized
    /\ connections' = connections - 1
    /\ initialized' = FALSE
    /\ UNCHANGED <<market, build, snapshot>>

\* The candle of the timeframe that opens at a label.
Candle(tf, o) ==
    [open |-> o, made |-> {t \in trades : o <= Label(t) /\ Label(t) < o + DurationOf[tf]}]

\* The candles of the terminal: one for each interval with a trade.
Opens(tf) == {Label(t) - (Label(t) % DurationOf[tf]) : t \in trades}

\* How many candles are newer: the newest one is at position 0.
PositionOf(tf, o) == Cardinality({q \in Opens(tf) : q > o})

\* As GetCandles, but from position 0.
GetCandlesFromZero(tf, count) ==
    {Candle(tf, o) : o \in {o \in Opens(tf) : PositionOf(tf, o) \in 0..(count - 1)}}

\* get_candles without the incomplete one: count candles from position 1 back.
GetCandles(tf, count) ==
    {Candle(tf, o) : o \in {o \in Opens(tf) : PositionOf(tf, o) \in 1..count}}

-----------------------------------------------------------------------------
(* The service *)

\* The symbol, the account, the timeframes, the positions and the tick are read in this
\* order, one at each step.
At(step) == build # None /\ build.step = step
LastStep == Timeframes + 5

BuildSnapshot ==
    /\ build = None /\ snapshot = None
    /\ build' = [step |-> 1, began |-> now, started |-> Clock, low |-> Clock, high |-> Clock,
                 account |-> None, candles |-> [tf \in Timeframe |-> {}], position |-> None,
                 tick |-> None, traded |-> None, read |-> None]
    /\ UNCHANGED <<market, client, snapshot>>

\* A read that succeeds at this moment; low and high are the earliest and the
\* latest retrieved_at.
Observe(changed) ==
    /\ initialized
    /\ build' = [changed EXCEPT !.step = @ + 1,
                                !.low = IF Clock < @ THEN Clock ELSE @,
                                !.high = IF Clock > @ THEN Clock ELSE @]
    /\ UNCHANGED <<market, client, snapshot>>

ReadSymbolInfo == At(1) /\ Observe(build)

ReadAccount == At(2) /\ Observe([build EXCEPT !.account = Clock])

ReadCandles(tf) ==
    LET candles == GetCandles(tf, CountOf[tf])
    IN  /\ At(tf + 2)
        /\ Cardinality(candles) = CountOf[tf]
        /\ Observe([build EXCEPT !.candles[tf] = candles])

ReadPositions ==
    /\ At(Timeframes + 3)
    /\ Observe([build EXCEPT !.position = IF position = None THEN None ELSE Label(position)])

ReadTick ==
    /\ At(Timeframes + 4)
    /\ trades # {}
    /\ Observe([build EXCEPT !.tick = Label(Max(trades)), !.traded = Max(trades),
                             !.read = Clock])

Fresh(observed, age) == Clock - observed <= age

\* As LatestClose, but the moment of the last read.
LatestCloseRead(b, tf) == b.read

\* _candle_freshness: what the age of the candles counts from.
LatestClose(b, tf) == Max({c.open : c \in b.candles[tf]}) + DurationOf[tf]

\* _freshness: every observation is FRESH.
Freshness(b) ==
    /\ Fresh(b.tick, MaxTickAge)
    /\ Fresh(b.account, MaxAccountAge)
    /\ \A tf \in Timeframe : Fresh(LatestClose(b, tf), MaxAgeOf[tf])

\* _validate_observation_times, _validate_tick_time, _validate_candles and
\* _validate_positions, with completed_at = Clock.
TimesInWindow(b) == b.started <= Clock /\ b.low >= b.started /\ b.high <= Clock
TickInOrder(b) == b.tick <= b.read /\ b.tick <= Clock
CandlesClosed(b) ==
    \A tf \in Timeframe : \A c \in b.candles[tf] : c.open + DurationOf[tf] <= Clock
PositionsInOrder(b) == b.position # None => b.position <= Clock

\* The checks of build_snapshot, which MarketSnapshot repeats.
Valid(b) == TimesInWindow(b) /\ TickInOrder(b) /\ CandlesClosed(b) /\ PositionsInOrder(b)

CompleteSnapshot ==
    /\ At(LastStep)
    /\ Valid(build)
    /\ snapshot' = [candles |-> build.candles, tick |-> build.tick, traded |-> build.traded,
                    account |-> build.account, completed |-> Clock,
                    at |-> now, correction |-> correction, fresh |-> Freshness(build)]
    /\ build' = None
    /\ UNCHANGED <<market, client>>

\* A read that fails, for lack of a connection or of candles, because the symbol
\* is not selected or the terminal gives no answer; or a check that fails.
Refuse ==
    /\ build # None
    /\ At(LastStep) => ~Valid(build)
    /\ build' = None
    /\ UNCHANGED <<market, client, snapshot>>

-----------------------------------------------------------------------------
(* The world *)

Tick ==
    /\ now < MaxTime
    /\ build # None => now - build.began < MaxBuild
    /\ now' = now + 1
    /\ UNCHANGED <<correction, corrected, offset, trades, position, client, build,
                   snapshot>>

Trade ==
    /\ now \notin trades
    /\ trades' = trades \cup {now}
    /\ UNCHANGED <<now, correction, corrected, offset, position, client, build, snapshot>>

UpdatePosition ==
    /\ position = None
    /\ position' = now
    /\ UNCHANGED <<now, correction, corrected, offset, trades, client, build, snapshot>>

CorrectClock(c) ==
    /\ corrected < MaxCorrections
    /\ c # correction
    /\ correction' = c
    /\ corrected' = corrected + 1
    /\ UNCHANGED <<now, offset, trades, position, client, build, snapshot>>

Next ==
    \/ \E outcome \in {"ok", "login_failed", "health_failed"} : Initialize(outcome)
    \/ Shutdown
    \/ BuildSnapshot \/ ReadSymbolInfo \/ ReadAccount
    \/ \E tf \in Timeframe : ReadCandles(tf)
    \/ ReadPositions \/ ReadTick \/ CompleteSnapshot \/ Refuse
    \/ Tick \/ Trade \/ UpdatePosition
    \/ \E c \in Corrections : CorrectClock(c)

Spec == Init /\ [][Next]_vars

-----------------------------------------------------------------------------
(* Properties *)

\* Types: a build has the observations of the steps that it has passed, and no more candles
\* of a timeframe than were asked for.
MarketTypeOK ==
    /\ now \in 0..MaxTime /\ correction \in Corrections /\ offset \in Offsets
    /\ trades \subseteq 0..now /\ initialized \in BOOLEAN
    /\ build # None =>
          /\ build.step \in 1..LastStep
          /\ build.step > 2 => build.account \in Int
          /\ At(LastStep) => build.tick \in Int /\ build.read \in Int
          /\ \A tf \in Timeframe : \A c \in build.candles[tf] : c.open \in Int /\ c.made \subseteq trades

\* initialize and shutdown keep to one connection: a client that is initialized
\* has opened one that it has not closed, and a failed start or a shutdown has
\* closed it once, so that it never closes one that another owner opened since.
OneConnection == connections = IF initialized THEN 1 ELSE 0

\* No candle in a snapshot was still being made when it was read: whatever the
\* server's time, the host clock and the boundary that the build crossed, the
\* candles of a snapshot never change afterwards.
CandlesAreFinal ==
    snapshot # None =>
        \A tf \in Timeframe : \A c \in snapshot.candles[tf] : c = Candle(tf, c.open)

\* A snapshot that is FRESH is recent: as long as the server's time is not
\* ahead of the host clock, its last trade and its last candles were really no
\* older than the settings allow when it was completed.
FreshIsRecent ==
    (snapshot # None /\ snapshot.fresh /\ offset <= snapshot.correction) =>
        /\ snapshot.at - snapshot.traded <= MaxTickAge
        /\ \A tf \in Timeframe :
              LET closed == Max({c.open : c \in snapshot.candles[tf]}) + DurationOf[tf] - offset
              IN  snapshot.at - closed <= MaxAgeOf[tf]

=============================================================================
