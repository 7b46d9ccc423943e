-------------------------- MODULE RiskContext_proofs --------------------------
(***************************************************************************)
(* Proofs about RiskContext, for any limits that the settings accept, any   *)
(* number of baselines, and any prices, equities and symbol properties.     *)
(*                                                                         *)
(* A decision stays tied to the snapshot and the context it was made of     *)
(* until the next snapshot replaces all three, so what is to be shown of    *)
(* it is shown of Evaluate.                                                 *)
(***************************************************************************)
EXTENDS RiskContext, FiniteSetTheorems, TLAPS

\* The proposal that Decide makes of q.
Proposed(q, at) ==
    [side |-> q.side, entry |-> q.entry, stop |-> q.stop, target |-> q.target,
     snapshot |-> snapshot.id, symbol |-> snapshot.facts.symbol, at |-> at]

SnapshotFits ==
    snapshot # None =>
        snapshot \in [id : {"snapshot"}, account : Account, equity : Equity,
                      positions : Positions, completedAt : Time, facts : Facts]

ContextFits ==
    context # None =>
        /\ snapshot # None
        /\ context.baseline \in Baseline
        /\ context.peak \in Nat \ {0} /\ context.dayStart \in Nat \ {0}
        /\ context.positions \in Int

DecisionFits ==
    decision # None =>
        /\ context # None
        /\ decision.proposal \in Proposal
        /\ \E at \in Time :
              decision.result = Evaluate(Proposed(decision.proposal, at), snapshot,
                                         snapshot.facts, context, at)

IInv == SnapshotFits /\ ContextFits /\ DecisionFits

-----------------------------------------------------------------------------
(* The rows of the baselines                                               *)

RowFits(row) == (row.by # None <=> row.state = "SUPERSEDED") /\ ValidTimes(row)

Rows ==
    /\ now \in Time
    /\ baselines \in [Baseline -> BaselineRow \cup {None}]
    /\ \A b \in Baseline : baselines[b] # None => RowFits(baselines[b])
    /\ held \in Held \cup {None}

LEMMA ChosenIsActive ==
    ASSUME NEW active \in SUBSET Baseline
    PROVE  /\ Chosen(active) \in Held \cup Baseline
           /\ Chosen(active) \notin Held => active = {Chosen(active)}
<1>1. IsFiniteSet(active)
  BY RiskContextAssumption, FS_Subset
<1>2. CASE active = {}
  BY <1>2 DEF Chosen, Held
<1>3. CASE active # {} /\ Cardinality(active) = 1
  <2>1. PICK b : active = {b}
    BY <1>1, <1>3, FS_Singleton
  <2>. QED
    BY <1>3, <2>1 DEF Chosen
<1>4. CASE active # {} /\ Cardinality(active) # 1
  BY <1>4 DEF Chosen, Held
<1>. QED
  BY <1>2, <1>3, <1>4

\* A row as supersede_baseline and invalidate_baseline leave it.
LEMMA EndedFits ==
    ASSUME NEW row \in BaselineRow, NEW state \in {"SUPERSEDED", "INVALIDATED"}, NEW at \in Time,
           NEW by \in Baseline \cup {None}, by # None <=> state = "SUPERSEDED"
    PROVE  LET old == [row EXCEPT !.state = state, !.until = at, !.by = by]
           IN  old \in BaselineRow /\ (ValidTimes(old) => RowFits(old))
<1>1. at \in Nat
  BY RiskContextAssumption DEF Time
<1>. DEFINE old == [row EXCEPT !.state = state, !.until = at, !.by = by]
<1>2. old \in BaselineRow /\ old.state = state /\ old.by = by
  BY <1>1 DEF BaselineRow
<1>. HIDE DEF old
<1>3. ValidTimes(old) => RowFits(old)
  BY <1>2 DEF RowFits
<1>. QED
  BY <1>2, <1>3 DEF old

LEMMA NewRowFits ==
    ASSUME NEW day \in Nat, NEW from \in Time, NEW until \in Time \cup {None}
    PROVE  LET new == NewRow(day, from, until)
           IN  new \in BaselineRow /\ (ValidTimes(new) => RowFits(new))
<1>1. from \in Nat /\ until \in Nat \cup {None}
  BY RiskContextAssumption DEF Time
<1>. QED
  BY <1>1 DEF NewRow, BaselineRow, RowFits
LEMMA DayIsNat ==
    ASSUME NEW t \in Time
    PROVE  DayOf(t) \in Nat
BY RiskContextAssumption DEF Time, DayOf

LEMMA AppendKeepsRows ==
    ASSUME Rows, NEW b \in Baseline, NEW day \in Nat, NEW from \in Time,
           NEW until \in Time \cup {None}, AppendBaseline(b, NewRow(day, from, until))
    PROVE  Rows'
<1>. DEFINE new == NewRow(day, from, until)
<1>1. new \in BaselineRow /\ RowFits(new)
  BY NewRowFits DEF AppendBaseline
<1>2. baselines' = [baselines EXCEPT ![b] = new] /\ now' = now /\ held' = held
  BY DEF AppendBaseline
<1>. HIDE DEF new
<1>. QED
  BY <1>1, <1>2 DEF Rows

LEMMA SupersedeKeepsRows ==
    ASSUME Rows, NEW b \in Baseline, NEW c \in Baseline \ {b}, NEW at \in Time,
           NEW until \in Time \cup {None}, SupersedeBaseline(b, c, at, until)
    PROVE  Rows'
<1>. DEFINE old == Ended(b, "SUPERSEDED", at, c)
            new == NewRow(baselines[b].day, at, until)
<1>1. baselines[b] \in BaselineRow /\ baselines[b].day \in Nat
  BY DEF Rows, SupersedeBaseline, BaselineRow
<1>2. new \in BaselineRow /\ RowFits(new)
  BY <1>1, NewRowFits DEF SupersedeBaseline
<1>3. old \in BaselineRow /\ RowFits(old)
  <2>1. c \in Baseline \cup {None} /\ (c # None <=> "SUPERSEDED" = "SUPERSEDED")
    BY RiskContextAssumption
  <2>. QED
    BY <1>1, <2>1, EndedFits DEF Ended, SupersedeBaseline
<1>4. baselines' = [baselines EXCEPT ![b] = old, ![c] = new] /\ now' = now /\ held' = held
  BY DEF SupersedeBaseline
<1>. HIDE DEF old, new
<1>. QED
  BY <1>2, <1>3, <1>4 DEF Rows

LEMMA InvalidateKeepsRows ==
    ASSUME Rows, NEW b \in Baseline, NEW at \in Time, InvalidateBaseline(b, at)
    PROVE  Rows'
<1>. DEFINE old == Ended(b, "INVALIDATED", at, None)
<1>1. baselines[b] \in BaselineRow
  BY DEF Rows, InvalidateBaseline
<1>2. old \in BaselineRow /\ RowFits(old)
  BY <1>1, EndedFits DEF Ended, InvalidateBaseline
<1>3. baselines' = [baselines EXCEPT ![b] = old] /\ now' = now /\ held' = held
  BY DEF InvalidateBaseline
<1>. HIDE DEF old
<1>. QED
  BY <1>2, <1>3 DEF Rows

LEMMA BuildKeepsRows ==
    ASSUME Rows, NEW account, NEW positions, NEW timely, BuildContext(account, positions, timely)
    PROVE  Rows'
<1>. DEFINE chosen == Chosen(ActiveBaselines(account, now))
<1>1. held' \in Held \cup {None}
  <2>1. held' = IF account # snapshot.account \/ ~timely THEN "RISK_CONTEXT_INVALID"
                ELSE IF chosen \in Held THEN chosen ELSE None
    BY DEF BuildContext
  <2>2. "RISK_CONTEXT_INVALID" \in Held
    BY DEF Held
  <2>. HIDE DEF chosen
  <2>. QED
    BY <2>1, <2>2
<1>. QED
  BY <1>1 DEF BuildContext, Rows

LEMMA RowsInductive == Rows /\ [Next]_vars => Rows'
<1>. SUFFICES ASSUME Rows, [Next]_vars PROVE Rows'
  OBVIOUS
<1>1. ASSUME NEW b \in Baseline, NEW day \in {DayOf(t) : t \in Time}, NEW from \in Time,
             NEW until \in Time \cup {None}, AppendBaseline(b, NewRow(day, from, until))
      PROVE  Rows'
  BY <1>1, DayIsNat, AppendKeepsRows
<1>2. ASSUME NEW account, NEW equity, NEW positions, NEW facts,
             TakeSnapshot(account, equity, positions, facts)
      PROVE  Rows'
  BY <1>2 DEF TakeSnapshot, Rows
<1>3. ASSUME NEW q, Decide(q) PROVE Rows'
  BY <1>3 DEF Decide, Rows
<1>4. CASE Tick
  BY <1>4, RiskContextAssumption DEF Tick, Rows, Time
<1>5. CASE UNCHANGED vars
  BY <1>5 DEF vars, Rows
<1>. QED
  BY <1>1, <1>2, <1>3, <1>4, <1>5, SupersedeKeepsRows, InvalidateKeepsRows, BuildKeepsRows DEF Next

LEMMA RowsInvariant == Spec => []Rows
<1>1. Init => Rows
  BY RiskContextAssumption DEF Init, Rows, Time
<1>. QED
  BY <1>1, RowsInductive, PTL DEF Spec

-----------------------------------------------------------------------------
(* The snapshot, its context and the decision                              *)

LEMMA TakeKeeps ==
    ASSUME now \in Time, NEW account \in Account, NEW equity \in Equity,
           NEW positions \in Positions, NEW facts \in Facts, TakeSnapshot(account, equity, positions, facts)
    PROVE  IInv'
<1>1. context' = None /\ decision' = None
  BY DEF TakeSnapshot
<1>2. SnapshotFits'
  BY DEF TakeSnapshot, SnapshotFits
<1>. QED
  BY <1>1, <1>2 DEF IInv, ContextFits, DecisionFits

LEMMA BuildKeeps ==
    ASSUME IInv, NEW account, NEW positions \in Positions, NEW timely,
           BuildContext(account, positions, timely)
    PROVE  IInv'
<1>. DEFINE chosen == Chosen(ActiveBaselines(account, now))
<1>1. ActiveBaselines(account, now) \in SUBSET Baseline
  BY DEF ActiveBaselines
<1>2. chosen \in Held \cup Baseline
  BY <1>1, ChosenIsActive
<1>3. /\ snapshot # None /\ context = None /\ snapshot' = snapshot /\ decision' = decision
      /\ held' = IF account # snapshot.account \/ ~timely THEN "RISK_CONTEXT_INVALID"
                 ELSE IF chosen \in Held THEN chosen ELSE None
      /\ context' = IF held' = None THEN ContextOf(chosen, positions) ELSE None
  BY DEF BuildContext
<1>. HIDE DEF chosen
<1>4. "RISK_CONTEXT_INVALID" # None /\ None \notin Held
  BY NoneAssumption DEF Held
<1>5. context' # None => chosen \in Baseline /\ context' = ContextOf(chosen, positions)
  BY <1>2, <1>3, <1>4
<1>6. ContextFits'
  <2>. SUFFICES ASSUME context' # None
                PROVE  /\ context'.baseline \in Baseline
                       /\ context'.peak \in Nat \ {0} /\ context'.dayStart \in Nat \ {0}
                       /\ context'.positions \in Int
    BY <1>3 DEF ContextFits
  <2>1. /\ context'.baseline = chosen /\ context'.peak = PeakOf[chosen]
        /\ context'.dayStart = DayStartOf[chosen] /\ context'.positions = positions
    BY <1>5 DEF ContextOf
  <2>. QED
    BY <1>5, <2>1, RiskContextAssumption
<1>7. SnapshotFits' /\ DecisionFits'
  BY <1>3 DEF IInv, SnapshotFits, DecisionFits
<1>. QED
  BY <1>6, <1>7 DEF IInv

LEMMA DecideKeeps ==
    ASSUME IInv, now \in Time, NEW q \in Proposal, Decide(q)
    PROVE  IInv'
<1>1. /\ context # None /\ snapshot' = snapshot /\ context' = context
      /\ decision' = [proposal |-> q,
                      result |-> Evaluate(Proposed(q, now), snapshot, snapshot.facts, context, now)]
  BY DEF Decide, Proposed
<1>2. decision'.proposal = q
      /\ decision'.result = Evaluate(Proposed(q, now), snapshot, snapshot.facts, context, now)
  BY <1>1
<1>3. \A at : Proposed(q, at)' = Proposed(q, at)
  BY <1>1 DEF Proposed
<1>4. DecisionFits'
  BY <1>1, <1>2 DEF DecisionFits, Proposed
<1>. QED
  BY <1>1, <1>4 DEF IInv, SnapshotFits, ContextFits

LEMMA Inductive == IInv /\ Rows /\ [Next]_vars => IInv'
<1>. SUFFICES ASSUME IInv, Rows, [Next]_vars PROVE IInv'
  OBVIOUS
<1>1. CASE UNCHANGED <<snapshot, context, decision>>
  BY <1>1 DEF IInv, SnapshotFits, ContextFits, DecisionFits, Proposed
<1>2. ASSUME NEW b, NEW c, NEW row, NEW at, NEW until,
             AppendBaseline(b, row) \/ SupersedeBaseline(b, c, at, until) \/ InvalidateBaseline(b, at)
      PROVE  UNCHANGED <<snapshot, context, decision>>
  BY <1>2 DEF AppendBaseline, SupersedeBaseline, InvalidateBaseline
<1>3. CASE Tick \/ UNCHANGED vars
  BY <1>1, <1>3 DEF Tick, vars
<1>. QED
  BY <1>1, <1>2, <1>3, TakeKeeps, BuildKeeps, DecideKeeps DEF Next, Rows

LEMMA Invariant == Spec => []IInv
<1>1. Init => IInv
  BY DEF Init, IInv, SnapshotFits, ContextFits, DecisionFits
<1>. QED
  BY <1>1, Inductive, RowsInvariant, PTL DEF Spec
-----------------------------------------------------------------------------
(* The risk engine                                                         *)

\* Every condition of a record of conditions without a failing one is false.
LEMMA NoneFails ==
    ASSUME NEW conditions, Failing(conditions) = {}, NEW code \in DOMAIN conditions
    PROVE  ~conditions[code]
BY DEF Failing

LEMMA AccountIsFine ==
    ASSUME NEW s, NEW x, NEW at, AccountReasons(s, x, at) = {}
    PROVE  /\ HaltReasons(s, x) = {}
           /\ x.account = s.account
           /\ ~(x.positions >= MaximumOpenPositions)
<1>. DEFINE conditions ==
             [TRACEABILITY_MISMATCH |-> x.snapshot # s.id,
              ACCOUNT_CONTEXT_MISMATCH |-> x.account # s.account,
              ACCOUNT_CONTEXT_FUTURE_DATED |-> x.asOf > at,
              ACCOUNT_CONTEXT_PREDATES_SNAPSHOT |-> x.asOf < s.completedAt,
              TRADING_DAY_CONTEXT_INVALID |-> x.dayStartedAt > x.asOf,
              ACCOUNT_POSITION_COUNT_INCONSISTENT |-> x.positions < s.positions,
              MAXIMUM_POSITIONS_REACHED |-> x.positions >= MaximumOpenPositions]
<1>1. HaltReasons(s, x) = {} /\ Failing(conditions) = {}
  BY DEF AccountReasons
<1>2. ~conditions["ACCOUNT_CONTEXT_MISMATCH"] /\ ~conditions["MAXIMUM_POSITIONS_REACHED"]
  BY <1>1, NoneFails
<1>. QED
  BY <1>1, <1>2

LEMMA HaltReasonsAre ==
    ASSUME NEW s, NEW x
    PROVE  HaltReasons(s, x) = {} <=>
              /\ ~(s.equity <= 0)
              /\ ~Reaches(DailyLoss(s, x), x.dayStart, MaximumDailyLoss)
              /\ ~AtDrawdown(s, x, DrawdownStop)
<1>. DEFINE conditions ==
             [NON_POSITIVE_EQUITY |-> s.equity <= 0,
              DAILY_LOSS_LIMIT_REACHED |-> Reaches(DailyLoss(s, x), x.dayStart, MaximumDailyLoss),
              MAXIMUM_DRAWDOWN_REACHED |-> AtDrawdown(s, x, DrawdownStop)]
<1>1. HaltReasons(s, x) = Failing(conditions)
  BY DEF HaltReasons
<1>2. DOMAIN conditions = {"NON_POSITIVE_EQUITY", "DAILY_LOSS_LIMIT_REACHED",
                           "MAXIMUM_DRAWDOWN_REACHED"}
  OBVIOUS
<1>3. /\ conditions["NON_POSITIVE_EQUITY"] <=> s.equity <= 0
      /\ conditions["DAILY_LOSS_LIMIT_REACHED"]
            <=> Reaches(DailyLoss(s, x), x.dayStart, MaximumDailyLoss)
      /\ conditions["MAXIMUM_DRAWDOWN_REACHED"] <=> AtDrawdown(s, x, DrawdownStop)
  OBVIOUS
<1>. HIDE DEF conditions
<1>. QED
  BY <1>1, <1>2, <1>3, Zenon DEF Failing

LEMMA AccountStateIs ==
    ASSUME NEW s, NEW x
    PROVE  /\ AccountState(s, x) = "HALTED" <=>
                 HaltReasons(s, x) # {} \/ AtDrawdown(s, x, DrawdownStop)
           /\ AccountState(s, x) = "NORMAL" <=>
                 /\ HaltReasons(s, x) = {}
                 /\ ~AtDrawdown(s, x, DrawdownStop)
                 /\ ~AtDrawdown(s, x, DrawdownSafeMode)
                 /\ ~AtDrawdown(s, x, DrawdownWarning)
           /\ AccountState(s, x) \in {"HALTED", "SAFE_MODE", "CAUTION", "NORMAL"}
BY DEF AccountState, DrawdownState

\* The risk-reward of a proposal that passes the checks, whose prices are usable.
LEMMA ProposalIsFine ==
    ASSUME NEW p, NEW s, NEW f, ProposalReasons(p, s, f) = {}
    PROVE  /\ p.entry # None /\ p.stop # None /\ p.target # None
           /\ ~(RewardDistance(p) * 100 < MinimumRiskReward * StopDistance(p))
           /\ f.tickSize > 0 /\ p.entry % f.tickSize = 0 /\ p.stop % f.tickSize = 0
           /\ p.stop < p.entry \/ p.stop > p.entry
<1>. DEFINE g == Geometry(p)
            coherent == f.tickSize > 0 /\ f.point > 0
            minimum == f.stopsLevel * f.point
            conditions ==
                [TRACEABILITY_MISMATCH |-> p.snapshot # s.id,
                 SYMBOL_MISMATCH |-> p.symbol # f.symbol,
                 ENTRY_PRICE_REQUIRED |-> p.entry = None,
                 ENTRY_PRICE_INVALID |-> p.entry # None /\ ~Usable(p.entry),
                 STOP_LOSS_REQUIRED |-> p.stop = None,
                 STOP_LOSS_INVALID |-> p.stop # None /\ ~Usable(p.stop),
                 TAKE_PROFIT_REQUIRED |-> p.target = None,
                 TAKE_PROFIT_INVALID |-> p.target # None /\ ~Usable(p.target),
                 INVALID_STOP_GEOMETRY |-> g.usable /\ ~g.stop,
                 INVALID_TAKE_PROFIT_GEOMETRY |-> g.usable /\ ~g.target,
                 RISK_REWARD_BELOW_MINIMUM |->
                    g.stop /\ g.target /\
                    RewardDistance(p) * 100 < MinimumRiskReward * StopDistance(p),
                 INVALID_BROKER_RISK_METADATA |-> ~coherent,
                 PRICE_NOT_ALIGNED_TO_TICK_SIZE |->
                    coherent /\ \E price \in {p.entry, p.stop, p.target} :
                                   Usable(price) /\ price % f.tickSize # 0,
                 STOP_DISTANCE_BELOW_BROKER_MINIMUM |->
                    coherent /\ g.stop /\ StopDistance(p) < minimum,
                 TAKE_PROFIT_DISTANCE_BELOW_BROKER_MINIMUM |->
                    coherent /\ g.target /\ RewardDistance(p) < minimum,
                 SYMBOL_TRADING_DISABLED |-> f.mode \in {"DISABLED", "CLOSE_ONLY"},
                 TRADE_SIDE_NOT_ALLOWED |-> <<f.mode, p.side>> \in
                    {<<"LONG_ONLY", "SELL">>, <<"SHORT_ONLY", "BUY">>},
                 ACCOUNT_TRADING_DISABLED |-> ~f.tradeAllowed,
                 EXPERT_TRADING_DISABLED |-> ~f.expertAllowed]
<1>1. Failing(conditions) = {}
  BY DEF ProposalReasons
<1>2. /\ ~conditions["ENTRY_PRICE_REQUIRED"] /\ ~conditions["ENTRY_PRICE_INVALID"]
      /\ ~conditions["STOP_LOSS_REQUIRED"] /\ ~conditions["STOP_LOSS_INVALID"]
      /\ ~conditions["TAKE_PROFIT_REQUIRED"] /\ ~conditions["TAKE_PROFIT_INVALID"]
  BY <1>1, NoneFails
<1>3. /\ ~conditions["INVALID_STOP_GEOMETRY"] /\ ~conditions["INVALID_TAKE_PROFIT_GEOMETRY"]
      /\ ~conditions["RISK_REWARD_BELOW_MINIMUM"] /\ ~conditions["INVALID_BROKER_RISK_METADATA"]
      /\ ~conditions["PRICE_NOT_ALIGNED_TO_TICK_SIZE"]
  BY <1>1, NoneFails
<1>4. /\ p.entry # None /\ p.stop # None /\ p.target # None
      /\ Usable(p.entry) /\ Usable(p.stop) /\ Usable(p.target)
  BY <1>2
<1>5. g.usable
  BY <1>4 DEF Geometry
<1>6. g.stop /\ g.target
  BY <1>3, <1>5
<1>7. p.stop < p.entry \/ p.stop > p.entry
  BY <1>6 DEF Geometry
<1>8. p.entry % f.tickSize = 0 /\ p.stop % f.tickSize = 0
  BY <1>3, <1>4
<1>. QED
  BY <1>3, <1>4, <1>6, <1>7, <1>8

\* An approved evaluation has passed every check, and its volume is that of the sizer.
LEMMA ApprovedIs ==
    ASSUME NEW p, NEW s, NEW f, NEW x, NEW at,
           Evaluate(p, s, f, x, at).status = "APPROVED"
    PROVE  /\ ProposalReasons(p, s, f) = {} /\ AccountReasons(s, x, at) = {}
           /\ LET size == Size(s.equity, PermittedRisk(AccountState(s, x)), StopDistance(p), f)
              IN  size.reasons = {} /\ Evaluate(p, s, f, x, at).volume = size.volume
BY DEF Evaluate

\* An evaluation that is not approved says why and has no volume.
LEMMA RefusedHasReasons ==
    ASSUME NEW p, NEW s, NEW f, NEW x, NEW at,
           Evaluate(p, s, f, x, at).status # "APPROVED"
    PROVE  Evaluate(p, s, f, x, at).reasons # {} /\ Evaluate(p, s, f, x, at).volume = None
<1>1. AccountState(s, x) = "HALTED" => AccountReasons(s, x, at) # {}
  BY HaltReasonsAre, AccountStateIs DEF AccountReasons
<1>. DEFINE size == Size(s.equity, PermittedRisk(AccountState(s, x)), StopDistance(p), f)
<1>2. size.reasons # {} => size.volume = None
  BY DEF Size
<1>. HIDE DEF size
<1>. QED
  BY <1>1, <1>2 DEF Evaluate, size
\* What the sizer gives when it has no objection.
LEMMA SizeIs ==
    ASSUME NEW equity, NEW percent, NEW stop, NEW f, Size(equity, percent, stop, f).reasons = {}
    PROVE  LET loss == LossPerLot(f, stop)
               allowed == AllowedRisk(equity, percent)
               volume == Size(equity, percent, stop, f).volume
           IN  /\ Coherent(equity, percent, stop, f) /\ Within(f.volumeMin, loss, allowed)
               /\ volume = Selected(f, loss, allowed) /\ SizeIsValid(f, loss, allowed, volume)
<1>. DEFINE loss == LossPerLot(f, stop)
            allowed == AllowedRisk(equity, percent)
            size == Size(equity, percent, stop, f)
<1>1. Coherent(equity, percent, stop, f)
  BY DEF Size
<1>2. Within(f.volumeMin, loss, allowed)
  BY <1>1 DEF Size
<1>3. size = IF SizeIsValid(f, loss, allowed, Selected(f, loss, allowed))
             THEN [volume |-> Selected(f, loss, allowed), reasons |-> {}]
             ELSE [volume |-> None, reasons |-> {"POSITION_SIZE_INVARIANT_FAILED"}]
  BY <1>1, <1>2 DEF Size
<1>. HIDE DEF loss, allowed, size
<1>4. size.reasons = {}
  BY DEF size
<1>5. SizeIsValid(f, loss, allowed, Selected(f, loss, allowed))
      /\ size.volume = Selected(f, loss, allowed)
  BY <1>3, <1>4
<1>. QED
  BY <1>1, <1>2, <1>5 DEF loss, allowed, size

\* Why the sizer gives no volume.
LEMMA SizeRefuses ==
    ASSUME NEW equity, NEW percent, NEW stop, NEW f
    PROVE  LET loss == LossPerLot(f, stop)
               allowed == AllowedRisk(equity, percent)
               reasons == Size(equity, percent, stop, f).reasons
           IN  /\ "MINIMUM_VOLUME_EXCEEDS_RISK" \in reasons =>
                     Coherent(equity, percent, stop, f) /\ ~Within(f.volumeMin, loss, allowed)
               /\ "POSITION_SIZE_INVARIANT_FAILED" \in reasons =>
                     /\ Coherent(equity, percent, stop, f)
                     /\ Within(f.volumeMin, loss, allowed)
                     /\ ~SizeIsValid(f, loss, allowed, Selected(f, loss, allowed))
               /\ Size(equity, percent, stop, f).volume # None => reasons = {}
<1>. DEFINE loss == LossPerLot(f, stop)
            allowed == AllowedRisk(equity, percent)
            coherent == Coherent(equity, percent, stop, f)
            within == Within(f.volumeMin, loss, allowed)
            valid == SizeIsValid(f, loss, allowed, Selected(f, loss, allowed))
            size == Size(equity, percent, stop, f)
<1>1. CASE ~coherent
  <2>1. size = [volume |-> None, reasons |-> {"INVALID_BROKER_RISK_METADATA"}]
    BY <1>1, Zenon DEF Size
  <2>. QED
    BY <2>1
<1>2. CASE coherent /\ ~within
  <2>1. size = [volume |-> None, reasons |-> {"MINIMUM_VOLUME_EXCEEDS_RISK"}]
    BY <1>2, Zenon DEF Size
  <2>. QED
    BY <1>2, <2>1
<1>3. CASE coherent /\ within
  <2>1. size = IF valid THEN [volume |-> Selected(f, loss, allowed), reasons |-> {}]
               ELSE [volume |-> None, reasons |-> {"POSITION_SIZE_INVARIANT_FAILED"}]
    BY <1>3, Zenon DEF Size
  <2>. HIDE DEF size, valid, coherent, within
  <2>2. size.reasons = {} \/ (~valid /\ size.reasons = {"POSITION_SIZE_INVARIANT_FAILED"}
                                     /\ size.volume = None)
    BY <2>1
  <2>. QED
    BY <1>3, <2>2 DEF size, valid, coherent, within
<1>. QED
  BY <1>1, <1>2, <1>3

\* A volume, or the sizer's refusal, comes only from a proposal that passes every check.
LEMMA VolumeIs ==
    ASSUME NEW p, NEW s, NEW f, NEW x, NEW at,
           NEW code \in {"MINIMUM_VOLUME_EXCEEDS_RISK", "POSITION_SIZE_INVARIANT_FAILED"},
           Evaluate(p, s, f, x, at).volume # None \/ code \in Evaluate(p, s, f, x, at).reasons
    PROVE  LET size == Size(s.equity, PermittedRisk(AccountState(s, x)), StopDistance(p), f)
           IN  /\ ProposalReasons(p, s, f) = {}
               /\ Evaluate(p, s, f, x, at).volume = size.volume
               /\ code \in Evaluate(p, s, f, x, at).reasons => code \in size.reasons
<1>. DEFINE size == Size(s.equity, PermittedRisk(AccountState(s, x)), StopDistance(p), f)
            timely == Failing([EVALUATION_TIMESTAMP_INVALID |-> at < s.completedAt \/ at < p.at])
            checks == ProposalReasons(p, s, f) \cup AccountReasons(s, x, at) \cup timely
            used == IF checks = {} THEN size ELSE [volume |-> None, reasons |-> {}]
<1>1. Evaluate(p, s, f, x, at).volume = used.volume
      /\ Evaluate(p, s, f, x, at).reasons = checks \cup used.reasons
  BY DEF Evaluate
<1>2. code \notin checks
  <2>1. code \notin ProposalReasons(p, s, f)
    BY DEF ProposalReasons, Failing
  <2>2. code \notin AccountReasons(s, x, at)
    BY DEF AccountReasons, HaltReasons, Failing
  <2>3. code \notin timely
    BY DEF Failing
  <2>. QED
    BY <2>1, <2>2, <2>3
<1>. HIDE DEF size, timely, checks
<1>3. CASE checks = {}
  BY <1>1, <1>2, <1>3 DEF checks, size
<1>4. CASE checks # {}
  BY <1>1, <1>2, <1>4
<1>. QED
  BY <1>3, <1>4

\* A smaller factor makes a smaller product.
LEMMA ProductGrows ==
    ASSUME NEW a \in Int, NEW b \in Int, NEW c \in Nat, a <= b
    PROVE  a * c <= b * c /\ c * a <= c * b
OBVIOUS

LEMMA ProductCommutes ==
    ASSUME NEW a \in Int, NEW b \in Int, NEW c \in Int
    PROVE  a * b = b * a /\ (a * b) * c = a * (b * c)
OBVIOUS

LEMMA ProductIsPositive ==
    ASSUME NEW a \in Nat \ {0}, NEW b \in Nat \ {0}
    PROVE  a * b \in Nat \ {0}
OBVIOUS

LEMMA QuotientIsInt ==
    ASSUME NEW a \in Int, NEW b \in Nat \ {0}
    PROVE  a \div b \in Int
OBVIOUS

LEMMA QuotientBounds ==
    ASSUME NEW a \in Int, NEW b \in Nat \ {0}
    PROVE  b * (a \div b) <= a /\ a < b * (a \div b) + b
OBVIOUS

LEMMA QuotientOfMultiple ==
    ASSUME NEW a \in Int, NEW b \in Nat \ {0}, a % b = 0
    PROVE  b * (a \div b) = a
OBVIOUS

LEMMA RestBounds ==
    ASSUME NEW a \in Int, NEW b \in Nat \ {0}
    PROVE  a % b \in 0..(b - 1)
OBVIOUS

LEMMA RestIs ==
    ASSUME NEW a \in Int, NEW b \in Nat \ {0}
    PROVE  a = b * (a \div b) + (a % b)
OBVIOUS

LEMMA MultipleHasNoRest ==
    ASSUME NEW a \in Int, NEW b \in Nat \ {0}
    PROVE  (a * b) % b = 0
<1>. DEFINE c == a * b
            q == c \div b
            r == c % b
<1>1. c \in Int
  OBVIOUS
<1>2. q \in Int /\ r \in 0..(b - 1) /\ c = b * q + r
  BY <1>1, QuotientIsInt, RestBounds, RestIs
<1>3. b * a = b * q + r
  BY <1>2
<1>. HIDE DEF c, q, r
<1>4. b * (a - q) = r
  BY <1>2, <1>3
<1>5. a - q >= 1 => b * (a - q) >= b * 1
  BY <1>2
<1>6. a - q <= -1 => b * (a - q) <= b * (-1)
  BY <1>2
<1>7. a - q = 0
  BY <1>2, <1>4, <1>5, <1>6
<1>. QED
  BY <1>2, <1>4, <1>7 DEF c, r

\* Different prices on the grid of the ticks are a tick apart.
LEMMA TickApart ==
    ASSUME NEW a \in Int, NEW b \in Int, NEW t \in Nat \ {0}, a % t = 0, b % t = 0, a < b
    PROVE  (b - a) \div t \in Nat \ {0}
<1>. DEFINE k == a \div t
            m == b \div t
            n == (b - a) \div t
<1>1. k \in Int /\ m \in Int /\ a = t * k /\ b = t * m
  BY QuotientIsInt, QuotientOfMultiple
<1>2. n \in Int /\ b - a < t * n + t
  BY QuotientIsInt, QuotientBounds
<1>. HIDE DEF k, m, n
<1>3. m > k
  <2>1. m <= k => t * m <= t * k
    BY <1>1
  <2>. QED
    BY <1>1, <2>1
<1>4. t * 1 <= t * (m - k) /\ t * (m - k) = b - a
  BY <1>1, <1>3
<1>5. n >= 1
  <2>1. n <= 0 => t * n <= 0
    BY <1>2
  <2>. QED
    BY <1>1, <1>2, <1>4, <2>1
<1>. QED
  BY <1>2, <1>5 DEF n

\* What the sizer selects, for a loss of unit per volume.
LargestOn(min, max, step, unit, allowed) ==
    min + ((Smaller(allowed, max * unit) - min * unit) \div (step * unit)) * step

\* It is on the grid, affordable, and the largest such volume.
LEMMA Grid ==
    ASSUME NEW min \in Nat \ {0}, NEW max \in Int, NEW step \in Nat \ {0}, NEW unit \in Nat \ {0},
           NEW allowed \in Int, min <= max, min * unit <= allowed,
           NEW volume, volume = LargestOn(min, max, step, unit, allowed)
    PROVE  /\ volume \in min..max
           /\ (volume - min) % step = 0
           /\ volume * unit <= allowed
           /\ \A v \in min..max : (v - min) % step = 0 /\ v * unit <= allowed => v <= volume
<1>. DEFINE capped == Smaller(allowed, max * unit)
            big == step * unit
            room == capped - min * unit
            n == room \div big
<1>1. big \in Nat \ {0}
  BY ProductIsPositive
<1>2. min * unit \in Int /\ max * unit \in Int /\ min * unit <= max * unit
  BY ProductGrows
<1>3. /\ capped \in Int /\ capped <= allowed /\ capped <= max * unit /\ min * unit <= capped
      /\ capped = allowed \/ capped = max * unit
  BY <1>2 DEF Smaller
<1>. HIDE DEF big, capped
<1>4. room \in Int /\ room >= 0 /\ room = capped - min * unit
  BY <1>2, <1>3
<1>. HIDE DEF room
<1>5. n \in Int /\ big * n <= room /\ room < big * n + big
  BY <1>1, <1>4, QuotientIsInt, QuotientBounds
<1>6. volume = min + n * step
  BY DEF LargestOn, n, room, capped, big
<1>. HIDE DEF n
<1>7. n >= 0
  <2>1. n <= -1 => big * n <= big * (-1)
    BY <1>1, <1>5
  <2>. QED
    BY <1>1, <1>4, <1>5, <2>1
<1>8. volume \in Int /\ volume - min = n * step /\ volume >= min
  <2>1. n * step \in Nat
    BY <1>5, <1>7
  <2>. QED
    BY <1>6, <2>1
<1>9. volume * unit = min * unit + big * n
  <2>1. (min + n * step) * unit = min * unit + (step * unit) * n
    BY <1>5
  <2>. QED
    BY <1>6, <2>1 DEF big
<1>10. big * n \in Int
  BY <1>1, <1>5
<1>11. volume * unit <= capped
  BY <1>2, <1>3, <1>4, <1>5, <1>9, <1>10
<1>12. volume <= max
  <2>1. max + 1 <= volume => (max + 1) * unit <= volume * unit
    BY <1>8, ProductGrows
  <2>2. (max + 1) * unit = max * unit + unit
    OBVIOUS
  <2>3. volume * unit \in Int
    BY <1>8
  <2>. QED
    BY <1>2, <1>3, <1>8, <1>11, <2>1, <2>2, <2>3
<1>13. (volume - min) % step = 0
  BY <1>5, <1>8, MultipleHasNoRest
<1>14. volume * unit <= allowed
  <2>1. volume * unit \in Int
    BY <1>8
  <2>. QED
    BY <1>3, <1>11, <2>1
<1>15. ASSUME NEW v \in min..max, (v - min) % step = 0, v * unit <= allowed
       PROVE  v <= volume
  <2>. DEFINE m == (v - min) \div step
  <2>1. m \in Int /\ v = min + step * m
    BY <1>15, QuotientIsInt, QuotientOfMultiple
  <2>. HIDE DEF m
  <2>2. v * unit <= max * unit /\ v * unit \in Int
    BY ProductGrows
  <2>3. v * unit <= capped
    BY <1>3, <1>15, <2>2
  <2>4. v * unit = min * unit + big * m
    <3>1. (min + step * m) * unit = min * unit + (step * unit) * m
      BY <2>1
    <3>. QED
      BY <2>1, <3>1 DEF big
  <2>5. big * m \in Int /\ big * m < big * n + big
    BY <1>1, <1>2, <1>3, <1>4, <1>5, <1>10, <2>1, <2>2, <2>3, <2>4
  <2>6. m <= n
    <3>1. n + 1 <= m => big * (n + 1) <= big * m
      BY <1>1, <1>5, <2>1, ProductGrows
    <3>2. big * (n + 1) = big * n + big
      BY <1>1, <1>5
    <3>. QED
      BY <1>1, <1>5, <1>10, <2>1, <2>5, <3>1, <3>2
  <2>7. step * m <= n * step
    BY <1>5, <2>1, <2>6
  <2>8. step * m \in Int /\ n * step \in Int
    BY <1>5, <2>1
  <2>. QED
    BY <1>6, <2>1, <2>7, <2>8
<1>. QED
  BY <1>8, <1>12, <1>13, <1>14, <1>15

\* The figures of a symbol are numbers.
Figures(f) == /\ f.tickSize \in Int /\ f.tickValue \in Int
              /\ f.volumeMin \in Int /\ f.volumeMax \in Int /\ f.volumeStep \in Int

\* A proposal that passes the checks has a stop, and its loss is positive: no quotient of the
\* sizer is one by zero.
LEMMA LossIsPositive ==
    ASSUME NEW p, NEW s, NEW f, Figures(f), ProposalReasons(p, s, f) = {},
           {p.entry, p.stop, p.target} \subseteq Int \cup {None}, f.tickValue > 0
    PROVE  /\ StopDistance(p) \in Int /\ RewardDistance(p) \in Int
           /\ LossPerLot(f, StopDistance(p)) \in Nat \ {0}
<1>1. p.entry \in Int /\ p.stop \in Int /\ p.target \in Int /\ f.tickSize \in Nat \ {0}
  BY ProposalIsFine DEF Figures
<1>2. StopDistance(p) \in Int /\ RewardDistance(p) \in Int
  BY <1>1 DEF StopDistance, RewardDistance, Distance
<1>3. StopDistance(p) \div f.tickSize \in Nat \ {0}
  <2>1. p.entry % f.tickSize = 0 /\ p.stop % f.tickSize = 0
    BY ProposalIsFine
  <2>2. CASE p.stop < p.entry
    BY <1>1, <2>1, <2>2, TickApart DEF StopDistance, Distance
  <2>3. CASE p.stop > p.entry
    BY <1>1, <2>1, <2>3, TickApart DEF StopDistance, Distance
  <2>. QED
    BY <2>2, <2>3, ProposalIsFine
<1>4. f.tickValue \in Nat \ {0}
  BY DEF Figures
<1>. QED
  BY <1>2, <1>3, <1>4, ProductIsPositive DEF LossPerLot

\* What the sizer selects is valid and the largest volume that is.
LEMMA SizerSelects ==
    ASSUME NEW f, Figures(f), NEW loss \in Nat \ {0}, NEW allowed \in Int,
           f.volumeMin > 0, f.volumeMin <= f.volumeMax, f.volumeStep > 0,
           Within(f.volumeMin, loss, allowed)
    PROVE  LET volume == Selected(f, loss, allowed)
           IN  /\ volume \in f.volumeMin..f.volumeMax
               /\ SizeIsValid(f, loss, allowed, volume)
               /\ \A v \in f.volumeMin..f.volumeMax :
                     (v - f.volumeMin) % f.volumeStep = 0 /\ Within(v, loss, allowed)
                     => v <= volume
<1>. DEFINE unit == loss * Whole
            volume == Selected(f, loss, allowed)
<1>1. unit \in Nat \ {0}
  BY ProductIsPositive DEF Whole
<1>2. \A v \in Int : v * loss * Whole = v * unit
  BY ProductCommutes DEF Whole
<1>3. /\ f.volumeMin \in Nat \ {0} /\ f.volumeMax \in Int /\ f.volumeStep \in Nat \ {0}
      /\ f.volumeMin * unit <= allowed
  BY <1>2 DEF Figures, Within
<1>4. volume = LargestOn(f.volumeMin, f.volumeMax, f.volumeStep, unit, allowed)
  BY DEF Selected, LargestOn
<1>. HIDE DEF unit, volume
<1>5. /\ volume \in f.volumeMin..f.volumeMax
      /\ (volume - f.volumeMin) % f.volumeStep = 0
      /\ volume * unit <= allowed
      /\ \A v \in f.volumeMin..f.volumeMax :
            (v - f.volumeMin) % f.volumeStep = 0 /\ v * unit <= allowed => v <= volume
  <2>. DEFINE min == f.volumeMin
              max == f.volumeMax
              step == f.volumeStep
  <2>1. /\ min \in Nat \ {0} /\ max \in Int /\ step \in Nat \ {0}
        /\ min <= max /\ min * unit <= allowed
    BY <1>3
  <2>2. volume = LargestOn(min, max, step, unit, allowed)
    BY <1>4
  <2>. HIDE DEF min, max, step
  <2>3. /\ volume \in min..max
        /\ (volume - min) % step = 0
        /\ volume * unit <= allowed
        /\ \A v \in min..max : (v - min) % step = 0 /\ v * unit <= allowed => v <= volume
    BY <1>1, <2>1, <2>2, Grid
  <2>. QED
    BY <2>3 DEF min, max, step
<1>6. volume \in Int /\ f.volumeMin <= volume /\ volume <= f.volumeMax
  BY <1>3, <1>5
<1>7. SizeIsValid(f, loss, allowed, volume)
  BY <1>2, <1>5, <1>6 DEF SizeIsValid, Within
<1>8. \A v \in f.volumeMin..f.volumeMax :
         (v - f.volumeMin) % f.volumeStep = 0 /\ Within(v, loss, allowed) => v <= volume
  BY <1>2, <1>3, <1>5 DEF Within
<1>. QED
  BY <1>5, <1>7, <1>8 DEF volume

\* As long as a peak is positive, an account of less equity is at least as deep in drawdown.
LEMMA DrawdownGrows ==
    ASSUME NEW e \in Int, NEW f \in Int, e <= f, NEW peak \in Nat \ {0}, NEW percent \in 0..Whole,
           (Larger(peak, f) - f) * Whole >= percent * Larger(peak, f)
    PROVE  (Larger(peak, e) - e) * Whole >= percent * Larger(peak, e)
<1>1. CASE f <= peak
  BY <1>1 DEF Larger, Whole
<1>2. CASE peak < f
  <2>1. percent * f <= 0
    BY <1>2 DEF Larger, Whole
  <2>2. percent = 0
    <3>1. percent \in Nat /\ f \in Nat /\ f >= 1
      BY <1>2 DEF Whole
    <3>2. percent >= 1 => 1 * f <= percent * f
      BY <3>1, ProductGrows
    <3>. QED
      BY <2>1, <3>1, <3>2
  <2>3. Larger(peak, e) - e \in Nat /\ percent * Larger(peak, e) = 0
    BY <2>2 DEF Larger
  <2>. QED
    BY <2>3 DEF Whole
<1>. QED
  BY <1>1, <1>2

-----------------------------------------------------------------------------
(* The theorems                                                            *)

\* Every reachable state has its types, and every baseline that was superseded names the
\* one that replaced it (RiskBaselineRecord.validate_lifecycle).
THEOREM RiskTypeCorrect == Spec => []RiskTypeOK
<1>. DEFINE Ties == context # None => held = None
<1>1. IInv /\ Rows /\ Ties => RiskTypeOK
  BY DEF IInv, ContextFits, DecisionFits, Rows, RowFits, RiskTypeOK
<1>2. Init => Ties
  BY DEF Init
<1>3. IInv /\ Rows /\ Ties /\ [Next]_vars => Ties'
  <2>. SUFFICES ASSUME Ties, [Next]_vars PROVE Ties'
    OBVIOUS
  <2>1. CASE UNCHANGED <<context, held>>
    BY <2>1
  <2>2. ASSUME NEW b, NEW c, NEW row, NEW at, NEW until,
               AppendBaseline(b, row) \/ SupersedeBaseline(b, c, at, until) \/ InvalidateBaseline(b, at)
        PROVE  UNCHANGED <<context, held>>
    BY <2>2 DEF AppendBaseline, SupersedeBaseline, InvalidateBaseline
  <2>3. ASSUME NEW account, NEW equity, NEW positions, NEW facts,
               TakeSnapshot(account, equity, positions, facts)
        PROVE  Ties'
    BY <2>3 DEF TakeSnapshot
  <2>4. ASSUME NEW account, NEW positions, NEW timely, BuildContext(account, positions, timely)
        PROVE  Ties'
    BY <2>4 DEF BuildContext
  <2>5. ASSUME NEW q, Decide(q) PROVE UNCHANGED <<context, held>>
    BY <2>5 DEF Decide
  <2>6. CASE Tick \/ UNCHANGED vars
    BY <2>1, <2>6 DEF Tick, vars
  <2>. QED
    BY <2>1, <2>2, <2>3, <2>4, <2>5, <2>6 DEF Next
<1>. QED
  BY <1>1, <1>2, <1>3, Invariant, RowsInvariant, PTL DEF Spec

\* A risk context is made only of the one baseline in force for the account of its snapshot,
\* however many baselines there are (AccountRiskContextProvider.build).
THEOREM BaselineIsUnambiguous == Spec => ContextIsUnambiguous
<1>1. ASSUME Rows, [Next]_vars, context = None, context' # None
      PROVE  /\ context'.account = snapshot.account
             /\ \A b \in Baseline \ {context'.baseline} :
                   \/ baselines[b] = None
                   \/ baselines[b].state # "ACTIVE"
                   \/ AccountOf[b] # snapshot.account
                   \/ baselines[b].day # DayOf(now)
                   \/ now < baselines[b].from
                   \/ baselines[b].until # None /\ baselines[b].until <= now
  <2>1. PICK account, positions, timely : BuildContext(account, positions, timely)
    <3>1. ASSUME NEW b, NEW c, NEW row, NEW at, NEW until,
                 AppendBaseline(b, row) \/ SupersedeBaseline(b, c, at, until) \/ InvalidateBaseline(b, at)
          PROVE  context' = context
      BY <3>1 DEF AppendBaseline, SupersedeBaseline, InvalidateBaseline
    <3>2. ASSUME NEW account, NEW equity, NEW positions, NEW facts,
                 TakeSnapshot(account, equity, positions, facts)
          PROVE  context' = None
      BY <3>2 DEF TakeSnapshot
    <3>3. ASSUME NEW q, Decide(q) PROVE context' = context
      BY <3>3 DEF Decide
    <3>4. Tick \/ UNCHANGED vars => context' = context
      BY DEF Tick, vars
    <3>. QED
      BY <1>1, <3>1, <3>2, <3>3, <3>4 DEF Next
  <2>. DEFINE active == ActiveBaselines(account, now)
              chosen == Chosen(active)
  <2>2. active \in SUBSET Baseline
    BY DEF ActiveBaselines
  <2>3. account = snapshot.account /\ chosen \notin Held /\ context' = ContextOf(chosen, positions)
    BY <1>1, <2>1, NoneAssumption DEF BuildContext, Held
  <2>4. active = {chosen}
    BY <2>2, <2>3, ChosenIsActive
  <2>5. context'.baseline = chosen /\ context'.account = account
    BY <2>3, <2>4 DEF ContextOf, ActiveBaselines
  <2>6. ASSUME NEW b \in Baseline \ {chosen}
        PROVE  \/ baselines[b] = None
               \/ baselines[b].state # "ACTIVE"
               \/ AccountOf[b] # account
               \/ baselines[b].day # DayOf(now)
               \/ ~AppliesAt(baselines[b], now)
    BY <2>4 DEF ActiveBaselines
  <2>7. ASSUME NEW b \in Baseline, baselines[b] # None, ~AppliesAt(baselines[b], now)
        PROVE  \/ now < baselines[b].from
               \/ baselines[b].until # None /\ baselines[b].until <= now
    <3>1. baselines[b] \in BaselineRow /\ now \in Nat
      BY <1>1, <2>7, RiskContextAssumption DEF Rows, Time
    <3>. QED
      BY <2>7, <3>1 DEF BaselineRow, AppliesAt
  <2>. QED
    BY <2>3, <2>5, <2>6, <2>7
<1>. QED
  BY <1>1, RowsInvariant, PTL DEF Spec, ContextIsUnambiguous

\* An account of less equity is never permitted a larger share of it, under any limits
\* (AccountRiskEvaluator: drawdown, daily loss and equity all count against it).
THEOREM LessEquityIsSafe == Spec => []LessEquityNoMoreRisk
<1>1. ASSUME ContextFits, SnapshotFits, context # None, NEW e \in Equity, e <= snapshot.equity
      PROVE  PermittedRisk(AccountState([snapshot EXCEPT !.equity = e], context))
                <= PermittedRisk(AccountState(snapshot, context))
  <2>. DEFINE f == snapshot.equity
              s == [snapshot EXCEPT !.equity = e]
  <2>1. e \in Int /\ f \in Int /\ context.peak \in Nat \ {0} /\ context.dayStart \in Nat \ {0}
    BY <1>1, RiskContextAssumption DEF ContextFits, SnapshotFits
  <2>2. s.equity = e
    BY <1>1 DEF SnapshotFits
  <2>. HIDE DEF s
  <2>3. \A percent \in 0..Whole :
          AtDrawdown(snapshot, context, percent) => AtDrawdown(s, context, percent)
    BY <1>1, <2>1, <2>2, DrawdownGrows DEF AtDrawdown, Reaches, Drawdown, EffectivePeak
  <2>4. Reaches(DailyLoss(snapshot, context), context.dayStart, MaximumDailyLoss)
        => Reaches(DailyLoss(s, context), context.dayStart, MaximumDailyLoss)
    <3>1. DailyLoss(snapshot, context) \in Int /\ DailyLoss(s, context) \in Int
          /\ DailyLoss(snapshot, context) <= DailyLoss(s, context)
      BY <1>1, <2>1, <2>2 DEF DailyLoss, Larger
    <3>2. MaximumDailyLoss * context.dayStart \in Int
      BY <2>1, ConstitutionAssumption DEF Whole
    <3>. QED
      BY <3>1, <3>2 DEF Reaches, Whole
  <2>5. HaltReasons(snapshot, context) # {} => HaltReasons(s, context) # {}
    BY <1>1, <2>1, <2>2, <2>3, <2>4, HaltReasonsAre, ConstitutionAssumption
  <2>6. AccountState(snapshot, context) = "HALTED" => AccountState(s, context) = "HALTED"
    BY <2>3, <2>5, ConstitutionAssumption, AccountStateIs
  <2>7. AccountState(s, context) = "NORMAL" => AccountState(snapshot, context) = "NORMAL"
    BY <2>3, <2>5, ConstitutionAssumption, AccountStateIs
  <2>8. 0 <= MinimumRisk /\ MinimumRisk <= NormalRisk /\ MinimumRisk \in Int /\ NormalRisk \in Int
    BY ConstitutionAssumption
  <2>. QED
    BY <2>6, <2>7, <2>8 DEF PermittedRisk, s
<1>2. IInv => LessEquityNoMoreRisk
  BY <1>1 DEF IInv, LessEquityNoMoreRisk
<1>. QED
  BY <1>2, Invariant, PTL

\* Whatever the prices and the properties of the symbol, an approved proposal that is stopped
\* out loses no more than the constitution allows, and nothing was approved in a state that
\* forbids it (RiskEngine.evaluate, PositionSizer.calculate).
THEOREM ApprovalIsSafe == Spec => []ApprovedIsSafe
<1>. DEFINE q == decision.proposal
            result == decision.result
            loss == LossPerLot(snapshot.facts, StopDistance(q))
            lost == loss * result.volume
            top == Larger(context.peak, snapshot.equity)
            warned == (top - snapshot.equity) * Whole >= DrawdownWarning * top
            p(at) == Proposed(q, at)
            f == snapshot.facts
            percent == PermittedRisk(AccountState(snapshot, context))
<1>1. ASSUME IInv, decision # None, result.status # "APPROVED"
      PROVE  result.reasons # {} /\ result.volume = None
  BY <1>1, RefusedHasReasons DEF IInv, DecisionFits
<1>2. ASSUME IInv, decision # None, result.status = "APPROVED"
      PROVE  /\ lost * Whole <= NormalRisk * snapshot.equity
             /\ warned => lost * Whole <= MinimumRisk * snapshot.equity
             /\ (top - snapshot.equity) * Whole < DrawdownStop * top
             /\ (context.dayStart - snapshot.equity) * Whole < MaximumDailyLoss * context.dayStart
             /\ context.positions < MaximumOpenPositions
             /\ RewardDistance(q) * 100 >= MinimumRiskReward * StopDistance(q)
             /\ context.account = snapshot.account
  <2>1. PICK at \in Time : result = Evaluate(p(at), snapshot, f, context, at)
    BY <1>2 DEF IInv, DecisionFits
  <2>2. q \in Proposal /\ context # None /\ snapshot # None
    BY <1>2 DEF IInv, DecisionFits, ContextFits
  <2>3. /\ snapshot.equity \in Int /\ f \in Facts
        /\ context.peak \in Nat \ {0} /\ context.dayStart \in Nat \ {0}
        /\ context.positions \in Int
    BY <1>2, <2>2, RiskContextAssumption DEF IInv, SnapshotFits, ContextFits
  <2>4. /\ StopDistance(p(at)) = StopDistance(q) /\ RewardDistance(p(at)) = RewardDistance(q)
        /\ p(at).entry = q.entry /\ p(at).stop = q.stop /\ p(at).target = q.target
    BY DEF Proposed, StopDistance, RewardDistance
  <2>5. /\ ProposalReasons(p(at), snapshot, f) = {} /\ AccountReasons(snapshot, context, at) = {}
        /\ Size(snapshot.equity, percent, StopDistance(q), f).reasons = {}
        /\ result.volume = Size(snapshot.equity, percent, StopDistance(q), f).volume
    <3>1. Evaluate(p(at), snapshot, f, context, at).status = "APPROVED"
      BY <1>2, <2>1
    <3>. HIDE DEF p
    <3>. QED
      BY <2>1, <2>4, <3>1, ApprovedIs
  <2>. HIDE DEF p
  <2>6. /\ q.entry # None /\ q.stop # None /\ q.target # None /\ f.tickSize > 0
        /\ ~(RewardDistance(q) * 100 < MinimumRiskReward * StopDistance(q))
    BY <2>4, <2>5, ProposalIsFine
  <2>7. q.entry \in Int /\ q.stop \in Int /\ q.target \in Int
    BY <2>2, <2>6, InputAssumption
  <2>8. StopDistance(q) \in Int /\ RewardDistance(q) \in Int
    BY <2>7 DEF StopDistance, RewardDistance, Distance
  <2>9. /\ HaltReasons(snapshot, context) = {} /\ context.account = snapshot.account
        /\ ~(context.positions >= MaximumOpenPositions)
    BY <2>5, AccountIsFine
  <2>10. /\ ~Reaches(DailyLoss(snapshot, context), context.dayStart, MaximumDailyLoss)
         /\ ~AtDrawdown(snapshot, context, DrawdownStop) /\ ~(snapshot.equity <= 0)
    BY <2>9, HaltReasonsAre
  <2>11. (top - snapshot.equity) * Whole < DrawdownStop * top
    <3>1. top \in Int
      BY <2>3 DEF Larger
    <3>2. (top - snapshot.equity) * Whole \in Int /\ DrawdownStop * top \in Int
      BY <2>3, <3>1, ConstitutionAssumption DEF Whole
    <3>3. ~((top - snapshot.equity) * Whole >= DrawdownStop * top)
      BY <2>10 DEF AtDrawdown, Reaches, Drawdown, EffectivePeak
    <3>. QED
      BY <3>2, <3>3
  <2>12. (context.dayStart - snapshot.equity) * Whole < MaximumDailyLoss * context.dayStart
    <3>1. DailyLoss(snapshot, context) \in Int
          /\ context.dayStart - snapshot.equity <= DailyLoss(snapshot, context)
      BY <2>3 DEF DailyLoss, Larger
    <3>2. MaximumDailyLoss * context.dayStart \in Int
      BY <2>3, ConstitutionAssumption DEF Whole
    <3>. QED
      BY <2>3, <2>10, <3>1, <3>2 DEF Reaches, Whole
  <2>13. loss \in Int /\ result.volume \in Int
         /\ result.volume * loss * Whole <= snapshot.equity * percent
    <3>1. Figures(f) /\ {q.entry, q.stop, q.target} \subseteq Int \cup {None}
      BY <2>2, <2>3, InputAssumption DEF Figures
    <3>2. percent \in Int
      BY ConstitutionAssumption DEF PermittedRisk
    <3>3. /\ Coherent(snapshot.equity, percent, StopDistance(q), f)
          /\ Within(f.volumeMin, loss, AllowedRisk(snapshot.equity, percent))
          /\ Within(result.volume, loss, AllowedRisk(snapshot.equity, percent))
          /\ result.volume = Selected(f, loss, AllowedRisk(snapshot.equity, percent))
      BY <2>5, SizeIs DEF SizeIsValid
    <3>4. loss \in Nat \ {0}
      BY <2>4, <2>5, <3>1, <3>3, LossIsPositive DEF Coherent
    <3>5. AllowedRisk(snapshot.equity, percent) \in Int
      BY <2>3, <3>2 DEF AllowedRisk
    <3>. HIDE DEF loss, percent, f
    <3>6. result.volume \in f.volumeMin..f.volumeMax /\ f.volumeMin \in Int /\ f.volumeMax \in Int
      BY <3>1, <3>3, <3>4, <3>5, SizerSelects DEF Coherent, Figures
    <3>. QED
      BY <3>3, <3>4, <3>6 DEF Within, AllowedRisk
  <2>14. percent \in Int /\ percent <= NormalRisk
    BY ConstitutionAssumption DEF PermittedRisk
  <2>15. warned => percent <= MinimumRisk
    <3>1. warned => AtDrawdown(snapshot, context, DrawdownWarning)
      BY DEF AtDrawdown, Reaches, Drawdown, EffectivePeak
    <3>2. warned => AccountState(snapshot, context) # "NORMAL"
      BY <3>1, AccountStateIs
    <3>. QED
      BY <3>2, ConstitutionAssumption DEF PermittedRisk
  <2>. HIDE DEF loss, percent, warned
  <2>16. snapshot.equity * percent <= NormalRisk * snapshot.equity
         /\ (warned => snapshot.equity * percent <= MinimumRisk * snapshot.equity)
    <3>1. snapshot.equity \in Nat /\ NormalRisk \in Int /\ MinimumRisk \in Int
      BY <2>3, <2>10, ConstitutionAssumption
    <3>. QED
      BY <2>14, <2>15, <3>1, ProductGrows
  <2>17. lost * Whole = result.volume * loss * Whole
    BY <2>13, ProductCommutes
  <2>18. /\ snapshot.equity * percent \in Int
         /\ NormalRisk * snapshot.equity \in Int /\ MinimumRisk * snapshot.equity \in Int
         /\ result.volume * loss * Whole \in Int
    <3>1. NormalRisk \in Int /\ MinimumRisk \in Int /\ Whole \in Int
      BY ConstitutionAssumption DEF Whole
    <3>2. result.volume * loss \in Int
      BY <2>13
    <3>. QED
      BY <2>3, <2>14, <3>1, <3>2
  <2>19. lost * Whole <= NormalRisk * snapshot.equity
         /\ (warned => lost * Whole <= MinimumRisk * snapshot.equity)
    BY <2>13, <2>16, <2>17, <2>18
  <2>20. context.positions < MaximumOpenPositions
         /\ RewardDistance(q) * 100 >= MinimumRiskReward * StopDistance(q)
    BY <2>3, <2>6, <2>8, <2>9, ConstitutionAssumption
  <2>. QED
    BY <2>9, <2>11, <2>12, <2>19, <2>20
<1>3. IInv => ApprovedIsSafe
  BY <1>1, <1>2 DEF ApprovedIsSafe
<1>. QED
  BY <1>3, Invariant, PTL

\* The volume of every decision is the largest the broker's grid and the constitution permit,
\* for any grid and any prices; the sizer's own last check never fails
\* (PositionSizer.calculate).
THEOREM VolumeIsBest == Spec => []BestVolume
<1>. DEFINE q == decision.proposal
            result == decision.result
            f == snapshot.facts
            percent == PermittedRisk(AccountState(snapshot, context))
            loss == LossPerLot(f, StopDistance(q))
            allowed == AllowedRisk(snapshot.equity, percent)
            size == Size(snapshot.equity, percent, StopDistance(q), f)
<1>1. ASSUME IInv, decision # None,
             NEW code \in {"MINIMUM_VOLUME_EXCEEDS_RISK", "POSITION_SIZE_INVARIANT_FAILED"},
             result.volume # None \/ code \in result.reasons
      PROVE  /\ result.volume # None => result.volume \in Affordable
                                        /\ \A v \in Affordable : v <= result.volume
             /\ code \in result.reasons => code = "MINIMUM_VOLUME_EXCEEDS_RISK" /\ Affordable = {}
  <2>1. PICK at \in Time :
          result = Evaluate(Proposed(q, at), snapshot, f, context, at)
    BY <1>1 DEF IInv, DecisionFits
  <2>. DEFINE p == Proposed(q, at)
  <2>2. q \in Proposal /\ context # None /\ snapshot # None
    BY <1>1 DEF IInv, DecisionFits, ContextFits
  <2>3. snapshot.equity \in Int /\ f \in Facts
    BY <1>1, <2>2, RiskContextAssumption DEF IInv, SnapshotFits
  <2>4. /\ StopDistance(p) = StopDistance(q)
        /\ p.entry = q.entry /\ p.stop = q.stop /\ p.target = q.target
    BY DEF Proposed, StopDistance
  <2>. HIDE DEF p
  <2>5. /\ ProposalReasons(p, snapshot, f) = {} /\ result.volume = size.volume
        /\ code \in result.reasons => code \in size.reasons
    BY <1>1, <2>1, <2>4, VolumeIs DEF p
  <2>6. Figures(f) /\ {p.entry, p.stop, p.target} \subseteq Int \cup {None}
    BY <2>2, <2>3, <2>4, InputAssumption DEF Figures
  <2>7. percent \in Int
    BY ConstitutionAssumption DEF PermittedRisk
  <2>8. allowed \in Int
    BY <2>3, <2>7 DEF AllowedRisk
  <2>9. Coherent(snapshot.equity, percent, StopDistance(q), f)
        => loss \in Nat \ {0} /\ f.volumeMin > 0 /\ f.volumeMin <= f.volumeMax /\ f.volumeStep > 0
    BY <2>4, <2>5, <2>6, LossIsPositive DEF Coherent
  <2>10. result.state = AccountState(snapshot, context)
    BY <2>1 DEF Evaluate
  <2>11. Affordable = {v \in f.volumeMin..f.volumeMax :
                         (v - f.volumeMin) % f.volumeStep = 0 /\ Within(v, loss, allowed)}
    BY <2>10 DEF Affordable
  <2>. HIDE DEF q, result, f, percent, loss, allowed, size
  <2>12. CASE result.volume # None
    <3>1. size.reasons = {}
      BY <2>5, <2>12, SizeRefuses DEF size
    <3>2. /\ Coherent(snapshot.equity, percent, StopDistance(q), f)
          /\ Within(f.volumeMin, loss, allowed)
          /\ result.volume = Selected(f, loss, allowed)
      BY <2>5, <3>1, SizeIs DEF size, loss, allowed
    <3>3. /\ result.volume \in f.volumeMin..f.volumeMax
          /\ SizeIsValid(f, loss, allowed, result.volume)
          /\ \A v \in f.volumeMin..f.volumeMax :
                (v - f.volumeMin) % f.volumeStep = 0 /\ Within(v, loss, allowed)
                => v <= result.volume
      BY <2>6, <2>8, <2>9, <3>2, SizerSelects
    <3>4. code \notin result.reasons
      BY <2>5, <3>1
    <3>. QED
      BY <2>11, <3>3, <3>4 DEF SizeIsValid
  <2>13. CASE result.volume = None /\ code \in result.reasons
    <3>1. code # "POSITION_SIZE_INVARIANT_FAILED"
      <4>. SUFFICES ASSUME code = "POSITION_SIZE_INVARIANT_FAILED" PROVE FALSE
        OBVIOUS
      <4>1. /\ Coherent(snapshot.equity, percent, StopDistance(q), f)
            /\ Within(f.volumeMin, loss, allowed)
            /\ ~SizeIsValid(f, loss, allowed, Selected(f, loss, allowed))
        BY <2>5, <2>13, SizeRefuses DEF size, loss, allowed
      <4>. QED
        BY <2>6, <2>8, <2>9, <4>1, SizerSelects
    <3>2. /\ Coherent(snapshot.equity, percent, StopDistance(q), f)
          /\ ~Within(f.volumeMin, loss, allowed)
      BY <2>5, <2>13, <3>1, SizeRefuses DEF size, loss, allowed
    <3>3. ASSUME NEW v \in f.volumeMin..f.volumeMax PROVE ~Within(v, loss, allowed)
      <4>1. loss \in Nat /\ f.volumeMin \in Int /\ f.volumeMax \in Int
        BY <2>6, <2>9, <3>2 DEF Figures
      <4>2. v \in Int /\ f.volumeMin <= v
        BY <4>1
      <4>3. f.volumeMin * (loss * Whole) <= v * (loss * Whole)
        BY <4>1, <4>2, ProductGrows DEF Whole
      <4>4. /\ f.volumeMin * loss * Whole = f.volumeMin * (loss * Whole)
            /\ v * loss * Whole = v * (loss * Whole)
        BY <4>1, <4>2, ProductCommutes DEF Whole
      <4>5. f.volumeMin * loss * Whole \in Int /\ v * loss * Whole \in Int
        BY <4>1, <4>2 DEF Whole
      <4>. QED
        BY <2>8, <3>2, <4>3, <4>4, <4>5 DEF Within
    <3>. QED
      BY <2>11, <2>13, <3>1, <3>3
  <2>. QED
    BY <1>1, <2>12, <2>13
<1>2. ASSUME IInv PROVE BestVolume
  BY <1>1, <1>2 DEF BestVolume
<1>. QED
  BY <1>2, Invariant, PTL
=============================================================================
