----------------------------- MODULE RiskEngine -----------------------------
(***************************************************************************)
(* The M3 risk engine: ProposalValidator, AccountRiskEvaluator,             *)
(* PositionSizer and RiskEngine.evaluate, as operators.                     *)
(*                                                                         *)
(* Decimals are integers of a fixed small unit.  Percentages are hundredths *)
(* of a percentage point, so Whole is 100 %, and quotients are compared     *)
(* after multiplication: the code's 28 digits hold its quotients exactly    *)
(* enough that no comparison differs.                                       *)
(***************************************************************************)
EXTENDS Integers

CONSTANTS
    MinimumRisk, NormalRisk,            \* minimum_, normal_risk_percent
    MaximumOpenPositions,
    MaximumDailyLoss,                   \* maximum_daily_loss_percent
    DrawdownWarning, DrawdownSafeMode, DrawdownStop,
    MinimumRiskReward,                  \* minimum_risk_reward, in hundredths
    None                                \* no value

Whole == 10000

ASSUME ConstitutionAssumption ==
    /\ MinimumRisk \in 0..100 /\ NormalRisk \in MinimumRisk..100
    /\ MaximumOpenPositions \in Nat \ {0}
    /\ MaximumDailyLoss \in 0..Whole
    /\ DrawdownWarning \in 0..Whole /\ DrawdownSafeMode \in 0..Whole /\ DrawdownStop \in 0..Whole
    /\ DrawdownWarning < DrawdownSafeMode /\ DrawdownSafeMode < DrawdownStop
    /\ MinimumRiskReward \in Nat \ {0}

Larger(a, b) == IF a < b THEN b ELSE a
Smaller(a, b) == IF a < b THEN a ELSE b
Distance(a, b) == IF a < b THEN b - a ELSE a - b

\* part is at least percent of whole.
Reaches(part, whole, percent) == part * Whole >= percent * whole

\* The reasons whose condition holds, given as a record of conditions.
Failing(conditions) == {code \in DOMAIN conditions : conditions[code]}

-----------------------------------------------------------------------------
(* AccountRiskEvaluator *)

\* s: the snapshot's account and positions.  x: the AccountRiskContext.
EffectivePeak(s, x) == Larger(x.peak, s.equity)
Drawdown(s, x) == EffectivePeak(s, x) - s.equity
DailyLoss(s, x) == Larger(0, x.dayStart - s.equity)

\* As AtDrawdown, but a threshold has to be passed.
PastDrawdown(s, x, percent) ==
    Drawdown(s, x) * Whole > percent * EffectivePeak(s, x)

AtDrawdown(s, x, percent) == Reaches(Drawdown(s, x), EffectivePeak(s, x), percent)

DrawdownState(s, x) ==
    IF AtDrawdown(s, x, DrawdownStop) THEN "HALTED"
    ELSE IF AtDrawdown(s, x, DrawdownSafeMode) THEN "SAFE_MODE"
    ELSE IF AtDrawdown(s, x, DrawdownWarning) THEN "CAUTION"
    ELSE "NORMAL"

\* The reasons that also halt.
HaltReasons(s, x) ==
    Failing([NON_POSITIVE_EQUITY |-> s.equity <= 0,
             DAILY_LOSS_LIMIT_REACHED |-> Reaches(DailyLoss(s, x), x.dayStart, MaximumDailyLoss),
             MAXIMUM_DRAWDOWN_REACHED |-> AtDrawdown(s, x, DrawdownStop)])

AccountReasons(s, x, at) ==
    HaltReasons(s, x) \cup
    Failing([TRACEABILITY_MISMATCH |-> x.snapshot # s.id,
             ACCOUNT_CONTEXT_MISMATCH |-> x.account # s.account,
             ACCOUNT_CONTEXT_FUTURE_DATED |-> x.asOf > at,
             ACCOUNT_CONTEXT_PREDATES_SNAPSHOT |-> x.asOf < s.completedAt,
             TRADING_DAY_CONTEXT_INVALID |-> x.dayStartedAt > x.asOf,
             ACCOUNT_POSITION_COUNT_INCONSISTENT |-> x.positions < s.positions,
             MAXIMUM_POSITIONS_REACHED |-> x.positions >= MaximumOpenPositions])

AccountState(s, x) == IF HaltReasons(s, x) # {} THEN "HALTED" ELSE DrawdownState(s, x)

\* As PermittedRisk, but only CAUTION lowers the risk.
PermittedRiskCaution(state) ==
    CASE state = "HALTED" -> 0
      [] state = "CAUTION" -> MinimumRisk
      [] OTHER -> NormalRisk

PermittedRisk(state) ==
    CASE state = "HALTED" -> 0
      [] state = "NORMAL" -> NormalRisk
      [] OTHER -> MinimumRisk

-----------------------------------------------------------------------------
(* ProposalValidator *)

Usable(price) == price # None /\ price > 0

\* The stop and the target on their sides of the entry, where all three are usable.
Geometry(p) ==
    LET usable == Usable(p.entry) /\ Usable(p.stop) /\ Usable(p.target)
    IN  [usable |-> usable,
         stop |-> usable /\ IF p.side = "BUY" THEN p.stop < p.entry ELSE p.stop > p.entry,
         target |-> usable /\ IF p.side = "BUY" THEN p.target > p.entry ELSE p.target < p.entry]

StopDistance(p) == Distance(p.entry, p.stop)
RewardDistance(p) == Distance(p.target, p.entry)

\* f: what the snapshot says of the symbol and the account's permissions.
ProposalReasons(p, s, f) ==
    LET g == Geometry(p)
        coherent == f.tickSize > 0 /\ f.point > 0
        minimum == f.stopsLevel * f.point
    IN  Failing([TRACEABILITY_MISMATCH |-> p.snapshot # s.id,
                 SYMBOL_MISMATCH |-> p.symbol # f.symbol,
                 ENTRY_PRICE_REQUIRED |-> p.entry = None,
                 ENTRY_PRICE_INVALID |-> p.entry # None /\ ~Usable(p.entry),
                 STOP_LOSS_REQUIRED |-> p.stop = None,
                 STOP_LOSS_INVALID |-> p.stop # None /\ ~Usable(p.stop),
                 TAKE_PROFIT_REQUIRED |-> p.target = None,
                 TAKE_PROFIT_INVALID |-> p.target # None /\ ~Usable(p.target),
                 INVALID_STOP_GEOMETRY |-> g.usable /\ ~g.stop,
                 INVALID_TAKE_PROFIT_GEOMETRY |-> g.usable /\ ~g.target,
                 RISK_REWARD_BELOW_MINIMUM |->
                    g.stop /\ g.target /\
                    RewardDistance(p) * 100 < MinimumRiskReward * StopDistance(p),
                 INVALID_BROKER_RISK_METADATA |-> ~coherent,
                 PRICE_NOT_ALIGNED_TO_TICK_SIZE |->
                    coherent /\ \E price \in {p.entry, p.stop, p.target} :
                                   Usable(price) /\ price % f.tickSize # 0,
                 STOP_DISTANCE_BELOW_BROKER_MINIMUM |->
                    coherent /\ g.stop /\ StopDistance(p) < minimum,
                 TAKE_PROFIT_DISTANCE_BELOW_BROKER_MINIMUM |->
                    coherent /\ g.target /\ RewardDistance(p) < minimum,
                 SYMBOL_TRADING_DISABLED |-> f.mode \in {"DISABLED", "CLOSE_ONLY"},
                 TRADE_SIDE_NOT_ALLOWED |-> <<f.mode, p.side>> \in
                    {<<"LONG_ONLY", "SELL">>, <<"SHORT_ONLY", "BUY">>},
                 ACCOUNT_TRADING_DISABLED |-> ~f.tradeAllowed,
                 EXPERT_TRADING_DISABLED |-> ~f.expertAllowed])

-----------------------------------------------------------------------------
(* PositionSizer *)

\* Loss of one unit of volume at the stop, and Whole times the risk allowed.
LossPerLot(f, stop) == (stop \div f.tickSize) * f.tickValue
AllowedRisk(equity, percent) == equity * percent

\* The volume does not lose more than is allowed.
Within(volume, loss, allowed) == volume * loss * Whole <= allowed

\* As Selected, but the steps are counted from zero.
SelectedFromZero(f, loss, allowed) ==
    LET capped == Smaller(allowed, f.volumeMax * loss * Whole)
    IN  (capped \div (f.volumeStep * loss * Whole)) * f.volumeStep

\* The volume of the last step from volume_min that the raw volume, capped at
\* volume_max, reaches: the raw volume is allowed / (loss * Whole).
Selected(f, loss, allowed) ==
    LET unit == loss * Whole
        capped == Smaller(allowed, f.volumeMax * unit)
    IN  f.volumeMin + ((capped - f.volumeMin * unit) \div (f.volumeStep * unit)) * f.volumeStep

\* PositionSizingResult's conditions on an approved volume.
SizeIsValid(f, loss, allowed, volume) ==
    /\ f.volumeMin <= volume /\ volume <= f.volumeMax
    /\ (volume - f.volumeMin) % f.volumeStep = 0
    /\ Within(volume, loss, allowed)

Coherent(equity, percent, stop, f) ==
    /\ equity > 0 /\ percent > 0 /\ stop > 0
    /\ f.tickSize > 0 /\ f.tickValue > 0 /\ f.contractSize > 0
    /\ f.volumeMin > 0 /\ f.volumeMin <= f.volumeMax /\ f.volumeStep > 0

\* The reasons of PositionSizer.calculate and the volume it selects.
Size(equity, percent, stop, f) ==
    LET loss == LossPerLot(f, stop)
        allowed == AllowedRisk(equity, percent)
        volume == Selected(f, loss, allowed)
    IN  CASE ~Coherent(equity, percent, stop, f) ->
               [volume |-> None, reasons |-> {"INVALID_BROKER_RISK_METADATA"}]
          [] Coherent(equity, percent, stop, f) /\ ~Within(f.volumeMin, loss, allowed) ->
               [volume |-> None, reasons |-> {"MINIMUM_VOLUME_EXCEEDS_RISK"}]
          [] OTHER -> IF SizeIsValid(f, loss, allowed, volume)
                      THEN [volume |-> volume, reasons |-> {}]
                      ELSE [volume |-> None, reasons |-> {"POSITION_SIZE_INVARIANT_FAILED"}]

-----------------------------------------------------------------------------
(* RiskEngine.evaluate *)

Evaluate(p, s, f, x, at) ==
    LET checks == ProposalReasons(p, s, f) \cup AccountReasons(s, x, at) \cup
                  Failing([EVALUATION_TIMESTAMP_INVALID |-> at < s.completedAt \/ at < p.at])
        state == AccountState(s, x)
        size == IF checks = {}
                THEN Size(s.equity, PermittedRisk(state), StopDistance(p), f)
                ELSE [volume |-> None, reasons |-> {}]
        reasons == checks \cup size.reasons
    IN  [status |-> CASE state = "HALTED" -> "HALTED"
                      [] state # "HALTED" /\ reasons # {} -> "REJECTED"
                      [] OTHER -> "APPROVED",
         state |-> state, reasons |-> reasons, volume |-> size.volume]
=============================================================================
