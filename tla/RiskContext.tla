----------------------------- MODULE RiskContext -----------------------------
(***************************************************************************)
(* The risk baselines of the observation repository, the account risk       *)
(* context that AccountRiskContextProvider.build makes of one of them, and  *)
(* the decision the risk engine makes of that context.                      *)
(*                                                                         *)
(* An operator appends, replaces and invalidates baselines at any moment;   *)
(* a decision takes a snapshot, then a context, then, once the agents have  *)
(* made a proposal, the evaluation.  The account may be another one, and    *)
(* its positions may have changed, by the time its context is built.        *)
(***************************************************************************)
EXTENDS RiskEngine, FiniteSets

CONSTANTS
    Baseline,       \* baseline identities
    Account,        \* account references
    AccountOf,      \* the account, the equity at the start of the day and the peak
    DayStartOf,     \* of each baseline
    PeakOf,
    Equity,         \* equities an account may have
    Positions,      \* numbers of open positions
    Facts,          \* symbol properties and permissions a snapshot may show
    Proposal,       \* sides and prices a proposal may have
    DayLength,      \* times in one UTC day
    MaxTime         \* bound on time

ASSUME RiskContextAssumption ==
    /\ AccountOf \in [Baseline -> Account]
    /\ DayStartOf \in [Baseline -> Nat \ {0}] /\ PeakOf \in [Baseline -> Nat \ {0}]
    /\ Equity \subseteq Int /\ Positions \subseteq Nat
    /\ DayLength \in Nat \ {0} /\ MaxTime \in Nat
    /\ None \notin Int /\ None \notin Baseline /\ IsFiniteSet(Baseline)

\* Prices and the figures of a symbol are decimals; a proposal may lack a price.
ASSUME InputAssumption ==
    /\ \A f \in Facts : {f.tickSize, f.tickValue, f.volumeMin, f.volumeMax, f.volumeStep} \subseteq Int
    /\ \A q \in Proposal : {q.entry, q.stop, q.target} \subseteq Int \cup {None}

VARIABLES
    now,
    baselines,      \* baselines[b]: its row in m9_risk_baselines
    snapshot,       \* the accepted snapshot of the decision being made
    context,        \* its account risk context
    held,           \* why there is none: the category of its POLICY_HOLD
    decision        \* the risk engine's decision on its proposal

vars == <<now, baselines, snapshot, context, held, decision>>

Time == 0..MaxTime
DayOf(t) == t \div DayLength

BaselineRow ==
    [state : {"ACTIVE", "SUPERSEDED", "INVALIDATED"}, day : Nat,
     from : Nat, until : Nat \cup {None}, by : Baseline \cup {None}]

Held == {"RISK_CONTEXT_INVALID", "RISK_BASELINE_MISSING", "RISK_BASELINE_AMBIGUOUS"}

ASSUME NoneAssumption == None \notin Held

Init ==
    /\ now = 0
    /\ baselines = [b \in Baseline |-> None]
    /\ snapshot = None /\ context = None /\ held = None /\ decision = None

-----------------------------------------------------------------------------
(* The baselines *)

\* RiskBaselineRecord.validate_lifecycle, the part about times.
ValidTimes(row) ==
    /\ row.day * DayLength <= row.from
    /\ row.until # None => row.from < row.until

NewRow(day, from, until) ==
    [state |-> "ACTIVE", day |-> day, from |-> from, until |-> until, by |-> None]

AppendBaseline(b, row) ==
    /\ baselines[b] = None /\ ValidTimes(row)
    /\ baselines' = [baselines EXCEPT ![b] = row]
    /\ UNCHANGED <<now, snapshot, context, held, decision>>

Ended(b, state, at, by) == [baselines[b] EXCEPT !.state = state, !.until = at, !.by = by]

\* supersede_baseline: the replacement has the account and the day of the old one and
\* begins at the moment the old one ends.
SupersedeBaseline(b, c, at, until) ==
    LET old == Ended(b, "SUPERSEDED", at, c)
        new == NewRow(baselines[b].day, at, until)
    IN  /\ baselines[b] # None /\ baselines[b].state = "ACTIVE"
        /\ AccountOf[c] = AccountOf[b] /\ baselines[c] = None
        /\ ValidTimes(old) /\ ValidTimes(new)
        /\ baselines' = [baselines EXCEPT ![b] = old, ![c] = new]
        /\ UNCHANGED <<now, snapshot, context, held, decision>>

InvalidateBaseline(b, at) ==
    LET old == Ended(b, "INVALIDATED", at, None)
    IN  /\ baselines[b] # None /\ baselines[b].state = "ACTIVE"
        /\ ValidTimes(old)
        /\ baselines' = [baselines EXCEPT ![b] = old]
        /\ UNCHANGED <<now, snapshot, context, held, decision>>

\* applies_at.
AppliesAt(row, t) == row.from <= t /\ (row.until # None => t < row.until)

\* active_baselines for one account, on the day of t.
ActiveBaselines(account, t) ==
    {b \in Baseline : /\ baselines[b] # None /\ baselines[b].state = "ACTIVE"
                      /\ AccountOf[b] = account /\ baselines[b].day = DayOf(t)
                      /\ AppliesAt(baselines[b], t)}

-----------------------------------------------------------------------------
(* A decision *)

\* A new cycle begins with its snapshot once the one before is over: held or decided.
TakeSnapshot(account, equity, positions, facts) ==
    /\ snapshot = None \/ held # None \/ decision # None
    /\ snapshot' = [id |-> "snapshot", account |-> account, equity |-> equity,
                    positions |-> positions, completedAt |-> now, facts |-> facts]
    /\ context' = None /\ held' = None /\ decision' = None
    /\ UNCHANGED <<now, baselines>>

ContextOf(b, positions) ==
    [baseline |-> b, snapshot |-> snapshot.id, account |-> AccountOf[b], asOf |-> now,
     dayStartedAt |-> baselines[b].day * DayLength, peak |-> PeakOf[b],
     dayStart |-> DayStartOf[b], positions |-> positions]

\* As Chosen, but the first of several baselines will do.
ChosenFirst(active) ==
    IF active = {} THEN "RISK_BASELINE_MISSING" ELSE CHOOSE b \in active : TRUE

\* The only active baseline, or why there is none.
Chosen(active) ==
    CASE active = {} -> "RISK_BASELINE_MISSING"
      [] Cardinality(active) = 1 -> CHOOSE b \in active : TRUE
      [] OTHER -> "RISK_BASELINE_AMBIGUOUS"

\* AccountRiskContextProvider.build, with the account and the positions of now.
\* timely: they were retrieved after the snapshot was complete, by the clock of
\* the client.
BuildContext(account, positions, timely) ==
    LET chosen == Chosen(ActiveBaselines(account, now))
    IN  /\ snapshot # None /\ context = None /\ held = None
        /\ held' = IF account # snapshot.account \/ ~timely THEN "RISK_CONTEXT_INVALID"
                   ELSE IF chosen \in Held THEN chosen
                   ELSE None
        /\ context' = IF held' = None THEN ContextOf(chosen, positions) ELSE None
        /\ UNCHANGED <<now, baselines, snapshot, decision>>

\* The agents' proposal is evaluated.
Decide(q) ==
    LET p == [side |-> q.side, entry |-> q.entry, stop |-> q.stop, target |-> q.target,
              snapshot |-> snapshot.id, symbol |-> snapshot.facts.symbol, at |-> now]
    IN  /\ context # None /\ decision = None
        /\ decision' = [proposal |-> q,
                        result |-> Evaluate(p, snapshot, snapshot.facts, context, now)]
        /\ UNCHANGED <<now, baselines, snapshot, context, held>>

Tick ==
    /\ now < MaxTime
    /\ now' = now + 1
    /\ UNCHANGED <<baselines, snapshot, context, held, decision>>

Next ==
    \/ \E b \in Baseline :
          \/ \E day \in {DayOf(t) : t \in Time}, from \in Time, until \in Time \cup {None} :
                AppendBaseline(b, NewRow(day, from, until))
          \/ \E c \in Baseline \ {b}, at \in Time, until \in Time \cup {None} :
                SupersedeBaseline(b, c, at, until)
          \/ \E at \in Time : InvalidateBaseline(b, at)
    \/ \E account \in Account, positions \in Positions :
          \/ \E equity \in Equity, facts \in Facts :
                TakeSnapshot(account, equity, positions, facts)
          \/ \E timely \in BOOLEAN : BuildContext(account, positions, timely)
    \/ \E q \in Proposal : Decide(q)
    \/ Tick

Spec == Init /\ [][Next]_vars

-----------------------------------------------------------------------------
(* Properties *)

\* The rows, the context and the decision have their types.
RiskTypeOK ==
    /\ now \in Time
    /\ baselines \in [Baseline -> BaselineRow \cup {None}]
    /\ \A b \in Baseline : baselines[b] # None =>
          /\ baselines[b].by # None <=> baselines[b].state = "SUPERSEDED"
          /\ ValidTimes(baselines[b])
    /\ held \in Held \cup {None}
    /\ context # None => context.baseline \in Baseline /\ snapshot # None /\ held = None
    /\ decision # None => context # None

\* A context is of the snapshot's account and of the one baseline in force: when it was
\* built, no other active baseline of that account and day covered its time (README: "M9
\* never picks the newest baseline implicitly").
ContextIsUnambiguous ==
    [][context = None /\ context' # None =>
          /\ context'.account = snapshot.account
          /\ \A b \in Baseline \ {context'.baseline} :
                \/ baselines[b] = None
                \/ baselines[b].state # "ACTIVE"
                \/ AccountOf[b] # snapshot.account
                \/ baselines[b].day # DayOf(now)
                \/ now < baselines[b].from
                \/ baselines[b].until # None /\ baselines[b].until <= now]_vars

\* The volumes of the broker's grid that lose no more than is allowed.
Affordable ==
    LET f == snapshot.facts
        loss == LossPerLot(f, StopDistance(decision.proposal))
        allowed == AllowedRisk(snapshot.equity, PermittedRisk(decision.result.state))
    IN  {v \in f.volumeMin..f.volumeMax :
            (v - f.volumeMin) % f.volumeStep = 0 /\ Within(v, loss, allowed)}

\* The selected volume is the largest affordable one, a proposal is turned down for the
\* minimum volume only when nothing is affordable, and the final check of the volume never
\* fails (PositionSizer.calculate; POSITION_SIZE_INVARIANT_FAILED is only a safeguard).
BestVolume ==
    decision # None =>
        LET result == decision.result
        IN  /\ result.volume # None => /\ result.volume \in Affordable
                                       /\ \A v \in Affordable : v <= result.volume
            /\ "MINIMUM_VOLUME_EXCEEDS_RISK" \in result.reasons => Affordable = {}
            /\ "POSITION_SIZE_INVARIANT_FAILED" \notin result.reasons

\* If an approved proposal is stopped out, the account loses at most the normal risk of its
\* equity, and at most the minimum risk when it was already in drawdown; it was neither
\* near its daily limit nor full, and the proposal pays enough for what it risks.  A
\* decision that is not approved has reasons and no volume, as RiskDecision demands.
ApprovedIsSafe ==
    /\ decision # None /\ decision.result.status # "APPROVED" =>
        decision.result.reasons # {} /\ decision.result.volume = None
    /\ decision # None /\ decision.result.status = "APPROVED" =>
        LET q == decision.proposal
            lost == LossPerLot(snapshot.facts, StopDistance(q)) * decision.result.volume
            top == Larger(context.peak, snapshot.equity)
            warned == (top - snapshot.equity) * Whole >= DrawdownWarning * top
        IN  /\ lost * Whole <= NormalRisk * snapshot.equity
            /\ warned => lost * Whole <= MinimumRisk * snapshot.equity
            /\ (top - snapshot.equity) * Whole < DrawdownStop * top
            /\ (context.dayStart - snapshot.equity) * Whole < MaximumDailyLoss * context.dayStart
            /\ context.positions < MaximumOpenPositions
            /\ RewardDistance(q) * 100 >= MinimumRiskReward * StopDistance(q)
            /\ context.account = snapshot.account

\* With the same baseline an account of less equity is never permitted a larger share of it.
LessEquityNoMoreRisk ==
    context # None =>
        \A e \in Equity : e <= snapshot.equity =>
            PermittedRisk(AccountState([snapshot EXCEPT !.equity = e], context))
                <= PermittedRisk(AccountState(snapshot, context))
=============================================================================
