-------------------------- MODULE HistoricalReplay --------------------------
(***************************************************************************)
(* The M8 replay and the M9 outcome tracking: HistoricalReplayEngine builds *)
(* frames of one dataset, freeze_replay_decision freezes proposals made on  *)
(* them, OutcomeEvaluator evaluates the frozen proposals, the results are   *)
(* appended to the replay repository and summarized, and                    *)
(* ShadowOutcomeTracker attaches them to the decisions it tracks.           *)
(*                                                                         *)
(* Identities are content digests, so a replay is its configuration, a      *)
(* frame is named by its replay and cutoff, a decision by its frame and     *)
(* proposal, and an outcome by these and the evaluation policy.  The M9     *)
(* decision that is tracked and the frozen decision with its trace identity *)
(* are one record.                                                          *)
(***************************************************************************)
EXTENDS OutcomeEvaluation

CONSTANTS
    Datasets,       \* the datasets the source may hold
    Config,         \* replay configurations: [partition, horizon, count]
    Schedule,       \* their replay_schedule
    ObservedAt,     \* effective_at of the snapshot observations
    EngineCounts,   \* candle counts in the market settings of the engines
    Proposals,      \* proposals: [side, entry, stop, target]
    MaxFrames, MaxDecisions, MaxOutcomes, MaxSummaries, MaxTracked  \* bounds

ASSUME ReplayAssumption ==
    /\ Config \subseteq [partition : Partition,
                         horizon : [unit : {"bars", "elapsed"}, size : Nat \ {0}],
                         count : Nat \ {0}]
    /\ Schedule \subseteq Nat /\ EngineCounts \subseteq Nat \ {0}
    /\ None \notin Int
    /\ Datasets \subseteq [Opens -> {None} \cup [low : Int, high : Int]]
    /\ Proposals \subseteq [side : {"BUY", "SELL"}, entry : Int \cup {None},
                            stop : Int \cup {None}, target : Int \cup {None}]
    /\ \A p \in Proposals :
          HasLevels(p) /\ ValidGeometry(p) =>
             (RScale * Size(p.target, p.entry)) % RiskUnit(p) = 0

VARIABLES
    data,           \* the dataset
    frames, decisions, outcomes, summaries,     \* the replay repository
    tracked         \* m9_outcomes

vars == <<data, frames, decisions, outcomes, summaries, tracked>>

Horizon == {c.horizon : c \in Config}
Status == {"TAKE_PROFIT_REACHED", "STOP_LOSS_REACHED", "AMBIGUOUS_INTRABAR",
           "UNRESOLVED_HORIZON"}

Init ==
    /\ data \in Datasets
    /\ frames = {} /\ decisions = {} /\ outcomes = {} /\ summaries = {} /\ tracked = {}

-----------------------------------------------------------------------------
(* The replay *)

\* _DecisionView.snapshot_observations: those of the last effective time.
ObservedBy(p, t) == {e \in ObservedAt : RangeOf[p].context <= e /\ e <= t}

\* HistoricalSnapshotBuilder.build, with the number of candles that its own
\* market settings ask for.
Snapshot(p, t, count) ==
    [seen |-> CompletedCandles(data, p, t, count), observed |-> Max(ObservedBy(p, t))]

\* HistoricalReplayEngine.build_frame and append_frame.
BuildFrame(c, t, count) ==
    LET p == c.partition
    IN  /\ Cardinality(frames) < MaxFrames
        /\ InEvaluation(p, t)
        /\ CompletedCandles(data, p, t, count) # <<>> /\ ObservedBy(p, t) # {}
        /\ \A f \in frames : <<f.replay, f.cutoff>> # <<c, t>>
        /\ frames' = frames \cup {[replay |-> c, cutoff |-> t, snapshot |-> Snapshot(p, t, count)]}
        /\ UNCHANGED <<data, decisions, outcomes, summaries, tracked>>

\* freeze_replay_decision and append_decision.
Freeze(f, proposal) ==
    LET d == [replay |-> f.replay, cutoff |-> f.cutoff, proposal |-> proposal]
    IN  /\ Cardinality(decisions) < MaxDecisions
        /\ d \notin decisions
        /\ decisions' = decisions \cup {d}
        /\ UNCHANGED <<data, frames, outcomes, summaries, tracked>>

\* The evaluator's own checks of the candles of the view.
ViewAccepted(candles, p, cutoff, horizon) ==
    /\ \A i \in DOMAIN candles :
          /\ candles[i].open >= cutoff /\ Closes(candles[i].open) > cutoff
          /\ i > 1 => candles[i].open > candles[i - 1].open
          /\ horizon.unit = "elapsed" => Closes(candles[i].open) <= cutoff + horizon.size
          /\ Closes(candles[i].open) <= RangeOf[p].end
    /\ horizon.unit = "bars" => Len(candles) <= horizon.size

OutcomeOf(d, candles, horizon) ==
    LET w == Walk(d.proposal, candles)
    IN  [replay |-> d.replay, cutoff |-> d.cutoff, proposal |-> d.proposal,
         horizon |-> horizon, status |-> w.status, bars |-> w.bars, ended |-> w.ended,
         favorable |-> w.favorable, adverse |-> w.adverse,
         realized |-> Realized(d.proposal, w.status)]

\* outcome_view, OutcomeEvaluator.evaluate and append_outcome.  _validate_links
\* compares the decision, the frame and the view, and of the configuration c
\* only its dataset and timeframe.
Evaluate(f, d, c) ==
    LET p == f.replay.partition
        candles == OutcomeView(data, p, d.cutoff, c.horizon)
    IN  /\ Cardinality(outcomes) < MaxOutcomes
        /\ d.replay = f.replay /\ d.cutoff = f.cutoff
        /\ InEvaluation(p, d.cutoff)
        /\ candles # <<>>
        /\ HasLevels(d.proposal) /\ ValidGeometry(d.proposal)
        /\ ViewAccepted(candles, p, d.cutoff, c.horizon)
        /\ \A o \in outcomes : <<o.replay, o.cutoff, o.proposal, o.horizon>>
                                  # <<d.replay, d.cutoff, d.proposal, c.horizon>>
        /\ outcomes' = outcomes \cup {OutcomeOf(d, candles, c.horizon)}
        /\ UNCHANGED <<data, frames, decisions, summaries, tracked>>

\* summarize_performance and append_summary: of all outcomes of a replay, or,
\* as summarize_by makes them, of those of one direction.  Outcomes of one
\* cutoff are in the order of their digests, which may be any.
Summarize(c, side) ==
    LET group == {o \in outcomes : o.replay = c /\ (side # None => o.proposal.side = side)}
    IN  /\ Cardinality(summaries) < MaxSummaries
        /\ group # {}
        /\ \A s \in summaries : s.outcomes # group
        /\ \E ordered \in SetToSeqs(group) :
              /\ \A i, j \in DOMAIN ordered : i < j => ordered[i].cutoff <= ordered[j].cutoff
              /\ summaries' = summaries \cup
                    {[replay |-> c, outcomes |-> group,
                      result |-> PerformanceSummary(ordered),
                      generated |-> Max({o.ended : o \in group})]}
        /\ UNCHANGED <<data, frames, decisions, outcomes, tracked>>

-----------------------------------------------------------------------------
(* ShadowOutcomeTracker *)

\* A decision has a shadow intent when the risk engine approved its proposal.
HasIntent(d) == HasLevels(d.proposal) /\ ValidGeometry(d.proposal)

Register(d, horizon) ==
    /\ Cardinality(tracked) < MaxTracked
    /\ HasIntent(d)
    /\ \A t \in tracked : t.decision # d
    /\ tracked' = tracked \cup {[decision |-> d, horizon |-> horizon,
                                 state |-> "PENDING", outcome |-> None]}
    /\ UNCHANGED <<data, frames, decisions, outcomes, summaries>>

TrackingState(status) ==
    CASE status \in {"TAKE_PROFIT_REACHED", "STOP_LOSS_REACHED"} -> "RESOLVED"
      [] status = "AMBIGUOUS_INTRABAR" -> "AMBIGUOUS"
      [] OTHER -> "UNRESOLVED_HORIZON"

\* As Matches, but the horizon of the outcome is not looked at.
MatchesAnyHorizon(t, o) ==
    /\ o.replay = t.decision.replay /\ o.cutoff = t.decision.cutoff
    /\ o.proposal = t.decision.proposal

\* The outcome is one of the tracked decision, over the horizon it was
\* registered with.
Matches(t, o) ==
    /\ o.replay = t.decision.replay /\ o.cutoff = t.decision.cutoff
    /\ o.proposal = t.decision.proposal
    /\ o.horizon = t.horizon

Attach(t, o) ==
    /\ t.state = "PENDING"
    /\ Matches(t, o)
    /\ tracked' = (tracked \ {t}) \cup
                     {[t EXCEPT !.state = TrackingState(o.status), !.outcome = o]}
    /\ UNCHANGED <<data, frames, decisions, outcomes, summaries>>

-----------------------------------------------------------------------------
Next ==
    \/ \E c \in Config, t \in Schedule, n \in EngineCounts : BuildFrame(c, t, n)
    \/ \E f \in frames, p \in Proposals : Freeze(f, p)
    \/ \E f \in frames, d \in decisions, c \in Config : Evaluate(f, d, c)
    \/ \E c \in Config, side \in {"BUY", "SELL", None} : Summarize(c, side)
    \/ \E d \in decisions, h \in Horizon : Register(d, h)
    \/ \E t \in tracked, o \in outcomes : Attach(t, o)

Spec == Init /\ [][Next]_vars

-----------------------------------------------------------------------------
(* Properties *)

\* The dataset with another candle, or none, at one open time.
Altered(o, r) == [data EXCEPT ![o] = r]
AnyRange == UNION {{d[o] : o \in Opens} : d \in Datasets}

\* No look-ahead (README: "At cutoff T, decision candles must close by T"):
\* the history in a frame is what the engine would have seen whatever candle,
\* or none, the dataset held at any time that had not closed by the cutoff.
NoLookAhead ==
    \A f \in frames : \A o \in Opens : \A r \in AnyRange :
        Closes(o) > f.cutoff =>
            \E n \in EngineCounts :
                f.snapshot.seen = CompletedCandles(Altered(o, r), f.replay.partition, f.cutoff, n)

\* The signed move, in favour of the proposal, of the best and the worst price
\* of a candle.
Best(p, c) == IF p.side = "BUY" THEN c.high - p.entry ELSE p.entry - c.low
Worst(p, c) == IF p.side = "BUY" THEN c.low - p.entry ELSE p.entry - c.high
Wins(p, c) == Best(p, c) >= Size(p.target, p.entry)
Loses(p, c) == Worst(p, c) <= -Size(p.stop, p.entry)

WindowOf(o, horizon) == OutcomeView(data, o.replay.partition, o.cutoff, horizon)

\* The candles of a window that touch a level.
Touching(p, window) == {i \in DOMAIN window : Wins(p, window[i]) \/ Loses(p, window[i])}

\* The verdict that the price path gives, as the README and M8_PLAN state it:
\* the first candle of the window that touches a level decides, one that
\* touches both is ambiguous, and none within the horizon is unresolved.
Verdict(p, window) ==
    LET touched == Touching(p, window)
        first == window[Min(touched)]
    IN  CASE touched = {} -> "UNRESOLVED_HORIZON"
          [] touched # {} /\ Wins(p, first) /\ Loses(p, first) -> "AMBIGUOUS_INTRABAR"
          [] touched # {} /\ Wins(p, first) /\ ~Loses(p, first) -> "TAKE_PROFIT_REACHED"
          [] OTHER -> "STOP_LOSS_REACHED"

\* OutcomeEvaluator.evaluate finds the verdict of the first touched candle, for
\* both sides, and MFE and MAE end with it (M8_REPORT): they are the extremes of
\* the candles up to the deciding one, and neither a candle before the cutoff
\* nor one after the deciding candle could change anything in the outcome.
FirstTouch ==
    \A o \in outcomes :
        LET p == o.proposal
            window == WindowOf(o, o.horizon)
            decided == Touching(p, window) # {}
            last == IF decided THEN Min(Touching(p, window)) ELSE Len(window)
            d == [replay |-> o.replay, cutoff |-> o.cutoff, proposal |-> p]
        IN  /\ o.status = Verdict(p, window)
            /\ o.bars = last /\ o.ended = Closes(window[last].open)
            /\ o.favorable = Max({0} \cup {Best(p, window[i]) : i \in 1..last})
            /\ o.adverse = Max({0} \cup {-Worst(p, window[i]) : i \in 1..last})
            /\ \A t \in Opens : \A r \in AnyRange :
                  (t < o.cutoff \/ (decided /\ t >= o.ended)) =>
                     OutcomeOf(d, OutcomeView(Altered(t, r), o.replay.partition, o.cutoff,
                                              o.horizon), o.horizon) = o

\* The falls of the running total of the values, its start included.
Drops(v) == {0} \cup {-SumFunctionOnSet(v, i..j) : i, j \in DOMAIN v}

\* The result of a summary of n outcomes counts each of them once, and its
\* numbers are those of their definitions.
Right(r, n) ==
    LET v == r.values
    IN  /\ r.wins + r.losses + r.ambiguous + r.unresolved = n
        /\ r.wins + r.losses = Len(v)
        /\ v # <<>> =>
              /\ r.cumulative = r.won - r.lost
              /\ r.drawdown = Max(Drops(v))
              /\ 2 * Cardinality({i \in DOMAIN v : 2 * v[i] <= r.median2}) >= Len(v)
              /\ 2 * Cardinality({i \in DOMAIN v : 2 * v[i] >= r.median2}) >= Len(v)
        /\ (r.profitFactor = "UNBOUNDED") = (r.wins > 0 /\ r.losses = 0)

\* summarize_performance counts every outcome once and its numbers are those of
\* their definitions: the largest fall of the running total from an earlier
\* level, its start included, a median with half the values on each side, and
\* an unbounded profit factor exactly for wins without losses.
SummaryIsRight == \A s \in summaries : Right(s.result, Cardinality(s.outcomes))

\* What a tracked decision is said to have become is what the price path made
\* of it over the horizon it was registered with, and that never changes.
TrackedAgrees ==
    \A t \in tracked :
        t.state # "PENDING" =>
            t.state = TrackingState(Verdict(t.decision.proposal, WindowOf(t.decision, t.horizon)))

=============================================================================
