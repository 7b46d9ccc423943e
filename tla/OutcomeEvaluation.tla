-------------------------- MODULE OutcomeEvaluation --------------------------
(***************************************************************************)
(* What the M8 replay computes, as operators: the candles a decision may    *)
(* see and those its outcome is made of (replay/source.py), and the walk of *)
(* OutcomeEvaluator.evaluate along the latter.                              *)
(*                                                                         *)
(* Times are ticks and prices integers.  A dataset gives, for each open     *)
(* time, the low and the high of the candle, or None where the source has   *)
(* no candle.  Multiples of the risk are integers in units of 1/RScale.     *)
(***************************************************************************)
EXTENDS PerformanceMetrics

CONSTANTS
    Opens,          \* the times at which a candle may open
    Duration,       \* timeframe_duration of its timeframe
    Partition,      \* the partitions that the metadata of the dataset declare
    RangeOf,        \* RangeOf[p]: [context, start, end]
    RScale          \* unit of the multiples of the risk

ASSUME DatasetAssumption ==
    /\ Opens \subseteq Nat /\ IsFiniteSet(Opens)
    /\ Duration \in Nat \ {0} /\ RScale \in Nat \ {0}
    /\ \A p \in Partition :
          /\ RangeOf[p].context <= RangeOf[p].start
          /\ RangeOf[p].start < RangeOf[p].end
          /\ \A q \in Partition \ {p} :
                RangeOf[p].end <= RangeOf[q].start \/ RangeOf[q].end <= RangeOf[p].start

Size(a, b) == IF a < b THEN b - a ELSE a - b
Closes(o) == o + Duration

\* The candles of the dataset that open at a time of S, in order.
InOrder(data, S) ==
    LET times == Ascending({o \in S : data[o] # None})
    IN  [i \in DOMAIN times |->
            [open |-> times[i], low |-> data[times[i]].low, high |-> data[times[i]].high]]

-----------------------------------------------------------------------------
(* The source *)

\* A cutoff that decision_view and outcome_view accept for the partition.
InEvaluation(p, cutoff) == RangeOf[p].start <= cutoff /\ cutoff < RangeOf[p].end

\* As DecisionTimes, but a candle still forming at the cutoff is seen.
DecisionTimesOpen(p, cutoff) == {o \in Opens : o >= RangeOf[p].context /\ o <= cutoff}

DecisionTimes(p, cutoff) ==
    {o \in Opens : o >= RangeOf[p].context /\ Closes(o) <= cutoff}

\* _DecisionView.completed_candles: the last count of them.
CompletedCandles(data, p, cutoff, count) ==
    LET s == InOrder(data, DecisionTimes(p, cutoff))
    IN  SubSeq(s, IF Len(s) > count THEN Len(s) - count + 1 ELSE 1, Len(s))

OutcomeTimes(p, cutoff) ==
    {o \in Opens : o >= cutoff /\ Closes(o) > cutoff /\ Closes(o) <= RangeOf[p].end}

\* InMemoryHistoricalMarketDataSource.outcome_view, once the cutoff is accepted.
\* The caller gets no view when it is empty.
OutcomeView(data, p, cutoff, horizon) ==
    IF horizon.unit = "bars"
    THEN LET s == InOrder(data, OutcomeTimes(p, cutoff))
         IN  SubSeq(s, 1, IF Len(s) > horizon.size THEN horizon.size ELSE Len(s))
    ELSE InOrder(data, {o \in OutcomeTimes(p, cutoff) : Closes(o) <= cutoff + horizon.size})

-----------------------------------------------------------------------------
(* The evaluator *)

HasLevels(proposal) == None \notin {proposal.entry, proposal.stop, proposal.target}

ValidGeometry(proposal) ==
    IF proposal.side = "BUY"
    THEN proposal.stop < proposal.entry /\ proposal.entry < proposal.target
    ELSE proposal.target < proposal.entry /\ proposal.entry < proposal.stop

TpHit(proposal, c) ==
    IF proposal.side = "BUY" THEN c.high >= proposal.target ELSE c.low <= proposal.target

SlHit(proposal, c) ==
    IF proposal.side = "BUY" THEN c.low <= proposal.stop ELSE c.high >= proposal.stop

Favorable(proposal, c) ==
    IF proposal.side = "BUY" THEN c.high - proposal.entry ELSE proposal.entry - c.low

Adverse(proposal, c) ==
    IF proposal.side = "BUY" THEN proposal.entry - c.low ELSE c.high - proposal.entry

\* As StatusOf, but a candle that touches both levels counts as a win.
StatusOfHopeful(tp, sl) ==
    CASE tp -> "TAKE_PROFIT_REACHED"
      [] ~tp /\ sl -> "STOP_LOSS_REACHED"
      [] OTHER -> "UNRESOLVED_HORIZON"

StatusOf(tp, sl) ==
    CASE tp /\ sl -> "AMBIGUOUS_INTRABAR"
      [] tp /\ ~sl -> "TAKE_PROFIT_REACHED"
      [] ~tp /\ sl -> "STOP_LOSS_REACHED"
      [] OTHER -> "UNRESOLVED_HORIZON"

\* One candle of the loop: once the status is terminal the loop has ended.
Walked(proposal, w, c) ==
    IF w.status # "UNRESOLVED_HORIZON" THEN w
    ELSE [status    |-> StatusOf(TpHit(proposal, c), SlHit(proposal, c)),
          bars      |-> w.bars + 1,
          ended     |-> Closes(c.open),
          favorable |-> Greater(w.favorable, Favorable(proposal, c)),
          adverse   |-> Greater(w.adverse, Adverse(proposal, c))]

Walk(proposal, candles) ==
    FoldLeft(LAMBDA w, c : Walked(proposal, w, c),
             [status |-> "UNRESOLVED_HORIZON", bars |-> 0, ended |-> 0,
              favorable |-> 0, adverse |-> 0],
             candles)

RiskUnit(proposal) == Size(proposal.entry, proposal.stop)

\* realized_r_multiple.
Realized(proposal, status) ==
    CASE status = "TAKE_PROFIT_REACHED" ->
            (RScale * Size(proposal.target, proposal.entry)) \div RiskUnit(proposal)
      [] status = "STOP_LOSS_REACHED" -> -RScale
      [] OTHER -> None
=============================================================================
