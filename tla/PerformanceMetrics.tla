------------------------- MODULE PerformanceMetrics -------------------------
(***************************************************************************)
(* summarize_performance (evaluation/metrics.py): the numbers that the      *)
(* replay reports and that the graduation gates of M10 compare.  An outcome *)
(* has a status and a realized multiple of its risk, or None.               *)
(***************************************************************************)
EXTENDS Integers, SequencesExt

CONSTANT None       \* no value

Greater(a, b) == IF a < b THEN b ELSE a

Total(values) == SumFunction(values)

\* The numbers of a finite set, in order.
Ascending(S) ==
    CHOOSE s \in [1..Cardinality(S) -> S] : \A i, j \in DOMAIN s : i < j => s[i] < s[j]

\* sorted.
Sorted(values) ==
    LET order == CHOOSE p \in Bijection(DOMAIN values, DOMAIN values) :
                    \A i, j \in DOMAIN values : i < j => values[p[i]] <= values[p[j]]
    IN  [i \in DOMAIN values |-> values[order[i]]]

\* Twice _median.
TwiceMedian(values) ==
    LET s == Sorted(values)
        middle == Len(s) \div 2
    IN  IF Len(s) % 2 = 1 THEN 2 * s[middle + 1] ELSE s[middle] + s[middle + 1]

\* As Drawn, but the peak starts with the first value.
DrawnFromFirst(d, value) ==
    LET running == d.running + value
        peak == IF d.running = 0 THEN running ELSE Greater(d.peak, running)
    IN  [running |-> running, peak |-> peak, maximum |-> Greater(d.maximum, peak - running)]

\* One value of the loop of _sequence_max_drawdown.
Drawn(d, value) ==
    LET running == d.running + value
        peak == Greater(d.peak, running)
    IN  [running |-> running, peak |-> peak, maximum |-> Greater(d.maximum, peak - running)]

SequenceMaxDrawdown(values) ==
    FoldLeft(Drawn, [running |-> 0, peak |-> 0, maximum |-> 0], values).maximum

\* The realized multiples that are known, in order.
KnownMultiples(ordered) ==
    LET known == Ascending({i \in DOMAIN ordered : ordered[i].realized # None})
    IN  [n \in DOMAIN known |-> ordered[known[n]].realized]

\* The fields, from the known multiples and the sums of those above and below zero.
SummaryOf(ordered, realized, won, lost) ==
    LET with(status) == Cardinality({i \in DOMAIN ordered : ordered[i].status = status})
    IN  [wins       |-> with("TAKE_PROFIT_REACHED"),
         losses     |-> with("STOP_LOSS_REACHED"),
         ambiguous  |-> with("AMBIGUOUS_INTRABAR"),
         unresolved |-> with("UNRESOLVED_HORIZON"),
         cumulative |-> IF realized = <<>> THEN None ELSE Total(realized),
         median2    |-> IF realized = <<>> THEN None ELSE TwiceMedian(realized),
         won        |-> won,
         lost       |-> lost,
         profitFactor |-> CASE lost > 0 -> "VALID"
                            [] lost = 0 /\ won > 0 -> "UNBOUNDED"
                            [] OTHER -> "UNAVAILABLE",
         drawdown   |-> IF realized = <<>> THEN None ELSE SequenceMaxDrawdown(realized),
         values     |-> realized]

\* The summary of the outcomes, in the order of the sequence.
PerformanceSummary(ordered) ==
    LET realized == KnownMultiples(ordered)
    IN  SummaryOf(ordered, realized,
                  SumFunctionOnSet(realized, {n \in DOMAIN realized : realized[n] > 0}),
                  -SumFunctionOnSet(realized, {n \in DOMAIN realized : realized[n] < 0}))
=============================================================================
