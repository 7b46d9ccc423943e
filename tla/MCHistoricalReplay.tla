-------------------------- MODULE MCHistoricalReplay --------------------------
EXTENDS HistoricalReplay

CONSTANTS Research, OutOfSample     \* partitions

\* Candles of two ticks.  The research partition ends in the middle of the
\* dataset; the last candle is outside of both.
MCOpens == {0, 2, 4, 6}
MCPartition == {Research, OutOfSample}
MCRangeOf == (Research :> [context |-> 0, start |-> 2, end |-> 6]) @@
             (OutOfSample :> [context |-> 2, start |-> 6, end |-> 8])

R(low, high) == [low |-> low, high |-> high]

\* Candles that touch no level, one, the other and both of each proposal.
Shapes == {R(3, 5), R(3, 8), R(0, 5), R(0, 8), None}
MCDatasets ==
    {(0 :> R(3, 5)) @@ (2 :> a) @@ (4 :> b) @@ (6 :> R(0, 8)) :
        a \in Shapes \ {R(0, 5)}, b \in Shapes \ {None}}

Bars(n) == [unit |-> "bars", size |-> n]
Elapsed(n) == [unit |-> "elapsed", size |-> n]

MCConfig ==
    {[partition |-> Research, horizon |-> Bars(2), count |-> 1],
     [partition |-> Research, horizon |-> Elapsed(3), count |-> 1],
     [partition |-> OutOfSample, horizon |-> Bars(2), count |-> 1]}

MCSchedule == {2, 3, 6}
MCObservedAt == {1, 5}

\* A target at twice the risk, its mirror image, and a proposal the evaluator
\* refuses.
MCProposals ==
    {[side |-> "BUY", entry |-> 4, stop |-> 2, target |-> 8],
     [side |-> "SELL", entry |-> 4, stop |-> 6, target |-> 0],
     [side |-> "BUY", entry |-> 4, stop |-> None, target |-> 2]}
=============================================================================
