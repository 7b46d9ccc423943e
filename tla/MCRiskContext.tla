---------------------------- MODULE MCRiskContext ----------------------------
(* An instance of RiskContext for TLC.  One unit of money is a cent, one    *)
(* unit of volume a hundredth of a lot, and the constitution is the default *)
(* of RiskConstitutionSettings.                                             *)
EXTENDS RiskContext, TLC

CONSTANTS b1, b2, a1, a2

MCAccountOf == (b1 :> a1) @@ (b2 :> a1)
MCDayStartOf == (b1 :> 10000) @@ (b2 :> 9000)
MCPeakOf == (b1 :> 10000) @@ (b2 :> 10000)

\* Equities on both sides of the limits for each of the baselines.
MCEquity == {0, 8500, 9200, 9500, 9501, 9701, 10100}

FactsWith(tickValue, min, max, step, mode) ==
    [symbol |-> "EURUSD", tickSize |-> 2, tickValue |-> tickValue, point |-> 1, stopsLevel |-> 4,
     contractSize |-> 1, volumeMin |-> min, volumeMax |-> max, volumeStep |-> step,
     mode |-> mode, tradeAllowed |-> TRUE, expertAllowed |-> TRUE]

\* A grid that does not start at a multiple of its step, one that ends before the risk is
\* spent, one too coarse, and a symbol that may only be bought.
MCFacts == {FactsWith(1, 3, 40, 2, "FULL"), FactsWith(1, 1, 5, 3, "LONG_ONLY"),
            FactsWith(9, 2, 10, 1, "FULL")}

Prices(side, entry, stop, target) ==
    [side |-> side, entry |-> entry, stop |-> stop, target |-> target]

\* A good long and a good short proposal, one on the boundary of the risk/reward, one
\* without a stop.
MCProposal == {Prices("BUY", 100, 94, 112), Prices("SELL", 100, 104, 94),
               Prices("BUY", 100, 96, 104), Prices("BUY", 100, None, 112)}
=============================================================================
