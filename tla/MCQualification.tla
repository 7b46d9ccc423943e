--------------------------- MODULE MCQualification ---------------------------
(***************************************************************************)
(* Small instances of Qualification: two decisions, the second of which     *)
(* asked nobody, and a policy that good evidence just meets.                *)
(***************************************************************************)
EXTENDS Qualification

MCProfile ==
    1 :> [invoked |-> TRUE, candidate |-> TRUE, intent |-> TRUE, dispatched |-> 1,
          providerFailures |-> 0, schemaFailures |-> 0, revised |-> FALSE,
          settled |-> 2, uncertain |-> 1, priced |-> TRUE, closed |-> TRUE] @@
    2 :> [invoked |-> TRUE, candidate |-> TRUE, intent |-> TRUE, dispatched |-> 0,
          providerFailures |-> 0, schemaFailures |-> 0, revised |-> FALSE,
          settled |-> 0, uncertain |-> 0, priced |-> FALSE, closed |-> TRUE]

MCPolicy ==
    [minCompleted |-> 1, minInvoked |-> 1, minCandidates |-> 1, minIntents |-> 1,
     minResolved |-> 1, maxRuntimeRate |-> 0, maxProviderRate |-> 100, maxAbandoned |-> 0,
     maxUnexplained |-> 0, maxCost |-> 3, expected |-> 10, maxProjected |-> 30,
     maxAmbiguousRate |-> 0, maxUnresolvedRate |-> 50, minExpectancy |-> 1,
     minProfitFactor |-> None, maxDrawdown |-> 0, minWinRate |-> None]

\* A good day with a claim that is still being processed, and one without a
\* dispatched request.
MCHistory ==
    LET did(claim, decision) == [claim |-> claim, decision |-> decision]
        nothing == did(None, None)
    IN  {1 :> did("COMPLETED", "CYCLE") @@ 2 :> did("PROCESSING", None),
         1 :> nothing @@ 2 :> did("COMPLETED", "CYCLE")}

MCStatusOf == 1 :> "TAKE_PROFIT_REACHED" @@ 2 :> "TAKE_PROFIT_REACHED"
MCRealizedOf == 1 :> 2 @@ 2 :> 1

CONSTANTS g1, g2
MCExpiryOf == g1 :> 1 @@ g2 :> 2

MCIncident == {[id |-> 1, category |-> "PROVIDER_RUNTIME_FAILURE"]}

Sessions == Permutations(Session)
=============================================================================
