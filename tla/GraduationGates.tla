--------------------------- MODULE GraduationGates ---------------------------
(***************************************************************************)
(* What M10 computes of sealed evidence, as operators: the summaries of     *)
(* qualification/metrics.py and the gates of ShadowGraduationEvaluator.     *)
(*                                                                         *)
(* Evidence holds the M9 claims and decisions of its interval, by the close *)
(* time of their candle, outcomes, and incidents.  What the cycle of a      *)
(* decision contributes to the sums is its Profile.  Rates are compared in  *)
(* percent, after multiplication.                                           *)
(***************************************************************************)
EXTENDS PerformanceMetrics

CONSTANTS
    Key,            \* decision candles, by their close time
    Profile,        \* of each: [invoked, candidate, intent, dispatched, providerFailures,
                    \* schemaFailures, revised, settled, uncertain, priced, closed]
    Policy          \* the thresholds of ShadowGraduationPolicy, None where it has no rule

SafetyCategory ==
    {"RISK_ENGINE_BYPASS", "CONFIDENCE_RISK_COUPLING", "EXECUTION_OR_ORDER_MUTATION",
     "DEMO_INVOCATION", "LIVE_INVOCATION", "PROVIDER_FALLBACK", "STRATEGY_MUTATION",
     "PROMPT_SELF_MUTATION"}

IncidentCategory ==
    SafetyCategory \cup
    {"RUNTIME_FAILURE", "PROVIDER_RUNTIME_FAILURE", "UNEXPLAINED_ABANDONED_CYCLE",
     "TRACE_MISMATCH", "SCHEMA_VALIDATION_FAILURE", "SOURCE_REVISION"}

ASSUME PolicyAssumption ==
    /\ Key \subseteq Nat /\ IsFiniteSet(Key)
    /\ Profile \in [Key -> [invoked : BOOLEAN, candidate : BOOLEAN, intent : BOOLEAN,
                            dispatched : Nat, providerFailures : Nat, schemaFailures : Nat,
                            revised : BOOLEAN, settled : Nat, uncertain : Nat,
                            priced : BOOLEAN, closed : BOOLEAN]]
    /\ {Policy.minCompleted, Policy.minInvoked, Policy.minCandidates, Policy.minIntents,
        Policy.minResolved} \subseteq Nat \ {0}
    /\ Policy.maxProviderRate \in 0..100 /\ Policy.maxUnexplained \in Nat
    /\ {Policy.minExpectancy, Policy.minProfitFactor, Policy.maxDrawdown} # {None}

-----------------------------------------------------------------------------
(* The summaries *)

ClaimsIn(c, state) == {k \in DOMAIN c.claims : c.claims[k] = state}
DecidedAs(c, disposition) == {k \in DOMAIN c.decisions : c.decisions[k] = disposition}

\* The decisions with a shadow record.
Cycles(c) == DecidedAs(c, "CYCLE")
CyclesThat(c, Holds(_)) == Cardinality({k \in Cycles(c) : Holds(Profile[k])})
SumOver(c, Amount(_)) == SumFunctionOnSet([k \in Key |-> Amount(Profile[k])], Cycles(c))

Resolved == {"TAKE_PROFIT_REACHED", "STOP_LOSS_REACHED"}
OutcomesIn(c, statuses) == {o \in c.outcomes : o.status \in statuses}
IncidentCount(c, category) == Cardinality({i \in c.incidents : i.category = category})

RuntimeFailures(c) == Cardinality(ClaimsIn(c, "FAILED")) + Cardinality(DecidedAs(c, "FAILED"))

ProviderFailures(c) ==
    SumOver(c, LAMBDA p : p.providerFailures) + IncidentCount(c, "PROVIDER_RUNTIME_FAILURE")

SchemaFailures(c) ==
    SumOver(c, LAMBDA p : p.schemaFailures) + IncidentCount(c, "SCHEMA_VALIDATION_FAILURE")

SourceRevisions(c) ==
    Cardinality({k \in ClaimsIn(c, "FAILED") : Profile[k].revised})
        + IncidentCount(c, "SOURCE_REVISION")

Dispatched(c) == SumOver(c, LAMBDA p : p.dispatched)

\* summarize_costs: the settled and the uncertain amounts, and whether they are
\* all that was spent.
AssessedCost(c) == SumOver(c, LAMBDA p : p.settled + p.uncertain)
CostUnavailable(c) == CyclesThat(c, LAMBDA p : (p.dispatched > 0 /\ ~p.priced) \/ ~p.closed) > 0

\* The outcomes in the order of their decision, and their summary.
InTimeOrder(outcomes) == SetToSortSeq(outcomes, LAMBDA a, b : a.key < b.key)
Performance(c) == PerformanceSummary(InTimeOrder(c.outcomes))

-----------------------------------------------------------------------------
(* The gates *)

\* As RateAtMost, but a rate of nothing passes.
RateAtMostOrNone(part, whole, percent) == part * 100 <= percent * whole

\* _rate and _passes: a rate of nothing is unavailable and fails its gate.
RateAtMost(part, whole, percent) == whole > 0 /\ part * 100 <= percent * whole

Rule(threshold, passes) == threshold # None => passes

\* The result of each gate for evidence c of a partition of the kind, whose
\* performance is s.
GatesFor(c, kind, s) ==
    LET completed == Cardinality(ClaimsIn(c, "COMPLETED"))
        resolved == Cardinality(OutcomesIn(c, Resolved))
        known == s.values # <<>>
    IN  [completed      |-> completed >= Policy.minCompleted,
         invoked        |-> CyclesThat(c, LAMBDA p : p.invoked) >= Policy.minInvoked,
         candidates     |-> CyclesThat(c, LAMBDA p : p.candidate) >= Policy.minCandidates,
         intents        |-> CyclesThat(c, LAMBDA p : p.intent) >= Policy.minIntents,
         resolved       |-> resolved >= Policy.minResolved,
         runtimeRate    |-> RateAtMost(RuntimeFailures(c), Cardinality(DOMAIN c.claims),
                                       Policy.maxRuntimeRate),
         providerRate   |-> RateAtMost(ProviderFailures(c), Dispatched(c),
                                       Policy.maxProviderRate),
         abandoned      |-> Cardinality(ClaimsIn(c, "ABANDONED")) <= Policy.maxAbandoned,
         unexplained    |-> IncidentCount(c, "UNEXPLAINED_ABANDONED_CYCLE")
                               <= Policy.maxUnexplained,
         trace          |-> IncidentCount(c, "TRACE_MISMATCH") = 0,
         schema         |-> SchemaFailures(c) = 0,
         revisions      |-> SourceRevisions(c) = 0,
         safety         |-> \A category \in SafetyCategory : IncidentCount(c, category) = 0,
         observedCost   |-> ~CostUnavailable(c) /\ AssessedCost(c) <= Policy.maxCost,
         projectedCost  |-> /\ ~CostUnavailable(c) /\ completed > 0
                            /\ AssessedCost(c) * Policy.expected
                                  <= Policy.maxProjected * completed,
         partition      |-> kind = "OUT_OF_SAMPLE",
         ambiguousRate  |-> RateAtMost(s.ambiguous, Cardinality(c.outcomes),
                                       Policy.maxAmbiguousRate),
         unresolvedRate |-> RateAtMost(s.unresolved, Cardinality(c.outcomes),
                                       Policy.maxUnresolvedRate),
         expectancy     |-> Rule(Policy.minExpectancy,
                                 known /\ s.cumulative >= Policy.minExpectancy * Len(s.values)),
         profitFactor   |-> Rule(Policy.minProfitFactor,
                                 /\ s.profitFactor = "VALID"
                                 /\ s.won * 100 >= Policy.minProfitFactor * s.lost),
         drawdown       |-> Rule(Policy.maxDrawdown, known /\ s.drawdown <= Policy.maxDrawdown),
         winRate        |-> Rule(Policy.minWinRate,
                                 known /\ s.wins * 100 >= Policy.minWinRate * Len(s.values))]

Gates(c, kind) == GatesFor(c, kind, Performance(c))

\* GraduationDisposition: every gate passes.
Eligible(c, kind) ==
    LET gates == Gates(c, kind)
    IN  \A g \in DOMAIN gates : gates[g]
=============================================================================
