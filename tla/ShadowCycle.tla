----------------------------- MODULE ShadowCycle -----------------------------
(***************************************************************************)
(* The M6 SHADOW decision cycle: ShadowCycleOrchestrator.run_shadow_cycle   *)
(* over SQLiteShadowAuditRepository.                                        *)
(*                                                                         *)
(* A runner is one call of run_shadow_cycle.  Runners of one cycle are      *)
(* repetitions of it, at once or after a crash.  Agents are external: each  *)
(* answers with an output or with a failure of some category.               *)
(***************************************************************************)
EXTENDS Naturals, FiniteSets, Sequences

CONSTANTS
    Runner,         \* calls of run_shadow_cycle
    Cycle,          \* cycle identities
    CycleOf,        \* the cycle of each call
    Rounds,         \* debate_rounds
    Quant,          \* quant_stage_selection
    None            \* no value

ASSUME CycleAssumption ==
    /\ CycleOf \in [Runner -> Cycle]
    /\ Rounds \in 1..3
    /\ Quant \in {"SKIP", "QUANT_RESEARCH_ONLY", "QUANT_AND_SENIOR_REVIEW"}

VARIABLES
    claim,          \* claim[y]: the state of the claim of cycle y
    record,         \* record[y]: its decision record
    run,            \* run[r]: the state of call r
    callers,        \* callers[y]: the calls that asked agents for cycle y
    abandoning      \* the cycle an operator has found INCOMPLETE, to abandon it

vars == <<claim, record, run, callers, abandoning>>

StageOneRole == {"MARKET_CONTEXT", "TREND_ANALYST", "PRICE_ACTION_ANALYST"}
QuantRole == {"QUANT_RESEARCHER", "SENIOR_QUANT_DEVELOPER"}
Role == StageOneRole \cup QuantRole \cup {"ENTRY_ANALYST", "SKEPTIC", "CHIEF_TRADER"}

\* What an agent can fail with, and how the cycle takes it.
Category == {"TIMEOUT", "UNAVAILABLE_AGENT", "INVALID_OUTPUT", "SCHEMA_MISMATCH", "UNKNOWN"}
Fatal == {"SCHEMA_MISMATCH", "UNKNOWN"}
FailureDisposition == {"CONTINUE_DEGRADED", "HOLD", "ABORT_CYCLE"}

\* As CategoryDisposition, but no output of a Quant role holds the cycle.
CategoryDispositionLenient(category, role) ==
    IF category \in Fatal THEN "ABORT_CYCLE"
    ELSE IF role \in QuantRole THEN "CONTINUE_DEGRADED"
    ELSE "HOLD"

\* _category_disposition; None stands for a failure without a role.
CategoryDisposition(category, role) ==
    IF category \in Fatal THEN "ABORT_CYCLE"
    ELSE IF category \in {"TIMEOUT", "UNAVAILABLE_AGENT"} /\ role \in QuantRole
         THEN "CONTINUE_DEGRADED"
    ELSE "HOLD"

\* AgentFailurePolicy.resolve, the accepted M4 policy: successes is the number of
\* outputs of the first stage.
Resolve(category, role, successes) ==
    IF category \in Fatal THEN "ABORT_CYCLE"
    ELSE IF /\ category \in {"TIMEOUT", "UNAVAILABLE_AGENT"}
            /\ role \in QuantRole \/ (role \in StageOneRole /\ successes >= 2)
         THEN "CONTINUE_DEGRADED"
    ELSE "HOLD"

\* A failure record and an output, each of a role and a debate round.
Failure == [role : Role \cup {None}, round : 0..3,
            category : Category \cup {"STALE_SNAPSHOT"}, disposition : FailureDisposition]
Output == [role : Role, round : 0..3]
Fault(role, round, category) ==
    [role |-> role, round |-> round, category |-> category,
     disposition |-> CategoryDisposition(category, role)]

Action == {"BUY", "SELL", "HOLD"}
RiskStatus == {"APPROVED", "REJECTED", "HALTED"}
Disposition == {"WOULD_BUY", "WOULD_SELL", "CHIEF_HOLD", "POLICY_HOLD",
                "RISK_REJECTED", "RISK_HALTED", "ABORTED"}
StageStatus == {"COMPLETED", "DEGRADED", "SKIPPED", "HOLD", "ABORTED"}
Stage == 1..6

\* _CycleState, with the place of the call.  chiefs is chief_decisions and
\* chief is chief_decision, each by its action; a proposal exists if and only
\* if the action is BUY or SELL.
PC == {"start", "inputs", "stage1", "entry", "research", "developer", "skeptic", "chief",
       "risk", "finish", "returned", "raised", "gone"}
State == [pc : PC, round : 0..3,
          failures : SUBSET Failure, outputs : SUBSET Output,
          stages : [Stage -> StageStatus \cup {None}],
          chiefs : Seq(Action), chief : Action \cup {None},
          risk : RiskStatus \cup {None}, disposition : Disposition \cup {None}]
Fresh == [pc |-> "start", round |-> 0, failures |-> {}, outputs |-> {},
          stages |-> [s \in Stage |-> None], chiefs |-> <<>>, chief |-> None,
          risk |-> None, disposition |-> None]

\* The absence of a value is none of the values.
ASSUME NoneAssumption == None \notin State \cup Disposition \cup StageStatus \cup RiskStatus

Init ==
    /\ claim = [y \in Cycle |-> "NONE"]
    /\ record = [y \in Cycle |-> None]
    /\ run = [r \in Runner |-> Fresh]
    /\ callers = [y \in Cycle |-> {}]
    /\ abandoning = None

files == <<claim, record, abandoning>>

Become(r, state) == run' = [run EXCEPT ![r] = state]
Raise(r) == run' = [run EXCEPT ![r].pc = "raised"]

\* retain: the outcome of an invocation, which is "ok" or a category.
Retain(state, role, round, outcome) ==
    IF outcome = "ok"
    THEN [state EXCEPT !.outputs = @ \cup {[role |-> role, round |-> round]}]
    ELSE [state EXCEPT !.failures = @ \cup {Fault(role, round, outcome)}]

\* set_stage, and the two ways to end a cycle: with a disposition, or with the
\* one that a failure demands.
SetStage(state, s, status) == [state EXCEPT !.stages[s] = status]
End(state, disposition) == [state EXCEPT !.pc = "finish", !.disposition = disposition]

Terminal(role, outcome) ==
    IF CategoryDisposition(outcome, role) = "ABORT_CYCLE" THEN "ABORTED" ELSE "POLICY_HOLD"
StageOf(disposition) == IF disposition = "ABORTED" THEN "ABORTED" ELSE "HOLD"

-----------------------------------------------------------------------------
(* The claim and the inputs.                                               *)

\* As Claim, but an existing claim is taken over.
ClaimAgain(r) ==
    /\ run[r].pc = "start"
    /\ claim' = [claim EXCEPT ![CycleOf[r]] = "INCOMPLETE"]
    /\ run' = [run EXCEPT ![r].pc = "inputs"]
    /\ UNCHANGED <<record, callers, abandoning>>

\* claim_cycle, which raises DuplicateCycleError for a known identity.
Claim(r) ==
    /\ run[r].pc = "start"
    /\ \/ /\ claim[CycleOf[r]] = "NONE"
          /\ claim' = [claim EXCEPT ![CycleOf[r]] = "INCOMPLETE"]
          /\ run' = [run EXCEPT ![r].pc = "inputs"]
       \/ /\ claim[CycleOf[r]] # "NONE"
          /\ Raise(r)
          /\ UNCHANGED claim
    /\ UNCHANGED <<record, callers, abandoning>>

\* The market view may not belong to the snapshot, the inputs may not fit
\* together, or the snapshot may be stale; else the first three agents are asked.
Inputs(r) ==
    LET refused(category) == [run[r] EXCEPT !.failures = {Fault(None, 0, category)}]
    IN  /\ run[r].pc = "inputs"
        /\ \/ /\ \/ Raise(r)
                 \/ Become(r, End(SetStage(refused("SCHEMA_MISMATCH"), 1, "ABORTED"), "ABORTED"))
                 \/ Become(r, End(SetStage(refused("STALE_SNAPSHOT"), 1, "HOLD"), "POLICY_HOLD"))
              /\ UNCHANGED callers
           \/ /\ run' = [run EXCEPT ![r].pc = "stage1"]
              /\ callers' = [callers EXCEPT ![CycleOf[r]] = @ \cup {r}]
        /\ UNCHANGED files

-----------------------------------------------------------------------------
(* The stages.  An agent's answer and all that follows it up to the next    *)
(* question is one step.                                                    *)

Outcome == {"ok"} \cup Category
AnsweredIn(state) == {o.role : o \in state.outputs} \cup {f.role : f \in state.failures}

\* One of the three parallel agents answers.
Answer(r) ==
    /\ run[r].pc = "stage1"
    /\ \E role \in StageOneRole \ AnsweredIn(run[r]), outcome \in Outcome :
          Become(r, Retain(run[r], role, 0, outcome))
    /\ UNCHANGED <<files, callers>>

\* _stage_one_terminal
StageOneTerminal(state) ==
    IF \E f \in state.failures : f.disposition = "ABORT_CYCLE" THEN "ABORTED"
    ELSE IF \/ \E f \in state.failures : f.category = "INVALID_OUTPUT"
            \/ Cardinality(state.outputs) < 2
         THEN "POLICY_HOLD"
    ELSE None

\* The gathered outcomes end the cycle, or become the degraded or complete
\* context of the entry analyst.
StageOne(r) ==
    LET terminal == StageOneTerminal(run[r])
        degraded == {[f EXCEPT !.disposition = "CONTINUE_DEGRADED"] : f \in run[r].failures}
    IN  /\ run[r].pc = "stage1"
        /\ AnsweredIn(run[r]) = StageOneRole
        /\ IF terminal # None
           THEN Become(r, End(SetStage(run[r], 1, StageOf(terminal)), terminal))
           ELSE Become(r, [SetStage(run[r], 1, IF degraded = {} THEN "COMPLETED" ELSE "DEGRADED")
                              EXCEPT !.failures = degraded, !.pc = "entry"])
        /\ UNCHANGED <<files, callers>>

\* The debate begins.
Debate(state) == [state EXCEPT !.pc = "skeptic", !.round = 1]

\* A failure that ends the cycle is recorded as the status of its stage.
FailAt(state, s, role, outcome) ==
    End(SetStage(state, s, StageOf(Terminal(role, outcome))), Terminal(role, outcome))

Entry(r) ==
    /\ run[r].pc = "entry"
    /\ \E outcome \in Outcome :
          LET state == Retain(run[r], "ENTRY_ANALYST", 0, outcome)
          IN  Become(r, IF outcome # "ok" THEN FailAt(state, 2, "ENTRY_ANALYST", outcome)
                        ELSE IF Quant = "SKIP"
                             THEN Debate(SetStage(SetStage(state, 2, "COMPLETED"), 3, "SKIPPED"))
                        ELSE [SetStage(state, 2, "COMPLETED") EXCEPT !.pc = "research"])
    /\ UNCHANGED <<files, callers>>

\* _run_quant_stage: a failure of a quant role may leave the stage degraded.
Continues(role, outcome) ==
    outcome = "ok" \/ CategoryDisposition(outcome, role) = "CONTINUE_DEGRADED"
EndQuant(state) ==
    Debate(SetStage(state, 3, IF \E f \in state.failures : f.role \in QuantRole
                              THEN "DEGRADED" ELSE "COMPLETED"))

Research(r) ==
    /\ run[r].pc = "research"
    /\ \E outcome \in Outcome :
          LET state == Retain(run[r], "QUANT_RESEARCHER", 0, outcome)
          IN  Become(r, IF ~ Continues("QUANT_RESEARCHER", outcome)
                        THEN FailAt(state, 3, "QUANT_RESEARCHER", outcome)
                        ELSE IF Quant = "QUANT_AND_SENIOR_REVIEW"
                             THEN [state EXCEPT !.pc = "developer"]
                        ELSE EndQuant(state))
    /\ UNCHANGED <<files, callers>>

Developer(r) ==
    /\ run[r].pc = "developer"
    /\ \E outcome \in Outcome :
          LET state == Retain(run[r], "SENIOR_QUANT_DEVELOPER", 0, outcome)
          IN  Become(r, IF ~ Continues("SENIOR_QUANT_DEVELOPER", outcome)
                        THEN FailAt(state, 3, "SENIOR_QUANT_DEVELOPER", outcome)
                        ELSE EndQuant(state))
    /\ UNCHANGED <<files, callers>>

\* As Skeptic, but the stage of a Skeptic who failed counts as completed.
SkepticCompleted(r) ==
    /\ run[r].pc = "skeptic"
    /\ \E outcome \in Outcome :
          LET state == Retain(run[r], "SKEPTIC", run[r].round, outcome)
          IN  Become(r, IF outcome = "ok" THEN [state EXCEPT !.pc = "chief"]
                        ELSE End(SetStage(state, 4, "COMPLETED"), Terminal("SKEPTIC", outcome)))
    /\ UNCHANGED <<files, callers>>

\* A round of the debate: the Skeptic, then the Chief.
Skeptic(r) ==
    /\ run[r].pc = "skeptic"
    /\ \E outcome \in Outcome :
          LET state == Retain(run[r], "SKEPTIC", run[r].round, outcome)
          IN  Become(r, IF outcome = "ok" THEN [state EXCEPT !.pc = "chief"]
                        ELSE End(SetStage(state, 4, "HOLD"), Terminal("SKEPTIC", outcome)))
    /\ UNCHANGED <<files, callers>>

\* As ChiefFails, but the round of a Chief who timed out is repeated.
ChiefFailsRepeated(r) ==
    /\ run[r].pc = "chief"
    /\ \E outcome \in Category :
          LET state == Retain(run[r], "CHIEF_TRADER", run[r].round, outcome)
          IN  Become(r, IF outcome = "TIMEOUT" THEN [state EXCEPT !.pc = "skeptic"]
                        ELSE End(SetStage(state, 4, "COMPLETED"),
                                 Terminal("CHIEF_TRADER", outcome)))
    /\ UNCHANGED <<files, callers>>

\* The stage of the Chief stays open: fill_skipped makes it SKIPPED.
ChiefFails(r) ==
    /\ run[r].pc = "chief"
    /\ \E outcome \in Category :
          LET state == Retain(run[r], "CHIEF_TRADER", run[r].round, outcome)
          IN  Become(r, End(SetStage(state, 4, "COMPLETED"), Terminal("CHIEF_TRADER", outcome)))
    /\ UNCHANGED <<files, callers>>

\* The debate ends with a HOLD or with the last round.
LastRound(r, action) == action = "HOLD" \/ run[r].round = Rounds

ChiefDecides(r) ==
    /\ run[r].pc = "chief"
    /\ \E action \in Action :
          LET state == [Retain(run[r], "CHIEF_TRADER", run[r].round, "ok")
                           EXCEPT !.chiefs = Append(@, action)]
              decided == [SetStage(SetStage(state, 4, "COMPLETED"), 5, "COMPLETED")
                             EXCEPT !.chief = action]
          IN  Become(r, IF ~ LastRound(r, action)
                        THEN [state EXCEPT !.pc = "skeptic", !.round = @ + 1]
                        ELSE IF action = "HOLD"
                             THEN End(SetStage(decided, 6, "SKIPPED"), "CHIEF_HOLD")
                        ELSE [decided EXCEPT !.pc = "risk"])
    /\ UNCHANGED <<files, callers>>

\* The Risk engine judges the proposal, or raises.
RiskDisposition(action, status) ==
    CASE status = "HALTED" -> "RISK_HALTED"
      [] status = "REJECTED" -> "RISK_REJECTED"
      [] status = "APPROVED" -> IF action = "BUY" THEN "WOULD_BUY" ELSE "WOULD_SELL"

Risk(r) ==
    /\ run[r].pc = "risk"
    /\ \/ \E status \in RiskStatus :
             Become(r, End([SetStage(run[r], 6, "COMPLETED") EXCEPT !.risk = status],
                           RiskDisposition(run[r].chief, status)))
       \/ Become(r, End([SetStage(run[r], 6, "ABORTED")
                            EXCEPT !.failures = @ \cup {Fault(None, 0, "UNKNOWN")}],
                        "ABORTED"))
    /\ UNCHANGED <<files, callers>>

-----------------------------------------------------------------------------
(* The record.                                                             *)

\* fill_skipped
Filled(state) ==
    [state EXCEPT !.pc = "returned",
                  !.stages = [s \in Stage |-> IF @[s] = None THEN "SKIPPED" ELSE @[s]]]

\* DecisionCycle.validate_cycle, what of it can fail here.
Valid(state) ==
    /\ state.chief = IF state.chiefs = <<>> THEN None ELSE state.chiefs[Len(state.chiefs)]
    /\ Cardinality({o \in state.outputs : o.role = "CHIEF_TRADER"}) = Len(state.chiefs)
    /\ state.risk # None => state.chief \in {"BUY", "SELL"}
    /\ state.disposition = "CHIEF_HOLD" => state.chief = "HOLD" /\ state.risk = None
    /\ state.disposition = "WOULD_BUY" => state.chief = "BUY" /\ state.risk = "APPROVED"
    /\ state.disposition = "WOULD_SELL" => state.chief = "SELL" /\ state.risk = "APPROVED"
    /\ state.disposition = "RISK_REJECTED" => state.risk = "REJECTED"
    /\ state.disposition = "RISK_HALTED" => state.risk = "HALTED"

\* As Finalize, but the record is inserted alone.
FinalizeRecord(y, final) ==
    /\ claim[y] = "INCOMPLETE"
    /\ record' = [record EXCEPT ![y] = final]
    /\ UNCHANGED claim

\* finalize: record and claim in one transaction.
Finalize(y, final) ==
    /\ claim[y] = "INCOMPLETE"
    /\ record' = [record EXCEPT ![y] = final]
    /\ claim' = [claim EXCEPT ![y] = "FINALIZED"]

\* _finish: the record is built and finalized, or an exception leaves the call.
Finish(r) ==
    LET final == Filled(run[r])
    IN  /\ run[r].pc = "finish"
        /\ \/ /\ Valid(final)
              /\ Finalize(CycleOf[r], final)
              /\ Become(r, final)
           \/ /\ ~ Valid(final) \/ claim[CycleOf[r]] # "INCOMPLETE"
              /\ Raise(r)
              /\ UNCHANGED <<claim, record>>
        /\ UNCHANGED <<callers, abandoning>>

\* The audit file is locked or full, or an output does not belong to the cycle,
\* which only the validation of the record finds.
FileRaises(r) ==
    /\ run[r].pc \in {"start", "finish"}
    /\ Raise(r)
    /\ UNCHANGED <<files, callers>>

Ended == {"returned", "raised", "gone"}

\* The task is cancelled, its process ends, or an exception nobody handles leaves it.
Stop(r) ==
    /\ run[r].pc \notin Ended
    /\ run' = [run EXCEPT ![r].pc = "gone"]
    /\ UNCHANGED <<files, callers>>

\* abandon, by an operator in another process: the claim is read, and updated
\* in a transaction that begins after that.
AbandonCheck(y) ==
    /\ abandoning = None
    /\ claim[y] = "INCOMPLETE"
    /\ abandoning' = y
    /\ UNCHANGED <<claim, record, run, callers>>

Abandon(y) ==
    /\ abandoning = y
    /\ abandoning' = None
    /\ claim' = [claim EXCEPT ![y] = "ABANDONED"]
    /\ UNCHANGED <<record, run, callers>>

\* The steps a running call takes by itself.
RunStep(r) ==
    \/ Claim(r) \/ Inputs(r) \/ Answer(r) \/ StageOne(r) \/ Entry(r) \/ Research(r)
    \/ Developer(r) \/ Skeptic(r) \/ ChiefFails(r) \/ ChiefDecides(r) \/ Risk(r) \/ Finish(r)

Next ==
    \/ \E r \in Runner : RunStep(r) \/ FileRaises(r) \/ Stop(r)
    \/ \E y \in Cycle : AbandonCheck(y) \/ Abandon(y)

Spec == Init /\ [][Next]_vars

\* A call goes on while its process lives: the router bounds the time of every
\* agent call, and nothing else is waited for.
FairSpec == Spec /\ \A r \in Runner : WF_vars(RunStep(r))

-----------------------------------------------------------------------------

\* Every variable has its type, and a record has a disposition and all six stages.
ShadowTypeOK ==
    /\ claim \in [Cycle -> {"NONE", "INCOMPLETE", "FINALIZED", "ABANDONED"}]
    /\ record \in [Cycle -> State \cup {None}]
    /\ \A y \in Cycle : record[y] # None =>
          record[y].disposition # None /\ \A s \in Stage : record[y].stages[s] # None
    /\ run \in [Runner -> State]
    /\ callers \in [Cycle -> SUBSET Runner]
    /\ abandoning \in Cycle \cup {None}

\* "A claim begins as durable INCOMPLETE before any provider call" and "there is
\* no implicit resume or redispatch": at most one call ever asks the agents of
\* a cycle, and only under a claim.
OneCallerPerCycle ==
    \A y \in Cycle : callers[y] # {} => Cardinality(callers[y]) = 1 /\ claim[y] # "NONE"

\* "A successful terminal record changes the claim to FINALIZED atomically":
\* a finalized claim has a record, and a record has a claim that is closed.
RecordsMatchClaims ==
    \A y \in Cycle :
        /\ claim[y] = "FINALIZED" => record[y] # None
        /\ record[y] # None => claim[y] \in {"FINALIZED", "ABANDONED"}

\* "neither incomplete nor abandoned identities may be reused": a record never
\* changes, and a closed claim is never opened or finalized again.
ClosedStaysClosed ==
    [][\A y \in Cycle :
          /\ record[y] # None => record'[y] = record[y]
          /\ claim[y] = "ABANDONED" => claim'[y] = "ABANDONED"
          /\ claim[y] = "FINALIZED" => claim'[y] # "INCOMPLETE"]_vars

\* Required-agent failures produce "HOLD according to the accepted M4 policy":
\* every recorded failure bears the disposition AgentFailurePolicy gives it, though
\* the cycle computes it in other ways; the record is ABORTED if and only if
\* one of them aborts, and else POLICY_HOLD if and only if one holds.
FailuresDecide ==
    \A y \in Cycle : record[y] # None =>
        LET rec == record[y]
            successes == Cardinality({o \in rec.outputs : o.role \in StageOneRole})
            demands == {Resolve(f.category, f.role, successes) : f \in rec.failures}
        IN  /\ \A f \in rec.failures : f.disposition = Resolve(f.category, f.role, successes)
            /\ rec.disposition = "ABORTED" <=> "ABORT_CYCLE" \in demands
            /\ rec.disposition = "POLICY_HOLD" <=>
                  "HOLD" \in demands /\ "ABORT_CYCLE" \notin demands

\* A record tells what happened.  A stage is completed or degraded only if its
\* agents were heard, and nothing follows one that held or aborted the cycle.  A
\* directional record rests on two of the first three analysts, on the entry
\* analyst, on the Skeptic and the Chief of the last round, and on the approval
\* of the Risk engine; nothing it continued from was an invalid output.
RecordIsTrue ==
    \A y \in Cycle : record[y] # None =>
        LET rec == record[y]
            said(role, round) == [role |-> role, round |-> round] \in rec.outputs
            heard(role) == \E o \in rec.outputs : o.role = role
            stageOne == Cardinality({role \in StageOneRole : heard(role)})
            done(s) == rec.stages[s] \in {"COMPLETED", "DEGRADED"}
        IN  /\ done(1) => stageOne >= 2
            /\ done(2) => heard("ENTRY_ANALYST")
            /\ done(4) => heard("SKEPTIC")
            /\ done(5) => heard("CHIEF_TRADER")
            /\ done(6) => rec.risk # None
            /\ \A s, t \in Stage : s < t /\ rec.stages[s] \in {"HOLD", "ABORTED"} =>
                  rec.stages[t] = "SKIPPED"
            /\ rec.disposition \in {"WOULD_BUY", "WOULD_SELL"} =>
                  /\ stageOne >= 2 /\ said("ENTRY_ANALYST", 0)
                  /\ said("SKEPTIC", Rounds) /\ said("CHIEF_TRADER", Rounds)
                  /\ Len(rec.chiefs) = Rounds /\ rec.chiefs[Rounds] = rec.chief
                  /\ rec.disposition = IF rec.chief = "BUY" THEN "WOULD_BUY" ELSE "WOULD_SELL"
                  /\ rec.risk = "APPROVED"
                  /\ \A f \in rec.failures : f.category \in {"TIMEOUT", "UNAVAILABLE_AGENT"}

\* A claimed cycle ends: its call returns, raises or stops with its process.
RunsEnd ==
    \A r \in Runner : run[r].pc = "inputs" ~> run[r].pc \in Ended

\* "Required-agent timeout, invalid output, unavailable runtime ... produces
\* HOLD": a call that has come to a disposition records it, unless its claim
\* was abandoned.
DispositionIsRecorded ==
    [][\A r \in Runner :
          Finish(r) /\ claim[CycleOf[r]] = "INCOMPLETE" => run'[r].pc = "returned"]_vars
=============================================================================
