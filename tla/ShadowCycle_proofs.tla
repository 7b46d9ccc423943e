------------------------- MODULE ShadowCycle_proofs -------------------------
(***************************************************************************)
(* Proofs about ShadowCycle, for any number of calls and cycles, one to     *)
(* three rounds and every choice of Quant roles.                            *)
(*                                                                         *)
(* A call owns its cycle from its claim until it ends.  The claim is given  *)
(* once, so owners exclude each other, and a call that has not yet asked an *)
(* agent finds that nobody has.                                            *)
(*                                                                         *)
(* At every place the state of a call tells what was heard so far and which *)
(* failures the cycle continued from; at the end that is what its record    *)
(* has to tell.                                                            *)
(***************************************************************************)
EXTENDS ShadowCycle, FiniteSetTheorems, TLAPS

Active(r) == run[r].pc \notin {"start"} \cup Ended

\* What the type invariant needs to be inductive.
TypeInv ==
    /\ ShadowTypeOK
    /\ \A r \in Runner :
          /\ run[r].round <= Rounds
          /\ run[r].pc = "finish" => run[r].disposition # None
          /\ run[r].pc = "risk" => run[r].chief \in {"BUY", "SELL"}

Ownership ==
    /\ \A r \in Runner : Active(r) => claim[CycleOf[r]] # "NONE"
    /\ \A r, s \in Runner : Active(r) /\ Active(s) /\ CycleOf[r] = CycleOf[s] => r = s
    /\ \A r \in Runner : run[r].pc = "inputs" => callers[CycleOf[r]] = {}
    /\ \A y \in Cycle : callers[y] # {} =>
          claim[y] # "NONE" /\ \E r \in Runner : callers[y] = {r}

IInv == TypeInv /\ Ownership /\ RecordsMatchClaims

-----------------------------------------------------------------------------

\* The operators on the state of a call keep its type.
LEMMA FaultType ==
    ASSUME NEW role \in Role \cup {None}, NEW round \in 0..3,
           NEW category \in Category \cup {"STALE_SNAPSHOT"}
    PROVE  Fault(role, round, category) \in Failure
BY DEF Fault, Failure, CategoryDisposition, FailureDisposition

LEMMA RetainType ==
    ASSUME NEW state \in State, NEW role \in Role, NEW round \in 0..3, NEW outcome \in Outcome
    PROVE  /\ Retain(state, role, round, outcome) \in State
           /\ Retain(state, role, round, outcome).round = state.round
<1>1. CASE outcome = "ok"
  <2>1. [role |-> role, round |-> round] \in Output
    BY DEF Output
  <2>. QED
    BY <1>1, <2>1 DEF Retain, State
<1>2. CASE outcome \in Category
  <2>1. Fault(role, round, outcome) \in Failure
    BY <1>2, FaultType
  <2>2. outcome # "ok"
    BY <1>2 DEF Category
  <2>. QED
    BY <2>1, <2>2 DEF Retain, State
<1>. QED
  BY <1>1, <1>2 DEF Outcome

LEMMA SetStageType ==
    ASSUME NEW state \in State, NEW s \in Stage, NEW status \in StageStatus
    PROVE  /\ SetStage(state, s, status) \in State
           /\ SetStage(state, s, status).round = state.round
           /\ SetStage(state, s, status).chief = state.chief
           /\ SetStage(state, s, status).failures = state.failures
BY DEF SetStage, State

LEMMA EndType ==
    ASSUME NEW state \in State, NEW disposition \in Disposition
    PROVE  /\ End(state, disposition) \in State
           /\ End(state, disposition).pc = "finish"
           /\ End(state, disposition).round = state.round
           /\ End(state, disposition).disposition # None
BY NoneAssumption DEF End, State, PC

LEMMA TerminalType ==
    ASSUME NEW role, NEW outcome
    PROVE  /\ Terminal(role, outcome) \in Disposition
           /\ StageOf(Terminal(role, outcome)) \in StageStatus
BY DEF Terminal, StageOf, Disposition, StageStatus

LEMMA FailAtType ==
    ASSUME NEW state \in State, NEW s \in Stage, NEW role, NEW outcome
    PROVE  /\ FailAt(state, s, role, outcome) \in State
           /\ FailAt(state, s, role, outcome).pc = "finish"
           /\ FailAt(state, s, role, outcome).round = state.round
           /\ FailAt(state, s, role, outcome).disposition # None
BY SetStageType, EndType, TerminalType DEF FailAt

LEMMA DebateType ==
    ASSUME NEW state \in State
    PROVE  /\ Debate(state) \in State
           /\ Debate(state).pc = "skeptic"
           /\ Debate(state).round = 1
<1>1. 1 \in 0..3 /\ "skeptic" \in PC
  BY DEF PC
<1>. QED
  BY <1>1 DEF Debate, State

-----------------------------------------------------------------------------

\* A step that changes the state of one call, of an owner or to an end, and
\* leaves the files alone keeps the invariant.
LEMMA BecomeKeeps ==
    ASSUME IInv, NEW r \in Runner, NEW state \in State,
           state.round <= Rounds,
           state.pc = "finish" => state.disposition # None,
           state.pc = "risk" => state.chief \in {"BUY", "SELL"},
           state.pc \notin {"start", "inputs"},
           Active(r) \/ state.pc \in Ended,
           Become(r, state), UNCHANGED <<files, callers>>
    PROVE  IInv'
<1>1. run' \in [Runner -> State] /\ run'[r] = state
  BY DEF IInv, TypeInv, ShadowTypeOK, Become
<1>2. \A s \in Runner \ {r} : run'[s] = run[s]
  BY DEF IInv, TypeInv, ShadowTypeOK, Become
<1>3. claim' = claim /\ record' = record /\ abandoning' = abandoning /\ callers' = callers
  BY DEF files
<1>4. TypeInv'
  <2>1. ShadowTypeOK'
    BY <1>1, <1>3 DEF IInv, TypeInv, ShadowTypeOK
  <2>2. ASSUME NEW s \in Runner
        PROVE  /\ run'[s].round <= Rounds
               /\ run'[s].pc = "finish" => run'[s].disposition # None
               /\ run'[s].pc = "risk" => run'[s].chief \in {"BUY", "SELL"}
    BY <1>1, <1>2 DEF IInv, TypeInv
  <2>. QED
    BY <2>1, <2>2 DEF TypeInv
<1>5. \A s \in Runner : Active(s)' => Active(s)
  BY <1>1, <1>2 DEF Active, Ended
<1>6. \A s \in Runner : run'[s].pc = "inputs" => run[s].pc = "inputs"
  BY <1>1, <1>2
<1>7. Ownership'
  BY <1>3, <1>5, <1>6 DEF IInv, Ownership
<1>8. RecordsMatchClaims'
  BY <1>3 DEF IInv, RecordsMatchClaims
<1>. QED
  BY <1>4, <1>7, <1>8 DEF IInv

\* A call that raises or stops.
LEMMA EndsKeep ==
    ASSUME IInv, NEW r \in Runner, NEW pc \in Ended,
           run' = [run EXCEPT ![r].pc = pc], UNCHANGED <<files, callers>>
    PROVE  IInv'
<1>. DEFINE state == [run[r] EXCEPT !.pc = pc]
<1>1. run[r] \in State
  BY DEF IInv, TypeInv, ShadowTypeOK
<1>2. state \in State /\ state.pc = pc /\ state.round = run[r].round
  BY <1>1 DEF State, PC, Ended
<1>3. Become(r, state)
  BY DEF Become
<1>4. run[r].round <= Rounds
  BY DEF IInv, TypeInv
<1>. HIDE DEF state
<1>. QED
  BY <1>2, <1>3, <1>4, BecomeKeeps DEF Ended

\* What a step of an owner can rely on.
LEMMA Owner ==
    ASSUME IInv, NEW r \in Runner, run[r].pc \notin {"start"} \cup Ended
    PROVE  run[r] \in State /\ run[r].round \in 0..3 /\ run[r].round <= Rounds /\ Active(r)
<1>1. run[r] \in State /\ run[r].round <= Rounds /\ Active(r)
  BY DEF IInv, TypeInv, ShadowTypeOK, Active
<1>. QED
  BY <1>1 DEF State

-----------------------------------------------------------------------------
(* One lemma per action.                                                   *)

LEMMA ClaimKeeps ==
    ASSUME IInv, NEW r \in Runner, Claim(r)
    PROVE  IInv'
<1>. DEFINE y == CycleOf[r]
           state == [run[r] EXCEPT !.pc = "inputs"]
<1>1. CASE claim[y] # "NONE" /\ Raise(r) /\ UNCHANGED claim
  BY <1>1, EndsKeep DEF Claim, Raise, Ended, files
<1>2. CASE claim[y] = "NONE" /\ claim' = [claim EXCEPT ![y] = "INCOMPLETE"] /\ Become(r, state)
  <2>1. run[r] \in State /\ run[r].round <= Rounds /\ y \in Cycle /\ run[r].pc = "start"
    BY CycleAssumption DEF IInv, TypeInv, ShadowTypeOK, Claim
  <2>2. state \in State /\ state.pc = "inputs" /\ state.round = run[r].round
    BY <2>1 DEF State, PC
  <2>3. run' \in [Runner -> State] /\ run'[r] = state /\ \A s \in Runner \ {r} : run'[s] = run[s]
    BY <1>2, <2>2 DEF IInv, TypeInv, ShadowTypeOK, Become
  <2>4. /\ claim' \in [Cycle -> {"NONE", "INCOMPLETE", "FINALIZED", "ABANDONED"}]
        /\ claim'[y] = "INCOMPLETE"
        /\ \A z \in Cycle \ {y} : claim'[z] = claim[z]
    BY <1>2, <2>1 DEF IInv, TypeInv, ShadowTypeOK
  <2>5. record' = record /\ callers' = callers /\ abandoning' = abandoning
    BY DEF Claim
  <2>6. TypeInv'
    <3>1. ShadowTypeOK'
      BY <2>3, <2>4, <2>5 DEF IInv, TypeInv, ShadowTypeOK
    <3>2. ASSUME NEW s \in Runner
          PROVE  /\ run'[s].round <= Rounds
                 /\ run'[s].pc = "finish" => run'[s].disposition # None
                 /\ run'[s].pc = "risk" => run'[s].chief \in {"BUY", "SELL"}
      BY <2>1, <2>2, <2>3 DEF IInv, TypeInv
    <3>. QED
      BY <3>1, <3>2 DEF TypeInv
  <2>7. \A s \in Runner : s # r /\ CycleOf[s] = y => ~ Active(s) /\ ~ Active(s)'
    BY <1>2, <2>3 DEF IInv, Ownership, Active
  <2>8. \A s \in Runner : s # r => (Active(s)' <=> Active(s))
    BY <2>3 DEF Active
  <2>9. callers[y] = {}
    BY <1>2, <2>1 DEF IInv, Ownership
  <2>10. Ownership'
    <3>1. ASSUME NEW s \in Runner, Active(s)'
          PROVE  claim'[CycleOf[s]] # "NONE"
      BY <3>1, <2>4, <2>8, CycleAssumption DEF IInv, Ownership
    <3>2. ASSUME NEW s \in Runner, NEW t \in Runner, Active(s)', Active(t)', CycleOf[s] = CycleOf[t]
          PROVE  s = t
      BY <3>2, <2>7, <2>8 DEF IInv, Ownership
    <3>3. ASSUME NEW s \in Runner, run'[s].pc = "inputs"
          PROVE  callers'[CycleOf[s]] = {}
      BY <3>3, <2>3, <2>5, <2>9 DEF IInv, Ownership
    <3>4. ASSUME NEW z \in Cycle, callers'[z] # {}
          PROVE  claim'[z] # "NONE" /\ \E s \in Runner : callers'[z] = {s}
      BY <3>4, <2>4, <2>5 DEF IInv, Ownership
    <3>. QED
      BY <3>1, <3>2, <3>3, <3>4 DEF Ownership
  <2>11. RecordsMatchClaims'
    BY <1>2, <2>1, <2>4, <2>5 DEF IInv, RecordsMatchClaims
  <2>. QED
    BY <2>6, <2>10, <2>11 DEF IInv
<1>. QED
  BY <1>1, <1>2 DEF Claim, Become

LEMMA InputsKeeps ==
    ASSUME IInv, NEW r \in Runner, Inputs(r)
    PROVE  IInv'
<1>. DEFINE y == CycleOf[r]
           refused(category) == [run[r] EXCEPT !.failures = {Fault(None, 0, category)}]
<1>1. run[r] \in State /\ run[r].round <= Rounds /\ Active(r) /\ y \in Cycle /\ run[r].pc = "inputs"
  BY Owner, CycleAssumption DEF Inputs, Ended
<1>2. ASSUME NEW category \in {"SCHEMA_MISMATCH", "STALE_SNAPSHOT"}
      PROVE  refused(category) \in State /\ refused(category).round = run[r].round
  <2>1. Fault(None, 0, category) \in Failure
    BY FaultType DEF Category
  <2>. QED
    BY <1>1, <2>1 DEF State
<1>3. CASE Raise(r) /\ UNCHANGED <<files, callers>>
  BY <1>3, EndsKeep DEF Raise, Ended
<1>4. ASSUME NEW category \in {"SCHEMA_MISMATCH", "STALE_SNAPSHOT"}, NEW status \in StageStatus,
             NEW disposition \in Disposition,
             Become(r, End(SetStage(refused(category), 1, status), disposition)),
             UNCHANGED <<files, callers>>
      PROVE  IInv'
  <2>1. 1 \in Stage
    BY DEF Stage
  <2>. DEFINE state == End(SetStage(refused(category), 1, status), disposition)
  <2>2. /\ state \in State /\ state.round = run[r].round
        /\ state.pc = "finish" /\ state.disposition # None
    <3>. HIDE DEF refused
    <3>. QED
      BY <1>2, <2>1, SetStageType, EndType
  <2>3. Become(r, state)
    BY <1>4
  <2>. HIDE DEF state
  <2>. QED
    BY <1>1, <1>4, <2>2, <2>3, BecomeKeeps
<1>5. CASE /\ run' = [run EXCEPT ![r].pc = "stage1"]
           /\ callers' = [callers EXCEPT ![y] = @ \cup {r}]
           /\ UNCHANGED files
  <2>. DEFINE state == [run[r] EXCEPT !.pc = "stage1"]
  <2>2. state \in State /\ state.pc = "stage1" /\ state.round = run[r].round
    BY <1>1 DEF State, PC
  <2>3. run' \in [Runner -> State] /\ run'[r] = state /\ \A s \in Runner \ {r} : run'[s] = run[s]
    BY <1>5, <2>2 DEF IInv, TypeInv, ShadowTypeOK
  <2>4. callers[y] = {} /\ claim[y] # "NONE"
    BY <1>1 DEF IInv, Ownership
  <2>5. /\ callers' \in [Cycle -> SUBSET Runner]
        /\ callers'[y] = {r}
        /\ \A z \in Cycle \ {y} : callers'[z] = callers[z]
    BY <1>1, <1>5, <2>4 DEF IInv, TypeInv, ShadowTypeOK
  <2>6. record' = record /\ claim' = claim /\ abandoning' = abandoning
    BY <1>5 DEF files
  <2>7. TypeInv'
    <3>1. ShadowTypeOK'
      BY <2>3, <2>5, <2>6 DEF IInv, TypeInv, ShadowTypeOK
    <3>2. ASSUME NEW s \in Runner
          PROVE  /\ run'[s].round <= Rounds
                 /\ run'[s].pc = "finish" => run'[s].disposition # None
                 /\ run'[s].pc = "risk" => run'[s].chief \in {"BUY", "SELL"}
      BY <1>1, <2>2, <2>3 DEF IInv, TypeInv
    <3>. QED
      BY <3>1, <3>2 DEF TypeInv
  <2>8. \A s \in Runner : Active(s)' => Active(s)
    BY <1>1, <2>3 DEF Active
  <2>9. \A s \in Runner : run'[s].pc = "inputs" => s # r /\ run[s].pc = "inputs" /\ Active(s)
    BY <2>2, <2>3 DEF Active, Ended
  <2>10. Ownership'
    <3>1. ASSUME NEW s \in Runner, run'[s].pc = "inputs"
          PROVE  callers'[CycleOf[s]] = {}
      <4>1. CycleOf[s] # y
        BY <1>1, <2>9, <3>1 DEF IInv, Ownership
      <4>. QED
        BY <2>5, <2>9, <3>1, <4>1, CycleAssumption DEF IInv, Ownership
    <3>2. ASSUME NEW z \in Cycle, callers'[z] # {}
          PROVE  claim'[z] # "NONE" /\ \E s \in Runner : callers'[z] = {s}
      BY <3>2, <2>4, <2>5, <2>6 DEF IInv, Ownership
    <3>. QED
      BY <2>6, <2>8, <3>1, <3>2 DEF IInv, Ownership
  <2>11. RecordsMatchClaims'
    BY <2>6 DEF IInv, RecordsMatchClaims
  <2>. QED
    BY <2>7, <2>10, <2>11 DEF IInv
<1>6. /\ {"ABORTED", "HOLD"} \subseteq StageStatus
      /\ {"ABORTED", "POLICY_HOLD"} \subseteq Disposition
  BY DEF StageStatus, Disposition
<1>7. \/ Raise(r) /\ UNCHANGED <<files, callers>>
      \/ /\ Become(r, End(SetStage(refused("SCHEMA_MISMATCH"), 1, "ABORTED"), "ABORTED"))
         /\ UNCHANGED <<files, callers>>
      \/ /\ Become(r, End(SetStage(refused("STALE_SNAPSHOT"), 1, "HOLD"), "POLICY_HOLD"))
         /\ UNCHANGED <<files, callers>>
      \/ /\ run' = [run EXCEPT ![r].pc = "stage1"]
         /\ callers' = [callers EXCEPT ![y] = @ \cup {r}]
         /\ UNCHANGED files
  BY DEF Inputs
<1>. HIDE DEF refused
<1>. QED
  BY <1>3, <1>4, <1>5, <1>6, <1>7

LEMMA AnswerKeeps ==
    ASSUME IInv, NEW r \in Runner, Answer(r)
    PROVE  IInv'
<1>1. run[r] \in State /\ run[r].round <= Rounds /\ Active(r) /\ run[r].pc = "stage1"
  BY Owner DEF Answer, Ended
<1>2. PICK role \in StageOneRole, outcome \in Outcome :
          Become(r, Retain(run[r], role, 0, outcome))
  BY DEF Answer
<1>. DEFINE state == Retain(run[r], role, 0, outcome)
<1>3. state \in State /\ state.round = run[r].round
  BY <1>1, RetainType DEF Role
<1>4. state.pc = "stage1"
  BY <1>1 DEF Retain, State
<1>5. Become(r, state)
  BY <1>2
<1>. HIDE DEF state
<1>. QED
  BY <1>1, <1>3, <1>4, <1>5, BecomeKeeps DEF Answer

LEMMA StageOneKeeps ==
    ASSUME IInv, NEW r \in Runner, StageOne(r)
    PROVE  IInv'
<1>. DEFINE terminal == StageOneTerminal(run[r])
           degraded == {[f EXCEPT !.disposition = "CONTINUE_DEGRADED"] : f \in run[r].failures}
           status == IF degraded = {} THEN "COMPLETED" ELSE "DEGRADED"
           ended == End(SetStage(run[r], 1, StageOf(terminal)), terminal)
           goes == [SetStage(run[r], 1, status) EXCEPT !.failures = degraded, !.pc = "entry"]
<1>1. /\ run[r] \in State /\ run[r].round <= Rounds /\ Active(r) /\ 1 \in Stage
      /\ UNCHANGED <<files, callers>>
  BY Owner DEF StageOne, Ended, Stage
<1>2. CASE terminal # None /\ Become(r, ended)
  <2>1. terminal \in Disposition /\ StageOf(terminal) \in StageStatus
    BY <1>2 DEF StageOneTerminal, StageOf, Disposition, StageStatus
  <2>. HIDE DEF terminal
  <2>2. ended \in State /\ ended.round = run[r].round /\ ended.pc = "finish" /\ ended.disposition # None
    BY <1>1, <2>1, SetStageType, EndType
  <2>. HIDE DEF ended
  <2>. QED
    BY <1>1, <1>2, <2>2, BecomeKeeps
<1>3. CASE Become(r, goes)
  <2>1. degraded \in SUBSET Failure
    BY <1>1 DEF State, Failure, FailureDisposition
  <2>2. status \in StageStatus
    BY DEF StageStatus
  <2>. HIDE DEF degraded, status
  <2>3. SetStage(run[r], 1, status) \in State /\ SetStage(run[r], 1, status).round = run[r].round
    BY <1>1, <2>2, SetStageType
  <2>4. goes \in State /\ goes.round = run[r].round /\ goes.pc = "entry"
    BY <2>1, <2>3 DEF State, PC
  <2>. HIDE DEF goes
  <2>. QED
    BY <1>1, <1>3, <2>4, BecomeKeeps
<1>. QED
  BY <1>2, <1>3 DEF StageOne

LEMMA EntryKeeps ==
    ASSUME IInv, NEW r \in Runner, Entry(r)
    PROVE  IInv'
<1>1. /\ run[r] \in State /\ run[r].round <= Rounds /\ Active(r)
      /\ UNCHANGED <<files, callers>>
  BY Owner DEF Entry, Ended
<1>2. PICK outcome \in Outcome :
          LET state == Retain(run[r], "ENTRY_ANALYST", 0, outcome)
          IN  \/ Become(r, FailAt(state, 2, "ENTRY_ANALYST", outcome))
              \/ Become(r, Debate(SetStage(SetStage(state, 2, "COMPLETED"), 3, "SKIPPED")))
              \/ Become(r, [SetStage(state, 2, "COMPLETED") EXCEPT !.pc = "research"])
  BY DEF Entry
<1>. DEFINE state == Retain(run[r], "ENTRY_ANALYST", 0, outcome)
           done == SetStage(state, 2, "COMPLETED")
<1>3. state \in State /\ state.round = run[r].round
  <2>1. "ENTRY_ANALYST" \in Role /\ 0 \in 0..3
    BY DEF Role
  <2>. QED
    BY <1>1, <2>1, RetainType
<1>4. done \in State /\ done.round = run[r].round
  <2>. HIDE DEF state
  <2>. QED
    BY <1>3, SetStageType DEF Stage, StageStatus
<1>5. CASE Become(r, FailAt(state, 2, "ENTRY_ANALYST", outcome))
  <2>. DEFINE next == FailAt(state, 2, "ENTRY_ANALYST", outcome)
  <2>1. next \in State /\ next.round = run[r].round /\ next.pc = "finish" /\ next.disposition # None
    <3>. HIDE DEF state
    <3>. QED
      BY <1>3, FailAtType DEF Stage
  <2>. HIDE DEF next
  <2>. QED
    BY <1>1, <1>5, <2>1, BecomeKeeps DEF next
<1>6. CASE Become(r, Debate(SetStage(done, 3, "SKIPPED")))
  <2>. DEFINE next == Debate(SetStage(done, 3, "SKIPPED"))
  <2>1. SetStage(done, 3, "SKIPPED") \in State
    <3>. HIDE DEF done
    <3>. QED
      BY <1>4, SetStageType DEF Stage, StageStatus
  <2>2. next \in State /\ next.round <= Rounds /\ next.pc = "skeptic"
    <3>. HIDE DEF done
    <3>. QED
      BY <2>1, DebateType, CycleAssumption
  <2>. HIDE DEF next
  <2>. QED
    BY <1>1, <1>6, <2>2, BecomeKeeps DEF next
<1>7. CASE Become(r, [done EXCEPT !.pc = "research"])
  <2>. DEFINE next == [done EXCEPT !.pc = "research"]
  <2>1. next \in State /\ next.round = run[r].round /\ next.pc = "research"
    <3>. HIDE DEF done
    <3>1. "research" \in PC
      BY DEF PC
    <3>. QED
      BY <1>4, <3>1 DEF State
  <2>. HIDE DEF next
  <2>. QED
    BY <1>1, <1>7, <2>1, BecomeKeeps DEF next
<1>. QED
  BY <1>2, <1>5, <1>6, <1>7

\* A Quant role that answers ends the cycle, begins the debate or hands on.
LEMMA QuantKeeps ==
    ASSUME IInv, NEW r \in Runner, Active(r), UNCHANGED <<files, callers>>,
           NEW role \in QuantRole, NEW outcome \in Outcome,
           LET state == Retain(run[r], role, 0, outcome)
           IN  \/ Become(r, FailAt(state, 3, role, outcome))
               \/ Become(r, [state EXCEPT !.pc = "developer"])
               \/ Become(r, EndQuant(state))
    PROVE  IInv'
<1>1. run[r] \in State /\ run[r].round <= Rounds
  BY Owner DEF Active
<1>. DEFINE state == Retain(run[r], role, 0, outcome)
<1>2. state \in State /\ state.round = run[r].round
  BY <1>1, RetainType DEF Role
<1>3. CASE Become(r, FailAt(state, 3, role, outcome))
  <2>. DEFINE next == FailAt(state, 3, role, outcome)
  <2>1. next \in State /\ next.round = run[r].round /\ next.pc = "finish" /\ next.disposition # None
    <3>. HIDE DEF state
    <3>. QED
      BY <1>2, FailAtType DEF Stage
  <2>. HIDE DEF next
  <2>. QED
    BY <1>1, <1>3, <2>1, BecomeKeeps DEF next
<1>4. CASE Become(r, [state EXCEPT !.pc = "developer"])
  <2>. DEFINE next == [state EXCEPT !.pc = "developer"]
  <2>1. next \in State /\ next.round = run[r].round /\ next.pc = "developer"
    <3>. HIDE DEF state
    <3>. QED
      BY <1>2 DEF State, PC
  <2>. HIDE DEF next
  <2>. QED
    BY <1>1, <1>4, <2>1, BecomeKeeps DEF next
<1>5. CASE Become(r, EndQuant(state))
  <2>. DEFINE next == EndQuant(state)
              status == IF \E f \in state.failures : f.role \in QuantRole
                        THEN "DEGRADED" ELSE "COMPLETED"
  <2>1. status \in StageStatus
    BY DEF StageStatus
  <2>2. next = Debate(SetStage(state, 3, status))
    BY DEF EndQuant
  <2>3. next \in State /\ next.round <= Rounds /\ next.pc = "skeptic"
    <3>. HIDE DEF state, status, next
    <3>1. SetStage(state, 3, status) \in State
      BY <1>2, <2>1, SetStageType DEF Stage
    <3>. QED
      BY <2>2, <3>1, DebateType, CycleAssumption
  <2>. HIDE DEF next
  <2>. QED
    BY <1>1, <1>5, <2>3, BecomeKeeps DEF next
<1>. QED
  BY <1>3, <1>4, <1>5

LEMMA ResearchKeeps ==
    ASSUME IInv, NEW r \in Runner, Research(r)
    PROVE  IInv'
<1>1. Active(r) /\ UNCHANGED <<files, callers>> /\ "QUANT_RESEARCHER" \in QuantRole
  BY Owner DEF Research, Ended, QuantRole
<1>2. PICK outcome \in Outcome :
          LET state == Retain(run[r], "QUANT_RESEARCHER", 0, outcome)
          IN  \/ Become(r, FailAt(state, 3, "QUANT_RESEARCHER", outcome))
              \/ Become(r, [state EXCEPT !.pc = "developer"])
              \/ Become(r, EndQuant(state))
  BY DEF Research
<1>. QED
  BY <1>1, <1>2, QuantKeeps

LEMMA DeveloperKeeps ==
    ASSUME IInv, NEW r \in Runner, Developer(r)
    PROVE  IInv'
<1>1. Active(r) /\ UNCHANGED <<files, callers>> /\ "SENIOR_QUANT_DEVELOPER" \in QuantRole
  BY Owner DEF Developer, Ended, QuantRole
<1>2. PICK outcome \in Outcome :
          LET state == Retain(run[r], "SENIOR_QUANT_DEVELOPER", 0, outcome)
          IN  \/ Become(r, FailAt(state, 3, "SENIOR_QUANT_DEVELOPER", outcome))
              \/ Become(r, EndQuant(state))
  BY DEF Developer
<1>. QED
  BY <1>1, <1>2, QuantKeeps

LEMMA SkepticKeeps ==
    ASSUME IInv, NEW r \in Runner, Skeptic(r)
    PROVE  IInv'
<1>1. /\ run[r] \in State /\ run[r].round \in 0..3 /\ run[r].round <= Rounds /\ Active(r)
      /\ UNCHANGED <<files, callers>>
  BY Owner DEF Skeptic, Ended
<1>2. PICK outcome \in Outcome :
          LET state == Retain(run[r], "SKEPTIC", run[r].round, outcome)
          IN  \/ Become(r, [state EXCEPT !.pc = "chief"])
              \/ Become(r, End(SetStage(state, 4, "HOLD"), Terminal("SKEPTIC", outcome)))
  BY DEF Skeptic
<1>. DEFINE state == Retain(run[r], "SKEPTIC", run[r].round, outcome)
<1>3. state \in State /\ state.round = run[r].round
  <2>1. "SKEPTIC" \in Role
    BY DEF Role
  <2>. QED
    BY <1>1, <2>1, RetainType
<1>4. CASE Become(r, [state EXCEPT !.pc = "chief"])
  <2>. DEFINE next == [state EXCEPT !.pc = "chief"]
  <2>1. next \in State /\ next.round = run[r].round /\ next.pc = "chief"
    <3>. HIDE DEF state
    <3>1. "chief" \in PC
      BY DEF PC
    <3>. QED
      BY <1>3, <3>1 DEF State
  <2>. HIDE DEF next
  <2>. QED
    BY <1>1, <1>4, <2>1, BecomeKeeps DEF next
<1>5. CASE Become(r, End(SetStage(state, 4, "HOLD"), Terminal("SKEPTIC", outcome)))
  <2>. DEFINE next == End(SetStage(state, 4, "HOLD"), Terminal("SKEPTIC", outcome))
  <2>1. next \in State /\ next.round = run[r].round /\ next.pc = "finish" /\ next.disposition # None
    <3>. HIDE DEF state
    <3>1. 4 \in Stage /\ "HOLD" \in StageStatus
      BY DEF Stage, StageStatus
    <3>. QED
      BY <1>3, <3>1, SetStageType, EndType, TerminalType
  <2>. HIDE DEF next
  <2>. QED
    BY <1>1, <1>5, <2>1, BecomeKeeps DEF next
<1>. QED
  BY <1>2, <1>4, <1>5

LEMMA ChiefFailsKeeps ==
    ASSUME IInv, NEW r \in Runner, ChiefFails(r)
    PROVE  IInv'
<1>1. /\ run[r] \in State /\ run[r].round \in 0..3 /\ run[r].round <= Rounds /\ Active(r)
      /\ UNCHANGED <<files, callers>>
  BY Owner DEF ChiefFails, Ended
<1>2. PICK outcome \in Category :
          Become(r, End(SetStage(Retain(run[r], "CHIEF_TRADER", run[r].round, outcome), 4, "COMPLETED"),
                        Terminal("CHIEF_TRADER", outcome)))
  BY DEF ChiefFails
<1>. DEFINE state == Retain(run[r], "CHIEF_TRADER", run[r].round, outcome)
           next == End(SetStage(state, 4, "COMPLETED"), Terminal("CHIEF_TRADER", outcome))
<1>3. state \in State /\ state.round = run[r].round
  <2>1. "CHIEF_TRADER" \in Role /\ outcome \in Outcome
    BY DEF Role, Outcome
  <2>. QED
    BY <1>1, <2>1, RetainType
<1>4. next \in State /\ next.round = run[r].round /\ next.pc = "finish" /\ next.disposition # None
  <2>. HIDE DEF state
  <2>1. 4 \in Stage /\ "COMPLETED" \in StageStatus
    BY DEF Stage, StageStatus
  <2>. QED
    BY <1>3, <2>1, SetStageType, EndType, TerminalType
<1>5. Become(r, next)
  BY <1>2
<1>. HIDE DEF next
<1>. QED
  BY <1>1, <1>4, <1>5, BecomeKeeps

LEMMA ChiefDecidesKeeps ==
    ASSUME IInv, NEW r \in Runner, ChiefDecides(r)
    PROVE  IInv'
<1>1. /\ run[r] \in State /\ run[r].round \in 0..3 /\ run[r].round <= Rounds /\ Active(r)
      /\ UNCHANGED <<files, callers>>
  BY Owner DEF ChiefDecides, Ended
<1>. DEFINE heard == Retain(run[r], "CHIEF_TRADER", run[r].round, "ok")
           state(action) == [heard EXCEPT !.chiefs = Append(@, action)]
           staged(action) == SetStage(SetStage(state(action), 4, "COMPLETED"), 5, "COMPLETED")
           decided(action) == [staged(action) EXCEPT !.chief = action]
           again(action) == [state(action) EXCEPT !.pc = "skeptic", !.round = @ + 1]
           held(action) == End(SetStage(decided(action), 6, "SKIPPED"), "CHIEF_HOLD")
           judged(action) == [decided(action) EXCEPT !.pc = "risk"]
<1>2. PICK action \in Action :
          \/ ~ LastRound(r, action) /\ Become(r, again(action))
          \/ Become(r, held(action))
          \/ action # "HOLD" /\ Become(r, judged(action))
  BY DEF ChiefDecides
<1>3. heard \in State /\ heard.round = run[r].round
  <2>1. "CHIEF_TRADER" \in Role /\ "ok" \in Outcome
    BY DEF Role, Outcome
  <2>. QED
    BY <1>1, <2>1, RetainType
<1>. HIDE DEF heard
<1>4. state(action) \in State /\ state(action).round = run[r].round
  <2>1. Append(heard.chiefs, action) \in Seq(Action)
    BY <1>3 DEF State
  <2>. QED
    BY <1>3, <2>1 DEF State
<1>. HIDE DEF state
<1>5. staged(action) \in State /\ staged(action).round = run[r].round
  <2>1. 4 \in Stage /\ 5 \in Stage /\ "COMPLETED" \in StageStatus
    BY DEF Stage, StageStatus
  <2>. QED
    BY <1>4, <2>1, SetStageType
<1>. HIDE DEF staged
<1>6. decided(action) \in State /\ decided(action).round = run[r].round /\ decided(action).chief = action
  BY <1>5 DEF State
<1>. HIDE DEF decided
<1>7. CASE ~ LastRound(r, action) /\ Become(r, again(action))
  <2>1. run[r].round + 1 \in 0..3 /\ run[r].round + 1 <= Rounds
    BY <1>1, <1>7, CycleAssumption DEF LastRound
  <2>2. "skeptic" \in PC
    BY DEF PC
  <2>3. /\ again(action) \in State /\ again(action).pc = "skeptic"
        /\ again(action).round = run[r].round + 1
    BY <1>4, <2>1, <2>2 DEF State
  <2>. HIDE DEF again
  <2>. QED
    BY <1>1, <1>7, <2>1, <2>3, BecomeKeeps
<1>8. CASE Become(r, held(action))
  <2>1. 6 \in Stage /\ "SKIPPED" \in StageStatus /\ "CHIEF_HOLD" \in Disposition
    BY DEF Stage, StageStatus, Disposition
  <2>2. /\ held(action) \in State /\ held(action).round = run[r].round
        /\ held(action).pc = "finish" /\ held(action).disposition # None
    BY <1>6, <2>1, SetStageType, EndType
  <2>. HIDE DEF held
  <2>. QED
    BY <1>1, <1>8, <2>2, BecomeKeeps
<1>9. CASE action # "HOLD" /\ Become(r, judged(action))
  <2>1. "risk" \in PC /\ action \in {"BUY", "SELL"}
    BY <1>9 DEF PC, Action
  <2>2. /\ judged(action) \in State /\ judged(action).round = run[r].round
        /\ judged(action).pc = "risk" /\ judged(action).chief = action
    BY <1>6, <2>1 DEF State
  <2>. HIDE DEF judged
  <2>. QED
    BY <1>1, <1>9, <2>1, <2>2, BecomeKeeps
<1>. QED
  BY <1>2, <1>7, <1>8, <1>9

LEMMA RiskKeeps ==
    ASSUME IInv, NEW r \in Runner, Risk(r)
    PROVE  IInv'
<1>1. /\ run[r] \in State /\ run[r].round <= Rounds /\ Active(r) /\ 6 \in Stage
      /\ UNCHANGED <<files, callers>>
  BY Owner DEF Risk, Ended, Stage
<1>2. ASSUME NEW status \in RiskStatus,
             Become(r, End([SetStage(run[r], 6, "COMPLETED") EXCEPT !.risk = status],
                           RiskDisposition(run[r].chief, status)))
      PROVE  IInv'
  <2>. DEFINE staged == SetStage(run[r], 6, "COMPLETED")
              judged == [staged EXCEPT !.risk = status]
              next == End(judged, RiskDisposition(run[r].chief, status))
  <2>1. staged \in State /\ staged.round = run[r].round
    <3>1. "COMPLETED" \in StageStatus
      BY DEF StageStatus
    <3>. QED
      BY <1>1, <3>1, SetStageType
  <2>. HIDE DEF staged
  <2>2. judged \in State /\ judged.round = run[r].round
    BY <2>1 DEF State
  <2>. HIDE DEF judged
  <2>3. RiskDisposition(run[r].chief, status) \in Disposition
    BY DEF RiskDisposition, RiskStatus, Disposition
  <2>4. next \in State /\ next.round = run[r].round /\ next.pc = "finish" /\ next.disposition # None
    BY <2>2, <2>3, EndType
  <2>5. Become(r, next)
    BY <1>2 DEF judged, staged
  <2>. HIDE DEF next
  <2>. QED
    BY <1>1, <2>4, <2>5, BecomeKeeps
<1>3. CASE Become(r, End([SetStage(run[r], 6, "ABORTED")
                             EXCEPT !.failures = @ \cup {Fault(None, 0, "UNKNOWN")}],
                         "ABORTED"))
  <2>. DEFINE staged == SetStage(run[r], 6, "ABORTED")
              failed == [staged EXCEPT !.failures = @ \cup {Fault(None, 0, "UNKNOWN")}]
              next == End(failed, "ABORTED")
  <2>1. staged \in State /\ staged.round = run[r].round
    <3>1. "ABORTED" \in StageStatus
      BY DEF StageStatus
    <3>. QED
      BY <1>1, <3>1, SetStageType
  <2>. HIDE DEF staged
  <2>2. Fault(None, 0, "UNKNOWN") \in Failure
    BY FaultType DEF Category
  <2>3. failed \in State /\ failed.round = run[r].round
    BY <2>1, <2>2 DEF State
  <2>. HIDE DEF failed
  <2>4. next \in State /\ next.round = run[r].round /\ next.pc = "finish" /\ next.disposition # None
    <3>1. "ABORTED" \in Disposition
      BY DEF Disposition
    <3>. QED
      BY <2>3, <3>1, EndType
  <2>5. Become(r, next)
    BY <1>3 DEF failed, staged
  <2>. HIDE DEF next
  <2>. QED
    BY <1>1, <2>4, <2>5, BecomeKeeps
<1>. QED
  BY <1>2, <1>3 DEF Risk

LEMMA FilledType ==
    ASSUME NEW state \in State
    PROVE  /\ Filled(state) \in State
           /\ Filled(state).pc = "returned"
           /\ Filled(state).round = state.round
           /\ Filled(state).disposition = state.disposition
           /\ \A s \in Stage : Filled(state).stages[s] # None
<1>. DEFINE stages == [s \in Stage |-> IF state.stages[s] = None THEN "SKIPPED" ELSE state.stages[s]]
<1>1. stages \in [Stage -> StageStatus] /\ \A s \in Stage : stages[s] # None
  BY NoneAssumption DEF State, StageStatus
<1>2. Filled(state) = [state EXCEPT !.pc = "returned", !.stages = stages]
  BY DEF Filled
<1>. HIDE DEF stages
<1>3. "returned" \in PC /\ stages \in [Stage -> StageStatus \cup {None}]
  BY <1>1 DEF PC
<1>4. Filled(state) \in State
  BY <1>2, <1>3 DEF State
<1>5. /\ Filled(state).pc = "returned" /\ Filled(state).round = state.round
      /\ Filled(state).disposition = state.disposition /\ Filled(state).stages = stages
  BY <1>2, <1>3 DEF State
<1>. QED
  BY <1>1, <1>4, <1>5

LEMMA FinishKeeps ==
    ASSUME IInv, NEW r \in Runner, Finish(r)
    PROVE  IInv'
<1>. DEFINE y == CycleOf[r]
           final == Filled(run[r])
<1>1. /\ run[r] \in State /\ run[r].round <= Rounds /\ run[r].disposition # None
      /\ y \in Cycle /\ callers' = callers /\ abandoning' = abandoning
  <2>1. run[r].pc = "finish" /\ callers' = callers /\ abandoning' = abandoning
    BY DEF Finish
  <2>2. run[r].disposition # None
    BY <2>1 DEF IInv, TypeInv
  <2>. QED
    BY <2>1, <2>2, Owner, CycleAssumption DEF Ended
<1>2. CASE Raise(r) /\ UNCHANGED <<claim, record>>
  BY <1>1, <1>2, EndsKeep DEF Raise, Ended, files
<1>3. CASE Finalize(y, final) /\ Become(r, final)
  <2>1. /\ final \in State /\ final.pc = "returned" /\ final.round = run[r].round
        /\ final.disposition # None /\ final # None
        /\ \A s \in Stage : final.stages[s] # None
    BY <1>1, FilledType, NoneAssumption
  <2>. HIDE DEF final
  <2>2. /\ run' \in [Runner -> State] /\ run'[r] = final
        /\ \A s \in Runner \ {r} : run'[s] = run[s]
    BY <1>3, <2>1 DEF IInv, TypeInv, ShadowTypeOK, Become
  <2>3. /\ claim[y] = "INCOMPLETE" /\ claim'[y] = "FINALIZED"
        /\ claim' \in [Cycle -> {"NONE", "INCOMPLETE", "FINALIZED", "ABANDONED"}]
        /\ \A z \in Cycle \ {y} : claim'[z] = claim[z]
    BY <1>1, <1>3 DEF IInv, TypeInv, ShadowTypeOK, Finalize
  <2>4. /\ record' \in [Cycle -> State \cup {None}] /\ record'[y] = final
        /\ \A z \in Cycle \ {y} : record'[z] = record[z]
    BY <1>1, <1>3, <2>1 DEF IInv, TypeInv, ShadowTypeOK, Finalize
  <2>5. TypeInv'
    <3>1. \A z \in Cycle : record'[z] # None =>
             record'[z].disposition # None /\ \A s \in Stage : record'[z].stages[s] # None
      BY <2>1, <2>4 DEF IInv, TypeInv, ShadowTypeOK
    <3>2. ShadowTypeOK'
      BY <1>1, <2>2, <2>3, <2>4, <3>1 DEF IInv, TypeInv, ShadowTypeOK
    <3>3. ASSUME NEW s \in Runner
          PROVE  /\ run'[s].round <= Rounds
                 /\ run'[s].pc = "finish" => run'[s].disposition # None
                 /\ run'[s].pc = "risk" => run'[s].chief \in {"BUY", "SELL"}
      BY <1>1, <2>1, <2>2 DEF IInv, TypeInv
    <3>. QED
      BY <3>2, <3>3 DEF TypeInv
  <2>6. \A s \in Runner : Active(s)' => Active(s)
    BY <2>1, <2>2 DEF Active, Ended
  <2>7. \A s \in Runner : run'[s].pc = "inputs" => run[s].pc = "inputs"
    BY <2>1, <2>2
  <2>8. \A z \in Cycle : claim[z] # "NONE" => claim'[z] # "NONE"
    BY <2>3
  <2>9. Ownership'
    BY <1>1, <2>6, <2>7, <2>8, CycleAssumption DEF IInv, Ownership
  <2>10. RecordsMatchClaims'
    BY <2>1, <2>3, <2>4 DEF IInv, RecordsMatchClaims
  <2>. QED
    BY <2>5, <2>9, <2>10 DEF IInv
<1>. QED
  BY <1>2, <1>3 DEF Finish

LEMMA AbandonKeeps ==
    ASSUME IInv, NEW y \in Cycle, AbandonCheck(y) \/ Abandon(y)
    PROVE  IInv'
<1>1. CASE AbandonCheck(y)
  <2>1. /\ claim' = claim /\ record' = record /\ run' = run /\ callers' = callers
        /\ abandoning' = y
    BY <1>1 DEF AbandonCheck
  <2>. QED
    BY <2>1 DEF IInv, TypeInv, ShadowTypeOK, Ownership, RecordsMatchClaims, Active
<1>2. CASE Abandon(y)
  <2>1. /\ record' = record /\ run' = run /\ callers' = callers /\ abandoning' = None
        /\ claim' \in [Cycle -> {"NONE", "INCOMPLETE", "FINALIZED", "ABANDONED"}]
        /\ claim'[y] = "ABANDONED"
        /\ \A z \in Cycle \ {y} : claim'[z] = claim[z]
    BY <1>2 DEF Abandon, IInv, TypeInv, ShadowTypeOK
  <2>2. TypeInv'
    BY <2>1 DEF IInv, TypeInv, ShadowTypeOK
  <2>3. \A z \in Cycle : claim[z] # "NONE" => claim'[z] # "NONE"
    BY <2>1
  <2>4. Ownership'
    BY <2>1, <2>3, CycleAssumption DEF IInv, Ownership, Active
  <2>5. RecordsMatchClaims'
    BY <2>1 DEF IInv, RecordsMatchClaims
  <2>. QED
    BY <2>2, <2>4, <2>5 DEF IInv
<1>. QED
  BY <1>1, <1>2

-----------------------------------------------------------------------------

\* The invariant is inductive.
LEMMA InitIInv == Init => IInv
<1>. SUFFICES ASSUME Init PROVE IInv
  OBVIOUS
<1>1. Fresh \in State /\ Fresh.pc = "start" /\ Fresh.round = 0
  BY DEF Fresh, State, PC
<1>2. \A r \in Runner : run[r] = Fresh
  BY DEF Init
<1>3. ShadowTypeOK
  BY <1>1 DEF Init, ShadowTypeOK
<1>4. TypeInv
  BY <1>1, <1>2, <1>3, CycleAssumption DEF TypeInv
<1>5. Ownership
  BY <1>1, <1>2 DEF Init, Ownership, Active
<1>6. RecordsMatchClaims
  BY DEF Init, RecordsMatchClaims
<1>. QED
  BY <1>4, <1>5, <1>6 DEF IInv

LEMMA StepIInv == IInv /\ [Next]_vars => IInv'
<1>. SUFFICES ASSUME IInv, [Next]_vars PROVE IInv'
  OBVIOUS
<1>1. ASSUME NEW r \in Runner, RunStep(r)
      PROVE  IInv'
  BY <1>1, ClaimKeeps, InputsKeeps, AnswerKeeps, StageOneKeeps, EntryKeeps, ResearchKeeps,
     DeveloperKeeps, SkepticKeeps, ChiefFailsKeeps, ChiefDecidesKeeps, RiskKeeps, FinishKeeps
     DEF RunStep
<1>2. ASSUME NEW r \in Runner, FileRaises(r) \/ Stop(r)
      PROVE  IInv'
  BY <1>2, EndsKeep DEF FileRaises, Stop, Raise, Ended
<1>3. ASSUME NEW y \in Cycle, AbandonCheck(y) \/ Abandon(y)
      PROVE  IInv'
  BY <1>3, AbandonKeeps
<1>4. CASE UNCHANGED vars
  BY <1>4 DEF vars, IInv, TypeInv, ShadowTypeOK, Ownership, RecordsMatchClaims, Active
<1>. QED
  BY <1>1, <1>2, <1>3, <1>4 DEF Next

\* Every behaviour of the calls, the audit file and the operator keeps the invariant.
THEOREM Invariant == Spec => []IInv
<1>. QED
  BY InitIInv, StepIInv, PTL DEF Spec

\* run_shadow_cycle and the repository keep their types, and a record always has
\* a disposition and all six stages.
THEOREM TypesHold == Spec => []ShadowTypeOK
<1>1. IInv => ShadowTypeOK
  BY DEF IInv, TypeInv
<1>. QED
  BY <1>1, Invariant, PTL

\* At most one call of run_shadow_cycle asks the agents of a cycle, and only under
\* a claim, however often the cycle is presented again.
THEOREM OneCaller == Spec => []OneCallerPerCycle
<1>1. IInv => OneCallerPerCycle
  <2>. SUFFICES ASSUME IInv, NEW y \in Cycle, callers[y] # {}
                PROVE  Cardinality(callers[y]) = 1 /\ claim[y] # "NONE"
    BY DEF OneCallerPerCycle
  <2>1. PICK r \in Runner : callers[y] = {r}
    BY DEF IInv, Ownership
  <2>2. claim[y] # "NONE"
    BY DEF IInv, Ownership
  <2>. QED
    BY <2>1, <2>2, FS_Singleton
<1>. QED
  BY <1>1, Invariant, PTL

\* A finalized claim has its record, and a record has a closed claim, also when the
\* process ends anywhere or an operator abandons the cycle meanwhile.
THEOREM RecordsMatch == Spec => []RecordsMatchClaims
<1>1. IInv => RecordsMatchClaims
  BY DEF IInv
<1>. QED
  BY <1>1, Invariant, PTL

\* finalize and abandon never change a record, and never open a closed claim or
\* finalize an abandoned one.
THEOREM ClosedForGood == Spec => ClosedStaysClosed
<1>. DEFINE Keeps(y) == /\ record[y] # None => record'[y] = record[y]
                        /\ claim[y] = "ABANDONED" => claim'[y] = "ABANDONED"
                        /\ claim[y] = "FINALIZED" => claim'[y] # "INCOMPLETE"
<1>1. ASSUME IInv, Next, NEW y \in Cycle
      PROVE  Keeps(y)
  <2>1. /\ claim \in [Cycle -> {"NONE", "INCOMPLETE", "FINALIZED", "ABANDONED"}]
        /\ record \in [Cycle -> State \cup {None}]
        /\ record[y] # None => claim[y] # "INCOMPLETE"
    BY <1>1 DEF IInv, TypeInv, ShadowTypeOK, RecordsMatchClaims
  <2>2. CASE claim' = claim /\ record' = record
    BY <2>2
  <2>3. ASSUME NEW r \in Runner, Claim(r)
        PROVE  Keeps(y)
    <3>1. /\ record' = record
          /\ claim' = claim \/ (/\ claim[CycleOf[r]] = "NONE"
                                /\ claim' = [claim EXCEPT ![CycleOf[r]] = "INCOMPLETE"])
      BY <2>3 DEF Claim
    <3>. QED
      BY <2>1, <3>1
  <2>4. ASSUME NEW r \in Runner, Finish(r)
        PROVE  Keeps(y)
    <3>1. \/ claim' = claim /\ record' = record
          \/ /\ claim[CycleOf[r]] = "INCOMPLETE"
             /\ record' = [record EXCEPT ![CycleOf[r]] = Filled(run[r])]
             /\ claim' = [claim EXCEPT ![CycleOf[r]] = "FINALIZED"]
      BY <2>4 DEF Finish, Finalize
    <3>. QED
      BY <2>1, <3>1
  <2>5. ASSUME NEW z \in Cycle, Abandon(z)
        PROVE  Keeps(y)
    <3>1. record' = record /\ claim' = [claim EXCEPT ![z] = "ABANDONED"]
      BY <2>5 DEF Abandon
    <3>. QED
      BY <2>1, <3>1
  <2>6. ASSUME NEW r \in Runner, RunStep(r)
        PROVE  Claim(r) \/ Finish(r) \/ (claim' = claim /\ record' = record)
    BY <2>6 DEF RunStep, Inputs, Answer, StageOne, Entry, Research, Developer, Skeptic,
                ChiefFails, ChiefDecides, Risk, files
  <2>7. ASSUME NEW r \in Runner, FileRaises(r) \/ Stop(r)
        PROVE  claim' = claim /\ record' = record
    BY <2>7 DEF FileRaises, Stop, files
  <2>8. ASSUME NEW z \in Cycle, AbandonCheck(z)
        PROVE  claim' = claim /\ record' = record
    BY <2>8 DEF AbandonCheck
  <2>. HIDE DEF Keeps
  <2>. QED
    BY <1>1, <2>2, <2>3, <2>4, <2>5, <2>6, <2>7, <2>8 DEF Next
<1>2. IInv /\ [Next]_vars => [\A y \in Cycle : Keeps(y)]_vars
  BY <1>1
<1>. QED
  BY <1>2, Invariant, PTL DEF Spec, ClosedStaysClosed

-----------------------------------------------------------------------------
(* What a record tells.                                                    *)
(*                                                                         *)
(* The state of a call says at every place what its record will rest on.    *)
(* After the first stage two of its agents were heard and every failure is  *)
(* one that the cycle continues from; a call that has come to an end has a  *)
(* state that fill_skipped makes a true record of.                         *)

First(state) == {o \in state.outputs : o.role \in StageOneRole}
FirstOutput == {[role |-> role, round |-> 0] : role \in StageOneRole}
TwoOf(S) == \E o, p \in S : o # p

Said(state, role, round) == [role |-> role, round |-> round] \in state.outputs
Done == {"COMPLETED", "DEGRADED"}

\* Before an agent is asked.
Blank(state) ==
    /\ state.outputs = {} /\ state.failures = {} /\ state.chiefs = <<>>
    /\ \A s \in Stage : state.stages[s] = None

\* Each of the first three agents has answered once or not yet.
Asked(state) ==
    /\ state.outputs \subseteq FirstOutput
    /\ \A f \in state.failures :
          /\ f.role \in StageOneRole /\ f.category \in Category
          /\ f.disposition = CategoryDisposition(f.category, f.role)
          /\ \A g \in state.failures : f.role = g.role => f = g
          /\ \A o \in state.outputs : f.role # o.role
    /\ state.chiefs = <<>>
    /\ \A s \in Stage : state.stages[s] = None

Continued(f) ==
    /\ f.category \in {"TIMEOUT", "UNAVAILABLE_AGENT"} /\ f.role \in StageOneRole \cup QuantRole
    /\ f.disposition = "CONTINUE_DEGRADED"

PastFirst(state) ==
    /\ First(state) \subseteq FirstOutput /\ TwoOf(First(state))
    /\ \A f \in state.failures : Continued(f)
    /\ state.stages[1] \in Done

AtEntry(state) ==
    /\ PastFirst(state) /\ state.chiefs = <<>>
    /\ \A s \in 2..6 : state.stages[s] = None

PastEntry(state) ==
    PastFirst(state) /\ Said(state, "ENTRY_ANALYST", 0) /\ state.stages[2] = "COMPLETED"

AtQuant(state) ==
    /\ PastEntry(state) /\ state.chiefs = <<>>
    /\ \A s \in 3..6 : state.stages[s] = None

AtDebate(state) ==
    /\ PastEntry(state) /\ state.stages[3] \in Done \cup {"SKIPPED"}
    /\ \A s \in 4..6 : state.stages[s] = None
    /\ state.round >= 1 /\ Len(state.chiefs) = state.round - 1

AtRisk(state) ==
    /\ PastEntry(state) /\ state.stages[3] \in Done \cup {"SKIPPED"}
    /\ state.stages[4] = "COMPLETED" /\ state.stages[5] = "COMPLETED" /\ state.stages[6] = None
    /\ Said(state, "SKEPTIC", Rounds) /\ Said(state, "CHIEF_TRADER", Rounds)
    /\ Len(state.chiefs) = Rounds /\ state.chiefs[Rounds] = state.chief

\* What RecordIsTrue asks, of a state that may have stages yet to be skipped.
TellsTrue(state) ==
    /\ First(state) \subseteq FirstOutput
    /\ state.stages[1] \in Done => TwoOf(First(state))
    /\ state.stages[2] \in Done => \E o \in state.outputs : o.role = "ENTRY_ANALYST"
    /\ state.stages[4] \in Done => \E o \in state.outputs : o.role = "SKEPTIC"
    /\ state.stages[5] \in Done => \E o \in state.outputs : o.role = "CHIEF_TRADER"
    /\ state.stages[6] \in Done => state.risk # None
    /\ \A s, t \in Stage : s < t /\ state.stages[s] \in {"HOLD", "ABORTED"} =>
          state.stages[t] \in {None, "SKIPPED"}
    /\ state.disposition \in {"WOULD_BUY", "WOULD_SELL"} =>
          /\ TwoOf(First(state)) /\ Said(state, "ENTRY_ANALYST", 0)
          /\ Said(state, "SKEPTIC", Rounds) /\ Said(state, "CHIEF_TRADER", Rounds)
          /\ Len(state.chiefs) = Rounds /\ state.chiefs[Rounds] = state.chief
          /\ state.disposition = IF state.chief = "BUY" THEN "WOULD_BUY" ELSE "WOULD_SELL"
          /\ state.risk = "APPROVED"
          /\ \A f \in state.failures : f.category \in {"TIMEOUT", "UNAVAILABLE_AGENT"}

\* What FailuresDecide asks, of n outputs of the first stage.
Decides(state, n) ==
    /\ \A f \in state.failures : f.disposition = Resolve(f.category, f.role, n)
    /\ state.disposition = "ABORTED" <=> \E f \in state.failures : f.disposition = "ABORT_CYCLE"
    /\ state.disposition = "POLICY_HOLD" <=>
          /\ \E f \in state.failures : f.disposition = "HOLD"
          /\ \A f \in state.failures : f.disposition # "ABORT_CYCLE"

AtFinish(state) == TellsTrue(state) /\ Decides(state, Cardinality(First(state)))

Tells(state) ==
    /\ state.pc \in {"start", "inputs"} => Blank(state)
    /\ state.pc = "stage1" => Asked(state)
    /\ state.pc = "entry" => AtEntry(state)
    /\ state.pc \in {"research", "developer"} => AtQuant(state)
    /\ state.pc \in {"skeptic", "chief"} => AtDebate(state)
    /\ state.pc = "chief" => Said(state, "SKEPTIC", state.round)
    /\ state.pc = "risk" => AtRisk(state)
    /\ state.pc = "finish" => AtFinish(state)

Told ==
    /\ \A r \in Runner : Tells(run[r])
    /\ \A y \in Cycle : record[y] # None => AtFinish(record[y])

-----------------------------------------------------------------------------

\* What the operators do to the parts of a state.
LEMMA HeardIs ==
    ASSUME NEW state \in State, NEW role \in Role, NEW round \in 0..3,
           NEW outcome, outcome = "ok", NEW n, n = Retain(state, role, round, outcome),
           NEW o, o = [role |-> role, round |-> round]
    PROVE  /\ n \in State /\ n.pc = state.pc /\ n.round = state.round
           /\ n.outputs = state.outputs \cup {o}
           /\ n.failures = state.failures /\ n.stages = state.stages
           /\ n.chiefs = state.chiefs /\ n.chief = state.chief
<1>1. n \in State
  BY RetainType DEF Outcome
<1>. QED
  BY <1>1 DEF Retain, State

LEMMA FailedIs ==
    ASSUME NEW state \in State, NEW role \in Role, NEW round \in 0..3, NEW outcome \in Category,
           NEW n, n = Retain(state, role, round, outcome)
    PROVE  /\ n \in State /\ n.pc = state.pc /\ n.round = state.round
           /\ n.outputs = state.outputs
           /\ n.failures = state.failures \cup {Fault(role, round, outcome)}
           /\ n.stages = state.stages /\ n.chiefs = state.chiefs /\ n.chief = state.chief
<1>1. n \in State
  BY RetainType DEF Outcome
<1>2. outcome # "ok"
  BY DEF Category
<1>. QED
  BY <1>1, <1>2 DEF Retain, State

LEMMA StagedIs ==
    ASSUME NEW state \in State, NEW s \in Stage, NEW status \in StageStatus,
           NEW n, n = SetStage(state, s, status)
    PROVE  /\ n \in State /\ n.pc = state.pc /\ n.round = state.round
           /\ n.outputs = state.outputs /\ n.failures = state.failures
           /\ n.stages[s] = status /\ \A t \in Stage \ {s} : n.stages[t] = state.stages[t]
           /\ n.chiefs = state.chiefs /\ n.chief = state.chief /\ n.risk = state.risk
<1>1. n \in State
  BY SetStageType
<1>. QED
  BY <1>1 DEF SetStage, State

LEMMA EndIs ==
    ASSUME NEW state \in State, NEW disposition \in Disposition,
           NEW n, n = End(state, disposition)
    PROVE  /\ n \in State /\ n.pc = "finish" /\ n.disposition = disposition
           /\ n.outputs = state.outputs /\ n.failures = state.failures
           /\ n.stages = state.stages
           /\ n.chiefs = state.chiefs /\ n.chief = state.chief /\ n.risk = state.risk
<1>1. n \in State
  BY EndType
<1>. QED
  BY <1>1 DEF End, State

LEMMA DebateIs ==
    ASSUME NEW state \in State, NEW n, n = Debate(state)
    PROVE  /\ n \in State /\ n.pc = "skeptic" /\ n.round = 1
           /\ n.outputs = state.outputs /\ n.failures = state.failures
           /\ n.stages = state.stages /\ n.chiefs = state.chiefs
<1>1. n \in State /\ n.pc = "skeptic" /\ n.round = 1
  BY DebateType
<1>. QED
  BY <1>1 DEF Debate, State

LEMMA GoesIs ==
    ASSUME NEW state \in State, NEW pc \in PC, NEW n, n = [state EXCEPT !.pc = pc]
    PROVE  /\ n \in State /\ n.pc = pc /\ n.round = state.round
           /\ n.outputs = state.outputs /\ n.failures = state.failures
           /\ n.stages = state.stages /\ n.chiefs = state.chiefs /\ n.chief = state.chief
BY DEF State

LEMMA FilledIs ==
    ASSUME NEW state \in State, NEW n, n = Filled(state)
    PROVE  /\ n \in State /\ n.disposition = state.disposition
           /\ n.outputs = state.outputs /\ n.failures = state.failures
           /\ \A s \in Stage : n.stages[s] = IF state.stages[s] = None THEN "SKIPPED"
                                             ELSE state.stages[s]
           /\ n.chiefs = state.chiefs /\ n.chief = state.chief /\ n.risk = state.risk
<1>. DEFINE filled == [s \in Stage |-> IF state.stages[s] = None THEN "SKIPPED"
                                        ELSE state.stages[s]]
<1>1. n \in State
  BY FilledType
<1>2. /\ n = [state EXCEPT !.pc = "returned", !.stages = filled]
      /\ \A s \in Stage : filled[s] = IF state.stages[s] = None THEN "SKIPPED"
                                       ELSE state.stages[s]
  BY DEF Filled
<1>. HIDE DEF filled
<1>. QED
  BY <1>1, <1>2 DEF State

-----------------------------------------------------------------------------
(* Two outputs of the first stage.                                         *)

LEMMA FirstFinite ==
    ASSUME NEW S, S \subseteq FirstOutput
    PROVE  IsFiniteSet(S)
<1>1. FirstOutput = {[role |-> "MARKET_CONTEXT", round |-> 0]}
                    \cup {[role |-> "TREND_ANALYST", round |-> 0]}
                    \cup {[role |-> "PRICE_ACTION_ANALYST", round |-> 0]}
  BY DEF FirstOutput, StageOneRole
<1>2. IsFiniteSet(FirstOutput)
  BY <1>1, FS_Singleton, FS_Union
<1>. QED
  BY <1>2, FS_Subset

\* A finite set has two elements or more if and only if it has two distinct ones.
LEMMA TwoElements ==
    ASSUME NEW S, IsFiniteSet(S)
    PROVE  TwoOf(S) <=> Cardinality(S) >= 2
<1>1. Cardinality(S) \in Nat
  BY FS_CardinalityType
<1>2. ASSUME NEW o \in S, NEW p \in S, o # p
      PROVE  Cardinality(S) >= 2
  <2>1. Cardinality({o}) = 1 /\ IsFiniteSet({o})
    BY FS_Singleton
  <2>2. Cardinality({o} \cup {p}) = 2
    BY <1>2, <2>1, FS_AddElement
  <2>3. {o} \cup {p} \subseteq S
    OBVIOUS
  <2>. QED
    BY <2>2, <2>3, FS_Subset
<1>3. ASSUME ~ TwoOf(S)
      PROVE  Cardinality(S) < 2
  <2>1. CASE S = {}
    BY <2>1, FS_EmptySet
  <2>2. CASE S # {}
    <3>1. PICK o \in S : TRUE
      BY <2>2
    <3>2. S = {o}
      BY <1>3, <3>1 DEF TwoOf
    <3>. QED
      BY <3>2, FS_Singleton
  <2>. QED
    BY <2>1, <2>2
<1>. QED
  BY <1>1, <1>2, <1>3 DEF TwoOf

LEMMA TwoCounted ==
    ASSUME NEW state, First(state) \subseteq FirstOutput
    PROVE  /\ Cardinality(First(state)) \in Nat
           /\ TwoOf(First(state)) <=> Cardinality(First(state)) >= 2
BY FirstFinite, TwoElements, FS_CardinalityType

\* The outputs of the first stage stay when an agent of a later one is heard.
LEMMA FirstKept ==
    ASSUME NEW state, NEW n, NEW role \in Role \ StageOneRole, NEW round,
           n.outputs = state.outputs \cup {[role |-> role, round |-> round]}
    PROVE  First(n) = First(state)
BY DEF First

-----------------------------------------------------------------------------
(* The disposition of a cycle that ends.                                   *)

\* A failure that the cycle does not continue from demands the disposition,
\* whatever it continued from before.
LEMMA OneFailureDecides ==
    ASSUME NEW n, NEW F, NEW g, NEW k \in Nat,
           n.failures = F \cup {g}, \A f \in F : Continued(f), F = {} \/ k >= 2,
           g.disposition = Resolve(g.category, g.role, k),
           g.disposition \in {"ABORT_CYCLE", "HOLD"},
           n.disposition = IF g.disposition = "ABORT_CYCLE" THEN "ABORTED" ELSE "POLICY_HOLD"
    PROVE  Decides(n, k)
<1>1. ASSUME NEW f \in F
      PROVE  f.disposition = "CONTINUE_DEGRADED" /\ f.disposition = Resolve(f.category, f.role, k)
  <2>1. Continued(f) /\ k >= 2
    BY <1>1
  <2>2. f.category \notin Fatal
    BY <2>1 DEF Continued, Fatal
  <2>. QED
    BY <2>1, <2>2 DEF Continued, Resolve
<1>2. \A f \in n.failures : f.disposition = Resolve(f.category, f.role, k)
  BY <1>1
<1>3. \A f \in n.failures : f # g => f.disposition = "CONTINUE_DEGRADED"
  BY <1>1
<1>4. g \in n.failures
  OBVIOUS
<1>5. CASE g.disposition = "ABORT_CYCLE"
  BY <1>2, <1>4, <1>5 DEF Decides
<1>6. CASE g.disposition = "HOLD"
  <2>1. \A f \in n.failures : f.disposition # "ABORT_CYCLE"
    BY <1>3, <1>6
  <2>. QED
    BY <1>2, <1>4, <1>6, <2>1 DEF Decides
<1>. QED
  BY <1>5, <1>6

LEMMA NoFailureDecides ==
    ASSUME NEW n, NEW k \in Nat, k >= 2, \A f \in n.failures : Continued(f),
           n.disposition \notin {"ABORTED", "POLICY_HOLD"}
    PROVE  Decides(n, k)
<1>1. ASSUME NEW f \in n.failures
      PROVE  f.disposition = "CONTINUE_DEGRADED" /\ f.disposition = Resolve(f.category, f.role, k)
  <2>1. Continued(f)
    BY <1>1
  <2>2. f.category \notin Fatal
    BY <2>1 DEF Continued, Fatal
  <2>. QED
    BY <2>1, <2>2 DEF Continued, Resolve
<1>. QED
  BY <1>1 DEF Decides

LEMMA FaultIs ==
    ASSUME NEW role, NEW round, NEW category, NEW g, g = Fault(role, round, category)
    PROVE  /\ g.role = role /\ g.category = category
           /\ g.disposition = CategoryDisposition(category, role)
BY DEF Fault

\* The answer of a later agent, or of none, that the cycle does not continue from.
LEMMA FaultDecides ==
    ASSUME NEW n, NEW F, NEW role, NEW round, NEW category, NEW k \in Nat,
           role \notin StageOneRole, category # "ok", ~ Continues(role, category),
           n.failures = F \cup {Fault(role, round, category)},
           \A f \in F : Continued(f), F = {} \/ k >= 2,
           n.disposition = Terminal(role, category)
    PROVE  Decides(n, k)
<1>1. PICK g : g = Fault(role, round, category)
  OBVIOUS
<1>2. g.role = role /\ g.category = category /\ g.disposition = CategoryDisposition(category, role)
  BY <1>1, FaultIs
<1>3. g.disposition \in {"ABORT_CYCLE", "HOLD"}
  BY <1>2 DEF Continues, CategoryDisposition
<1>4. g.disposition = Resolve(g.category, g.role, k)
  BY <1>2 DEF CategoryDisposition, Resolve
<1>5. n.disposition = IF g.disposition = "ABORT_CYCLE" THEN "ABORTED" ELSE "POLICY_HOLD"
  BY <1>2 DEF Terminal
<1>6. n.failures = F \cup {g}
  BY <1>1
<1>. QED
  BY <1>3, <1>4, <1>5, <1>6, OneFailureDecides

-----------------------------------------------------------------------------
(* The ends.                                                               *)

\* Stage s is the next one, and none before it ended the cycle.
Open(state, s) ==
    /\ PastFirst(state)
    /\ \A t \in 2..(s - 1) : state.stages[t] \notin {"HOLD", "ABORTED"}
    /\ s > 2 => Said(state, "ENTRY_ANALYST", 0)
    /\ \A t \in s..6 : state.stages[t] = None

\* n comes of state by a failure that ends the cycle in stage s.
FailsAt(n, state, s, role, round, category) ==
    /\ n.outputs = state.outputs
    /\ n.failures = state.failures \cup {Fault(role, round, category)}
    /\ n.disposition = Terminal(role, category)
    /\ \A t \in Stage \ {s} : n.stages[t] = state.stages[t]
    /\ n.stages[s] \in Done => s = 4 /\ \E o \in state.outputs : o.role = "SKEPTIC"

LEMMA FailTells ==
    ASSUME NEW n \in State, NEW state \in State, NEW s \in 2..4,
           NEW role \in Role \ StageOneRole, NEW round, NEW category \in Category,
           ~ Continues(role, category), Open(state, s),
           FailsAt(n, state, s, role, round, category)
    PROVE  AtFinish(n)
<1>1. First(n) = First(state)
  BY DEF First, FailsAt
<1>2. /\ First(n) \subseteq FirstOutput /\ TwoOf(First(n))
      /\ \A f \in state.failures : Continued(f)
      /\ state.stages[1] \in Done
  BY <1>1 DEF Open, PastFirst
<1>3. Cardinality(First(n)) \in Nat /\ Cardinality(First(n)) >= 2
  BY <1>2, TwoCounted
<1>4. Decides(n, Cardinality(First(n)))
  <2>1. category # "ok"
    BY DEF Category
  <2>2. /\ n.failures = state.failures \cup {Fault(role, round, category)}
        /\ n.disposition = Terminal(role, category)
    BY DEF FailsAt
  <2>3. PICK k : k = Cardinality(First(n))
    OBVIOUS
  <2>. QED
    BY <1>2, <1>3, <2>1, <2>2, <2>3, FaultDecides
<1>5. n.disposition \notin {"WOULD_BUY", "WOULD_SELL"}
  BY DEF FailsAt, Terminal
<1>6. None \notin Done /\ {"HOLD", "ABORTED"} \cap Done = {}
  BY NoneAssumption DEF Done, StageStatus
<1>7. \A t \in Stage : t > s => n.stages[t] = None
  BY DEF Stage, FailsAt, Open
<1>8. \A t \in Stage : t < s => n.stages[t] \notin {"HOLD", "ABORTED"}
  BY <1>2, <1>6 DEF Stage, FailsAt, Open
<1>9. /\ n.stages[2] \in Done => \E o \in n.outputs : o.role = "ENTRY_ANALYST"
      /\ n.stages[4] \in Done => \E o \in n.outputs : o.role = "SKEPTIC"
      /\ n.stages[5] \notin Done /\ n.stages[6] \notin Done
  <2>1. n.stages[2] \in Done => \E o \in n.outputs : o.role = "ENTRY_ANALYST"
    <3>1. CASE s = 2
      BY <3>1 DEF FailsAt
    <3>2. CASE s > 2
      BY <3>2 DEF FailsAt, Open, Said
    <3>. QED
      BY <3>1, <3>2
  <2>2. n.stages[4] \in Done => \E o \in n.outputs : o.role = "SKEPTIC"
    BY <1>6, <1>7 DEF FailsAt, Stage
  <2>3. n.stages[5] = None /\ n.stages[6] = None
    BY <1>7 DEF Stage
  <2>. QED
    BY <2>1, <2>2, <2>3, <1>6
<1>10. \A t, u \in Stage : t < u /\ n.stages[t] \in {"HOLD", "ABORTED"} =>
          n.stages[u] \in {None, "SKIPPED"}
  BY <1>7, <1>8 DEF Stage
<1>11. TellsTrue(n)
  BY <1>2, <1>5, <1>9, <1>10 DEF TellsTrue
<1>. QED
  BY <1>4, <1>11 DEF AtFinish

\* A state that goes to the record tells what it has to.
LEMMA FinishTells ==
    ASSUME NEW n, n.pc = "finish", AtFinish(n)
    PROVE  Tells(n)
BY DEF Tells

\* A failure of the entry analyst or of a Quant role.
LEMMA FailAtTells ==
    ASSUME NEW state \in State, NEW s \in 2..3, NEW role \in Role \ StageOneRole,
           NEW category \in Category, ~ Continues(role, category), Open(state, s),
           NEW n, n = FailAt(Retain(state, role, 0, category), s, role, category)
    PROVE  Tells(n)
<1>1. PICK m : m = Retain(state, role, 0, category)
  OBVIOUS
<1>2. /\ m \in State /\ m.outputs = state.outputs /\ m.stages = state.stages
      /\ m.failures = state.failures \cup {Fault(role, 0, category)}
  BY <1>1, FailedIs DEF Role
<1>3. PICK status : status = StageOf(Terminal(role, category))
  OBVIOUS
<1>4. status \in StageStatus /\ status \notin Done /\ s \in Stage
  BY <1>3 DEF StageOf, StageStatus, Done, Stage
<1>5. PICK staged : staged = SetStage(m, s, status)
  OBVIOUS
<1>6. /\ staged \in State /\ staged.outputs = state.outputs /\ staged.failures = m.failures
      /\ staged.stages[s] = status /\ \A t \in Stage \ {s} : staged.stages[t] = state.stages[t]
  BY <1>2, <1>4, <1>5, StagedIs
<1>7. n = End(staged, Terminal(role, category)) /\ Terminal(role, category) \in Disposition
  BY <1>1, <1>3, <1>5, TerminalType DEF FailAt
<1>8. /\ n \in State /\ n.pc = "finish" /\ n.disposition = Terminal(role, category)
      /\ n.outputs = staged.outputs /\ n.failures = staged.failures /\ n.stages = staged.stages
  BY <1>6, <1>7, EndIs
<1>9. FailsAt(n, state, s, role, 0, category)
  BY <1>2, <1>4, <1>6, <1>8 DEF FailsAt
<1>. QED
  BY <1>8, <1>9, FailTells, FinishTells

-----------------------------------------------------------------------------
(* The first stage.                                                        *)

LEMMA FirstIsAll ==
    ASSUME NEW state, state.outputs \subseteq FirstOutput
    PROVE  First(state) = state.outputs
BY DEF First, FirstOutput

LEMMA AnswerTells ==
    ASSUME NEW state \in State, state.pc = "stage1", Asked(state),
           NEW role \in StageOneRole \ AnsweredIn(state), NEW outcome \in Outcome,
           NEW n, n = Retain(state, role, 0, outcome)
    PROVE  Tells(n)
<1>1. role \in Role /\ \A o \in state.outputs : o.role # role
  BY DEF Role, AnsweredIn
<1>2. \A f \in state.failures : f.role # role
  BY DEF AnsweredIn
<1>3. CASE outcome = "ok"
  <2>1. PICK p : p = [role |-> role, round |-> 0]
    OBVIOUS
  <2>2. p \in FirstOutput /\ p.role = role
    BY <2>1 DEF FirstOutput
  <2>3. /\ n.pc = "stage1" /\ n.outputs = state.outputs \cup {p} /\ n.failures = state.failures
        /\ n.stages = state.stages /\ n.chiefs = state.chiefs
    BY <1>1, <1>3, <2>1, HeardIs
  <2>4. Asked(n)
    BY <1>2, <2>2, <2>3 DEF Asked
  <2>. QED
    BY <2>3, <2>4 DEF Tells
<1>4. CASE outcome \in Category
  <2>1. PICK g : g = Fault(role, 0, outcome)
    OBVIOUS
  <2>2. /\ g.role = role /\ g.category = outcome
        /\ g.disposition = CategoryDisposition(outcome, role)
    BY <2>1, FaultIs
  <2>3. /\ n.pc = "stage1" /\ n.outputs = state.outputs /\ n.failures = state.failures \cup {g}
        /\ n.stages = state.stages /\ n.chiefs = state.chiefs
    BY <1>1, <1>4, <2>1, FailedIs
  <2>4. ASSUME NEW f \in n.failures
        PROVE  /\ f.role \in StageOneRole /\ f.category \in Category
               /\ f.disposition = CategoryDisposition(f.category, f.role)
               /\ \A h \in n.failures : f.role = h.role => f = h
               /\ \A o \in n.outputs : f.role # o.role
    BY <1>1, <1>2, <1>4, <2>2, <2>3 DEF Asked
  <2>5. Asked(n)
    BY <2>3, <2>4 DEF Asked
  <2>. QED
    BY <2>3, <2>5 DEF Tells
<1>. QED
  BY <1>3, <1>4 DEF Outcome

\* Two agents heard leave one to fail.
LEMMA OneFailureLeft ==
    ASSUME NEW state, Asked(state), TwoOf(state.outputs),
           NEW f \in state.failures, NEW g \in state.failures
    PROVE  f = g
<1>1. PICK o \in state.outputs, p \in state.outputs : o # p
  BY DEF TwoOf
<1>2. o \in FirstOutput /\ p \in FirstOutput
  BY DEF Asked
<1>3. o.role \in StageOneRole /\ p.role \in StageOneRole /\ o.role # p.role
  BY <1>1, <1>2 DEF FirstOutput
<1>4. /\ f.role \in StageOneRole /\ f.role # o.role /\ f.role # p.role
      /\ g.role \in StageOneRole /\ g.role # o.role /\ g.role # p.role
  BY DEF Asked
<1>5. f.role = g.role
  BY <1>3, <1>4 DEF StageOneRole
<1>. QED
  BY <1>5 DEF Asked

\* The way the first stage ends the cycle agrees with AgentFailurePolicy.
LEMMA FirstStageDecides ==
    ASSUME NEW state, Asked(state), AnsweredIn(state) = StageOneRole,
           StageOneTerminal(state) # None,
           NEW n, n.failures = state.failures, n.disposition = StageOneTerminal(state)
    PROVE  Decides(n, Cardinality(state.outputs))
<1>1. PICK k : k = Cardinality(state.outputs)
  OBVIOUS
<1>2. /\ k \in Nat
      /\ TwoOf(state.outputs) <=> k >= 2
  BY <1>1, FirstFinite, TwoElements, FS_CardinalityType DEF Asked
<1>3. ASSUME NEW f \in state.failures
      PROVE  /\ f.role \in StageOneRole
             /\ f.disposition = IF f.category \in Fatal THEN "ABORT_CYCLE" ELSE "HOLD"
  <2>1. f.role \in StageOneRole /\ f.disposition = CategoryDisposition(f.category, f.role)
    BY DEF Asked
  <2>2. f.role \notin QuantRole
    BY <2>1 DEF StageOneRole, QuantRole
  <2>. QED
    BY <2>1, <2>2 DEF CategoryDisposition
<1>4. /\ (\E f \in state.failures : f.disposition = "ABORT_CYCLE") => n.disposition = "ABORTED"
      /\ ~ (\E f \in state.failures : f.disposition = "ABORT_CYCLE") =>
            /\ n.disposition = "POLICY_HOLD"
            /\ (\E f \in state.failures : f.category = "INVALID_OUTPUT") \/ k < 2
  BY <1>1 DEF StageOneTerminal
<1>5. ASSUME NEW f \in state.failures
      PROVE  f.disposition = Resolve(f.category, f.role, k)
  <2>1. CASE k < 2
    BY <1>2, <1>3, <2>1 DEF Resolve, StageOneRole, QuantRole
  <2>2. CASE k >= 2
    <3>1. \A g \in state.failures : f = g
      BY <1>2, <2>2, OneFailureLeft
    <3>2. f.category \in Fatal \/ f.category = "INVALID_OUTPUT"
      BY <1>2, <1>3, <1>4, <2>2, <3>1
    <3>. QED
      BY <1>3, <3>2 DEF Resolve, Fatal
  <2>. QED
    BY <1>2, <2>1, <2>2
<1>6. CASE \E f \in state.failures : f.disposition = "ABORT_CYCLE"
  BY <1>1, <1>4, <1>5, <1>6 DEF Decides
<1>7. CASE ~ \E f \in state.failures : f.disposition = "ABORT_CYCLE"
  <2>1. \E f \in state.failures : TRUE
    <3>1. CASE \E f \in state.failures : f.category = "INVALID_OUTPUT"
      BY <3>1
    <3>2. CASE k < 2
      <4>1. SUFFICES ASSUME state.failures = {} PROVE FALSE
        OBVIOUS
      <4>2. \A role \in StageOneRole : \E o \in state.outputs : o.role = role
        BY <4>1 DEF AnsweredIn
      <4>3. PICK o \in state.outputs, p \in state.outputs :
               o.role = "MARKET_CONTEXT" /\ p.role = "TREND_ANALYST"
        BY <4>2 DEF StageOneRole
      <4>4. TwoOf(state.outputs)
        BY <4>3 DEF TwoOf
      <4>. QED
        BY <1>2, <3>2, <4>4
    <3>. QED
      BY <1>4, <1>7, <3>1, <3>2
  <2>2. \E f \in state.failures : f.disposition = "HOLD"
    BY <1>3, <1>7, <2>1
  <2>. QED
    BY <1>1, <1>4, <1>5, <1>7, <2>2 DEF Decides
<1>. QED
  BY <1>6, <1>7

LEMMA StageOneEnds ==
    ASSUME NEW state \in State, Asked(state), AnsweredIn(state) = StageOneRole,
           NEW terminal, terminal = StageOneTerminal(state), terminal # None,
           NEW n, n = End(SetStage(state, 1, StageOf(terminal)), terminal)
    PROVE  Tells(n)
<1>1. terminal \in {"ABORTED", "POLICY_HOLD"}
  BY DEF StageOneTerminal
<1>2. PICK status : status = StageOf(terminal)
  OBVIOUS
<1>3. status \in StageStatus /\ status \notin Done /\ 1 \in Stage /\ terminal \in Disposition
  BY <1>1, <1>2 DEF StageOf, StageStatus, Done, Stage, Disposition
<1>4. PICK staged : staged = SetStage(state, 1, status)
  OBVIOUS
<1>5. /\ staged \in State /\ staged.outputs = state.outputs /\ staged.failures = state.failures
      /\ staged.stages[1] = status /\ \A t \in Stage \ {1} : staged.stages[t] = state.stages[t]
  BY <1>3, <1>4, StagedIs
<1>6. /\ n \in State /\ n.pc = "finish" /\ n.disposition = terminal
      /\ n.outputs = state.outputs /\ n.failures = state.failures /\ n.stages = staged.stages
  BY <1>2, <1>3, <1>4, <1>5, EndIs
<1>7. n.outputs \subseteq FirstOutput
  BY <1>6 DEF Asked
<1>8. First(n) = state.outputs
  BY <1>6, <1>7, FirstIsAll
<1>9. Decides(n, Cardinality(First(n)))
  BY <1>6, <1>8, FirstStageDecides
<1>10. \A t \in Stage : t > 1 => n.stages[t] = None
  BY <1>5, <1>6 DEF Asked, Stage
<1>11. None \notin Done
  BY NoneAssumption DEF Done, StageStatus
<1>12. TellsTrue(n)
  <2>1. /\ n.stages[1] \notin Done /\ n.stages[2] \notin Done /\ n.stages[4] \notin Done
        /\ n.stages[5] \notin Done /\ n.stages[6] \notin Done
    BY <1>3, <1>5, <1>6, <1>10, <1>11 DEF Stage
  <2>2. \A s, t \in Stage : s < t => n.stages[t] \in {None, "SKIPPED"}
    BY <1>10 DEF Stage
  <2>3. n.disposition \notin {"WOULD_BUY", "WOULD_SELL"}
    BY <1>1, <1>6
  <2>. QED
    BY <1>7, <1>6, <1>8, <2>1, <2>2, <2>3 DEF TellsTrue
<1>. QED
  BY <1>6, <1>9, <1>12, FinishTells DEF AtFinish

LEMMA EntersContext ==
    ASSUME NEW state, Asked(state), TwoOf(state.outputs),
           NEW n, n.pc = "entry", n.outputs = state.outputs, n.chiefs = state.chiefs,
           \A f \in n.failures : Continued(f),
           n.stages[1] \in Done, \A t \in Stage \ {1} : n.stages[t] = state.stages[t]
    PROVE  Tells(n)
<1>1. n.outputs \subseteq FirstOutput
  BY DEF Asked
<1>2. First(n) = state.outputs /\ First(n) \subseteq FirstOutput
  BY <1>1, FirstIsAll
<1>3. PastFirst(n)
  BY <1>2 DEF PastFirst
<1>4. \A s \in 2..6 : n.stages[s] = None
  BY DEF Asked, Stage
<1>5. AtEntry(n)
  BY <1>3, <1>4 DEF AtEntry, Asked
<1>. QED
  BY <1>5 DEF Tells

Degraded(state) == {[f EXCEPT !.disposition = "CONTINUE_DEGRADED"] : f \in state.failures}
Entering(state, status) ==
    [SetStage(state, 1, status) EXCEPT !.failures = Degraded(state), !.pc = "entry"]

LEMMA StageOneGoes ==
    ASSUME NEW state \in State, Asked(state), StageOneTerminal(state) = None,
           NEW status \in {"COMPLETED", "DEGRADED"},
           NEW n, n = Entering(state, status)
    PROVE  Tells(n)
<1>1. Cardinality(state.outputs) \in Nat
  BY FirstFinite, FS_CardinalityType DEF Asked
<1>2. /\ \A f \in state.failures : f.disposition # "ABORT_CYCLE" /\ f.category # "INVALID_OUTPUT"
      /\ Cardinality(state.outputs) >= 2
  <2>1. "ABORTED" # None /\ "POLICY_HOLD" # None
    BY NoneAssumption DEF Disposition
  <2>. QED
    BY <1>1, <2>1 DEF StageOneTerminal
<1>3. TwoOf(state.outputs)
  BY <1>2, FirstFinite, TwoElements DEF Asked
<1>4. ASSUME NEW f \in state.failures
      PROVE  f.category \in {"TIMEOUT", "UNAVAILABLE_AGENT"} /\ f.role \in StageOneRole
  <2>1. /\ f.category \in Category /\ f.role \in StageOneRole
        /\ f.disposition = CategoryDisposition(f.category, f.role)
    BY DEF Asked
  <2>2. f.category \notin Fatal
    BY <1>2, <2>1 DEF CategoryDisposition
  <2>. QED
    BY <1>2, <2>1, <2>2 DEF Category, Fatal
<1>5. ASSUME NEW g \in Degraded(state)
      PROVE  Continued(g)
  <2>1. PICK f \in state.failures : g = [f EXCEPT !.disposition = "CONTINUE_DEGRADED"]
    BY DEF Degraded
  <2>2. f \in Failure
    BY DEF State
  <2>3. g.category = f.category /\ g.role = f.role /\ g.disposition = "CONTINUE_DEGRADED"
    BY <2>1, <2>2 DEF Failure
  <2>. QED
    BY <1>4, <2>3 DEF Continued
<1>6. PICK staged : staged = SetStage(state, 1, status)
  OBVIOUS
<1>7. /\ staged \in State /\ staged.outputs = state.outputs /\ staged.chiefs = state.chiefs
      /\ staged.stages[1] = status /\ \A t \in Stage \ {1} : staged.stages[t] = state.stages[t]
  BY <1>6, StagedIs DEF Stage, StageStatus
<1>8. /\ n.pc = "entry" /\ n.outputs = state.outputs /\ n.chiefs = state.chiefs
      /\ n.failures = Degraded(state) /\ n.stages = staged.stages
  <2>1. n = [staged EXCEPT !.failures = Degraded(state), !.pc = "entry"]
    BY <1>6 DEF Entering
  <2>. QED
    BY <1>7, <2>1 DEF State
<1>9. /\ \A f \in n.failures : Continued(f)
      /\ n.stages[1] \in Done /\ \A t \in Stage \ {1} : n.stages[t] = state.stages[t]
  BY <1>5, <1>7, <1>8 DEF Done
<1>. QED
  BY <1>3, <1>8, <1>9, EntersContext

-----------------------------------------------------------------------------
(* The stages after the first.                                             *)

Later == Role \ StageOneRole

LEMMA LaterRole ==
    /\ {"ENTRY_ANALYST", "SKEPTIC", "CHIEF_TRADER"} \subseteq Later /\ QuantRole \subseteq Later
    /\ Later \subseteq Role
BY DEF Later, Role, StageOneRole, QuantRole

\* What was known after the first stage stays known.
LEMMA PastFirstStays ==
    ASSUME NEW state, PastFirst(state), NEW n, First(n) = First(state),
           \A f \in n.failures : f \in state.failures \/ Continued(f),
           n.stages[1] = state.stages[1]
    PROVE  PastFirst(n)
BY DEF PastFirst

LEMMA PastEntryStays ==
    ASSUME NEW state, PastEntry(state), NEW n, PastFirst(n),
           state.outputs \subseteq n.outputs, n.stages[2] = state.stages[2]
    PROVE  PastEntry(n)
BY DEF PastEntry, Said

\* The answer of a later agent that the cycle continues from.
LEMMA AnsweredStays ==
    ASSUME NEW state \in State, NEW role \in Later, NEW round \in 0..3, NEW outcome \in Outcome,
           Continues(role, outcome), PastFirst(state),
           NEW n, n = Retain(state, role, round, outcome)
    PROVE  /\ n \in State /\ n.pc = state.pc /\ n.round = state.round /\ n.stages = state.stages
           /\ n.chiefs = state.chiefs /\ n.chief = state.chief
           /\ PastFirst(n) /\ state.outputs \subseteq n.outputs
           /\ outcome = "ok" => Said(n, role, round)
<1>1. role \in Role /\ role \notin StageOneRole
  BY DEF Later
<1>2. CASE outcome = "ok"
  <2>1. PICK o : o = [role |-> role, round |-> round]
    OBVIOUS
  <2>2. /\ n \in State /\ n.pc = state.pc /\ n.round = state.round
        /\ n.outputs = state.outputs \cup {o} /\ n.failures = state.failures
        /\ n.stages = state.stages /\ n.chiefs = state.chiefs /\ n.chief = state.chief
    BY <1>1, <1>2, <2>1, HeardIs
  <2>3. First(n) = First(state)
    BY <1>1, <2>1, <2>2 DEF First
  <2>4. PastFirst(n)
    BY <2>2, <2>3, PastFirstStays
  <2>5. Said(n, role, round)
    BY <2>1, <2>2 DEF Said
  <2>. QED
    BY <2>2, <2>4, <2>5
<1>3. CASE outcome \in Category
  <2>1. PICK g : g = Fault(role, round, outcome)
    OBVIOUS
  <2>2. /\ g.role = role /\ g.category = outcome
        /\ g.disposition = CategoryDisposition(outcome, role)
    BY <2>1, FaultIs
  <2>3. outcome # "ok"
    BY <1>3 DEF Category
  <2>4. Continued(g)
    BY <2>2, <2>3 DEF Continues, CategoryDisposition, Continued
  <2>5. /\ n \in State /\ n.pc = state.pc /\ n.round = state.round
        /\ n.outputs = state.outputs /\ n.failures = state.failures \cup {g}
        /\ n.stages = state.stages /\ n.chiefs = state.chiefs /\ n.chief = state.chief
    BY <1>1, <1>3, <2>1, FailedIs
  <2>6. First(n) = First(state)
    BY <2>5 DEF First
  <2>7. PastFirst(n)
    BY <2>4, <2>5, <2>6, PastFirstStays
  <2>. QED
    BY <2>3, <2>5, <2>7
<1>. QED
  BY <1>2, <1>3 DEF Outcome

\* An entry analyst, a Skeptic or a Chief who fails ends the cycle.
LEMMA MustAnswer ==
    ASSUME NEW role \in {"ENTRY_ANALYST", "SKEPTIC", "CHIEF_TRADER"}, NEW category \in Category
    PROVE  ~ Continues(role, category)
BY DEF Continues, CategoryDisposition, QuantRole, Category

\* The debate begins when the third stage has its status.
LEMMA BeginsDebate ==
    ASSUME NEW state, PastEntry(state), state.chiefs = <<>>, \A t \in 4..6 : state.stages[t] = None,
           NEW m \in State, m.outputs = state.outputs, m.failures = state.failures,
           m.stages[3] \in Done \cup {"SKIPPED"}, m.chiefs = state.chiefs,
           \A t \in Stage \ {3} : m.stages[t] = state.stages[t],
           NEW n, n = Debate(m)
    PROVE  Tells(n)
<1>1. /\ n.pc = "skeptic" /\ n.round = 1 /\ n.outputs = m.outputs /\ n.failures = m.failures
      /\ n.stages = m.stages /\ n.chiefs = m.chiefs
  BY DebateIs
<1>2. /\ n.stages[1] = state.stages[1] /\ n.stages[2] = state.stages[2]
      /\ \A t \in 4..6 : n.stages[t] = None
  BY <1>1 DEF Stage
<1>3. First(n) = First(state)
  BY <1>1 DEF First
<1>4. PastFirst(n)
  BY <1>1, <1>2, <1>3, PastFirstStays DEF PastEntry
<1>5. PastEntry(n)
  BY <1>1, <1>2, <1>4, PastEntryStays
<1>6. Len(n.chiefs) = n.round - 1
  BY <1>1
<1>7. AtDebate(n)
  BY <1>1, <1>2, <1>5, <1>6 DEF AtDebate
<1>. QED
  BY <1>1, <1>7 DEF Tells

\* The entry analyst is heard.
LEMMA EntryHeard ==
    ASSUME NEW state \in State, AtEntry(state), NEW role, role = "ENTRY_ANALYST",
           NEW outcome, outcome = "ok", NEW m, m = Retain(state, role, 0, outcome),
           NEW s, s = 2, NEW status, status = "COMPLETED",
           NEW done, done = SetStage(m, s, status)
    PROVE  /\ done \in State /\ PastEntry(done) /\ done.chiefs = <<>>
           /\ \A t \in 3..6 : done.stages[t] = None
<1>1. role \in Later /\ outcome \in Outcome /\ Continues(role, outcome)
  BY LaterRole DEF Outcome, Continues
<1>2. /\ m \in State /\ m.stages = state.stages /\ m.chiefs = state.chiefs
      /\ PastFirst(m) /\ Said(m, role, 0)
  BY <1>1, AnsweredStays DEF AtEntry
<1>3. s \in Stage /\ status \in StageStatus
  BY DEF Stage, StageStatus
<1>4. /\ done \in State /\ done.outputs = m.outputs /\ done.failures = m.failures
      /\ done.stages[s] = status /\ \A t \in Stage \ {s} : done.stages[t] = m.stages[t]
      /\ done.chiefs = m.chiefs
  BY <1>2, <1>3, StagedIs
<1>5. First(done) = First(m) /\ done.stages[1] = m.stages[1]
  BY <1>4 DEF First, Stage
<1>6. PastFirst(done)
  BY <1>2, <1>4, <1>5, PastFirstStays
<1>7. PastEntry(done)
  BY <1>2, <1>4, <1>6 DEF PastEntry, Said
<1>8. \A t \in 3..6 : done.stages[t] = None
  BY <1>2, <1>4 DEF AtEntry, Stage
<1>. QED
  BY <1>2, <1>4, <1>7, <1>8 DEF AtEntry

\* The cycle goes on to the Quant stage, or past it.
LEMMA GoesToQuant ==
    ASSUME NEW state \in State, PastEntry(state), state.chiefs = <<>>,
           \A t \in 3..6 : state.stages[t] = None,
           NEW pc \in {"research", "developer"}, NEW n, n = [state EXCEPT !.pc = pc]
    PROVE  Tells(n)
<1>1. pc \in PC
  BY DEF PC
<1>2. /\ n.pc = pc /\ n.outputs = state.outputs /\ n.failures = state.failures
      /\ n.stages = state.stages /\ n.chiefs = state.chiefs
  BY <1>1, GoesIs
<1>3. First(n) = First(state)
  BY <1>2 DEF First
<1>4. PastFirst(n)
  BY <1>2, <1>3, PastFirstStays DEF PastEntry
<1>5. PastEntry(n)
  BY <1>2, <1>4, PastEntryStays
<1>6. AtQuant(n)
  BY <1>2, <1>5 DEF AtQuant
<1>. QED
  BY <1>2, <1>6 DEF Tells

LEMMA PastQuant ==
    ASSUME NEW state \in State, PastEntry(state), state.chiefs = <<>>,
           \A t \in 3..6 : state.stages[t] = None,
           NEW status \in Done \cup {"SKIPPED"}, NEW s, s = 3,
           NEW n, n = Debate(SetStage(state, s, status))
    PROVE  Tells(n)
<1>1. PICK m : m = SetStage(state, s, status)
  OBVIOUS
<1>2. s \in Stage /\ status \in StageStatus
  BY DEF Stage, StageStatus, Done
<1>3. /\ m \in State /\ m.outputs = state.outputs /\ m.failures = state.failures
      /\ m.stages[s] = status /\ m.chiefs = state.chiefs
      /\ \A t \in Stage \ {s} : m.stages[t] = state.stages[t]
  BY <1>1, <1>2, StagedIs
<1>4. /\ m.stages[3] \in Done \cup {"SKIPPED"}
      /\ \A t \in Stage \ {3} : m.stages[t] = state.stages[t]
      /\ \A t \in 4..6 : state.stages[t] = None
  BY <1>3
<1>5. n = Debate(m)
  BY <1>1
<1>. QED
  BY <1>3, <1>4, <1>5, BeginsDebate

LEMMA EntryTells ==
    ASSUME NEW state \in State, AtEntry(state), NEW outcome \in Outcome, NEW m, NEW n,
           m = Retain(state, "ENTRY_ANALYST", 0, outcome),
           \/ outcome # "ok" /\ n = FailAt(m, 2, "ENTRY_ANALYST", outcome)
           \/ outcome = "ok" /\ n = Debate(SetStage(SetStage(m, 2, "COMPLETED"), 3, "SKIPPED"))
           \/ outcome = "ok" /\ n = [SetStage(m, 2, "COMPLETED") EXCEPT !.pc = "research"]
    PROVE  Tells(n)
<1>1. PICK role, s, t, status, skipped, research :
          /\ role = "ENTRY_ANALYST" /\ s = 2 /\ t = 3 /\ status = "COMPLETED"
          /\ skipped = "SKIPPED" /\ research = "research"
  OBVIOUS
<1>2. role \in Later
  BY <1>1, LaterRole
<1>3. CASE outcome # "ok"
  <2>1. outcome \in Category
    BY <1>3 DEF Outcome
  <2>2. ~ Continues(role, outcome)
    BY <1>1, <2>1, MustAnswer
  <2>3. Open(state, s) /\ s \in 2..3
    BY <1>1 DEF Open, AtEntry
  <2>4. n = FailAt(Retain(state, role, 0, outcome), s, role, outcome)
    BY <1>1, <1>3
  <2>. QED
    BY <1>2, <2>1, <2>2, <2>3, <2>4, FailAtTells DEF Later
<1>4. CASE outcome = "ok"
  <2>1. PICK done : done = SetStage(m, s, status)
    OBVIOUS
  <2>2. m = Retain(state, role, 0, outcome)
    BY <1>1
  <2>3. /\ done \in State /\ PastEntry(done) /\ done.chiefs = <<>>
        /\ \A u \in 3..6 : done.stages[u] = None
    BY <1>1, <1>4, <2>1, <2>2, EntryHeard
  <2>4. n = Debate(SetStage(done, t, skipped)) \/ n = [done EXCEPT !.pc = research]
    BY <1>1, <1>4, <2>1
  <2>5. CASE n = Debate(SetStage(done, t, skipped))
    BY <1>1, <2>3, <2>5, PastQuant
  <2>6. CASE n = [done EXCEPT !.pc = research]
    BY <1>1, <2>3, <2>6, GoesToQuant
  <2>. QED
    BY <2>4, <2>5, <2>6
<1>. QED
  BY <1>3, <1>4

\* A Quant role that answers ends the cycle, begins the debate or hands on.
LEMMA QuantTells ==
    ASSUME NEW state \in State, AtQuant(state), NEW role \in QuantRole, NEW outcome \in Outcome,
           NEW m, m = Retain(state, role, 0, outcome), NEW s, s = 3, NEW developer,
           developer = "developer", NEW n,
           \/ ~ Continues(role, outcome) /\ n = FailAt(m, s, role, outcome)
           \/ Continues(role, outcome) /\ n = [m EXCEPT !.pc = developer]
           \/ Continues(role, outcome) /\ n = EndQuant(m)
    PROVE  Tells(n)
<1>1. role \in Later /\ PastFirst(state)
  BY LaterRole DEF AtQuant, PastEntry
<1>2. CASE ~ Continues(role, outcome) /\ n = FailAt(m, s, role, outcome)
  <2>1. outcome \in Category
    BY <1>2 DEF Outcome, Continues
  <2>2. s \in 2..3
    OBVIOUS
  <2>3. Open(state, s)
    <3>1. state.stages[2] = "COMPLETED"
      BY DEF AtQuant, PastEntry
    <3>2. \A t \in 2..(s - 1) : state.stages[t] \notin {"HOLD", "ABORTED"}
      BY <3>1
    <3>. QED
      BY <1>1, <3>2 DEF Open, AtQuant, PastEntry
  <2>. QED
    BY <1>1, <1>2, <2>1, <2>2, <2>3, FailAtTells DEF Later
<1>3. CASE Continues(role, outcome)
  <2>1. /\ m \in State /\ m.stages = state.stages /\ m.chiefs = state.chiefs
        /\ PastFirst(m) /\ state.outputs \subseteq m.outputs
    BY <1>1, <1>3, AnsweredStays
  <2>2. PastEntry(m)
    BY <2>1, PastEntryStays DEF AtQuant
  <2>3. m.chiefs = <<>> /\ \A t \in 3..6 : m.stages[t] = None
    BY <2>1 DEF AtQuant
  <2>4. CASE n = [m EXCEPT !.pc = developer]
    BY <2>1, <2>2, <2>3, <2>4, GoesToQuant
  <2>5. CASE n = EndQuant(m)
    <3>1. PICK status : status = IF \E f \in m.failures : f.role \in QuantRole
                                 THEN "DEGRADED" ELSE "COMPLETED"
      OBVIOUS
    <3>2. status \in Done \cup {"SKIPPED"}
      BY <3>1 DEF Done
    <3>3. n = Debate(SetStage(m, s, status))
      BY <2>5, <3>1 DEF EndQuant
    <3>. QED
      BY <2>1, <2>2, <2>3, <3>2, <3>3, PastQuant
  <2>. QED
    BY <1>3, <2>4, <2>5
<1>. QED
  BY <1>2, <1>3

\* The Skeptic is heard.
LEMMA SkepticTells ==
    ASSUME NEW state \in State, AtDebate(state), NEW role, role = "SKEPTIC",
           NEW outcome, outcome = "ok", NEW m, m = Retain(state, role, state.round, outcome),
           NEW pc, pc = "chief", NEW n, n = [m EXCEPT !.pc = pc]
    PROVE  Tells(n)
<1>1. /\ role \in Later /\ outcome \in Outcome /\ Continues(role, outcome) /\ pc \in PC
      /\ state.round \in 0..3
  BY LaterRole DEF Outcome, Continues, PC, State
<1>2. PastFirst(state)
  BY DEF AtDebate, PastEntry
<1>3. /\ m \in State /\ m.stages = state.stages /\ m.chiefs = state.chiefs /\ m.round = state.round
      /\ PastFirst(m) /\ state.outputs \subseteq m.outputs /\ Said(m, role, state.round)
  BY <1>1, <1>2, AnsweredStays
<1>4. /\ n.pc = pc /\ n.round = state.round /\ n.outputs = m.outputs /\ n.failures = m.failures
      /\ n.stages = state.stages /\ n.chiefs = state.chiefs
  BY <1>1, <1>3, GoesIs
<1>5. First(n) = First(m)
  BY <1>4 DEF First
<1>6. PastFirst(n)
  BY <1>3, <1>4, <1>5, PastFirstStays
<1>7. PastEntry(n)
  BY <1>3, <1>4, <1>6, PastEntryStays DEF AtDebate
<1>8. AtDebate(n)
  BY <1>4, <1>7 DEF AtDebate
<1>9. Said(n, "SKEPTIC", n.round)
  BY <1>3, <1>4 DEF Said
<1>. QED
  BY <1>4, <1>8, <1>9 DEF Tells

\* A Skeptic or a Chief who fails.
LEMMA DebateFails ==
    ASSUME NEW state \in State, AtDebate(state), NEW role \in {"SKEPTIC", "CHIEF_TRADER"},
           NEW category \in Category, NEW status \in {"HOLD", "COMPLETED"},
           status = "COMPLETED" => Said(state, "SKEPTIC", state.round), NEW s, s = 4,
           NEW m, m = Retain(state, role, state.round, category),
           NEW n, n = End(SetStage(m, s, status), Terminal(role, category))
    PROVE  Tells(n)
<1>1. /\ role \in Later /\ ~ Continues(role, category) /\ state.round \in 0..3
      /\ s \in Stage /\ status \in StageStatus
  BY LaterRole, MustAnswer DEF State, Stage, StageStatus
<1>2. /\ m \in State /\ m.outputs = state.outputs /\ m.stages = state.stages
      /\ m.failures = state.failures \cup {Fault(role, state.round, category)}
  BY <1>1, FailedIs DEF Later
<1>3. PICK staged : staged = SetStage(m, s, status)
  OBVIOUS
<1>4. /\ staged \in State /\ staged.outputs = state.outputs /\ staged.failures = m.failures
      /\ staged.stages[s] = status /\ \A t \in Stage \ {s} : staged.stages[t] = state.stages[t]
  BY <1>1, <1>2, <1>3, StagedIs
<1>5. n = End(staged, Terminal(role, category)) /\ Terminal(role, category) \in Disposition
  BY <1>3, TerminalType
<1>6. /\ n \in State /\ n.pc = "finish" /\ n.disposition = Terminal(role, category)
      /\ n.outputs = staged.outputs /\ n.failures = staged.failures /\ n.stages = staged.stages
  BY <1>4, <1>5, EndIs
<1>7. status \in Done => \E o \in state.outputs : o.role = "SKEPTIC"
  <2>1. CASE status = "HOLD"
    BY <2>1 DEF Done
  <2>2. CASE status = "COMPLETED"
    <3>1. PICK o : o = [role |-> "SKEPTIC", round |-> state.round]
      OBVIOUS
    <3>2. o \in state.outputs /\ o.role = "SKEPTIC"
      BY <2>2, <3>1 DEF Said
    <3>. QED
      BY <3>2
  <2>. QED
    BY <2>1, <2>2
<1>8. FailsAt(n, state, s, role, state.round, category)
  BY <1>2, <1>4, <1>6, <1>7 DEF FailsAt
<1>9. Open(state, s)
  <2>1. PastEntry(state) /\ state.stages[3] \in Done \cup {"SKIPPED"}
    BY DEF AtDebate
  <2>2. \A t \in 2..(s - 1) : state.stages[t] \notin {"HOLD", "ABORTED"}
    BY <2>1 DEF PastEntry, Done
  <2>3. /\ PastFirst(state) /\ Said(state, "ENTRY_ANALYST", 0)
        /\ \A t \in s..6 : state.stages[t] = None
    BY DEF AtDebate, PastEntry
  <2>. QED
    BY <2>2, <2>3 DEF Open
<1>10. AtFinish(n)
  BY <1>1, <1>6, <1>8, <1>9, FailTells DEF Later
<1>. QED
  BY <1>6, <1>10, FinishTells

-----------------------------------------------------------------------------
(* The decisions of the Chief and of the Risk engine.                      *)

Decided(state, action) == [state EXCEPT !.chiefs = Append(@, action)]
Chosen(state, action) == [state EXCEPT !.chief = action]
Again(state) == [state EXCEPT !.pc = "skeptic", !.round = @ + 1]

LEMMA DecidedIs ==
    ASSUME NEW state \in State, NEW action \in Action, NEW n, n = Decided(state, action)
    PROVE  /\ n \in State /\ n.pc = state.pc /\ n.round = state.round
           /\ n.outputs = state.outputs /\ n.failures = state.failures
           /\ n.stages = state.stages /\ n.chief = state.chief
           /\ Len(n.chiefs) = Len(state.chiefs) + 1 /\ n.chiefs[Len(state.chiefs) + 1] = action
<1>1. PICK more : more = Append(state.chiefs, action)
  OBVIOUS
<1>2. /\ more \in Seq(Action) /\ Len(more) = Len(state.chiefs) + 1
      /\ more[Len(state.chiefs) + 1] = action
  BY <1>1 DEF State
<1>3. n = [state EXCEPT !.chiefs = more]
  BY <1>1 DEF Decided
<1>. QED
  BY <1>2, <1>3 DEF State

LEMMA ChosenIs ==
    ASSUME NEW state \in State, NEW action \in Action, NEW n, n = Chosen(state, action)
    PROVE  /\ n \in State /\ n.round = state.round
           /\ n.outputs = state.outputs /\ n.failures = state.failures
           /\ n.stages = state.stages /\ n.chiefs = state.chiefs /\ n.chief = action
BY DEF Chosen, State

LEMMA AgainIs ==
    ASSUME NEW state \in State, NEW n, n = Again(state)
    PROVE  /\ n.pc = "skeptic" /\ n.round = state.round + 1
           /\ n.outputs = state.outputs /\ n.failures = state.failures
           /\ n.stages = state.stages /\ n.chiefs = state.chiefs
BY DEF Again, State

\* The Chief is heard.
LEMMA ChiefHeard ==
    ASSUME NEW state \in State, AtDebate(state), NEW role, role = "CHIEF_TRADER",
           NEW outcome, outcome = "ok", NEW action \in Action,
           NEW m, m = Decided(Retain(state, role, state.round, outcome), action)
    PROVE  /\ m \in State /\ PastEntry(m) /\ m.round = state.round
           /\ m.stages = state.stages /\ state.outputs \subseteq m.outputs
           /\ Said(m, role, state.round)
           /\ Len(m.chiefs) = m.round /\ m.chiefs[m.round] = action
<1>1. /\ role \in Later /\ outcome \in Outcome /\ Continues(role, outcome)
      /\ state.round \in 0..3
  BY LaterRole DEF Outcome, Continues, State
<1>2. PastFirst(state)
  BY DEF AtDebate, PastEntry
<1>3. PICK heard : heard = Retain(state, role, state.round, outcome)
  OBVIOUS
<1>4. /\ heard \in State /\ heard.stages = state.stages /\ heard.chiefs = state.chiefs
      /\ heard.round = state.round /\ PastFirst(heard) /\ state.outputs \subseteq heard.outputs
      /\ Said(heard, role, state.round)
  BY <1>1, <1>2, <1>3, AnsweredStays
<1>5. /\ m \in State /\ m.round = state.round /\ m.outputs = heard.outputs
      /\ m.failures = heard.failures /\ m.stages = state.stages
      /\ Len(m.chiefs) = Len(state.chiefs) + 1 /\ m.chiefs[Len(state.chiefs) + 1] = action
  BY <1>3, <1>4, DecidedIs
<1>6. Len(state.chiefs) + 1 = state.round
  BY <1>1 DEF AtDebate
<1>7. First(m) = First(heard)
  BY <1>5 DEF First
<1>8. PastFirst(m)
  BY <1>4, <1>5, <1>7, PastFirstStays
<1>9. PastEntry(m)
  BY <1>4, <1>5, <1>8, PastEntryStays DEF AtDebate
<1>. QED
  BY <1>4, <1>5, <1>6, <1>9 DEF Said

\* The debate goes on.
LEMMA AgainTells ==
    ASSUME NEW state \in State, AtDebate(state), NEW m \in State, PastEntry(m),
           m.round = state.round, m.stages = state.stages, Len(m.chiefs) = m.round,
           NEW n, n = Again(m)
    PROVE  Tells(n)
<1>1. /\ n.pc = "skeptic" /\ n.round = m.round + 1
      /\ n.outputs = m.outputs /\ n.failures = m.failures
      /\ n.stages = state.stages /\ n.chiefs = m.chiefs
  BY AgainIs
<1>2. First(n) = First(m)
  BY <1>1 DEF First
<1>3. PastFirst(n)
  BY <1>1, <1>2, PastFirstStays DEF PastEntry
<1>4. PastEntry(n)
  BY <1>1, <1>3, PastEntryStays
<1>5. m.round \in 0..3
  BY DEF State
<1>6. n.round >= 1 /\ Len(n.chiefs) = n.round - 1
  BY <1>1, <1>5
<1>7. AtDebate(n)
  BY <1>1, <1>4, <1>6 DEF AtDebate
<1>. QED
  BY <1>1, <1>7 DEF Tells

\* The debate ends: what is known when the Chief has decided for good.
LEMMA DebateEnds ==
    ASSUME NEW state \in State, AtDebate(state), NEW m \in State, PastEntry(m),
           m.stages = state.stages, NEW action \in Action,
           NEW s, s = 4, NEW t, t = 5, NEW status, status = "COMPLETED",
           NEW n, n = Chosen(SetStage(SetStage(m, s, status), t, status), action)
    PROVE  /\ n \in State /\ PastEntry(n) /\ n.chief = action /\ n.chiefs = m.chiefs
           /\ n.round = m.round /\ n.outputs = m.outputs
           /\ n.stages[3] \in Done \cup {"SKIPPED"}
           /\ n.stages[4] = "COMPLETED" /\ n.stages[5] = "COMPLETED" /\ n.stages[6] = None
<1>1. s \in Stage /\ t \in Stage /\ status \in StageStatus
  BY DEF Stage, StageStatus
<1>2. PICK one : one = SetStage(m, s, status)
  OBVIOUS
<1>3. /\ one \in State /\ one.round = m.round /\ one.outputs = m.outputs
      /\ one.failures = m.failures /\ one.chiefs = m.chiefs
      /\ one.stages[s] = status /\ \A u \in Stage \ {s} : one.stages[u] = m.stages[u]
  BY <1>1, <1>2, StagedIs
<1>4. PICK two : two = SetStage(one, t, status)
  OBVIOUS
<1>5. /\ two \in State /\ two.round = m.round /\ two.outputs = m.outputs
      /\ two.failures = m.failures /\ two.chiefs = m.chiefs
      /\ two.stages[t] = status /\ \A u \in Stage \ {t} : two.stages[u] = one.stages[u]
  BY <1>1, <1>3, <1>4, StagedIs
<1>6. n = Chosen(two, action)
  BY <1>2, <1>4
<1>7. /\ n \in State /\ n.round = m.round /\ n.outputs = m.outputs /\ n.failures = m.failures
      /\ n.stages = two.stages /\ n.chiefs = m.chiefs /\ n.chief = action
  BY <1>5, <1>6, ChosenIs
<1>8. /\ n.stages[1] = m.stages[1] /\ n.stages[2] = m.stages[2] /\ n.stages[3] = m.stages[3]
      /\ n.stages[4] = "COMPLETED" /\ n.stages[5] = "COMPLETED" /\ n.stages[6] = m.stages[6]
  BY <1>3, <1>5, <1>7 DEF Stage
<1>9. First(n) = First(m)
  BY <1>7 DEF First
<1>10. PastFirst(n)
  BY <1>7, <1>8, <1>9, PastFirstStays DEF PastEntry
<1>11. PastEntry(n)
  BY <1>7, <1>8, <1>10, PastEntryStays
<1>12. m.stages[3] \in Done \cup {"SKIPPED"} /\ m.stages[6] = None
  BY DEF AtDebate
<1>. QED
  BY <1>7, <1>8, <1>11, <1>12

\* All agents were heard and no stage ended the cycle.
Concluded(state) ==
    /\ First(state) \subseteq FirstOutput /\ TwoOf(First(state))
    /\ Said(state, "ENTRY_ANALYST", 0)
    /\ \E o \in state.outputs : o.role = "SKEPTIC"
    /\ \E o \in state.outputs : o.role = "CHIEF_TRADER"
    /\ state.stages[1] \in Done /\ state.stages[2] = "COMPLETED"
    /\ state.stages[3] \in Done \cup {"SKIPPED"}
    /\ state.stages[4] = "COMPLETED" /\ state.stages[5] = "COMPLETED"

\* The conclusion is directional.
Directional(state) ==
    /\ Said(state, "SKEPTIC", Rounds) /\ Said(state, "CHIEF_TRADER", Rounds)
    /\ Len(state.chiefs) = Rounds /\ state.chiefs[Rounds] = state.chief
    /\ state.disposition = IF state.chief = "BUY" THEN "WOULD_BUY" ELSE "WOULD_SELL"
    /\ state.risk = "APPROVED"
    /\ \A f \in state.failures : f.category \in {"TIMEOUT", "UNAVAILABLE_AGENT"}

LEMMA ConcludedTells ==
    ASSUME NEW n, Concluded(n), n.stages[6] \in Done => n.risk # None,
           n.disposition \in {"WOULD_BUY", "WOULD_SELL"} => Directional(n)
    PROVE  TellsTrue(n)
<1>1. \E o \in n.outputs : o.role = "ENTRY_ANALYST"
  <2>1. PICK o : o = [role |-> "ENTRY_ANALYST", round |-> 0]
    OBVIOUS
  <2>2. o \in n.outputs /\ o.role = "ENTRY_ANALYST"
    BY <2>1 DEF Concluded, Said
  <2>. QED
    BY <2>2
<1>2. \A s, t \in Stage : s < t => n.stages[s] \notin {"HOLD", "ABORTED"}
  <2>. SUFFICES ASSUME NEW s \in Stage, NEW t \in Stage, s < t
                PROVE  n.stages[s] \notin {"HOLD", "ABORTED"}
    OBVIOUS
  <2>1. s = 1 \/ s = 2 \/ s = 3 \/ s = 4 \/ s = 5
    BY DEF Stage
  <2>. QED
    BY <2>1 DEF Concluded, Done
<1>. QED
  BY <1>1, <1>2 DEF TellsTrue, Concluded, Directional

\* Every agent was heard when the debate has ended.
LEMMA DebateConcludes ==
    ASSUME NEW state, PastEntry(state), NEW i, NEW j,
           Said(state, "SKEPTIC", i), Said(state, "CHIEF_TRADER", j),
           state.stages[3] \in Done \cup {"SKIPPED"},
           state.stages[4] = "COMPLETED", state.stages[5] = "COMPLETED"
    PROVE  Concluded(state)
<1>1. PICK o : o = [role |-> "SKEPTIC", round |-> i]
  OBVIOUS
<1>2. PICK p : p = [role |-> "CHIEF_TRADER", round |-> j]
  OBVIOUS
<1>3. o \in state.outputs /\ p \in state.outputs /\ o.role = "SKEPTIC" /\ p.role = "CHIEF_TRADER"
  BY <1>1, <1>2 DEF Said
<1>. QED
  BY <1>3 DEF Concluded, PastEntry, PastFirst

LEMMA ConcludedStays ==
    ASSUME NEW state, Concluded(state), NEW n, n.outputs = state.outputs,
           \A s \in Stage \ {6} : n.stages[s] = state.stages[s]
    PROVE  Concluded(n) /\ First(n) = First(state)
<1>1. First(n) = First(state)
  BY DEF First
<1>2. /\ n.stages[1] = state.stages[1] /\ n.stages[2] = state.stages[2]
      /\ n.stages[3] = state.stages[3] /\ n.stages[4] = state.stages[4]
      /\ n.stages[5] = state.stages[5]
  BY DEF Stage
<1>. QED
  BY <1>1, <1>2 DEF Concluded, Said

\* A cycle that concludes without a new failure.
LEMMA ConclusionTells ==
    ASSUME NEW state \in State, Concluded(state), \A f \in state.failures : Continued(f),
           NEW n \in State, n.pc = "finish", n.outputs = state.outputs,
           n.failures = state.failures, \A s \in Stage \ {6} : n.stages[s] = state.stages[s],
           n.stages[6] \in Done => n.risk # None,
           n.disposition \notin {"ABORTED", "POLICY_HOLD"},
           n.disposition \in {"WOULD_BUY", "WOULD_SELL"} => Directional(n)
    PROVE  Tells(n)
<1>1. Concluded(n) /\ First(n) = First(state)
  BY ConcludedStays
<1>2. TellsTrue(n)
  BY <1>1, ConcludedTells
<1>3. PICK k : k = Cardinality(First(n))
  OBVIOUS
<1>4. k \in Nat /\ k >= 2
  BY <1>1, <1>3, TwoCounted DEF Concluded
<1>5. Decides(n, k)
  BY <1>4, NoFailureDecides
<1>. QED
  BY <1>2, <1>3, <1>5, FinishTells DEF AtFinish

\* The Chief decides to hold.
LEMMA HoldTells ==
    ASSUME NEW state \in State, PastEntry(state), NEW i, NEW j,
           Said(state, "SKEPTIC", i), Said(state, "CHIEF_TRADER", j),
           state.stages[3] \in Done \cup {"SKIPPED"},
           state.stages[4] = "COMPLETED", state.stages[5] = "COMPLETED",
           NEW s, s = 6, NEW status, status = "SKIPPED",
           NEW disposition, disposition = "CHIEF_HOLD",
           NEW n, n = End(SetStage(state, s, status), disposition)
    PROVE  Tells(n)
<1>1. s \in Stage /\ status \in StageStatus /\ disposition \in Disposition
  BY DEF Stage, StageStatus, Disposition
<1>2. PICK staged : staged = SetStage(state, s, status)
  OBVIOUS
<1>3. /\ staged \in State /\ staged.outputs = state.outputs /\ staged.failures = state.failures
      /\ staged.stages[s] = status /\ \A t \in Stage \ {s} : staged.stages[t] = state.stages[t]
  BY <1>1, <1>2, StagedIs
<1>4. /\ n \in State /\ n.pc = "finish" /\ n.disposition = disposition
      /\ n.outputs = state.outputs /\ n.failures = state.failures /\ n.stages = staged.stages
  BY <1>1, <1>2, <1>3, EndIs
<1>5. Concluded(state) /\ \A f \in state.failures : Continued(f)
  BY DebateConcludes DEF PastEntry, PastFirst
<1>6. n.stages[6] \notin Done
  BY <1>3, <1>4 DEF Done
<1>7. \A t \in Stage \ {6} : n.stages[t] = state.stages[t]
  BY <1>3, <1>4
<1>8. n.disposition \notin {"ABORTED", "POLICY_HOLD"} \cup {"WOULD_BUY", "WOULD_SELL"}
  BY <1>4
<1>. QED
  BY <1>4, <1>5, <1>6, <1>7, <1>8, ConclusionTells

\* The proposal of the Chief goes to the Risk engine.
LEMMA JudgedTells ==
    ASSUME NEW state \in State, PastEntry(state), state.stages[3] \in Done \cup {"SKIPPED"},
           state.stages[4] = "COMPLETED", state.stages[5] = "COMPLETED", state.stages[6] = None,
           Said(state, "SKEPTIC", Rounds), Said(state, "CHIEF_TRADER", Rounds),
           Len(state.chiefs) = Rounds, state.chiefs[Rounds] = state.chief,
           NEW pc, pc = "risk", NEW n, n = [state EXCEPT !.pc = pc]
    PROVE  Tells(n)
<1>1. pc \in PC
  BY DEF PC
<1>2. /\ n.pc = pc /\ n.outputs = state.outputs /\ n.failures = state.failures
      /\ n.stages = state.stages /\ n.chiefs = state.chiefs /\ n.chief = state.chief
  BY <1>1, GoesIs
<1>3. First(n) = First(state)
  BY <1>2 DEF First
<1>4. PastFirst(n)
  BY <1>2, <1>3, PastFirstStays DEF PastEntry
<1>5. PastEntry(n)
  BY <1>2, <1>4, PastEntryStays
<1>6. AtRisk(n)
  BY <1>2, <1>5 DEF AtRisk, Said
<1>. QED
  BY <1>2, <1>6 DEF Tells

LEMMA ChiefTells ==
    ASSUME NEW state \in State, AtDebate(state), Said(state, "SKEPTIC", state.round),
           NEW action \in Action, NEW m, NEW decided, NEW n,
           m = Decided(Retain(state, "CHIEF_TRADER", state.round, "ok"), action),
           decided = Chosen(SetStage(SetStage(m, 4, "COMPLETED"), 5, "COMPLETED"), action),
           \/ n = Again(m)
           \/ n = End(SetStage(decided, 6, "SKIPPED"), "CHIEF_HOLD")
           \/ state.round = Rounds /\ n = [decided EXCEPT !.pc = "risk"]
    PROVE  Tells(n)
<1>1. PICK role, outcome, s, t, u, completed, skipped, held, pc :
          /\ role = "CHIEF_TRADER" /\ outcome = "ok" /\ s = 4 /\ t = 5 /\ u = 6
          /\ completed = "COMPLETED" /\ skipped = "SKIPPED" /\ held = "CHIEF_HOLD" /\ pc = "risk"
  OBVIOUS
<1>2. /\ m = Decided(Retain(state, role, state.round, outcome), action)
      /\ decided = Chosen(SetStage(SetStage(m, s, completed), t, completed), action)
  BY <1>1
<1>3. /\ m \in State /\ PastEntry(m) /\ m.round = state.round
      /\ m.stages = state.stages /\ state.outputs \subseteq m.outputs
      /\ Said(m, role, state.round)
      /\ Len(m.chiefs) = m.round /\ m.chiefs[m.round] = action
  BY <1>1, <1>2, ChiefHeard
<1>4. /\ decided \in State /\ PastEntry(decided) /\ decided.chief = action
      /\ decided.chiefs = m.chiefs /\ decided.round = m.round /\ decided.outputs = m.outputs
      /\ decided.stages[3] \in Done \cup {"SKIPPED"}
      /\ decided.stages[4] = "COMPLETED" /\ decided.stages[5] = "COMPLETED"
      /\ decided.stages[6] = None
  BY <1>1, <1>2, <1>3, DebateEnds
<1>5. Said(decided, "SKEPTIC", state.round) /\ Said(decided, "CHIEF_TRADER", state.round)
  BY <1>1, <1>3, <1>4 DEF Said
<1>6. CASE n = Again(m)
  BY <1>3, <1>6, AgainTells
<1>7. CASE n = End(SetStage(decided, u, skipped), held)
  <2>1. PICK i : i = state.round
    OBVIOUS
  <2>2. Said(decided, "SKEPTIC", i) /\ Said(decided, "CHIEF_TRADER", i)
    BY <1>5, <2>1
  <2>. QED
    BY <1>1, <1>4, <1>7, <2>2, HoldTells
<1>8. CASE state.round = Rounds /\ n = [decided EXCEPT !.pc = pc]
  <2>1. /\ Said(decided, "SKEPTIC", Rounds) /\ Said(decided, "CHIEF_TRADER", Rounds)
        /\ Len(decided.chiefs) = Rounds /\ decided.chiefs[Rounds] = decided.chief
    BY <1>3, <1>4, <1>5, <1>8
  <2>. QED
    BY <1>1, <1>4, <1>8, <2>1, JudgedTells
<1>. QED
  BY <1>1, <1>6, <1>7, <1>8

Judged(state, status) == [state EXCEPT !.risk = status]
Raised(state) == [state EXCEPT !.failures = @ \cup {Fault(None, 0, "UNKNOWN")}]

LEMMA AtRiskConcludes ==
    ASSUME NEW state, AtRisk(state)
    PROVE  Concluded(state) /\ \A f \in state.failures : Continued(f)
BY DebateConcludes DEF AtRisk, PastEntry, PastFirst

\* The Risk engine judges.
LEMMA RiskTells ==
    ASSUME NEW state \in State, AtRisk(state), state.chief \in {"BUY", "SELL"},
           NEW status \in RiskStatus, NEW s, s = 6, NEW completed, completed = "COMPLETED",
           NEW n, n = End(Judged(SetStage(state, s, completed), status),
                          RiskDisposition(state.chief, status))
    PROVE  Tells(n)
<1>1. s \in Stage /\ completed \in StageStatus
  BY DEF Stage, StageStatus
<1>2. PICK staged : staged = SetStage(state, s, completed)
  OBVIOUS
<1>3. /\ staged \in State /\ staged.outputs = state.outputs /\ staged.failures = state.failures
      /\ staged.chiefs = state.chiefs /\ staged.chief = state.chief
      /\ \A t \in Stage \ {s} : staged.stages[t] = state.stages[t]
  BY <1>1, <1>2, StagedIs
<1>4. PICK judged : judged = Judged(staged, status)
  OBVIOUS
<1>5. /\ judged \in State /\ judged.outputs = state.outputs /\ judged.failures = state.failures
      /\ judged.chiefs = state.chiefs /\ judged.chief = state.chief
      /\ judged.stages = staged.stages /\ judged.risk = status
  BY <1>3, <1>4 DEF Judged, State
<1>6. PICK disposition : disposition = RiskDisposition(state.chief, status)
  OBVIOUS
<1>7. /\ disposition \in {"RISK_HALTED", "RISK_REJECTED", "WOULD_BUY", "WOULD_SELL"}
      /\ disposition \in {"WOULD_BUY", "WOULD_SELL"} =>
            /\ status = "APPROVED"
            /\ disposition = IF state.chief = "BUY" THEN "WOULD_BUY" ELSE "WOULD_SELL"
  BY <1>6 DEF RiskDisposition, RiskStatus
<1>8. disposition \in Disposition
  BY <1>7 DEF Disposition
<1>9. n = End(judged, disposition)
  BY <1>2, <1>4, <1>6
<1>10. /\ n \in State /\ n.pc = "finish" /\ n.disposition = disposition
       /\ n.outputs = judged.outputs /\ n.failures = judged.failures /\ n.stages = judged.stages
       /\ n.chiefs = judged.chiefs /\ n.chief = judged.chief /\ n.risk = judged.risk
  BY <1>5, <1>8, <1>9, EndIs
<1>11. Concluded(state) /\ \A f \in state.failures : Continued(f)
  BY AtRiskConcludes
<1>12. n.risk # None
  BY <1>5, <1>10, NoneAssumption
<1>13. ASSUME n.disposition \in {"WOULD_BUY", "WOULD_SELL"}
       PROVE  Directional(n)
  <2>1. \A f \in n.failures : f.category \in {"TIMEOUT", "UNAVAILABLE_AGENT"}
    BY <1>5, <1>10, <1>11 DEF Continued
  <2>2. /\ n.outputs = state.outputs /\ n.chiefs = state.chiefs /\ n.chief = state.chief
        /\ n.risk = status /\ n.disposition = disposition
    BY <1>5, <1>10
  <2>. QED
    BY <1>7, <1>13, <2>1, <2>2 DEF Directional, AtRisk, Said
<1>14. /\ n.outputs = state.outputs /\ n.failures = state.failures
       /\ \A t \in Stage \ {6} : n.stages[t] = state.stages[t]
       /\ n.disposition \notin {"ABORTED", "POLICY_HOLD"}
  BY <1>3, <1>5, <1>7, <1>10
<1>. QED
  BY <1>10, <1>11, <1>12, <1>13, <1>14, ConclusionTells

\* The Risk engine raises.
LEMMA RiskRaisesTells ==
    ASSUME NEW state \in State, AtRisk(state), NEW s, s = 6, NEW aborted, aborted = "ABORTED",
           NEW n, n = End(Raised(SetStage(state, s, aborted)), aborted)
    PROVE  Tells(n)
<1>1. s \in Stage /\ aborted \in StageStatus /\ aborted \in Disposition
  BY DEF Stage, StageStatus, Disposition
<1>2. PICK staged : staged = SetStage(state, s, aborted)
  OBVIOUS
<1>3. /\ staged \in State /\ staged.outputs = state.outputs /\ staged.failures = state.failures
      /\ staged.stages[s] = aborted /\ \A t \in Stage \ {s} : staged.stages[t] = state.stages[t]
  BY <1>1, <1>2, StagedIs
<1>4. PICK g : g = Fault(None, 0, "UNKNOWN")
  OBVIOUS
<1>5. g \in Failure
  BY <1>4, FaultType DEF Category
<1>6. PICK raised : raised = Raised(staged)
  OBVIOUS
<1>7. /\ raised \in State /\ raised.outputs = state.outputs
      /\ raised.failures = state.failures \cup {g} /\ raised.stages = staged.stages
  <2>1. raised = [staged EXCEPT !.failures = @ \cup {g}]
    BY <1>4, <1>6 DEF Raised
  <2>. QED
    BY <1>3, <1>5, <2>1 DEF State
<1>8. n = End(raised, aborted)
  BY <1>2, <1>6
<1>9. /\ n \in State /\ n.pc = "finish" /\ n.disposition = aborted
      /\ n.outputs = raised.outputs /\ n.failures = raised.failures /\ n.stages = raised.stages
  BY <1>1, <1>7, <1>8, EndIs
<1>10. Concluded(state) /\ \A f \in state.failures : Continued(f)
  BY AtRiskConcludes
<1>11. n.outputs = state.outputs /\ \A t \in Stage \ {6} : n.stages[t] = state.stages[t]
  BY <1>3, <1>7, <1>9
<1>12. Concluded(n) /\ First(n) = First(state)
  BY <1>10, <1>11, ConcludedStays
<1>13. TellsTrue(n)
  <2>1. n.stages[6] \notin Done /\ n.disposition \notin {"WOULD_BUY", "WOULD_SELL"}
    BY <1>3, <1>7, <1>9 DEF Done
  <2>. QED
    BY <1>12, <2>1, ConcludedTells
<1>14. PICK k : k = Cardinality(First(n))
  OBVIOUS
<1>15. k \in Nat /\ k >= 2
  BY <1>12, <1>14, TwoCounted DEF Concluded
<1>16. Decides(n, k)
  <2>1. /\ g.role = None /\ g.category = "UNKNOWN"
        /\ g.disposition = CategoryDisposition("UNKNOWN", None)
    BY <1>4, FaultIs
  <2>2. g.disposition = "ABORT_CYCLE" /\ g.disposition = Resolve(g.category, g.role, k)
    BY <2>1 DEF CategoryDisposition, Resolve, Fatal
  <2>3. n.failures = state.failures \cup {g} /\ n.disposition = "ABORTED"
    BY <1>7, <1>9
  <2>. QED
    BY <1>10, <1>15, <2>2, <2>3, OneFailureDecides
<1>. QED
  BY <1>9, <1>13, <1>14, <1>16, FinishTells DEF AtFinish

-----------------------------------------------------------------------------
(* The inputs and the record.                                              *)

Refused(state, category) == [state EXCEPT !.failures = {Fault(None, 0, category)}]

\* The inputs do not fit, or the snapshot is stale.
LEMMA RefusedTells ==
    ASSUME NEW state \in State, Blank(state), NEW category, NEW status, NEW disposition,
           \/ category = "SCHEMA_MISMATCH" /\ status = "ABORTED" /\ disposition = "ABORTED"
           \/ category = "STALE_SNAPSHOT" /\ status = "HOLD" /\ disposition = "POLICY_HOLD",
           NEW s, s = 1, NEW n, n = End(SetStage(Refused(state, category), s, status), disposition)
    PROVE  Tells(n)
<1>1. s \in Stage /\ status \in StageStatus /\ status \notin Done /\ disposition \in Disposition
  BY DEF Stage, StageStatus, Done, Disposition
<1>2. PICK g : g = Fault(None, 0, category)
  OBVIOUS
<1>3. g \in Failure
  BY <1>2, FaultType DEF Category
<1>4. PICK m : m = Refused(state, category)
  OBVIOUS
<1>5. m \in State /\ m.outputs = {} /\ m.failures = {g} /\ m.stages = state.stages
  <2>1. m = [state EXCEPT !.failures = {g}]
    BY <1>2, <1>4 DEF Refused
  <2>. QED
    BY <1>3, <2>1 DEF State, Blank
<1>6. PICK staged : staged = SetStage(m, s, status)
  OBVIOUS
<1>7. /\ staged \in State /\ staged.outputs = {} /\ staged.failures = {g}
      /\ staged.stages[s] = status /\ \A t \in Stage \ {s} : staged.stages[t] = state.stages[t]
  BY <1>1, <1>5, <1>6, StagedIs
<1>8. n = End(staged, disposition)
  BY <1>4, <1>6
<1>9. /\ n.pc = "finish" /\ n.disposition = disposition
      /\ n.outputs = {} /\ n.failures = {g} /\ n.stages = staged.stages
  BY <1>1, <1>7, <1>8, EndIs
<1>10. First(n) = {} /\ First(n) \subseteq FirstOutput
  BY <1>9 DEF First
<1>11. \A t \in Stage : t > 1 => n.stages[t] = None
  BY <1>7, <1>9 DEF Blank, Stage
<1>12. TellsTrue(n)
  <2>1. None \notin Done
    BY NoneAssumption DEF Done, StageStatus
  <2>2. /\ n.stages[1] \notin Done /\ n.stages[2] \notin Done /\ n.stages[4] \notin Done
        /\ n.stages[5] \notin Done /\ n.stages[6] \notin Done
    BY <1>1, <1>7, <1>9, <1>11, <2>1 DEF Stage
  <2>3. \A t, u \in Stage : t < u => n.stages[u] \in {None, "SKIPPED"}
    BY <1>11 DEF Stage
  <2>4. n.disposition \notin {"WOULD_BUY", "WOULD_SELL"}
    BY <1>9
  <2>. QED
    BY <1>10, <2>2, <2>3, <2>4 DEF TellsTrue
<1>13. PICK k : k = Cardinality(First(n))
  OBVIOUS
<1>14. k \in Nat
  BY <1>10, <1>13, TwoCounted
<1>15. /\ g.role = None /\ g.category = category
       /\ g.disposition = CategoryDisposition(category, None)
  BY <1>2, FaultIs
<1>16. /\ g.disposition = Resolve(g.category, g.role, k)
       /\ g.disposition \in {"ABORT_CYCLE", "HOLD"}
       /\ disposition = IF g.disposition = "ABORT_CYCLE" THEN "ABORTED" ELSE "POLICY_HOLD"
  BY <1>15 DEF CategoryDisposition, Resolve, Fatal
<1>17. Decides(n, k)
  <2>1. PICK F : F = {}
    OBVIOUS
  <2>2. n.failures = F \cup {g} /\ \A f \in F : Continued(f)
    BY <1>9, <2>1
  <2>. QED
    BY <1>9, <1>14, <1>16, <2>1, <2>2, OneFailureDecides
<1>. QED
  BY <1>9, <1>12, <1>13, <1>17, FinishTells DEF AtFinish

LEMMA BlankTells ==
    ASSUME NEW state \in State, Blank(state), NEW pc \in {"inputs", "stage1"},
           NEW n, n = [state EXCEPT !.pc = pc]
    PROVE  Tells(n)
<1>1. pc \in PC
  BY DEF PC
<1>2. /\ n.pc = pc /\ n.outputs = state.outputs /\ n.failures = state.failures
      /\ n.stages = state.stages /\ n.chiefs = state.chiefs
  BY <1>1, GoesIs
<1>3. Blank(n)
  BY <1>2 DEF Blank
<1>4. Asked(n)
  BY <1>3 DEF Blank, Asked
<1>. QED
  BY <1>2, <1>3, <1>4 DEF Tells

LEMMA EndedTells ==
    ASSUME NEW n, n.pc \in Ended
    PROVE  Tells(n)
BY DEF Tells, Ended

\* fill_skipped changes nothing of what a record tells.
LEMMA FilledTells ==
    ASSUME NEW state \in State, AtFinish(state), NEW n, n = Filled(state)
    PROVE  AtFinish(n)
<1>1. /\ n.disposition = state.disposition
      /\ n.outputs = state.outputs /\ n.failures = state.failures
      /\ \A s \in Stage : n.stages[s] = IF state.stages[s] = None THEN "SKIPPED"
                                        ELSE state.stages[s]
      /\ n.chiefs = state.chiefs /\ n.chief = state.chief /\ n.risk = state.risk
  BY FilledIs
<1>2. First(n) = First(state)
  BY <1>1 DEF First
<1>3. Decides(n, Cardinality(First(n)))
  <2>1. PICK k : k = Cardinality(First(state))
    OBVIOUS
  <2>2. Decides(state, k)
    BY <2>1 DEF AtFinish
  <2>3. Decides(n, k)
    BY <1>1, <2>2 DEF Decides
  <2>. QED
    BY <1>2, <2>1, <2>3
<1>4. \A s \in Stage : /\ n.stages[s] \in Done => state.stages[s] \in Done
                       /\ n.stages[s] \in {"HOLD", "ABORTED"} =>
                             state.stages[s] \in {"HOLD", "ABORTED"}
                       /\ state.stages[s] \in {None, "SKIPPED"} => n.stages[s] = "SKIPPED"
  BY <1>1 DEF Done
<1>5. /\ n.stages[1] \in Done => state.stages[1] \in Done
      /\ n.stages[2] \in Done => state.stages[2] \in Done
      /\ n.stages[4] \in Done => state.stages[4] \in Done
      /\ n.stages[5] \in Done => state.stages[5] \in Done
      /\ n.stages[6] \in Done => state.stages[6] \in Done
  BY <1>4 DEF Stage
<1>6. TellsTrue(state)
  BY DEF AtFinish
<1>7. \A s, t \in Stage : s < t /\ n.stages[s] \in {"HOLD", "ABORTED"} =>
         n.stages[t] \in {None, "SKIPPED"}
  BY <1>4, <1>6 DEF TellsTrue
<1>8. TellsTrue(n)
  BY <1>1, <1>2, <1>5, <1>6, <1>7 DEF TellsTrue, Said
<1>. QED
  BY <1>3, <1>8 DEF AtFinish

-----------------------------------------------------------------------------
(* Every step keeps what the states and the records tell.                  *)

LEMMA BecomesTold ==
    ASSUME IInv, Told, NEW r \in Runner, NEW state, Tells(state), Become(r, state),
           record' = record
    PROVE  Told'
<1>1. run'[r] = state /\ \A s \in Runner \ {r} : run'[s] = run[s]
  BY DEF Become, IInv, TypeInv, ShadowTypeOK
<1>2. \A s \in Runner : Tells(run'[s])
  BY <1>1 DEF Told
<1>. QED
  BY <1>2 DEF Told

LEMMA EndsTold ==
    ASSUME IInv, Told, NEW r \in Runner, NEW pc \in Ended, run' = [run EXCEPT ![r].pc = pc],
           record' = record
    PROVE  Told'
<1>1. PICK state : state = [run[r] EXCEPT !.pc = pc]
  OBVIOUS
<1>2. run[r] \in State
  BY DEF IInv, TypeInv, ShadowTypeOK
<1>3. state.pc \in Ended
  BY <1>1, <1>2 DEF State
<1>4. Tells(state)
  BY <1>3, EndedTells
<1>5. Become(r, state)
  BY <1>1 DEF Become
<1>. QED
  BY <1>4, <1>5, BecomesTold

LEMMA ClaimTold ==
    ASSUME IInv, Told, NEW r \in Runner, Claim(r)
    PROVE  Told'
<1>1. record' = record /\ run[r].pc = "start" /\ run[r] \in State
  BY DEF Claim, IInv, TypeInv, ShadowTypeOK
<1>2. CASE Raise(r)
  BY <1>1, <1>2, EndsTold DEF Raise, Ended
<1>3. CASE run' = [run EXCEPT ![r].pc = "inputs"]
  <2>1. PICK pc : pc = "inputs"
    OBVIOUS
  <2>2. PICK state : state = [run[r] EXCEPT !.pc = pc]
    OBVIOUS
  <2>3. Blank(run[r])
    BY <1>1 DEF Told, Tells
  <2>4. Tells(state)
    BY <1>1, <2>1, <2>2, <2>3, BlankTells
  <2>5. Become(r, state)
    BY <1>3, <2>1, <2>2 DEF Become
  <2>. QED
    BY <1>1, <2>4, <2>5, BecomesTold
<1>. QED
  BY <1>2, <1>3 DEF Claim

LEMMA InputsTold ==
    ASSUME IInv, Told, NEW r \in Runner, Inputs(r)
    PROVE  Told'
<1>1. record' = record /\ run[r].pc = "inputs" /\ run[r] \in State
  BY DEF Inputs, files, IInv, TypeInv, ShadowTypeOK
<1>2. Blank(run[r])
  BY <1>1 DEF Told, Tells
<1>3. CASE Raise(r)
  BY <1>1, <1>3, EndsTold DEF Raise, Ended
<1>4. ASSUME NEW category, NEW status, NEW disposition,
             \/ category = "SCHEMA_MISMATCH" /\ status = "ABORTED" /\ disposition = "ABORTED"
             \/ category = "STALE_SNAPSHOT" /\ status = "HOLD" /\ disposition = "POLICY_HOLD",
             Become(r, End(SetStage(Refused(run[r], category), 1, status), disposition))
      PROVE  Told'
  <2>1. PICK s : s = 1
    OBVIOUS
  <2>2. PICK n : n = End(SetStage(Refused(run[r], category), s, status), disposition)
    OBVIOUS
  <2>3. Tells(n)
    BY <1>1, <1>2, <1>4, <2>1, <2>2, RefusedTells
  <2>4. Become(r, n)
    BY <1>4, <2>1, <2>2
  <2>. QED
    BY <1>1, <2>3, <2>4, BecomesTold
<1>5. CASE run' = [run EXCEPT ![r].pc = "stage1"]
  <2>1. PICK pc : pc = "stage1"
    OBVIOUS
  <2>2. PICK state : state = [run[r] EXCEPT !.pc = pc]
    OBVIOUS
  <2>3. Tells(state)
    BY <1>1, <1>2, <2>1, <2>2, BlankTells
  <2>4. Become(r, state)
    BY <1>5, <2>1, <2>2 DEF Become
  <2>. QED
    BY <1>1, <2>3, <2>4, BecomesTold
<1>6. \/ Raise(r)
      \/ Become(r, End(SetStage(Refused(run[r], "SCHEMA_MISMATCH"), 1, "ABORTED"), "ABORTED"))
      \/ Become(r, End(SetStage(Refused(run[r], "STALE_SNAPSHOT"), 1, "HOLD"), "POLICY_HOLD"))
      \/ run' = [run EXCEPT ![r].pc = "stage1"]
  BY DEF Inputs, Refused
<1>. QED
  BY <1>3, <1>4, <1>5, <1>6

LEMMA AnswerTold ==
    ASSUME IInv, Told, NEW r \in Runner, Answer(r)
    PROVE  Told'
<1>1. record' = record /\ run[r].pc = "stage1" /\ run[r] \in State
  BY DEF Answer, files, IInv, TypeInv, ShadowTypeOK
<1>2. PICK role \in StageOneRole \ AnsweredIn(run[r]), outcome \in Outcome :
         Become(r, Retain(run[r], role, 0, outcome))
  BY DEF Answer
<1>3. Asked(run[r])
  BY <1>1 DEF Told, Tells
<1>4. PICK n : n = Retain(run[r], role, 0, outcome)
  OBVIOUS
<1>5. Tells(n)
  BY <1>1, <1>3, <1>4, AnswerTells
<1>. QED
  BY <1>1, <1>2, <1>4, <1>5, BecomesTold

LEMMA StageOneTold ==
    ASSUME IInv, Told, NEW r \in Runner, StageOne(r)
    PROVE  Told'
<1>1. /\ record' = record /\ run[r].pc = "stage1" /\ run[r] \in State
      /\ AnsweredIn(run[r]) = StageOneRole
  BY DEF StageOne, files, IInv, TypeInv, ShadowTypeOK
<1>2. Asked(run[r])
  BY <1>1 DEF Told, Tells
<1>3. PICK terminal : terminal = StageOneTerminal(run[r])
  OBVIOUS
<1>4. PICK status : status = IF Degraded(run[r]) = {} THEN "COMPLETED" ELSE "DEGRADED"
  OBVIOUS
<1>5. \/ terminal # None /\ Become(r, End(SetStage(run[r], 1, StageOf(terminal)), terminal))
      \/ terminal = None /\ Become(r, Entering(run[r], status))
  BY <1>3, <1>4 DEF StageOne, Entering, Degraded
<1>6. CASE terminal # None /\ Become(r, End(SetStage(run[r], 1, StageOf(terminal)), terminal))
  <2>1. PICK n : n = End(SetStage(run[r], 1, StageOf(terminal)), terminal)
    OBVIOUS
  <2>2. Tells(n)
    BY <1>1, <1>2, <1>3, <1>6, <2>1, StageOneEnds
  <2>. QED
    BY <1>1, <1>6, <2>1, <2>2, BecomesTold
<1>7. CASE terminal = None /\ Become(r, Entering(run[r], status))
  <2>1. status \in {"COMPLETED", "DEGRADED"}
    BY <1>4
  <2>2. PICK n : n = Entering(run[r], status)
    OBVIOUS
  <2>3. Tells(n)
    BY <1>1, <1>2, <1>3, <1>7, <2>1, <2>2, StageOneGoes
  <2>. QED
    BY <1>1, <1>7, <2>2, <2>3, BecomesTold
<1>. QED
  BY <1>5, <1>6, <1>7

LEMMA EntryTold ==
    ASSUME IInv, Told, NEW r \in Runner, Entry(r)
    PROVE  Told'
<1>1. record' = record /\ run[r].pc = "entry" /\ run[r] \in State
  BY DEF Entry, files, IInv, TypeInv, ShadowTypeOK
<1>2. AtEntry(run[r])
  BY <1>1 DEF Told, Tells
<1>3. PICK outcome, m, n :
         /\ outcome \in Outcome
         /\ m = Retain(run[r], "ENTRY_ANALYST", 0, outcome) /\ Become(r, n)
         /\ \/ outcome # "ok" /\ n = FailAt(m, 2, "ENTRY_ANALYST", outcome)
            \/ /\ outcome = "ok"
               /\ n = Debate(SetStage(SetStage(m, 2, "COMPLETED"), 3, "SKIPPED"))
            \/ outcome = "ok" /\ n = [SetStage(m, 2, "COMPLETED") EXCEPT !.pc = "research"]
  BY DEF Entry
<1>4. Tells(n)
  BY <1>1, <1>2, <1>3, EntryTells
<1>. QED
  BY <1>1, <1>3, <1>4, BecomesTold

LEMMA QuantTold ==
    ASSUME IInv, Told, NEW r \in Runner, run[r].pc \in {"research", "developer"},
           NEW role \in QuantRole, NEW outcome \in Outcome, NEW m,
           m = Retain(run[r], role, 0, outcome), NEW n,
           \/ ~ Continues(role, outcome) /\ n = FailAt(m, 3, role, outcome)
           \/ Continues(role, outcome) /\ n = [m EXCEPT !.pc = "developer"]
           \/ Continues(role, outcome) /\ n = EndQuant(m),
           Become(r, n), record' = record
    PROVE  Told'
<1>1. run[r] \in State
  BY DEF IInv, TypeInv, ShadowTypeOK
<1>2. AtQuant(run[r])
  BY DEF Told, Tells
<1>3. PICK s, developer : s = 3 /\ developer = "developer"
  OBVIOUS
<1>4. \/ ~ Continues(role, outcome) /\ n = FailAt(m, s, role, outcome)
      \/ Continues(role, outcome) /\ n = [m EXCEPT !.pc = developer]
      \/ Continues(role, outcome) /\ n = EndQuant(m)
  BY <1>3
<1>5. Tells(n)
  BY <1>1, <1>2, <1>3, <1>4, QuantTells
<1>. QED
  BY <1>5, BecomesTold

LEMMA ResearchTold ==
    ASSUME IInv, Told, NEW r \in Runner, Research(r) \/ Developer(r)
    PROVE  Told'
<1>1. record' = record
  BY DEF Research, Developer, files
<1>2. CASE Research(r)
  <2>1. PICK outcome, m, n :
           /\ outcome \in Outcome
           /\ m = Retain(run[r], "QUANT_RESEARCHER", 0, outcome) /\ Become(r, n)
           /\ \/ /\ ~ Continues("QUANT_RESEARCHER", outcome)
                 /\ n = FailAt(m, 3, "QUANT_RESEARCHER", outcome)
              \/ Continues("QUANT_RESEARCHER", outcome) /\ n = [m EXCEPT !.pc = "developer"]
              \/ Continues("QUANT_RESEARCHER", outcome) /\ n = EndQuant(m)
    BY <1>2 DEF Research
  <2>2. PICK role : role = "QUANT_RESEARCHER"
    OBVIOUS
  <2>3. role \in QuantRole /\ run[r].pc \in {"research", "developer"}
    BY <1>2, <2>2 DEF QuantRole, Research
  <2>. QED
    BY <1>1, <2>1, <2>2, <2>3, QuantTold
<1>3. CASE Developer(r)
  <2>1. PICK outcome, m, n :
           /\ outcome \in Outcome
           /\ m = Retain(run[r], "SENIOR_QUANT_DEVELOPER", 0, outcome) /\ Become(r, n)
           /\ \/ /\ ~ Continues("SENIOR_QUANT_DEVELOPER", outcome)
                 /\ n = FailAt(m, 3, "SENIOR_QUANT_DEVELOPER", outcome)
              \/ Continues("SENIOR_QUANT_DEVELOPER", outcome) /\ n = EndQuant(m)
    BY <1>3 DEF Developer
  <2>2. PICK role : role = "SENIOR_QUANT_DEVELOPER"
    OBVIOUS
  <2>3. role \in QuantRole /\ run[r].pc \in {"research", "developer"}
    BY <1>3, <2>2 DEF QuantRole, Developer
  <2>. QED
    BY <1>1, <2>1, <2>2, <2>3, QuantTold
<1>. QED
  BY <1>2, <1>3

LEMMA SkepticTold ==
    ASSUME IInv, Told, NEW r \in Runner, Skeptic(r)
    PROVE  Told'
<1>1. record' = record /\ run[r].pc = "skeptic" /\ run[r] \in State
  BY DEF Skeptic, files, IInv, TypeInv, ShadowTypeOK
<1>2. AtDebate(run[r])
  BY <1>1 DEF Told, Tells
<1>3. PICK role, s, status, pc :
         role = "SKEPTIC" /\ s = 4 /\ status = "HOLD" /\ pc = "chief"
  OBVIOUS
<1>4. PICK outcome, m, n :
         /\ outcome \in Outcome
         /\ m = Retain(run[r], role, run[r].round, outcome) /\ Become(r, n)
         /\ \/ outcome = "ok" /\ n = [m EXCEPT !.pc = pc]
            \/ outcome # "ok" /\ n = End(SetStage(m, s, status), Terminal(role, outcome))
  BY <1>3 DEF Skeptic
<1>5. CASE outcome = "ok" /\ n = [m EXCEPT !.pc = pc]
  <2>1. Tells(n)
    BY <1>1, <1>2, <1>3, <1>4, <1>5, SkepticTells
  <2>. QED
    BY <1>1, <1>4, <2>1, BecomesTold
<1>6. CASE outcome # "ok" /\ n = End(SetStage(m, s, status), Terminal(role, outcome))
  <2>1. /\ outcome \in Category /\ status \in {"HOLD", "COMPLETED"} /\ status # "COMPLETED"
        /\ role \in {"SKEPTIC", "CHIEF_TRADER"}
    BY <1>3, <1>4, <1>6 DEF Outcome
  <2>2. Tells(n)
    BY <1>1, <1>2, <1>3, <1>4, <1>6, <2>1, DebateFails
  <2>. QED
    BY <1>1, <1>4, <2>2, BecomesTold
<1>. QED
  BY <1>4, <1>5, <1>6

LEMMA ChiefFailsTold ==
    ASSUME IInv, Told, NEW r \in Runner, ChiefFails(r)
    PROVE  Told'
<1>1. record' = record /\ run[r].pc = "chief" /\ run[r] \in State
  BY DEF ChiefFails, files, IInv, TypeInv, ShadowTypeOK
<1>2. AtDebate(run[r]) /\ Said(run[r], "SKEPTIC", run[r].round)
  BY <1>1 DEF Told, Tells
<1>3. PICK role, s, status : role = "CHIEF_TRADER" /\ s = 4 /\ status = "COMPLETED"
  OBVIOUS
<1>4. PICK outcome, m, n :
         /\ outcome \in Category
         /\ m = Retain(run[r], role, run[r].round, outcome) /\ Become(r, n)
         /\ n = End(SetStage(m, s, status), Terminal(role, outcome))
  BY <1>3 DEF ChiefFails
<1>5. status \in {"HOLD", "COMPLETED"} /\ role \in {"SKEPTIC", "CHIEF_TRADER"}
  BY <1>3
<1>6. Tells(n)
  BY <1>1, <1>2, <1>3, <1>4, <1>5, DebateFails
<1>. QED
  BY <1>1, <1>4, <1>6, BecomesTold

LEMMA ChiefDecidesTold ==
    ASSUME IInv, Told, NEW r \in Runner, ChiefDecides(r)
    PROVE  Told'
<1>1. record' = record /\ run[r].pc = "chief" /\ run[r] \in State
  BY DEF ChiefDecides, files, IInv, TypeInv, ShadowTypeOK
<1>2. AtDebate(run[r]) /\ Said(run[r], "SKEPTIC", run[r].round)
  BY <1>1 DEF Told, Tells
<1>. DEFINE heard == Retain(run[r], "CHIEF_TRADER", run[r].round, "ok")
           state(action) == [heard EXCEPT !.chiefs = Append(@, action)]
           staged(action) == SetStage(SetStage(state(action), 4, "COMPLETED"), 5, "COMPLETED")
           decided(action) == [staged(action) EXCEPT !.chief = action]
           again(action) == [state(action) EXCEPT !.pc = "skeptic", !.round = @ + 1]
           held(action) == End(SetStage(decided(action), 6, "SKIPPED"), "CHIEF_HOLD")
           judged(action) == [decided(action) EXCEPT !.pc = "risk"]
           next(action) == IF ~ LastRound(r, action) THEN again(action)
                           ELSE IF action = "HOLD" THEN held(action)
                           ELSE judged(action)
<1>3. PICK action \in Action : Become(r, next(action))
  BY Zenon DEF ChiefDecides
<1>4. \/ Become(r, again(action))
      \/ Become(r, held(action))
      \/ LastRound(r, action) /\ action # "HOLD" /\ Become(r, judged(action))
  <2>. HIDE DEF again, held, judged
  <2>. QED
    BY <1>3
<1>5. PICK m : m = Decided(Retain(run[r], "CHIEF_TRADER", run[r].round, "ok"), action)
  OBVIOUS
<1>6. PICK final :
         final = Chosen(SetStage(SetStage(m, 4, "COMPLETED"), 5, "COMPLETED"), action)
  OBVIOUS
<1>7. m = state(action) /\ final = decided(action)
  BY <1>5, <1>6 DEF Decided, Chosen
<1>8. again(action) = Again(m)
  BY <1>7 DEF Again
<1>9. PICK n : /\ Become(r, n)
               /\ \/ n = Again(m)
                  \/ n = End(SetStage(final, 6, "SKIPPED"), "CHIEF_HOLD")
                  \/ run[r].round = Rounds /\ n = [final EXCEPT !.pc = "risk"]
  <2>. HIDE DEF state, decided, again
  <2>. QED
    BY <1>4, <1>7, <1>8 DEF LastRound
<1>10. Tells(n)
  BY <1>1, <1>2, <1>5, <1>6, <1>9, ChiefTells
<1>. QED
  BY <1>1, <1>9, <1>10, BecomesTold

LEMMA RiskTold ==
    ASSUME IInv, Told, NEW r \in Runner, Risk(r)
    PROVE  Told'
<1>1. /\ record' = record /\ run[r].pc = "risk" /\ run[r] \in State
      /\ run[r].chief \in {"BUY", "SELL"}
  BY DEF Risk, files, IInv, TypeInv, ShadowTypeOK
<1>2. AtRisk(run[r])
  BY <1>1 DEF Told, Tells
<1>3. PICK s, completed, aborted : s = 6 /\ completed = "COMPLETED" /\ aborted = "ABORTED"
  OBVIOUS
<1>4. \/ \E status \in RiskStatus :
            Become(r, End(Judged(SetStage(run[r], s, completed), status),
                          RiskDisposition(run[r].chief, status)))
      \/ Become(r, End(Raised(SetStage(run[r], s, aborted)), aborted))
  BY <1>3 DEF Risk, Judged, Raised
<1>5. ASSUME NEW status \in RiskStatus,
             Become(r, End(Judged(SetStage(run[r], s, completed), status),
                           RiskDisposition(run[r].chief, status)))
      PROVE  Told'
  <2>1. PICK n : n = End(Judged(SetStage(run[r], s, completed), status),
                         RiskDisposition(run[r].chief, status))
    OBVIOUS
  <2>2. Tells(n)
    BY <1>1, <1>2, <1>3, <2>1, RiskTells
  <2>. QED
    BY <1>1, <1>5, <2>1, <2>2, BecomesTold
<1>6. CASE Become(r, End(Raised(SetStage(run[r], s, aborted)), aborted))
  <2>1. PICK n : n = End(Raised(SetStage(run[r], s, aborted)), aborted)
    OBVIOUS
  <2>2. Tells(n)
    BY <1>1, <1>2, <1>3, <2>1, RiskRaisesTells
  <2>. QED
    BY <1>1, <1>6, <2>1, <2>2, BecomesTold
<1>. QED
  BY <1>4, <1>5, <1>6

LEMMA FinishTold ==
    ASSUME IInv, Told, NEW r \in Runner, Finish(r)
    PROVE  Told'
<1>1. run[r].pc = "finish" /\ run[r] \in State
  BY DEF Finish, IInv, TypeInv, ShadowTypeOK
<1>2. AtFinish(run[r])
  BY <1>1 DEF Told, Tells
<1>3. CASE Raise(r) /\ record' = record
  BY <1>3, EndsTold DEF Raise, Ended
<1>4. PICK final : final = Filled(run[r])
  OBVIOUS
<1>5. CASE record' = [record EXCEPT ![CycleOf[r]] = final] /\ Become(r, final)
  <2>1. AtFinish(final) /\ final.pc \in Ended
    BY <1>1, <1>2, <1>4, FilledTells, FilledType DEF Ended
  <2>2. Tells(final)
    BY <2>1, EndedTells
  <2>3. run'[r] = final /\ \A s \in Runner \ {r} : run'[s] = run[s]
    BY <1>5 DEF Become, IInv, TypeInv, ShadowTypeOK
  <2>4. \A s \in Runner : Tells(run'[s])
    BY <2>2, <2>3 DEF Told
  <2>5. \A y \in Cycle : record'[y] = record[y] \/ record'[y] = final
    BY <1>5 DEF IInv, TypeInv, ShadowTypeOK
  <2>6. \A y \in Cycle : record'[y] # None => AtFinish(record'[y])
    BY <2>1, <2>5 DEF Told
  <2>. QED
    BY <2>4, <2>6 DEF Told
<1>. QED
  BY <1>3, <1>4, <1>5 DEF Finish, Finalize

LEMMA InitTold == Init => Told
<1>. SUFFICES ASSUME Init PROVE Told
  OBVIOUS
<1>1. Fresh.pc = "start" /\ Blank(Fresh)
  BY DEF Fresh, Blank
<1>2. Tells(Fresh)
  BY <1>1 DEF Tells
<1>. QED
  BY <1>2 DEF Init, Told

LEMMA StepTold == IInv /\ Told /\ [Next]_vars => Told'
<1>. SUFFICES ASSUME IInv, Told, [Next]_vars PROVE Told'
  OBVIOUS
<1>1. ASSUME NEW r \in Runner, RunStep(r)
      PROVE  Told'
  BY <1>1, ClaimTold, InputsTold, AnswerTold, StageOneTold, EntryTold, ResearchTold,
     SkepticTold, ChiefFailsTold, ChiefDecidesTold, RiskTold, FinishTold DEF RunStep
<1>2. ASSUME NEW r \in Runner, FileRaises(r) \/ Stop(r)
      PROVE  Told'
  BY <1>2, EndsTold DEF FileRaises, Stop, Raise, Ended, files
<1>3. CASE UNCHANGED <<run, record>>
  BY <1>3 DEF Told
<1>4. ASSUME NEW y \in Cycle, AbandonCheck(y) \/ Abandon(y)
      PROVE  Told'
  BY <1>3, <1>4 DEF AbandonCheck, Abandon
<1>. QED
  BY <1>1, <1>2, <1>3, <1>4 DEF Next, vars

\* Two outputs of the first stage are of two roles.
LEMMA TwoHeard ==
    ASSUME NEW state, First(state) \subseteq FirstOutput, TwoOf(First(state)), NEW heard,
           heard = {role \in StageOneRole : \E o \in state.outputs : o.role = role}
    PROVE  Cardinality(heard) >= 2
<1>1. PICK o \in First(state), p \in First(state) : o # p
  BY DEF TwoOf
<1>2. o \in FirstOutput /\ p \in FirstOutput /\ o \in state.outputs /\ p \in state.outputs
  BY DEF First
<1>3. o.role # p.role /\ o.role \in StageOneRole /\ p.role \in StageOneRole
  BY <1>1, <1>2 DEF FirstOutput
<1>4. o.role \in heard /\ p.role \in heard
  BY <1>2, <1>3
<1>5. TwoOf(heard)
  BY <1>3, <1>4 DEF TwoOf
<1>6. IsFiniteSet(heard)
  <2>1. heard \subseteq {"MARKET_CONTEXT"} \cup {"TREND_ANALYST"} \cup {"PRICE_ACTION_ANALYST"}
    BY DEF StageOneRole
  <2>2. IsFiniteSet({"MARKET_CONTEXT"} \cup {"TREND_ANALYST"} \cup {"PRICE_ACTION_ANALYST"})
    BY FS_Singleton, FS_Union
  <2>. QED
    BY <2>1, <2>2, FS_Subset
<1>. QED
  BY <1>5, <1>6, TwoElements

\* Every behaviour keeps what the states of the calls and the records tell.
THEOREM TellsAlways == Spec => []Told
<1>1. IInv /\ Told /\ [Next]_vars => Told'
  BY StepTold
<1>. QED
  BY InitTold, <1>1, Invariant, PTL DEF Spec

\* The record that run_shadow_cycle finalizes tells what happened: what its stages
\* and its disposition rest on was heard, in the last round and in the first, and
\* nothing follows a stage that ended the cycle, whatever the agents answer.
THEOREM RecordsTellTheTruth == Spec => []RecordIsTrue
<1>1. ASSUME IInv, Told, NEW y \in Cycle, record[y] # None
      PROVE  LET rec == record[y]
                 said(role, round) == [role |-> role, round |-> round] \in rec.outputs
                 heard(role) == \E o \in rec.outputs : o.role = role
                 stageOne == Cardinality({role \in StageOneRole : heard(role)})
                 done(s) == rec.stages[s] \in {"COMPLETED", "DEGRADED"}
             IN  /\ done(1) => stageOne >= 2
                 /\ done(2) => heard("ENTRY_ANALYST")
                 /\ done(4) => heard("SKEPTIC")
                 /\ done(5) => heard("CHIEF_TRADER")
                 /\ done(6) => rec.risk # None
                 /\ \A s, t \in Stage : s < t /\ rec.stages[s] \in {"HOLD", "ABORTED"} =>
                       rec.stages[t] = "SKIPPED"
                 /\ rec.disposition \in {"WOULD_BUY", "WOULD_SELL"} =>
                       /\ stageOne >= 2 /\ said("ENTRY_ANALYST", 0)
                       /\ said("SKEPTIC", Rounds) /\ said("CHIEF_TRADER", Rounds)
                       /\ Len(rec.chiefs) = Rounds /\ rec.chiefs[Rounds] = rec.chief
                       /\ rec.disposition = IF rec.chief = "BUY" THEN "WOULD_BUY" ELSE "WOULD_SELL"
                       /\ rec.risk = "APPROVED"
                       /\ \A f \in rec.failures : f.category \in {"TIMEOUT", "UNAVAILABLE_AGENT"}
  <2>1. PICK rec : rec = record[y]
    OBVIOUS
  <2>2. AtFinish(rec) /\ \A s \in Stage : rec.stages[s] # None
    BY <1>1, <2>1 DEF Told, IInv, TypeInv, ShadowTypeOK
  <2>3. TellsTrue(rec)
    BY <2>2 DEF AtFinish
  <2>4. PICK heard : heard = {role \in StageOneRole : \E o \in rec.outputs : o.role = role}
    OBVIOUS
  <2>5. TwoOf(First(rec)) => Cardinality(heard) >= 2
    BY <2>3, <2>4, TwoHeard DEF TellsTrue
  <2>6. \A s, t \in Stage : s < t /\ rec.stages[s] \in {"HOLD", "ABORTED"} =>
           rec.stages[t] = "SKIPPED"
    BY <2>2, <2>3 DEF TellsTrue
  <2>. QED
    BY <2>1, <2>3, <2>4, <2>5, <2>6 DEF TellsTrue, Done, Said
<1>2. IInv /\ Told => RecordIsTrue
  BY <1>1 DEF RecordIsTrue
<1>. QED
  BY <1>2, Invariant, TellsAlways, PTL

\* The disposition of every recorded failure, and the one of the record, are those
\* AgentFailurePolicy gives, though the cycle computes them in other ways.
THEOREM FailuresHaveDecided == Spec => []FailuresDecide
<1>1. ASSUME IInv, Told, NEW y \in Cycle, record[y] # None
      PROVE  LET rec == record[y]
                 successes == Cardinality({o \in rec.outputs : o.role \in StageOneRole})
                 demands == {Resolve(f.category, f.role, successes) : f \in rec.failures}
             IN  /\ \A f \in rec.failures : f.disposition = Resolve(f.category, f.role, successes)
                 /\ rec.disposition = "ABORTED" <=> "ABORT_CYCLE" \in demands
                 /\ rec.disposition = "POLICY_HOLD" <=>
                       "HOLD" \in demands /\ "ABORT_CYCLE" \notin demands
  <2>1. PICK rec : rec = record[y]
    OBVIOUS
  <2>2. PICK k : k = Cardinality({o \in rec.outputs : o.role \in StageOneRole})
    OBVIOUS
  <2>3. Decides(rec, k)
    BY <1>1, <2>1, <2>2 DEF Told, AtFinish, First
  <2>4. PICK demands : demands = {Resolve(f.category, f.role, k) : f \in rec.failures}
    OBVIOUS
  <2>5. \A f \in rec.failures : f.disposition = Resolve(f.category, f.role, k)
    BY <2>3 DEF Decides
  <2>6. \A d : d \in demands <=> \E f \in rec.failures : f.disposition = d
    BY <2>4, <2>5
  <2>. QED
    BY <2>1, <2>2, <2>3, <2>4, <2>5, <2>6 DEF Decides
<1>2. IInv /\ Told => FailuresDecide
  BY <1>1 DEF FailuresDecide
<1>. QED
  BY <1>2, Invariant, TellsAlways, PTL
=============================================================================
