-------------------------- MODULE ShadowObservation --------------------------
(***************************************************************************)
(* The M9 continuous SHADOW observation: ContinuousShadowRuntime over       *)
(* SQLiteObservationRepository.                                             *)
(*                                                                         *)
(* The runtimes of one process share one repository and one event loop:     *)
(* a runtime gives way to another only between two calls and while it       *)
(* awaits a SHADOW cycle.  A step is the code up to the next write of the   *)
(* file, so a crash, or a write that raises and is undone, can come         *)
(* between any two of them.  Time is counted in M15 candles: candle <<s, k>>*)
(* of symbol s closes at time k.  Left out is what only health() reports    *)
(* (counts, times, the last failure), and so the polls that do nothing      *)
(* else: one while another is in flight (BACKPRESSURE) and one whose        *)
(* discovery fails.                                                         *)
(***************************************************************************)
EXTENDS Naturals, FiniteSets

CONSTANTS
    Runtime,        \* the ContinuousShadowRuntime objects of the process
    Symbol,
    SymbolOf,       \* the symbol of each runtime
    SnapshotId,     \* snapshot identities the snapshot service may return
    Lookback,       \* discovery_lookback
    MaxAge,         \* maximum_decision_age_seconds, at most 900, in candles
    MaxTime,        \* bound on time
    MaxFaults,      \* bound on writes that raise
    MaxCrashes,     \* bound on crashes
    None            \* no value

ASSUME ObservationAssumption ==
    /\ SymbolOf \in [Runtime -> Symbol]
    /\ Lookback \in Nat \ {0}
    /\ MaxAge \in 0..1
    /\ MaxTime \in Nat
    /\ MaxFaults \in Nat
    /\ MaxCrashes \in Nat
    /\ None \notin SnapshotId
    /\ None \notin Symbol \X (1..MaxTime)

VARIABLES
    now,            \* the last candle close that has passed
    claims,         \* claims[c]: the row of candle c in m9_claims
    decisions,      \* decisions[c]: its row in m9_decisions
    runtime,        \* runtime[r]: the fields of r and where its call stands
    dispatched,     \* dispatched[c]: how often a SHADOW cycle was asked for c
    faults, crashes \* how many there were

vars == <<now, claims, decisions, runtime, dispatched, faults, crashes>>

Candle == Symbol \X (1..MaxTime)

\* DecisionClaimState.
Unfinished == {"DISCOVERED", "CLAIMED", "PROCESSING"}
Open == {"CLAIMED", "PROCESSING"}
Terminal == {"COMPLETED", "FAILED", "MISSED", "ABANDONED"}
Claim == [state : {"NONE"} \cup Unfinished \cup Terminal, snapshot : SnapshotId \cup {None}]

\* M9DecisionDisposition, with the ObservationFailureCategory of a failed decision: what a
\* check of its inputs found, or PROVIDER_RUNTIME_FAILURE for any other exception.
FailCategory == {"INPUT", "PROVIDER_RUNTIME_FAILURE"}

Record ==
    [disposition : {"SHADOW_RECORDED", "POLICY_HOLD"}, category : {None},
     snapshot : SnapshotId \cup {None}]
    \cup [disposition : {"FAILED"}, category : FailCategory, snapshot : SnapshotId \cup {None}]

ASSUME NoneAssumption == None \notin Record

RuntimeState ==
    {"STOPPED", "STARTING", "READY", "POLLING", "PROCESSING", "STOPPING", "FAULTED"}

PC == {"idle", "recover", "missed", "miss", "discover", "claim", "snapshot", "bind",
       "preflight", "mark", "cycle", "append", "terminal", "finally"}

\* todo: the candles still to abandon or to mark MISSED.  candle: the one to process.
\* guarded: whether an exception is still caught by the try of _process.
RuntimeRecord ==
    [state : RuntimeState, processing : BOOLEAN, shutdown : BOOLEAN,
     pc : PC, todo : SUBSET Candle, candle : Candle \cup {None},
     snapshot : SnapshotId \cup {None}, stale : BOOLEAN,
     record : Record \cup {None}, guarded : BOOLEAN]

Stopped ==
    [state |-> "STOPPED", processing |-> FALSE, shutdown |-> FALSE,
     pc |-> "idle", todo |-> {}, candle |-> None,
     snapshot |-> None, stale |-> FALSE, record |-> None, guarded |-> FALSE]

Init ==
    /\ now = 0
    /\ claims = [c \in Candle |-> [state |-> "NONE", snapshot |-> None]]
    /\ decisions = [c \in Candle |-> None]
    /\ runtime = [r \in Runtime |-> Stopped]
    /\ dispatched = [c \in Candle |-> 0]
    /\ faults = 0 /\ crashes = 0

-----------------------------------------------------------------------------
(* How a call goes on *)

\* Nobody else is between two awaits, so r has the event loop.
Turn(r) == \A q \in Runtime \ {r} : runtime[q].pc \in {"idle", "cycle"}

At(r, pc) == runtime[r].pc = pc /\ Turn(r)

Become(r, me) == runtime' = [runtime EXCEPT ![r] = me]

\* The working fields of a call are its local variables: they end with it.
Idle(me) ==
    [me EXCEPT !.pc = "idle", !.todo = {}, !.candle = None,
               !.snapshot = None, !.stale = FALSE, !.record = None, !.guarded = FALSE]

\* _hold and _fail_claim up to their first write: a record to append.  caught says
\* whether they run inside the try of _process or in one of its handlers.
Hold(me, caught) ==
    [me EXCEPT !.pc = "append", !.guarded = caught,
               !.record = [disposition |-> "POLICY_HOLD", category |-> None,
                           snapshot |-> me.snapshot]]

FailClaim(me, category) ==
    [me EXCEPT !.pc = "append", !.guarded = FALSE,
               !.record = [disposition |-> "FAILED", category |-> category,
                           snapshot |-> claims[me.candle].snapshot]]

\* An exception that no except clause of _process names.
Raise(me) ==
    IF me.guarded THEN FailClaim(me, "PROVIDER_RUNTIME_FAILURE")
    ELSE [me EXCEPT !.pc = "finally"]

\* As Settling, but an abandoned claim may still be settled.
SettlingLate == Unfinished \cup {"ABANDONED"}

\* The states mark_terminal leaves.
Settling == Unfinished

\* _transition and mark_terminal: the claim of c moves on to state and r goes on as me,
\* or, the claim being in none of the states expected, a ValueError is raised.
Move(r, c, expected, state, me) ==
    IF claims[c].state \in expected
    THEN claims' = [claims EXCEPT ![c].state = state] /\ Become(r, me)
    ELSE UNCHANGED claims /\ Become(r, Raise(runtime[r]))

-----------------------------------------------------------------------------
(* start, shutdown *)

StartIneligible(r) ==
    /\ At(r, "idle") /\ runtime[r].state = "STOPPED"
    /\ Become(r, [runtime[r] EXCEPT !.state = "FAULTED"])
    /\ UNCHANGED <<now, claims, decisions, dispatched, faults, crashes>>

\* recover_incomplete reads the claims once and then abandons them one by one.
StartFrom(r, states) ==
    /\ At(r, "idle") /\ runtime[r].state = "STOPPED"
    /\ Become(r, [runtime[r] EXCEPT !.state = "STARTING", !.pc = "recover",
                                    !.todo = {c \in Candle : claims[c].state \in states}])
    /\ UNCHANGED <<now, claims, decisions, dispatched, faults, crashes>>

Start(r) == StartFrom(r, Open)

\* As Recover, but the claims are given back.
RecoverReleases(r) ==
    /\ At(r, "recover")
    /\ \E c \in runtime[r].todo :
          Move(r, c, Settling, "NONE", [runtime[r] EXCEPT !.todo = @ \ {c}])
    /\ UNCHANGED <<now, decisions, dispatched, faults, crashes>>

Recover(r) ==
    /\ At(r, "recover")
    /\ \E c \in runtime[r].todo :
          Move(r, c, Settling, "ABANDONED", [runtime[r] EXCEPT !.todo = @ \ {c}])
    /\ UNCHANGED <<now, decisions, dispatched, faults, crashes>>

Started(r) ==
    /\ At(r, "recover") /\ runtime[r].todo = {}
    /\ Become(r, [Idle(runtime[r]) EXCEPT !.state = "READY", !.shutdown = FALSE])
    /\ UNCHANGED <<now, claims, decisions, dispatched, faults, crashes>>

Shutdown(r) ==
    /\ Turn(r) /\ runtime[r].pc \in {"idle", "cycle"} /\ runtime[r].state # "STOPPED"
    /\ Become(r, [runtime[r] EXCEPT !.shutdown = TRUE,
                                    !.state = IF runtime[r].processing THEN "STOPPING"
                                              ELSE "STOPPED"])
    /\ UNCHANGED <<now, claims, decisions, dispatched, faults, crashes>>

-----------------------------------------------------------------------------
(* poll_once *)

\* The candles discovery returns that have no claim.
Eligible(s) ==
    {c \in Candle : c[1] = s /\ c[2] <= now /\ now < c[2] + Lookback /\ claims[c].state = "NONE"}

Timely(c) == now - c[2] <= MaxAge

Newest(candles) == CHOOSE c \in candles : \A d \in candles : d[2] <= c[2]
Oldest(candles) == CHOOSE c \in candles : \A d \in candles : c[2] <= d[2]

\* Of the candles without a claim the newest timely one is processed, all the others
\* are missed.
Poll(r) ==
    LET eligible == Eligible(SymbolOf[r])
        timely == {c \in eligible : Timely(c)}
        chosen == IF timely = {} THEN None ELSE Newest(timely)
    IN  /\ At(r, "idle") /\ runtime[r].state = "READY"
        /\ Become(r, [runtime[r] EXCEPT !.state = "POLLING", !.processing = TRUE,
                                        !.pc = "missed",
                                        !.todo = eligible \ {chosen}, !.candle = chosen])
        /\ UNCHANGED <<now, claims, decisions, dispatched, faults, crashes>>

\* discover: a claim that is there already is left as it is.
Discovered(c) ==
    claims' = [claims EXCEPT ![c].state = IF @ = "NONE" THEN "DISCOVERED" ELSE @]

\* _record_missed, its first write, and the end of the candles to miss.
MissedDiscover(r) ==
    /\ At(r, "missed") /\ runtime[r].todo # {}
    /\ Discovered(Oldest(runtime[r].todo))
    /\ Become(r, [runtime[r] EXCEPT !.pc = "miss"])
    /\ UNCHANGED <<now, decisions, dispatched, faults, crashes>>

MissedDone(r) ==
    /\ At(r, "missed") /\ runtime[r].todo = {}
    /\ Become(r, [runtime[r] EXCEPT
                     !.pc = IF runtime[r].candle = None THEN "finally" ELSE "discover"])
    /\ UNCHANGED <<now, claims, decisions, dispatched, faults, crashes>>

MissedTerminal(r) ==
    LET c == Oldest(runtime[r].todo)
    IN  /\ At(r, "miss")
        /\ Move(r, c, Settling, "MISSED",
                [runtime[r] EXCEPT !.pc = "missed", !.todo = @ \ {c}])
        /\ UNCHANGED <<now, decisions, dispatched, faults, crashes>>

-----------------------------------------------------------------------------
(* _process *)

DiscoverCandle(r) ==
    /\ At(r, "discover")
    /\ Discovered(runtime[r].candle)
    /\ Become(r, [runtime[r] EXCEPT !.pc = "claim"])
    /\ UNCHANGED <<now, decisions, dispatched, faults, crashes>>

ClaimCandle(r) ==
    /\ At(r, "claim")
    /\ Move(r, runtime[r].candle, {"DISCOVERED"}, "CLAIMED",
            [runtime[r] EXCEPT !.pc = "snapshot", !.state = "PROCESSING", !.guarded = TRUE])
    /\ UNCHANGED <<now, decisions, dispatched, faults, crashes>>

\* build_snapshot and _validate_snapshot.
Snapshot(r) ==
    /\ At(r, "snapshot")
    /\ \/ \E id \in SnapshotId, stale \in BOOLEAN :
             Become(r, [runtime[r] EXCEPT !.pc = "bind", !.snapshot = id, !.stale = stale])
       \/ \E why \in FailCategory : Become(r, FailClaim(runtime[r], why))
    /\ UNCHANGED <<now, claims, decisions, dispatched, faults, crashes>>

Bound == {claims[c].snapshot : c \in Candle} \ {None}

\* As Conflicts, but the identities bound before are not asked.
ConflictsNever(id) == FALSE

Conflicts(id) == id \in Bound

BindSnapshot(r) ==
    LET me == runtime[r]
        ok == claims[me.candle].state = "CLAIMED" /\ ~Conflicts(me.snapshot)
    IN  /\ At(r, "bind")
        /\ claims' = IF ok THEN [claims EXCEPT ![me.candle].snapshot = me.snapshot] ELSE claims
        /\ Become(r, IF claims[me.candle].state # "CLAIMED" THEN Raise(me)
                     ELSE IF ~ok THEN FailClaim(me, "INPUT")
                     ELSE IF me.stale THEN Hold(me, TRUE)
                     ELSE [me EXCEPT !.pc = "preflight"])
        /\ UNCHANGED <<now, decisions, dispatched, faults, crashes>>

\* The risk context, the features, the agents' view and the providers' eligibility.
Preflight(r) ==
    /\ At(r, "preflight")
    /\ \/ Become(r, [runtime[r] EXCEPT !.pc = "mark"])
       \/ Become(r, Hold(runtime[r], FALSE))
       \/ \E why \in FailCategory : Become(r, FailClaim(runtime[r], why))
    /\ UNCHANGED <<now, claims, decisions, dispatched, faults, crashes>>

\* mark_processing, and run_shadow_cycle is called.
MarkProcessing(r) ==
    LET c == runtime[r].candle
    IN  /\ At(r, "mark")
        /\ Move(r, c, {"CLAIMED"}, "PROCESSING", [runtime[r] EXCEPT !.pc = "cycle"])
        /\ dispatched' = IF claims[c].state = "CLAIMED" THEN [dispatched EXCEPT ![c] = @ + 1]
                         ELSE dispatched
        /\ UNCHANGED <<now, decisions, faults, crashes>>

\* The awaited cycle returns its record or raises.
CycleEnds(r) ==
    /\ At(r, "cycle")
    /\ \/ Become(r, [runtime[r] EXCEPT !.pc = "append",
                        !.record = [disposition |-> "SHADOW_RECORDED", category |-> None,
                                    snapshot |-> runtime[r].snapshot]])
       \/ Become(r, FailClaim(runtime[r], "PROVIDER_RUNTIME_FAILURE"))
    /\ UNCHANGED <<now, claims, decisions, dispatched, faults, crashes>>

\* The task that awaits it is cancelled: no except clause catches that.
CycleCancelled(r) ==
    /\ At(r, "cycle")
    /\ Become(r, [runtime[r] EXCEPT !.pc = "finally"])
    /\ UNCHANGED <<now, claims, decisions, dispatched, faults, crashes>>

\* As Append, but a record that is there already is no error.
AppendOnce(r) ==
    LET me == runtime[r]
    IN  /\ At(r, "append")
        /\ decisions' = [decisions EXCEPT ![me.candle] = IF @ = None THEN me.record ELSE @]
        /\ Become(r, [me EXCEPT !.pc = "terminal"])
        /\ UNCHANGED <<now, claims, dispatched, faults, crashes>>

Append(r) ==
    LET me == runtime[r]
        ok == decisions[me.candle] = None
    IN  /\ At(r, "append")
        /\ decisions' = IF ok THEN [decisions EXCEPT ![me.candle] = me.record] ELSE decisions
        /\ Become(r, IF ok THEN [me EXCEPT !.pc = "terminal"] ELSE Raise(me))
        /\ UNCHANGED <<now, claims, dispatched, faults, crashes>>

MarkTerminal(r) ==
    LET me == runtime[r]
        state == IF me.record.disposition = "FAILED" THEN "FAILED" ELSE "COMPLETED"
    IN  /\ At(r, "terminal")
        /\ Move(r, me.candle, Settling, state, [me EXCEPT !.pc = "finally"])
        /\ UNCHANGED <<now, decisions, dispatched, faults, crashes>>

\* As Finally, but a shutdown during the call is forgotten.
FinallyReady(r) ==
    /\ At(r, "finally")
    /\ Become(r, [Idle(runtime[r]) EXCEPT !.processing = FALSE, !.state = "READY"])
    /\ UNCHANGED <<now, claims, decisions, dispatched, faults, crashes>>

\* The finally of poll_once.
Finally(r) ==
    /\ At(r, "finally")
    /\ Become(r, [Idle(runtime[r]) EXCEPT !.processing = FALSE,
                     !.state = IF runtime[r].shutdown THEN "STOPPED" ELSE "READY"])
    /\ UNCHANGED <<now, claims, decisions, dispatched, faults, crashes>>

\* A write raises and has been undone, in memory and in the file.  start leaves its
\* state behind; the others go on as their exception is caught.
WriteFails(r) ==
    /\ faults < MaxFaults
    /\ Turn(r)
    /\ \/ /\ runtime[r].pc = "recover" /\ runtime[r].todo # {}
          /\ Become(r, Idle(runtime[r]))
       \/ /\ \/ runtime[r].pc \in {"miss", "discover", "claim", "bind", "mark", "append", "terminal"}
             \/ runtime[r].pc = "missed" /\ runtime[r].todo # {}
          /\ Become(r, Raise(runtime[r]))
    /\ faults' = faults + 1
    /\ UNCHANGED <<now, claims, decisions, dispatched, crashes>>

-----------------------------------------------------------------------------
(* The world *)

\* The process ends and begins anew: the file is what _load reads.
Crash ==
    /\ crashes < MaxCrashes
    /\ \E r \in Runtime : runtime[r] # Stopped
    /\ runtime' = [r \in Runtime |-> Stopped]
    /\ crashes' = crashes + 1
    /\ UNCHANGED <<now, claims, decisions, dispatched, faults>>

Tick ==
    /\ now < MaxTime
    /\ now' = now + 1
    /\ UNCHANGED <<claims, decisions, runtime, dispatched, faults, crashes>>

\* A step that the event loop takes by itself once a call has begun.
Step(r) ==
    \/ Recover(r) \/ Started(r)
    \/ MissedDiscover(r) \/ MissedDone(r) \/ MissedTerminal(r)
    \/ DiscoverCandle(r) \/ ClaimCandle(r) \/ Snapshot(r) \/ BindSnapshot(r)
    \/ Preflight(r) \/ MarkProcessing(r) \/ CycleEnds(r)
    \/ Append(r) \/ MarkTerminal(r) \/ Finally(r)

Next ==
    \/ \E r \in Runtime :
          \/ StartIneligible(r) \/ Start(r) \/ Shutdown(r)
          \/ Poll(r) \/ CycleCancelled(r) \/ WriteFails(r) \/ Step(r)
    \/ Crash \/ Tick

Spec == Init /\ [][Next]_vars

\* The event loop comes back to every call that can go on again and again, however
\* often other calls have their turn first, and a SHADOW cycle ends.
FairSpec == Spec /\ \A r \in Runtime : SF_vars(Step(r))
-----------------------------------------------------------------------------
(* Properties *)

\* The fields of the runtimes and the rows of the repository have their types.
ObservationTypeOK ==
    /\ now \in 0..MaxTime
    /\ claims \in [Candle -> Claim]
    /\ decisions \in [Candle -> Record \cup {None}]
    /\ runtime \in [Runtime -> RuntimeRecord]
    /\ dispatched \in [Candle -> Nat]
    /\ faults \in 0..MaxFaults
    /\ crashes \in 0..MaxCrashes

\* A candle's SHADOW cycle is asked for at most once, whatever restarts, repeated
\* polls and other runtimes there are (poll_once: "repeated candles never redispatch").
NeverRedispatched == \A c \in Candle : dispatched[c] <= 1

\* A settled claim has the record that settles it and an ended one that never began has
\* none; between the two writes of _hold, _fail_claim and _process only a claim that is
\* still open, or that a start has abandoned, can have a record of its own
\* (append_decision and mark_terminal are two transactions).  A POLICY_HOLD, and a failure
\* of the snapshot or of the features, is recorded only for a candle no agent was asked
\* about, a SHADOW record only for one whose cycle was run (README: "typed policy HOLD
\* records with zero provider dispatch").
ClaimsMatchRecords ==
    \A c \in Candle :
        LET state == claims[c].state
        IN  /\ state = "COMPLETED" => /\ decisions[c] # None
                                      /\ decisions[c].disposition # "FAILED"
            /\ state = "FAILED" => decisions[c] # None /\ decisions[c].disposition = "FAILED"
            /\ state \in {"NONE", "DISCOVERED", "MISSED"} => decisions[c] = None
            /\ decisions[c] # None =>
                  LET record == decisions[c]
                  IN  /\ record.disposition = "SHADOW_RECORDED" => dispatched[c] = 1
                      /\ \/ record.disposition = "POLICY_HOLD"
                         \/ record.disposition = "FAILED" /\ record.category = "INPUT"
                         => dispatched[c] = 0

\* decision_key -> cycle_id -> snapshot_id: no snapshot is bound to two candles, and a
\* record quotes the snapshot its claim is bound to (bind_snapshot undoes both of its
\* changes when the file refuses it).
IdentityChain ==
    /\ \A c, d \in Candle : claims[c].snapshot = claims[d].snapshot =>
          c = d \/ claims[c].snapshot = None
    /\ \A c \in Candle : decisions[c] # None => decisions[c].snapshot = claims[c].snapshot

\* What is settled stays so: a terminal claim and a decision record never change again.
SettledStays ==
    [][\A c \in Candle :
          /\ claims[c].state \in Terminal => claims'[c] = claims[c]
          /\ decisions[c] # None => decisions'[c] = decisions[c]]_vars

\* A runtime that was asked to stop stops, and a call that has begun ends, also when its
\* cycle is in flight at the shutdown (M9_PLAN: "lets an already awaited poll reach one
\* persisted terminal state").
PollsEnd ==
    \A r \in Runtime :
        /\ runtime[r].state = "STOPPING" ~> runtime[r].state = "STOPPED"
        /\ runtime[r].processing ~> ~runtime[r].processing

=============================================================================
