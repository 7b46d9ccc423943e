---------------------- MODULE ShadowObservation_proofs ----------------------
(***************************************************************************)
(* Proofs about ShadowObservation, for any number of runtimes, symbols and  *)
(* snapshots and any bounds.                                                *)
(*                                                                         *)
(* A claim only goes forward, and everything between a claim and the        *)
(* awaited cycle happens in one turn of the event loop.  So a call that     *)
(* still has to process its candle finds the claim CLAIMED and nothing      *)
(* recorded, and a call that awaits its cycle finds that others have at     *)
(* most abandoned the claim.                                                *)
(***************************************************************************)
EXTENDS ShadowObservation, WellFoundedInduction, TLAPS

Early == {"NONE", "DISCOVERED", "CLAIMED"}
Undecided == {"NONE", "DISCOVERED", "MISSED"}

\* The rows of one candle; cl, de and di stand for claims, decisions and dispatched.
RecordFits(record, c, cl, di) ==
    /\ record.snapshot = cl[c].snapshot
    /\ record.disposition = "SHADOW_RECORDED" => di[c] = 1
    /\ record.disposition # "SHADOW_RECORDED" =>
          (record.disposition = "FAILED" /\ record.category = "PROVIDER_RUNTIME_FAILURE") \/ di[c] = 0

RowOK(c, cl, de, di) ==
    /\ di[c] <= 1
    /\ cl[c].state \in Early => di[c] = 0
    /\ cl[c].state = "COMPLETED" => de[c] # None /\ de[c].disposition # "FAILED"
    /\ cl[c].state = "FAILED" => de[c] # None /\ de[c].disposition = "FAILED"
    /\ cl[c].state \in Undecided => de[c] = None
    /\ de[c] # None => RecordFits(de[c], c, cl, di)

Distinct(cl) ==
    \A c, d \in Candle : cl[c].snapshot = cl[d].snapshot => c = d \/ cl[c].snapshot = None

\* The places at which a call processes a claim it has made.
Working == {"snapshot", "bind", "preflight", "mark", "cycle", "append", "terminal"}

\* What a call in state me can rely on.
CallOK(me, cl, de, di) ==
    /\ me.pc \in {"discover", "claim"} \cup Working => me.candle \in Candle
    /\ me.guarded => me.pc \in {"finally"} \cup Working
    /\ me.pc = "miss" => me.todo # {}
    /\ me.pc \in {"missed", "miss"} => \A c \in me.todo : cl[c].state \in {"NONE", "DISCOVERED"}
    /\ me.pc \in {"snapshot", "bind", "preflight", "mark"} =>
          cl[me.candle].state = "CLAIMED" /\ de[me.candle] = None
    /\ me.pc \in {"preflight", "mark", "cycle"} => cl[me.candle].snapshot = me.snapshot
    /\ me.pc = "cycle" => cl[me.candle].state \notin Early \cup Undecided /\ di[me.candle] = 1
    /\ me.pc \in {"append", "terminal"} =>
          /\ me.record \in Record
          /\ cl[me.candle].state \notin Undecided
          /\ RecordFits(me.record, me.candle, cl, di)
    /\ me.pc = "terminal" => de[me.candle] = me.record

OneTurn ==
    \A q, r \in Runtime : q # r => runtime[q].pc \in {"idle", "cycle"}
                                   \/ runtime[r].pc \in {"idle", "cycle"}

RowTypes(cl, de, di) ==
    /\ cl \in [Candle -> Claim]
    /\ de \in [Candle -> Record \cup {None}]
    /\ di \in [Candle -> Nat]

Rows(cl, de, di) ==
    /\ RowTypes(cl, de, di)
    /\ Distinct(cl)
    /\ \A c \in Candle : RowOK(c, cl, de, di)

Counters ==
    now \in 0..MaxTime /\ faults \in 0..MaxFaults /\ crashes \in 0..MaxCrashes

IInv ==
    /\ Counters
    /\ Rows(claims, decisions, dispatched)
    /\ runtime \in [Runtime -> RuntimeRecord]
    /\ OneTurn
    /\ \A r \in Runtime : CallOK(runtime[r], claims, decisions, dispatched)

-----------------------------------------------------------------------------
(* Newest and Oldest                                                       *)

LEMMA Least ==
    ASSUME NEW S \in SUBSET Nat, S # {}
    PROVE  \E n \in S : \A m \in S : n <= m
<1>1. PICK n \in S : \A m \in S : ~ (<<m, n>> \in OpToRel(<, Nat))
  BY NatLessThanWellFounded, WFMin, Zenon
<1>2. \A m \in S : ~ (m < n)
  BY <1>1 DEF OpToRel
<1>. QED
  BY <1>2

\* Of some candles there is an oldest one.
LEMMA OldestIsOne ==
    ASSUME NEW S \in SUBSET Candle, S # {}
    PROVE  Oldest(S) \in S
<1>1. \A c \in S : c[2] \in Nat
  BY ObservationAssumption DEF Candle
<1>. DEFINE T == {c[2] : c \in S}
<1>2. T \in SUBSET Nat /\ T # {}
  BY <1>1
<1>3. \E n \in T : \A m \in T : n <= m
  <2>. HIDE DEF T
  <2>. QED
    BY <1>2, Least
<1>4. PICK c \in S : \A d \in S : c[2] <= d[2]
  BY <1>3
<1>. QED
  BY <1>4 DEF Oldest

\* And a newest one.
LEMMA NewestIsOne ==
    ASSUME NEW S \in SUBSET Candle, S # {}
    PROVE  Newest(S) \in S
<1>1. \A c \in S : c[2] \in Nat /\ c[2] <= MaxTime
  BY ObservationAssumption DEF Candle
<1>. DEFINE T == {MaxTime - c[2] : c \in S}
<1>2. T \in SUBSET Nat /\ T # {}
  BY <1>1, ObservationAssumption
<1>3. \E n \in T : \A m \in T : n <= m
  <2>. HIDE DEF T
  <2>. QED
    BY <1>2, Least
<1>4. PICK c \in S : \A d \in S : MaxTime - c[2] <= MaxTime - d[2]
  BY <1>3
<1>5. \A d \in S : d[2] <= c[2]
  BY <1>1, <1>4, ObservationAssumption
<1>. QED
  BY <1>5 DEF Newest

-----------------------------------------------------------------------------
(* Steps of a call                                                         *)

\* Nothing that a call awaiting its cycle relies on changes.
Awaited(cl, di, cl2, di2) ==
    \A c \in Candle : cl[c].state \notin Early \cup Undecided =>
        /\ cl2[c].state \notin Early \cup Undecided
        /\ cl2[c].snapshot = cl[c].snapshot
        /\ di2[c] = di[c]

\* A step of the call whose turn it is.
LEMMA StepKeeps ==
    ASSUME IInv, NEW r \in Runtime, NEW me \in RuntimeRecord, Turn(r), Become(r, me),
           Counters', Rows(claims', decisions', dispatched'),
           CallOK(me, claims', decisions', dispatched'),
           Awaited(claims, dispatched, claims', dispatched')
    PROVE  IInv'
<1>1. runtime' \in [Runtime -> RuntimeRecord] /\ runtime'[r] = me
  BY DEF IInv, Become
<1>2. \A q \in Runtime \ {r} : runtime'[q] = runtime[q] /\ runtime[q].pc \in {"idle", "cycle"}
  BY DEF IInv, Become, Turn
<1>3. OneTurn'
  BY <1>1, <1>2 DEF OneTurn
<1>4. ASSUME NEW q \in Runtime PROVE CallOK(runtime'[q], claims', decisions', dispatched')
  <2>1. CASE q = r
    BY <2>1, <1>1
  <2>2. CASE q # r
    <3>1. runtime'[q] = runtime[q] /\ runtime[q].pc \in {"idle", "cycle"}
      BY <1>2, <2>2
    <3>2. CallOK(runtime[q], claims, decisions, dispatched)
      BY DEF IInv
    <3>. QED
      BY <3>1, <3>2 DEF CallOK, Awaited, Working
  <2>. QED
    BY <2>1, <2>2
<1>. QED
  BY <1>1, <1>3, <1>4 DEF IInv

\* A step that writes nothing.
LEMMA LocalKeeps ==
    ASSUME IInv, NEW r \in Runtime, NEW me \in RuntimeRecord, Turn(r), Become(r, me),
           Counters', UNCHANGED <<claims, decisions, dispatched>>,
           CallOK(me, claims, decisions, dispatched)
    PROVE  IInv'
<1>1. claims' = claims /\ decisions' = decisions /\ dispatched' = dispatched
  OBVIOUS
<1>2. Rows(claims', decisions', dispatched') /\ CallOK(me, claims', decisions', dispatched')
  BY <1>1 DEF IInv
<1>3. Awaited(claims, dispatched, claims', dispatched')
  BY <1>1 DEF Awaited
<1>. QED
  BY <1>2, <1>3, StepKeeps

\* What a call has at any step.
LEMMA Me ==
    ASSUME IInv, NEW r \in Runtime
    PROVE  runtime[r] \in RuntimeRecord /\ CallOK(runtime[r], claims, decisions, dispatched)
BY DEF IInv

\* _fail_claim and _hold begin with a record that fits.
LEMMA FailClaimOK ==
    ASSUME IInv, NEW me \in RuntimeRecord, me.candle \in Candle,
           claims[me.candle].state \notin Undecided, NEW category \in FailCategory,
           category = "INPUT" => dispatched[me.candle] = 0
    PROVE  /\ FailClaim(me, category) \in RuntimeRecord
           /\ CallOK(FailClaim(me, category), claims, decisions, dispatched)
<1>. DEFINE record == [disposition |-> "FAILED", category |-> category,
                       snapshot |-> claims[me.candle].snapshot]
            n == FailClaim(me, category)
<1>1. claims[me.candle].snapshot \in SnapshotId \cup {None}
  BY DEF IInv, Rows, RowTypes, Claim
<1>2. record \in Record
  BY <1>1 DEF Record
<1>3. /\ n \in RuntimeRecord /\ n.pc = "append" /\ n.candle = me.candle /\ n.guarded = FALSE
      /\ n.record = record
  BY <1>2 DEF FailClaim, RuntimeRecord, PC
<1>4. RecordFits(record, me.candle, claims, dispatched)
  BY DEF RecordFits, FailCategory
<1>. HIDE DEF n, record
<1>5. CallOK(n, claims, decisions, dispatched)
  BY <1>2, <1>3, <1>4 DEF CallOK, Working
<1>. QED
  BY <1>3, <1>5 DEF n

LEMMA HoldOK ==
    ASSUME NEW me \in RuntimeRecord, NEW caught \in BOOLEAN, me.candle \in Candle,
           NEW cl, cl[me.candle].state \notin Undecided,
           cl[me.candle].snapshot = me.snapshot, dispatched[me.candle] = 0
    PROVE  /\ Hold(me, caught) \in RuntimeRecord
           /\ CallOK(Hold(me, caught), cl, decisions, dispatched)
<1>. DEFINE record == [disposition |-> "POLICY_HOLD", category |-> None, snapshot |-> me.snapshot]
            n == Hold(me, caught)
<1>1. record \in Record
  BY DEF Record, RuntimeRecord
<1>2. /\ n \in RuntimeRecord /\ n.pc = "append" /\ n.candle = me.candle /\ n.record = record
  BY <1>1 DEF Hold, RuntimeRecord, PC
<1>3. RecordFits(record, me.candle, cl, dispatched)
  BY DEF RecordFits
<1>. HIDE DEF n, record
<1>4. CallOK(n, cl, decisions, dispatched)
  BY <1>1, <1>2, <1>3 DEF CallOK, Working
<1>. QED
  BY <1>2, <1>4 DEF n

LEMMA RaiseOK ==
    ASSUME IInv, NEW me \in RuntimeRecord, CallOK(me, claims, decisions, dispatched),
           me.pc # "finally"
    PROVE  Raise(me) \in RuntimeRecord /\ CallOK(Raise(me), claims, decisions, dispatched)
<1>1. CASE me.guarded
  <2>1. me.candle \in Candle /\ claims[me.candle].state \notin Undecided
    BY <1>1 DEF CallOK, Working, Undecided
  <2>2. "PROVIDER_RUNTIME_FAILURE" \in FailCategory /\ "PROVIDER_RUNTIME_FAILURE" # "INPUT"
    BY DEF FailCategory
  <2>. QED
    BY <1>1, <2>1, <2>2, FailClaimOK DEF Raise
<1>2. CASE ~me.guarded
  BY <1>2 DEF Raise, RuntimeRecord, CallOK, Working, PC
<1>. QED
  BY <1>1, <1>2

\* A call that raises.
LEMMA RaiseKeeps ==
    ASSUME IInv, NEW r \in Runtime, Turn(r), Become(r, Raise(runtime[r])),
           runtime[r].pc # "finally", Counters', UNCHANGED <<claims, decisions, dispatched>>
    PROVE  IInv'
<1>1. Raise(runtime[r]) \in RuntimeRecord
      /\ CallOK(Raise(runtime[r]), claims, decisions, dispatched)
  BY Me, RaiseOK
<1>. QED
  BY <1>1, LocalKeeps

\* The state of a claim changes.
LEMMA StateChange ==
    ASSUME IInv, NEW c \in Candle, NEW state \in Unfinished \cup Terminal,
           claims[c].state \in Unfinished,
           state \in Early => claims[c].state \in Early,
           state \in Undecided => claims[c].state \in Undecided,
           claims[c].state = "PROCESSING" => state \notin Early \cup Undecided,
           state = "COMPLETED" => decisions[c] # None /\ decisions[c].disposition # "FAILED",
           state = "FAILED" => decisions[c] # None /\ decisions[c].disposition = "FAILED"
    PROVE  LET cl == [claims EXCEPT ![c].state = state]
           IN  /\ Rows(cl, decisions, dispatched)
               /\ Awaited(claims, dispatched, cl, dispatched)
               /\ cl[c].state = state
               /\ \A d \in Candle \ {c} : cl[d] = claims[d]
               /\ \A d \in Candle : cl[d].snapshot = claims[d].snapshot
<1>. DEFINE cl == [claims EXCEPT ![c].state = state]
            row == [claims[c] EXCEPT !.state = state]
<1>1. claims[c] \in Claim /\ claims \in [Candle -> Claim]
  BY DEF IInv, Rows, RowTypes
<1>2. row \in Claim /\ row.state = state /\ row.snapshot = claims[c].snapshot
  BY <1>1 DEF Claim
<1>3. cl = [claims EXCEPT ![c] = row]
  BY <1>1
<1>. HIDE DEF cl, row
<1>4. cl \in [Candle -> Claim] /\ cl[c] = row /\ \A d \in Candle \ {c} : cl[d] = claims[d]
  BY <1>1, <1>2, <1>3
<1>5. \A d \in Candle : cl[d].snapshot = claims[d].snapshot
  BY <1>2, <1>4
<1>6. RowTypes(cl, decisions, dispatched) /\ Distinct(cl)
  BY <1>4, <1>5 DEF IInv, Rows, RowTypes, Distinct
<1>7. ASSUME NEW d \in Candle PROVE RowOK(d, cl, decisions, dispatched)
  <2>1. RowOK(d, claims, decisions, dispatched)
    BY DEF IInv, Rows
  <2>2. CASE d = c
    <3>1. cl[d].state = state /\ cl[d].snapshot = claims[d].snapshot
      BY <1>2, <1>4, <2>2
    <3>. QED
      BY <2>1, <2>2, <3>1 DEF RowOK, RecordFits
  <2>3. CASE d # c
    BY <1>4, <2>1, <2>3 DEF RowOK, RecordFits
  <2>. QED
    BY <2>2, <2>3
<1>8. Awaited(claims, dispatched, cl, dispatched)
  <2>1. \A d \in Candle \ {c} : cl[d] = claims[d]
    BY <1>4
  <2>2. claims[c].state \notin Early \cup Undecided => cl[c].state \notin Early \cup Undecided
    BY <1>2, <1>4 DEF Unfinished, Early, Undecided
  <2>. QED
    BY <1>5, <2>1, <2>2 DEF Awaited
<1>. QED
  BY <1>2, <1>4, <1>5, <1>6, <1>7, <1>8 DEF Rows, cl

\* _transition and mark_terminal, where the call that goes on as me finds what it needs.
LEMMA MoveKeeps ==
    ASSUME IInv, NEW r \in Runtime, Turn(r), NEW me \in RuntimeRecord, NEW c \in Candle,
           NEW expected \in SUBSET Unfinished, NEW state \in Unfinished \cup Terminal,
           Move(r, c, expected, state, me), runtime[r].pc # "finally", Counters', UNCHANGED <<decisions, dispatched>>,
           claims[c].state \in expected =>
              /\ state \in Early => claims[c].state \in Early
              /\ state \in Undecided => claims[c].state \in Undecided
              /\ claims[c].state = "PROCESSING" => state \notin Early \cup Undecided
              /\ state = "COMPLETED" => decisions[c] # None /\ decisions[c].disposition # "FAILED"
              /\ state = "FAILED" => decisions[c] # None /\ decisions[c].disposition = "FAILED",
           \A cl \in [Candle -> Claim] :
              /\ claims[c].state \in expected /\ cl[c].state = state
              /\ \A d \in Candle \ {c} : cl[d] = claims[d]
              /\ \A d \in Candle : cl[d].snapshot = claims[d].snapshot
              => CallOK(me, cl, decisions, dispatched)
    PROVE  IInv'
<1>1. decisions' = decisions /\ dispatched' = dispatched
  OBVIOUS
<1>2. CASE claims[c].state \in expected
  <2>. DEFINE cl == [claims EXCEPT ![c].state = state]
  <2>1. claims' = cl /\ Become(r, me)
    BY <1>2 DEF Move
  <2>2. /\ Rows(cl, decisions, dispatched)
        /\ Awaited(claims, dispatched, cl, dispatched)
        /\ cl[c].state = state
        /\ \A d \in Candle \ {c} : cl[d] = claims[d]
        /\ \A d \in Candle : cl[d].snapshot = claims[d].snapshot
    BY <1>2, StateChange
  <2>. HIDE DEF cl
  <2>3. CallOK(me, cl, decisions, dispatched)
    BY <1>2, <2>2 DEF Rows, RowTypes
  <2>. QED
    BY <1>1, <2>1, <2>2, <2>3, StepKeeps
<1>3. CASE claims[c].state \notin expected
  BY <1>3, RaiseKeeps DEF Move
<1>. QED
  BY <1>2, <1>3

-----------------------------------------------------------------------------
(* One lemma per action                                                    *)

LEMMA StartKeeps ==
    ASSUME IInv, NEW r \in Runtime, StartIneligible(r) \/ Start(r)
    PROVE  IInv'
<1>0. Counters' /\ UNCHANGED <<claims, decisions, dispatched>> /\ Turn(r) /\ runtime[r].pc = "idle"
  BY DEF IInv, Counters, StartIneligible, Start, StartFrom, At
<1>1. runtime[r] \in RuntimeRecord /\ CallOK(runtime[r], claims, decisions, dispatched)
  BY Me
<1>2. CASE StartIneligible(r)
  <2>. DEFINE me == [runtime[r] EXCEPT !.state = "FAULTED"]
  <2>1. me \in RuntimeRecord /\ me.pc = "idle" /\ me.guarded = runtime[r].guarded
    BY <1>0, <1>1 DEF RuntimeRecord, RuntimeState
  <2>2. Become(r, me)
    BY <1>2 DEF StartIneligible
  <2>. HIDE DEF me
  <2>3. CallOK(me, claims, decisions, dispatched)
    BY <1>0, <1>1, <2>1 DEF CallOK, Working
  <2>. QED
    BY <1>0, <2>1, <2>2, <2>3, LocalKeeps
<1>3. CASE Start(r)
  <2>. DEFINE todo == {c \in Candle : claims[c].state \in Open}
              me == [runtime[r] EXCEPT !.state = "STARTING", !.pc = "recover", !.todo = todo]
  <2>1. me \in RuntimeRecord /\ me.pc = "recover" /\ me.guarded = runtime[r].guarded
    <3>1. "recover" \in PC /\ "STARTING" \in RuntimeState
      BY DEF PC, RuntimeState
    <3>. QED
      BY <1>1, <3>1 DEF RuntimeRecord
  <2>2. Become(r, me)
    BY <1>3 DEF Start, StartFrom
  <2>. HIDE DEF me
  <2>3. CallOK(me, claims, decisions, dispatched)
    BY <1>0, <1>1, <2>1 DEF CallOK, Working
  <2>. QED
    BY <1>0, <2>1, <2>2, <2>3, LocalKeeps
<1>. QED
  BY <1>2, <1>3

LEMMA RecoverKeeps ==
    ASSUME IInv, NEW r \in Runtime, Recover(r)
    PROVE  IInv'
<1>0. Counters' /\ UNCHANGED <<decisions, dispatched>> /\ Turn(r) /\ runtime[r].pc = "recover"
  BY DEF IInv, Counters, Recover, At
<1>1. runtime[r] \in RuntimeRecord /\ CallOK(runtime[r], claims, decisions, dispatched)
  BY Me
<1>2. PICK c \in runtime[r].todo :
          Move(r, c, Settling, "ABANDONED", [runtime[r] EXCEPT !.todo = @ \ {c}])
  BY DEF Recover
<1>. DEFINE me == [runtime[r] EXCEPT !.todo = @ \ {c}]
<1>3. me \in RuntimeRecord /\ me.pc = "recover" /\ me.guarded = runtime[r].guarded
  BY <1>0, <1>1 DEF RuntimeRecord
<1>4. c \in Candle
  BY <1>1, <1>2 DEF RuntimeRecord
<1>. HIDE DEF me
<1>5. \A cl : CallOK(me, cl, decisions, dispatched)
  BY <1>0, <1>1, <1>3 DEF CallOK, Working
<1>6. Settling \in SUBSET Unfinished /\ "ABANDONED" \in Unfinished \cup Terminal
      /\ "ABANDONED" \notin Early \cup Undecided /\ "ABANDONED" # "COMPLETED" /\ "ABANDONED" # "FAILED"
  BY DEF Settling, Unfinished, Terminal, Early, Undecided
<1>7. Move(r, c, Settling, "ABANDONED", me)
  BY <1>2 DEF me
<1>. QED
  BY <1>0, <1>3, <1>4, <1>5, <1>6, <1>7, MoveKeeps


\* Steps to a place where nothing is asked of a call.
LEMMA RestKeeps ==
    ASSUME IInv, NEW r \in Runtime, NEW me \in RuntimeRecord, Turn(r), Become(r, me),
           Counters', UNCHANGED <<claims, decisions, dispatched>>,
           (me.pc = "idle" /\ me.guarded = FALSE) \/ me.pc = "finally"
    PROVE  IInv'
<1>1. CallOK(me, claims, decisions, dispatched)
  BY DEF CallOK, Working
<1>. QED
  BY <1>1, LocalKeeps

LEMMA EndKeeps ==
    ASSUME IInv, NEW r \in Runtime, Started(r) \/ Finally(r) \/ CycleCancelled(r)
    PROVE  IInv'
<1>0. Counters' /\ UNCHANGED <<claims, decisions, dispatched>> /\ Turn(r)
  BY DEF IInv, Counters, Started, Finally, CycleCancelled, At
<1>1. runtime[r] \in RuntimeRecord
  BY Me
<1>2. CASE Started(r)
  <2>. DEFINE n == [Idle(runtime[r]) EXCEPT !.state = "READY", !.shutdown = FALSE]
  <2>1. n \in RuntimeRecord /\ n.pc = "idle" /\ n.guarded = FALSE
    BY <1>1 DEF Idle, RuntimeRecord, PC, RuntimeState
  <2>2. Become(r, n)
    BY <1>2 DEF Started
  <2>. HIDE DEF n
  <2>. QED
    BY <1>0, <2>1, <2>2, RestKeeps
<1>3. CASE Finally(r)
  <2>. DEFINE n == [Idle(runtime[r]) EXCEPT !.processing = FALSE,
                     !.state = IF runtime[r].shutdown THEN "STOPPED" ELSE "READY"]
  <2>1. n \in RuntimeRecord /\ n.pc = "idle" /\ n.guarded = FALSE
    BY <1>1 DEF Idle, RuntimeRecord, PC, RuntimeState
  <2>2. Become(r, n)
    BY <1>3 DEF Finally
  <2>. HIDE DEF n
  <2>. QED
    BY <1>0, <2>1, <2>2, RestKeeps
<1>4. CASE CycleCancelled(r)
  <2>. DEFINE n == [runtime[r] EXCEPT !.pc = "finally"]
  <2>1. n \in RuntimeRecord /\ n.pc = "finally"
    BY <1>1 DEF RuntimeRecord, PC
  <2>2. Become(r, n)
    BY <1>4 DEF CycleCancelled
  <2>. HIDE DEF n
  <2>. QED
    BY <1>0, <2>1, <2>2, RestKeeps
<1>. QED
  BY <1>2, <1>3, <1>4

\* shutdown may come between two calls or while a cycle is awaited.
LEMMA ShutdownKeeps ==
    ASSUME IInv, NEW r \in Runtime, Shutdown(r)
    PROVE  IInv'
<1>0. Counters' /\ UNCHANGED <<claims, decisions, dispatched>> /\ Turn(r)
  BY DEF IInv, Counters, Shutdown
<1>1. runtime[r] \in RuntimeRecord /\ CallOK(runtime[r], claims, decisions, dispatched)
  BY Me
<1>. DEFINE me == [runtime[r] EXCEPT !.shutdown = TRUE,
                     !.state = IF runtime[r].processing THEN "STOPPING" ELSE "STOPPED"]
<1>2. /\ me \in RuntimeRecord /\ me.pc = runtime[r].pc /\ me.guarded = runtime[r].guarded
      /\ me.todo = runtime[r].todo /\ me.candle = runtime[r].candle
      /\ me.snapshot = runtime[r].snapshot /\ me.record = runtime[r].record
  BY <1>1 DEF RuntimeRecord, RuntimeState
<1>3. Become(r, me)
  BY DEF Shutdown
<1>. HIDE DEF me
<1>4. CallOK(me, claims, decisions, dispatched)
  BY <1>1, <1>2 DEF CallOK
<1>. QED
  BY <1>0, <1>2, <1>3, <1>4, LocalKeeps

LEMMA PollKeeps ==
    ASSUME IInv, NEW r \in Runtime, Poll(r)
    PROVE  IInv'
<1>. DEFINE eligible == Eligible(SymbolOf[r])
            timely == {c \in eligible : Timely(c)}
            chosen == IF timely = {} THEN None ELSE Newest(timely)
            me == [runtime[r] EXCEPT !.state = "POLLING", !.processing = TRUE, !.pc = "missed",
                                     !.todo = eligible \ {chosen}, !.candle = chosen]
<1>0. Counters' /\ UNCHANGED <<claims, decisions, dispatched>> /\ Turn(r) /\ runtime[r].pc = "idle"
  BY DEF IInv, Counters, Poll, At
<1>1. runtime[r] \in RuntimeRecord /\ CallOK(runtime[r], claims, decisions, dispatched)
  BY Me
<1>2. eligible \in SUBSET Candle /\ timely \in SUBSET Candle
      /\ \A c \in eligible : claims[c].state = "NONE"
  BY DEF Eligible
<1>3. chosen \in Candle \cup {None}
  <2>. HIDE DEF eligible
  <2>1. CASE timely = {}
    BY <2>1
  <2>2. CASE timely # {}
    <3>1. Newest(timely) \in timely
      BY <1>2, <2>2, NewestIsOne
    <3>. QED
      BY <1>2, <2>2, <3>1
  <2>. QED
    BY <2>1, <2>2
<1>4. Become(r, me)
  BY DEF Poll
<1>. HIDE DEF eligible, timely, chosen
<1>5. /\ me \in RuntimeRecord /\ me.pc = "missed" /\ me.guarded = runtime[r].guarded
      /\ me.todo = eligible \ {chosen}
  <2>1. "missed" \in PC /\ "POLLING" \in RuntimeState
    BY DEF PC, RuntimeState
  <2>. QED
    BY <1>1, <1>2, <1>3, <2>1 DEF RuntimeRecord
<1>. HIDE DEF me
<1>6. CallOK(me, claims, decisions, dispatched)
  BY <1>0, <1>1, <1>2, <1>5 DEF CallOK, Working
<1>. QED
  BY <1>0, <1>4, <1>5, <1>6, LocalKeeps

\* A candle is discovered and the call goes on as me.
LEMMA DiscoverKeeps ==
    ASSUME IInv, NEW r \in Runtime, Turn(r), NEW me \in RuntimeRecord, Become(r, me),
           NEW c \in Candle, Discovered(c), Counters', UNCHANGED <<decisions, dispatched>>,
           CallOK(me, claims, decisions, dispatched), me.pc \in {"miss", "claim"}
    PROVE  IInv'
<1>. DEFINE cl == [claims EXCEPT ![c].state = "DISCOVERED"]
<1>1. decisions' = decisions /\ dispatched' = dispatched
  OBVIOUS
<1>2. CASE claims[c].state = "NONE"
  <2>. DEFINE row == [claims[c] EXCEPT !.state = "DISCOVERED"]
  <2>1. claims[c] \in Claim /\ claims \in [Candle -> Claim]
    BY DEF IInv, Rows, RowTypes
  <2>2. row \in Claim /\ row.state = "DISCOVERED" /\ row.snapshot = claims[c].snapshot
    BY <2>1 DEF Claim, Unfinished
  <2>3. claims' = [claims EXCEPT ![c] = row]
    BY <1>2, <2>1 DEF Discovered
  <2>. HIDE DEF row
  <2>4. /\ claims' \in [Candle -> Claim] /\ claims'[c] = row
        /\ \A d \in Candle \ {c} : claims'[d] = claims[d]
    BY <2>1, <2>2, <2>3
  <2>5. \A d \in Candle : claims'[d].snapshot = claims[d].snapshot
    BY <2>2, <2>4
  <2>6. RowTypes(claims', decisions', dispatched') /\ Distinct(claims')
    BY <1>1, <2>4, <2>5 DEF IInv, Rows, RowTypes, Distinct
  <2>7. ASSUME NEW d \in Candle PROVE RowOK(d, claims', decisions', dispatched')
    <3>1. RowOK(d, claims, decisions, dispatched)
      BY DEF IInv, Rows
    <3>2. CASE d = c
      <4>1. claims'[d].state = "DISCOVERED" /\ claims[d].state = "NONE"
        BY <1>2, <2>2, <2>4, <3>2
      <4>. QED
        BY <1>1, <2>5, <3>1, <4>1 DEF RowOK, RecordFits, Early, Undecided
    <3>3. CASE d # c
      BY <1>1, <2>4, <3>1, <3>3 DEF RowOK, RecordFits
    <3>. QED
      BY <3>2, <3>3
  <2>8. Awaited(claims, dispatched, claims', dispatched')
    BY <1>1, <1>2, <2>4, <2>5 DEF Awaited, Early, Undecided
  <2>9. CallOK(me, claims', decisions', dispatched')
    <3>1. \A d \in me.todo : claims'[d].state \in {"NONE", "DISCOVERED"} \/ me.pc = "claim"
      BY <2>2, <2>4 DEF CallOK, RuntimeRecord
    <3>. QED
      BY <3>1 DEF CallOK, Working
  <2>. QED
    BY <2>6, <2>7, <2>8, <2>9, StepKeeps DEF Rows
<1>3. CASE claims[c].state # "NONE"
  <2>1. claims \in [Candle -> Claim] /\ claims[c] \in Claim
    BY DEF IInv, Rows, RowTypes
  <2>2. [claims[c] EXCEPT !.state = claims[c].state] = claims[c]
    BY <2>1 DEF Claim
  <2>3. claims' = claims
    BY <1>3, <2>1, <2>2 DEF Discovered
  <2>. QED
    BY <1>1, <2>3, LocalKeeps
<1>. QED
  BY <1>2, <1>3

LEMMA MissedDiscoverKeeps ==
    ASSUME IInv, NEW r \in Runtime, MissedDiscover(r)
    PROVE  IInv'
<1>. DEFINE me == [runtime[r] EXCEPT !.pc = "miss"]
<1>0. Counters' /\ UNCHANGED <<decisions, dispatched>> /\ Turn(r) /\ runtime[r].pc = "missed"
      /\ runtime[r].todo # {} /\ Discovered(Oldest(runtime[r].todo))
  BY DEF IInv, Counters, MissedDiscover, At
<1>1. runtime[r] \in RuntimeRecord /\ CallOK(runtime[r], claims, decisions, dispatched)
  BY Me
<1>2. /\ me \in RuntimeRecord /\ me.pc = "miss" /\ me.guarded = runtime[r].guarded
      /\ me.todo = runtime[r].todo
  BY <1>1 DEF RuntimeRecord, PC
<1>3. Become(r, me)
  BY DEF MissedDiscover
<1>4. Oldest(runtime[r].todo) \in Candle
  BY <1>0, <1>1, OldestIsOne DEF RuntimeRecord
<1>. HIDE DEF me
<1>5. CallOK(me, claims, decisions, dispatched)
  BY <1>0, <1>1, <1>2 DEF CallOK, Working
<1>. QED
  BY <1>0, <1>2, <1>3, <1>4, <1>5, DiscoverKeeps

LEMMA DiscoverCandleKeeps ==
    ASSUME IInv, NEW r \in Runtime, DiscoverCandle(r)
    PROVE  IInv'
<1>. DEFINE me == [runtime[r] EXCEPT !.pc = "claim"]
<1>0. Counters' /\ UNCHANGED <<decisions, dispatched>> /\ Turn(r) /\ runtime[r].pc = "discover"
      /\ Discovered(runtime[r].candle)
  BY DEF IInv, Counters, DiscoverCandle, At
<1>1. runtime[r] \in RuntimeRecord /\ CallOK(runtime[r], claims, decisions, dispatched)
  BY Me
<1>2. /\ me \in RuntimeRecord /\ me.pc = "claim" /\ me.guarded = runtime[r].guarded
      /\ me.candle = runtime[r].candle
  BY <1>1 DEF RuntimeRecord, PC
<1>3. Become(r, me)
  BY DEF DiscoverCandle
<1>4. runtime[r].candle \in Candle
  BY <1>0, <1>1 DEF CallOK
<1>. HIDE DEF me
<1>5. CallOK(me, claims, decisions, dispatched)
  BY <1>0, <1>1, <1>2, <1>4 DEF CallOK, Working
<1>. QED
  BY <1>0, <1>2, <1>3, <1>4, <1>5, DiscoverKeeps

LEMMA MissedDoneKeeps ==
    ASSUME IInv, NEW r \in Runtime, MissedDone(r)
    PROVE  IInv'
<1>. DEFINE me == [runtime[r] EXCEPT
                     !.pc = IF runtime[r].candle = None THEN "finally" ELSE "discover"]
<1>0. Counters' /\ UNCHANGED <<claims, decisions, dispatched>> /\ Turn(r)
      /\ runtime[r].pc = "missed"
  BY DEF IInv, Counters, MissedDone, At
<1>1. runtime[r] \in RuntimeRecord /\ CallOK(runtime[r], claims, decisions, dispatched)
  BY Me
<1>2. /\ me \in RuntimeRecord /\ me.guarded = runtime[r].guarded /\ me.candle = runtime[r].candle
      /\ me.pc = "finally" \/ (me.pc = "discover" /\ me.candle \in Candle)
  BY <1>1 DEF RuntimeRecord, PC
<1>3. Become(r, me)
  BY DEF MissedDone
<1>. HIDE DEF me
<1>4. CallOK(me, claims, decisions, dispatched)
  BY <1>0, <1>1, <1>2 DEF CallOK, Working
<1>. QED
  BY <1>0, <1>2, <1>3, <1>4, LocalKeeps

LEMMA MissedTerminalKeeps ==
    ASSUME IInv, NEW r \in Runtime, MissedTerminal(r)
    PROVE  IInv'
<1>. DEFINE c == Oldest(runtime[r].todo)
            me == [runtime[r] EXCEPT !.pc = "missed", !.todo = @ \ {c}]
<1>0. Counters' /\ UNCHANGED <<decisions, dispatched>> /\ Turn(r) /\ runtime[r].pc = "miss"
      /\ Move(r, c, Settling, "MISSED", me)
  BY DEF IInv, Counters, MissedTerminal, At
<1>1. runtime[r] \in RuntimeRecord /\ CallOK(runtime[r], claims, decisions, dispatched)
  BY Me
<1>2. c \in runtime[r].todo /\ c \in Candle
  BY <1>0, <1>1, OldestIsOne DEF CallOK, RuntimeRecord
<1>. HIDE DEF c
<1>3. /\ me \in RuntimeRecord /\ me.pc = "missed" /\ me.guarded = runtime[r].guarded
      /\ me.todo = runtime[r].todo \ {c}
  <2>1. "missed" \in PC
    BY DEF PC
  <2>. QED
    BY <1>1, <2>1 DEF RuntimeRecord
<1>. HIDE DEF me
<1>4. claims[c].state \in {"NONE", "DISCOVERED"}
  BY <1>0, <1>1, <1>2 DEF CallOK
<1>5. ASSUME NEW cl \in [Candle -> Claim], \A d \in Candle \ {c} : cl[d] = claims[d]
      PROVE  CallOK(me, cl, decisions, dispatched)
  <2>1. \A d \in me.todo : cl[d].state \in {"NONE", "DISCOVERED"}
    BY <1>0, <1>1, <1>3, <1>5 DEF CallOK, RuntimeRecord
  <2>. QED
    BY <1>0, <1>1, <1>3, <2>1 DEF CallOK, Working
<1>6. Settling \in SUBSET Unfinished /\ "MISSED" \in Unfinished \cup Terminal
      /\ "MISSED" \notin Early /\ "MISSED" # "COMPLETED" /\ "MISSED" # "FAILED"
      /\ claims[c].state # "PROCESSING" /\ claims[c].state \in Undecided
  BY <1>4 DEF Settling, Unfinished, Terminal, Early, Undecided
<1>. QED
  BY <1>0, <1>2, <1>3, <1>5, <1>6, MoveKeeps

LEMMA ClaimCandleKeeps ==
    ASSUME IInv, NEW r \in Runtime, ClaimCandle(r)
    PROVE  IInv'
<1>. DEFINE c == runtime[r].candle
            me == [runtime[r] EXCEPT !.pc = "snapshot", !.state = "PROCESSING", !.guarded = TRUE]
<1>0. Counters' /\ UNCHANGED <<decisions, dispatched>> /\ Turn(r) /\ runtime[r].pc = "claim"
      /\ Move(r, c, {"DISCOVERED"}, "CLAIMED", me)
  BY DEF IInv, Counters, ClaimCandle, At
<1>1. runtime[r] \in RuntimeRecord /\ CallOK(runtime[r], claims, decisions, dispatched)
  BY Me
<1>2. c \in Candle
  BY <1>0, <1>1 DEF CallOK
<1>3. me \in RuntimeRecord /\ me.pc = "snapshot" /\ me.candle = c
  <2>1. "snapshot" \in PC /\ "PROCESSING" \in RuntimeState
    BY DEF PC, RuntimeState
  <2>. QED
    BY <1>1, <2>1 DEF RuntimeRecord
<1>4. claims[c].state = "DISCOVERED" => decisions[c] = None
  BY <1>2 DEF IInv, Rows, RowOK, Undecided
<1>. HIDE DEF c, me
<1>5. ASSUME NEW cl \in [Candle -> Claim], claims[c].state \in {"DISCOVERED"},
             cl[c].state = "CLAIMED"
      PROVE  CallOK(me, cl, decisions, dispatched)
  BY <1>2, <1>3, <1>4, <1>5 DEF CallOK, Working
<1>6. {"DISCOVERED"} \in SUBSET Unfinished /\ "CLAIMED" \in Unfinished \cup Terminal
  BY DEF Unfinished
<1>7. claims[c].state \in {"DISCOVERED"} =>
         /\ "CLAIMED" \in Early => claims[c].state \in Early
         /\ "CLAIMED" \in Undecided => claims[c].state \in Undecided
         /\ claims[c].state = "PROCESSING" => "CLAIMED" \notin Early \cup Undecided
         /\ "CLAIMED" = "COMPLETED" => decisions[c] # None /\ decisions[c].disposition # "FAILED"
         /\ "CLAIMED" = "FAILED" => decisions[c] # None /\ decisions[c].disposition = "FAILED"
  BY DEF Early, Undecided
<1>. DEFINE expected == {"DISCOVERED"}
            state == "CLAIMED"
<1>8. \A cl \in [Candle -> Claim] :
         claims[c].state \in expected /\ cl[c].state = state => CallOK(me, cl, decisions, dispatched)
  BY <1>5
<1>9. Move(r, c, expected, state, me) /\ runtime[r].pc # "finally"
  BY <1>0
<1>. HIDE DEF expected, state
<1>. QED
  BY <1>0, <1>2, <1>3, <1>6, <1>7, <1>8, <1>9, MoveKeeps DEF expected, state

LEMMA SnapshotKeeps ==
    ASSUME IInv, NEW r \in Runtime, Snapshot(r)
    PROVE  IInv'
<1>0. Counters' /\ UNCHANGED <<claims, decisions, dispatched>> /\ Turn(r)
      /\ runtime[r].pc = "snapshot"
  BY DEF IInv, Counters, Snapshot, At
<1>1. runtime[r] \in RuntimeRecord /\ CallOK(runtime[r], claims, decisions, dispatched)
  BY Me
<1>2. /\ runtime[r].candle \in Candle /\ claims[runtime[r].candle].state = "CLAIMED"
      /\ decisions[runtime[r].candle] = None
  BY <1>0, <1>1 DEF CallOK, Working
<1>3. ASSUME NEW id \in SnapshotId, NEW stale \in BOOLEAN,
             Become(r, [runtime[r] EXCEPT !.pc = "bind", !.snapshot = id, !.stale = stale])
      PROVE  IInv'
  <2>. DEFINE me == [runtime[r] EXCEPT !.pc = "bind", !.snapshot = id, !.stale = stale]
  <2>1. me \in RuntimeRecord /\ me.pc = "bind" /\ me.candle = runtime[r].candle
    BY <1>1 DEF RuntimeRecord, PC
  <2>2. Become(r, me)
    BY <1>3
  <2>. HIDE DEF me
  <2>3. CallOK(me, claims, decisions, dispatched)
    BY <1>2, <2>1 DEF CallOK, Working
  <2>. QED
    BY <1>0, <2>1, <2>2, <2>3, LocalKeeps
<1>4. ASSUME NEW why \in FailCategory, Become(r, FailClaim(runtime[r], why))
      PROVE  IInv'
  <2>1. dispatched[runtime[r].candle] = 0 /\ claims[runtime[r].candle].state \notin Undecided
    BY <1>2 DEF IInv, Rows, RowOK, Early, Undecided
  <2>2. FailClaim(runtime[r], why) \in RuntimeRecord
        /\ CallOK(FailClaim(runtime[r], why), claims, decisions, dispatched)
    BY <1>1, <1>2, <2>1, FailClaimOK
  <2>. QED
    BY <1>0, <1>4, <2>2, LocalKeeps
<1>. QED
  BY <1>3, <1>4 DEF Snapshot

LEMMA PreflightKeeps ==
    ASSUME IInv, NEW r \in Runtime, Preflight(r)
    PROVE  IInv'
<1>0. Counters' /\ UNCHANGED <<claims, decisions, dispatched>> /\ Turn(r)
      /\ runtime[r].pc = "preflight"
  BY DEF IInv, Counters, Preflight, At
<1>1. runtime[r] \in RuntimeRecord /\ CallOK(runtime[r], claims, decisions, dispatched)
  BY Me
<1>2. /\ runtime[r].candle \in Candle /\ claims[runtime[r].candle].state = "CLAIMED"
      /\ decisions[runtime[r].candle] = None
      /\ claims[runtime[r].candle].snapshot = runtime[r].snapshot
  BY <1>0, <1>1 DEF CallOK, Working
<1>3. dispatched[runtime[r].candle] = 0 /\ claims[runtime[r].candle].state \notin Undecided
  BY <1>2 DEF IInv, Rows, RowOK, Early, Undecided
<1>4. CASE Become(r, [runtime[r] EXCEPT !.pc = "mark"])
  <2>. DEFINE me == [runtime[r] EXCEPT !.pc = "mark"]
  <2>1. /\ me \in RuntimeRecord /\ me.pc = "mark" /\ me.candle = runtime[r].candle
        /\ me.snapshot = runtime[r].snapshot
    BY <1>1 DEF RuntimeRecord, PC
  <2>2. Become(r, me)
    BY <1>4
  <2>. HIDE DEF me
  <2>3. CallOK(me, claims, decisions, dispatched)
    BY <1>2, <2>1 DEF CallOK, Working
  <2>. QED
    BY <1>0, <2>1, <2>2, <2>3, LocalKeeps
<1>5. CASE Become(r, Hold(runtime[r], FALSE))
  <2>1. Hold(runtime[r], FALSE) \in RuntimeRecord
        /\ CallOK(Hold(runtime[r], FALSE), claims, decisions, dispatched)
    BY <1>1, <1>2, <1>3, HoldOK
  <2>. QED
    BY <1>0, <1>5, <2>1, LocalKeeps
<1>6. ASSUME NEW why \in FailCategory, Become(r, FailClaim(runtime[r], why))
      PROVE  IInv'
  <2>1. FailClaim(runtime[r], why) \in RuntimeRecord
        /\ CallOK(FailClaim(runtime[r], why), claims, decisions, dispatched)
    BY <1>1, <1>2, <1>3, FailClaimOK
  <2>. QED
    BY <1>0, <1>6, <2>1, LocalKeeps
<1>. QED
  BY <1>4, <1>5, <1>6 DEF Preflight

LEMMA BindSnapshotKeeps ==
    ASSUME IInv, NEW r \in Runtime, BindSnapshot(r)
    PROVE  IInv'
<1>. DEFINE me == runtime[r]
            c == me.candle
<1>0. Counters' /\ Turn(r) /\ me.pc = "bind" /\ decisions' = decisions /\ dispatched' = dispatched
  BY DEF IInv, Counters, BindSnapshot, At
<1>1. me \in RuntimeRecord /\ CallOK(me, claims, decisions, dispatched)
  BY Me
<1>2. c \in Candle /\ claims[c].state = "CLAIMED" /\ decisions[c] = None
  BY <1>0, <1>1 DEF CallOK, Working
<1>3. dispatched[c] = 0 /\ claims[c].state \notin Undecided
  BY <1>2 DEF IInv, Rows, RowOK, Early, Undecided
<1>4. CASE Conflicts(me.snapshot)
  <2>1. claims' = claims /\ Become(r, FailClaim(me, "INPUT"))
    BY <1>2, <1>4 DEF BindSnapshot
  <2>2. FailClaim(me, "INPUT") \in RuntimeRecord
        /\ CallOK(FailClaim(me, "INPUT"), claims, decisions, dispatched)
    <3>1. "INPUT" \in FailCategory
      BY DEF FailCategory
    <3>. QED
      BY <1>1, <1>2, <1>3, <3>1, FailClaimOK
  <2>. QED
    BY <1>0, <2>1, <2>2, LocalKeeps
<1>5. CASE ~Conflicts(me.snapshot)
  <2>. DEFINE row == [claims[c] EXCEPT !.snapshot = me.snapshot]
              cl == [claims EXCEPT ![c] = row]
  <2>1. claims' = cl /\ Become(r, IF me.stale THEN Hold(me, TRUE)
                                  ELSE [me EXCEPT !.pc = "preflight"])
    BY <1>2, <1>5 DEF BindSnapshot
  <2>2. /\ row \in Claim /\ row.state = "CLAIMED" /\ row.snapshot = me.snapshot
        /\ claims \in [Candle -> Claim]
    <3>1. claims[c] \in Claim /\ claims \in [Candle -> Claim]
      BY <1>2 DEF IInv, Rows, RowTypes
    <3>2. me.snapshot \in SnapshotId \cup {None}
      BY <1>1 DEF RuntimeRecord
    <3>. QED
      BY <1>2, <3>1, <3>2 DEF Claim
  <2>. HIDE DEF row
  <2>3. cl \in [Candle -> Claim] /\ cl[c] = row /\ \A d \in Candle \ {c} : cl[d] = claims[d]
    BY <1>2, <2>2
  <2>4. cl[c].state = "CLAIMED" /\ cl[c].snapshot = me.snapshot
    BY <2>2, <2>3
  <2>5. \A d \in Candle : claims[d].snapshot = me.snapshot => me.snapshot = None
    BY <1>5 DEF Conflicts, Bound
  <2>. HIDE DEF cl
  <2>6. Distinct(cl)
    <3>. SUFFICES ASSUME NEW d \in Candle, NEW e \in Candle, cl[d].snapshot = cl[e].snapshot,
                         d # e
                  PROVE  cl[d].snapshot = None
      BY DEF Distinct
    <3>1. CASE d = c
      BY <2>3, <2>4, <2>5, <3>1
    <3>2. CASE e = c
      BY <2>3, <2>4, <2>5, <3>2
    <3>3. CASE d # c /\ e # c
      BY <2>3, <3>3 DEF IInv, Rows, Distinct
    <3>. QED
      BY <3>1, <3>2, <3>3
  <2>7. ASSUME NEW d \in Candle PROVE RowOK(d, cl, decisions, dispatched)
    <3>1. RowOK(d, claims, decisions, dispatched)
      BY DEF IInv, Rows
    <3>2. CASE d = c
      BY <1>2, <1>3, <2>4, <3>2 DEF RowOK, Undecided
    <3>3. CASE d # c
      BY <2>3, <3>1, <3>3 DEF RowOK, RecordFits
    <3>. QED
      BY <3>2, <3>3
  <2>8. Rows(cl, decisions, dispatched)
    BY <2>3, <2>6, <2>7 DEF IInv, Rows, RowTypes
  <2>9. Awaited(claims, dispatched, cl, dispatched)
    BY <1>2, <2>3 DEF Awaited, Early
  <2>10. CASE me.stale
    <3>1. cl[c].state \notin Undecided
      BY <2>4 DEF Undecided
    <3>2. Hold(me, TRUE) \in RuntimeRecord /\ CallOK(Hold(me, TRUE), cl, decisions, dispatched)
      BY <1>1, <1>2, <1>3, <2>4, <3>1, HoldOK
    <3>. QED
      BY <1>0, <2>1, <2>8, <2>9, <2>10, <3>2, StepKeeps
  <2>11. CASE ~me.stale
    <3>. DEFINE n == [me EXCEPT !.pc = "preflight"]
    <3>1. n \in RuntimeRecord /\ n.pc = "preflight" /\ n.candle = c /\ n.snapshot = me.snapshot
      BY <1>1 DEF RuntimeRecord, PC
    <3>2. Become(r, n)
      BY <2>1, <2>11
    <3>. HIDE DEF n
    <3>3. CallOK(n, cl, decisions, dispatched)
      BY <1>2, <2>4, <3>1 DEF CallOK, Working
    <3>. QED
      BY <1>0, <2>1, <2>8, <2>9, <3>1, <3>2, <3>3, StepKeeps
  <2>. QED
    BY <2>10, <2>11
<1>. QED
  BY <1>4, <1>5

LEMMA MarkProcessingKeeps ==
    ASSUME IInv, NEW r \in Runtime, MarkProcessing(r)
    PROVE  IInv'
<1>. DEFINE c == runtime[r].candle
            me == [runtime[r] EXCEPT !.pc = "cycle"]
            row == [claims[c] EXCEPT !.state = "PROCESSING"]
            cl == [claims EXCEPT ![c] = row]
            di == [dispatched EXCEPT ![c] = 1]
<1>0. Counters' /\ Turn(r) /\ runtime[r].pc = "mark" /\ decisions' = decisions
  BY DEF IInv, Counters, MarkProcessing, At
<1>1. runtime[r] \in RuntimeRecord /\ CallOK(runtime[r], claims, decisions, dispatched)
  BY Me
<1>2. c \in Candle /\ claims[c].state = "CLAIMED" /\ decisions[c] = None
      /\ claims[c].snapshot = runtime[r].snapshot
  BY <1>0, <1>1 DEF CallOK, Working
<1>3. dispatched[c] = 0 /\ dispatched \in [Candle -> Nat]
  BY <1>2 DEF IInv, Rows, RowTypes, RowOK, Early
<1>4. claims[c] \in Claim /\ claims \in [Candle -> Claim]
  BY <1>2 DEF IInv, Rows, RowTypes
<1>5. row \in Claim /\ row.state = "PROCESSING" /\ row.snapshot = claims[c].snapshot
  BY <1>4 DEF Claim, Unfinished
<1>6. Become(r, me) /\ claims' = cl /\ dispatched' = di
  BY <1>2, <1>3, <1>4 DEF MarkProcessing, Move
<1>7. me \in RuntimeRecord /\ me.pc = "cycle" /\ me.candle = c /\ me.snapshot = runtime[r].snapshot
  BY <1>1 DEF RuntimeRecord, PC
<1>. HIDE DEF row
<1>8. /\ cl \in [Candle -> Claim] /\ cl[c] = row /\ \A d \in Candle \ {c} : cl[d] = claims[d]
      /\ di \in [Candle -> Nat] /\ di[c] = 1 /\ \A d \in Candle \ {c} : di[d] = dispatched[d]
  BY <1>2, <1>3, <1>4, <1>5
<1>9. cl[c].state = "PROCESSING" /\ \A d \in Candle : cl[d].snapshot = claims[d].snapshot
  BY <1>5, <1>8
<1>. HIDE DEF c, me, cl, di
<1>10. RowTypes(cl, decisions, di) /\ Distinct(cl)
  BY <1>8, <1>9 DEF IInv, Rows, RowTypes, Distinct
<1>11. ASSUME NEW d \in Candle PROVE RowOK(d, cl, decisions, di)
  <2>1. RowOK(d, claims, decisions, dispatched)
    BY DEF IInv, Rows
  <2>2. CASE d = c
    BY <1>2, <1>8, <1>9, <2>2 DEF RowOK, Early, Undecided
  <2>3. CASE d # c
    BY <1>8, <2>1, <2>3 DEF RowOK, RecordFits
  <2>. QED
    BY <2>2, <2>3
<1>12. Awaited(claims, dispatched, cl, di)
  BY <1>2, <1>8 DEF Awaited, Early
<1>13. CallOK(me, cl, decisions, di)
  BY <1>2, <1>7, <1>8, <1>9 DEF CallOK, Working, Early, Undecided
<1>. QED
  BY <1>0, <1>6, <1>7, <1>10, <1>11, <1>12, <1>13, StepKeeps DEF Rows

LEMMA CycleEndsKeeps ==
    ASSUME IInv, NEW r \in Runtime, CycleEnds(r)
    PROVE  IInv'
<1>. DEFINE c == runtime[r].candle
<1>0. Counters' /\ UNCHANGED <<claims, decisions, dispatched>> /\ Turn(r)
      /\ runtime[r].pc = "cycle"
  BY DEF IInv, Counters, CycleEnds, At
<1>1. runtime[r] \in RuntimeRecord /\ CallOK(runtime[r], claims, decisions, dispatched)
  BY Me
<1>2. /\ c \in Candle /\ claims[c].state \notin Undecided /\ dispatched[c] = 1
      /\ claims[c].snapshot = runtime[r].snapshot
  BY <1>0, <1>1 DEF CallOK, Working
<1>3. CASE Become(r, [runtime[r] EXCEPT !.pc = "append",
                        !.record = [disposition |-> "SHADOW_RECORDED", category |-> None,
                                    snapshot |-> runtime[r].snapshot]])
  <2>. DEFINE record == [disposition |-> "SHADOW_RECORDED", category |-> None,
                         snapshot |-> runtime[r].snapshot]
              me == [runtime[r] EXCEPT !.pc = "append", !.record = record]
  <2>1. record \in Record
    BY <1>1 DEF Record, RuntimeRecord
  <2>2. RecordFits(record, c, claims, dispatched)
    BY <1>2 DEF RecordFits
  <2>3. Become(r, me)
    BY <1>3
  <2>. HIDE DEF record
  <2>4. me \in RuntimeRecord /\ me.pc = "append" /\ me.candle = c /\ me.record = record
    <3>1. "append" \in PC
      BY DEF PC
    <3>. QED
      BY <1>1, <2>1, <3>1 DEF RuntimeRecord
  <2>. HIDE DEF me
  <2>5. CallOK(me, claims, decisions, dispatched)
    BY <1>2, <2>1, <2>2, <2>4 DEF CallOK, Working
  <2>. QED
    BY <1>0, <2>3, <2>4, <2>5, LocalKeeps
<1>4. CASE Become(r, FailClaim(runtime[r], "PROVIDER_RUNTIME_FAILURE"))
  <2>1. "PROVIDER_RUNTIME_FAILURE" \in FailCategory /\ "PROVIDER_RUNTIME_FAILURE" # "INPUT"
    BY DEF FailCategory
  <2>2. FailClaim(runtime[r], "PROVIDER_RUNTIME_FAILURE") \in RuntimeRecord
        /\ CallOK(FailClaim(runtime[r], "PROVIDER_RUNTIME_FAILURE"), claims, decisions, dispatched)
    BY <1>1, <1>2, <2>1, FailClaimOK
  <2>. QED
    BY <1>0, <1>4, <2>2, LocalKeeps
<1>. QED
  BY <1>3, <1>4 DEF CycleEnds

LEMMA AppendKeeps ==
    ASSUME IInv, NEW r \in Runtime, Append(r)
    PROVE  IInv'
<1>. DEFINE c == runtime[r].candle
            record == runtime[r].record
            me == [runtime[r] EXCEPT !.pc = "terminal"]
            de == [decisions EXCEPT ![c] = record]
<1>0. Counters' /\ Turn(r) /\ runtime[r].pc = "append" /\ claims' = claims
      /\ dispatched' = dispatched
  BY DEF IInv, Counters, Append, At
<1>1. runtime[r] \in RuntimeRecord /\ CallOK(runtime[r], claims, decisions, dispatched)
  BY Me
<1>2. /\ c \in Candle /\ claims[c].state \notin Undecided
      /\ record \in Record /\ record # None /\ RecordFits(record, c, claims, dispatched)
  BY <1>0, <1>1, NoneAssumption DEF CallOK, Working
<1>3. CASE decisions[c] = None
  <2>1. decisions' = de /\ Become(r, me)
    BY <1>3 DEF Append
  <2>2. decisions \in [Candle -> Record \cup {None}]
    BY DEF IInv, Rows, RowTypes
  <2>. HIDE DEF c, record
  <2>3. /\ de \in [Candle -> Record \cup {None}] /\ de[c] = record
        /\ \A d \in Candle \ {c} : de[d] = decisions[d]
    BY <1>2, <2>2
  <2>4. /\ me \in RuntimeRecord /\ me.pc = "terminal" /\ me.candle = c /\ me.record = record
    BY <1>1 DEF RuntimeRecord, PC, c, record
  <2>. HIDE DEF me, de
  <2>5. ASSUME NEW d \in Candle PROVE RowOK(d, claims, de, dispatched)
    <3>1. RowOK(d, claims, decisions, dispatched)
      BY DEF IInv, Rows
    <3>2. CASE d = c
      BY <1>2, <1>3, <2>3, <3>1, <3>2 DEF RowOK
    <3>3. CASE d # c
      BY <2>3, <3>1, <3>3 DEF RowOK
    <3>. QED
      BY <3>2, <3>3
  <2>6. Rows(claims, de, dispatched)
    BY <2>3, <2>5 DEF IInv, Rows, RowTypes
  <2>7. Awaited(claims, dispatched, claims, dispatched)
    BY DEF Awaited
  <2>8. CallOK(me, claims, de, dispatched)
    BY <1>2, <2>3, <2>4 DEF CallOK, Working
  <2>. QED
    BY <1>0, <2>1, <2>4, <2>6, <2>7, <2>8, StepKeeps
<1>4. CASE decisions[c] # None
  <2>1. decisions' = decisions /\ Become(r, Raise(runtime[r]))
    BY <1>4 DEF Append
  <2>. QED
    BY <1>0, <2>1, RaiseKeeps
<1>. QED
  BY <1>3, <1>4

LEMMA MarkTerminalKeeps ==
    ASSUME IInv, NEW r \in Runtime, MarkTerminal(r)
    PROVE  IInv'
<1>. DEFINE c == runtime[r].candle
            state == IF runtime[r].record.disposition = "FAILED" THEN "FAILED" ELSE "COMPLETED"
            me == [runtime[r] EXCEPT !.pc = "finally"]
<1>0. Counters' /\ UNCHANGED <<decisions, dispatched>> /\ Turn(r) /\ runtime[r].pc = "terminal"
      /\ Move(r, c, Settling, state, me)
  BY DEF IInv, Counters, MarkTerminal, At
<1>1. runtime[r] \in RuntimeRecord /\ CallOK(runtime[r], claims, decisions, dispatched)
  BY Me
<1>2. c \in Candle /\ decisions[c] = runtime[r].record /\ runtime[r].record # None
  BY <1>0, <1>1, NoneAssumption DEF CallOK, Working
<1>3. /\ state \in Terminal /\ state \notin Early \cup Undecided
      /\ state = "COMPLETED" => decisions[c] # None /\ decisions[c].disposition # "FAILED"
      /\ state = "FAILED" => decisions[c] # None /\ decisions[c].disposition = "FAILED"
  BY <1>2 DEF Terminal, Early, Undecided
<1>4. me \in RuntimeRecord /\ me.pc = "finally"
  BY <1>1 DEF RuntimeRecord, PC
<1>. HIDE DEF c, state, me
<1>5. \A cl : CallOK(me, cl, decisions, dispatched)
  BY <1>4 DEF CallOK, Working
<1>6. Settling \in SUBSET Unfinished
  BY DEF Settling
<1>. QED
  BY <1>0, <1>2, <1>3, <1>4, <1>5, <1>6, MoveKeeps

LEMMA WriteFailsKeeps ==
    ASSUME IInv, NEW r \in Runtime, WriteFails(r)
    PROVE  IInv'
<1>0. Counters' /\ UNCHANGED <<claims, decisions, dispatched>> /\ Turn(r)
  BY ObservationAssumption DEF IInv, Counters, WriteFails
<1>1. runtime[r] \in RuntimeRecord
  BY Me
<1>2. CASE Become(r, Idle(runtime[r]))
  <2>. DEFINE n == Idle(runtime[r])
  <2>1. n \in RuntimeRecord /\ n.pc = "idle" /\ n.guarded = FALSE
    BY <1>1 DEF Idle, RuntimeRecord, PC
  <2>. HIDE DEF n
  <2>2. Become(r, n)
    BY <1>2 DEF n
  <2>. QED
    BY <1>0, <2>1, <2>2, RestKeeps
<1>3. CASE Become(r, Raise(runtime[r])) /\ runtime[r].pc # "finally"
  BY <1>0, <1>3, RaiseKeeps
<1>. QED
  BY <1>2, <1>3 DEF WriteFails

LEMMA WorldKeeps ==
    ASSUME IInv, Crash \/ Tick \/ UNCHANGED vars
    PROVE  IInv'
<1>1. CASE Crash
  <2>1. /\ runtime' = [r \in Runtime |-> Stopped]
        /\ claims' = claims /\ decisions' = decisions /\ dispatched' = dispatched /\ Counters'
    BY <1>1, ObservationAssumption DEF IInv, Counters, Crash
  <2>2. Stopped \in RuntimeRecord /\ Stopped.pc = "idle" /\ Stopped.guarded = FALSE
    BY DEF Stopped, RuntimeRecord, RuntimeState, PC
  <2>3. \A r \in Runtime : CallOK(runtime[r], claims, decisions, dispatched)'
    BY <2>1, <2>2 DEF CallOK, Working
  <2>4. runtime' \in [Runtime -> RuntimeRecord] /\ OneTurn'
    BY <2>1, <2>2 DEF OneTurn
  <2>. QED
    BY <2>1, <2>3, <2>4 DEF IInv
<1>2. CASE Tick
  <2>1. Counters'
    BY <1>2, ObservationAssumption DEF IInv, Counters, Tick
  <2>. QED
    BY <1>2, <2>1 DEF IInv, Tick, OneTurn
<1>3. CASE UNCHANGED vars
  BY <1>3 DEF IInv, vars, Counters, OneTurn
<1>. QED
  BY <1>1, <1>2, <1>3

-----------------------------------------------------------------------------

LEMMA Inductive == IInv /\ [Next]_vars => IInv'
<1>. SUFFICES ASSUME IInv, [Next]_vars PROVE IInv'
  OBVIOUS
<1>1. ASSUME NEW r \in Runtime, Step(r) PROVE IInv'
  BY <1>1, RecoverKeeps, EndKeeps, MissedDiscoverKeeps, MissedDoneKeeps, MissedTerminalKeeps,
     DiscoverCandleKeeps, ClaimCandleKeeps, SnapshotKeeps, BindSnapshotKeeps, PreflightKeeps,
     MarkProcessingKeeps, CycleEndsKeeps, AppendKeeps, MarkTerminalKeeps DEF Step
<1>2. ASSUME NEW r \in Runtime, StartIneligible(r) \/ Start(r) \/ Shutdown(r) \/ Poll(r)
                                \/ CycleCancelled(r) \/ WriteFails(r)
      PROVE  IInv'
  BY <1>2, StartKeeps, ShutdownKeeps, PollKeeps, EndKeeps, WriteFailsKeeps
<1>. QED
  BY <1>1, <1>2, WorldKeeps DEF Next

LEMMA Initial == Init => IInv
<1>. SUFFICES ASSUME Init PROVE IInv
  OBVIOUS
<1>1. Stopped \in RuntimeRecord /\ Stopped.pc = "idle" /\ Stopped.guarded = FALSE
  BY DEF Stopped, RuntimeRecord, RuntimeState, PC
<1>2. runtime \in [Runtime -> RuntimeRecord] /\ OneTurn
      /\ \A r \in Runtime : CallOK(runtime[r], claims, decisions, dispatched)
  BY <1>1 DEF Init, OneTurn, CallOK, Working
<1>3. [state |-> "NONE", snapshot |-> None] \in Claim
  BY DEF Claim
<1>4. RowTypes(claims, decisions, dispatched)
  BY <1>3 DEF Init, RowTypes
<1>5. Distinct(claims) /\ \A c \in Candle : RowOK(c, claims, decisions, dispatched)
  BY DEF Init, Distinct, RowOK
<1>6. Counters
  BY ObservationAssumption DEF Init, Counters
<1>. QED
  BY <1>2, <1>4, <1>5, <1>6 DEF IInv, Rows

LEMMA Invariant == Spec => []IInv
BY Initial, Inductive, PTL DEF Spec

-----------------------------------------------------------------------------
(* What a step may never change                                            *)

\* A claim that moves on was not settled.
LEMMA MoveStays ==
    ASSUME IInv, NEW r \in Runtime, NEW me, NEW c, NEW expected \in SUBSET Unfinished,
           NEW state, Move(r, c, expected, state, me)
    PROVE  \A d \in Candle : claims[d].state \in Terminal => claims'[d] = claims[d]
<1>1. claims \in [Candle -> Claim]
  BY DEF IInv, Rows, RowTypes
<1>2. \A state2 \in Unfinished : state2 \notin Terminal
  BY DEF Unfinished, Terminal
<1>. QED
  BY <1>1, <1>2 DEF Move

LEMMA DiscoveredStays ==
    ASSUME IInv, NEW c, Discovered(c)
    PROVE  \A d \in Candle : claims[d].state \in Terminal => claims'[d] = claims[d]
<1>1. claims \in [Candle -> Claim]
  BY DEF IInv, Rows, RowTypes
<1>. SUFFICES ASSUME NEW d \in Candle, claims[d].state \in Terminal
              PROVE  claims'[d] = claims[d]
  OBVIOUS
<1>2. CASE d = c
  BY <1>1, <1>2 DEF Discovered, Claim, Terminal
<1>3. CASE d # c
  BY <1>1, <1>3 DEF Discovered
<1>. QED
  BY <1>2, <1>3

\* A call binds a snapshot to a claim that it has just made.
LEMMA BindStays ==
    ASSUME IInv, NEW r \in Runtime, BindSnapshot(r)
    PROVE  \A d \in Candle : claims[d].state \in Terminal => claims'[d] = claims[d]
<1>1. claims \in [Candle -> Claim]
  BY DEF IInv, Rows, RowTypes
<1>2. "CLAIMED" \notin Terminal
  BY DEF Terminal
<1>. QED
  BY <1>1, <1>2 DEF BindSnapshot

LEMMA ClaimsStay ==
    ASSUME IInv, [Next]_vars
    PROVE  \A d \in Candle : claims[d].state \in Terminal => claims'[d] = claims[d]
<1>1. Settling \in SUBSET Unfinished /\ {"DISCOVERED"} \in SUBSET Unfinished
      /\ {"CLAIMED"} \in SUBSET Unfinished
  BY DEF Settling, Unfinished
<1>2. CASE UNCHANGED claims
  BY <1>2
<1>3. ASSUME NEW r \in Runtime,
             Recover(r) \/ MissedTerminal(r) \/ ClaimCandle(r) \/ MarkProcessing(r) \/ MarkTerminal(r)
      PROVE  \A d \in Candle : claims[d].state \in Terminal => claims'[d] = claims[d]
  <2>1. CASE Recover(r)
    BY <1>1, <2>1, MoveStays DEF Recover
  <2>2. CASE MissedTerminal(r)
    BY <1>1, <2>2, MoveStays DEF MissedTerminal
  <2>3. CASE ClaimCandle(r)
    BY <1>1, <2>3, MoveStays DEF ClaimCandle
  <2>4. CASE MarkProcessing(r)
    BY <1>1, <2>4, MoveStays DEF MarkProcessing
  <2>5. CASE MarkTerminal(r)
    BY <1>1, <2>5, MoveStays DEF MarkTerminal
  <2>. QED
    BY <1>3, <2>1, <2>2, <2>3, <2>4, <2>5
<1>4. ASSUME NEW r \in Runtime, MissedDiscover(r) \/ DiscoverCandle(r)
      PROVE  \A d \in Candle : claims[d].state \in Terminal => claims'[d] = claims[d]
  BY <1>4, DiscoveredStays DEF MissedDiscover, DiscoverCandle
<1>5. ASSUME NEW r \in Runtime, StartIneligible(r) \/ Start(r) \/ Shutdown(r) \/ Poll(r)
                                \/ CycleCancelled(r) \/ WriteFails(r)
      PROVE  UNCHANGED claims
  BY <1>5 DEF StartIneligible, Start, StartFrom, Shutdown, Poll, CycleCancelled, WriteFails
<1>6. ASSUME NEW r \in Runtime, Started(r) \/ MissedDone(r) \/ Snapshot(r) \/ Preflight(r)
                                \/ CycleEnds(r) \/ Append(r) \/ Finally(r)
      PROVE  UNCHANGED claims
  BY <1>6 DEF Started, MissedDone, Snapshot, Preflight, CycleEnds, Append, Finally
<1>7. CASE Crash \/ Tick \/ UNCHANGED vars
  BY <1>7, <1>2 DEF Crash, Tick, vars
<1>. QED
  BY <1>2, <1>3, <1>4, <1>5, <1>6, <1>7, BindStays DEF Next, Step

LEMMA DecisionsStay ==
    ASSUME IInv, [Next]_vars
    PROVE  \A d \in Candle : decisions[d] # None => decisions'[d] = decisions[d]
<1>1. CASE UNCHANGED decisions
  BY <1>1
<1>2. ASSUME NEW r \in Runtime, Append(r)
      PROVE  \A d \in Candle : decisions[d] # None => decisions'[d] = decisions[d]
  <2>1. decisions \in [Candle -> Record \cup {None}]
    BY DEF IInv, Rows, RowTypes
  <2>. QED
    BY <1>2, <2>1 DEF Append
<1>3. ASSUME NEW r \in Runtime, StartIneligible(r) \/ Start(r) \/ Shutdown(r) \/ Poll(r)
                                \/ CycleCancelled(r) \/ WriteFails(r)
      PROVE  UNCHANGED decisions
  BY <1>3 DEF StartIneligible, Start, StartFrom, Shutdown, Poll, CycleCancelled, WriteFails
<1>4. ASSUME NEW r \in Runtime,
             Recover(r) \/ Started(r) \/ MissedDiscover(r) \/ MissedDone(r) \/ MissedTerminal(r)
             \/ DiscoverCandle(r) \/ ClaimCandle(r) \/ Snapshot(r) \/ BindSnapshot(r)
             \/ Preflight(r) \/ MarkProcessing(r) \/ CycleEnds(r) \/ MarkTerminal(r) \/ Finally(r)
      PROVE  UNCHANGED decisions
  BY <1>4 DEF Recover, Started, MissedDiscover, MissedDone, MissedTerminal, DiscoverCandle,
              ClaimCandle, Snapshot, BindSnapshot, Preflight, MarkProcessing, CycleEnds,
              MarkTerminal, Finally
<1>5. CASE Crash \/ Tick \/ UNCHANGED vars
  BY <1>5, <1>1 DEF Crash, Tick, vars
<1>. QED
  BY <1>1, <1>2, <1>3, <1>4, <1>5 DEF Next, Step

-----------------------------------------------------------------------------
(* The theorems                                                            *)

\* Every reachable state has its types: the rows of m9_claims and m9_decisions hold what
\* their enumerations allow, and a runtime is at one of the places of its code.
THEOREM ObservationTypeCorrect == Spec => []ObservationTypeOK
<1>1. IInv => ObservationTypeOK
  BY DEF IInv, Counters, Rows, RowTypes, ObservationTypeOK
<1>. QED
  BY <1>1, Invariant, PTL

\* However often runtimes are started, polled, cancelled and crash, and however many there
\* are, the SHADOW cycle of a candle is asked for once at most (mark_processing).
THEOREM CandlesAreDispatchedOnce == Spec => []NeverRedispatched
<1>1. IInv => NeverRedispatched
  BY DEF IInv, Rows, RowOK, NeverRedispatched
<1>. QED
  BY <1>1, Invariant, PTL

\* Claims and decision records agree at every moment, also between the two transactions
\* that settle a candle (append_decision, mark_terminal).
THEOREM ClaimsAndRecordsAgree == Spec => []ClaimsMatchRecords
<1>1. ASSUME IInv, NEW c \in Candle
      PROVE  RowOK(c, claims, decisions, dispatched) /\ decisions[c] \in Record \cup {None}
  BY <1>1 DEF IInv, Rows, RowTypes
<1>2. IInv => ClaimsMatchRecords
  BY <1>1 DEF RowOK, RecordFits, Undecided, FailCategory, ClaimsMatchRecords
<1>. QED
  BY <1>2, Invariant, PTL

\* No snapshot is bound to two candles, and a record quotes the snapshot of its claim
\* (bind_snapshot, append_decision).
THEOREM IdentitiesChain == Spec => []IdentityChain
<1>1. IInv => IdentityChain
  BY DEF IInv, Rows, RowOK, RecordFits, Distinct, IdentityChain
<1>. QED
  BY <1>1, Invariant, PTL

\* Nothing changes a settled claim or a decision record again, neither a start that
\* recovers nor a call that comes too late (_transition, mark_terminal, append_decision).
THEOREM WhatIsSettledStays == Spec => SettledStays
<1>1. IInv /\ [Next]_vars =>
        [\A c \in Candle :
            /\ claims[c].state \in Terminal => claims'[c] = claims[c]
            /\ decisions[c] # None => decisions'[c] = decisions[c]]_vars
  BY ClaimsStay, DecisionsStay
<1>. QED
  BY <1>1, Invariant, PTL DEF Spec, SettledStays
=============================================================================
