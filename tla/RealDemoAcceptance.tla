------------------------- MODULE RealDemoAcceptance -------------------------
(***************************************************************************)
(* The M11 real-DEMO acceptance command: RealDemoAcceptanceCoordinator and *)
(* its SQLite repository, composed with the execution service it calls.    *)
(*                                                                         *)
(* A readiness generation is registered by one invocation of the command   *)
(* and consumed by another, which then runs the service once, saves the    *)
(* result and closes the execution control.  The acceptance repository is  *)
(* a second database file; like the first it is read when it is opened.    *)
(* Every step is a step of DemoExecution or leaves its variables alone.    *)
(***************************************************************************)
EXTENDS DemoExecution

CONSTANTS
    Generation      \* readiness generations, one for each acceptance run

ASSUME GenerationAssumption == "none" \notin Generation

VARIABLES
    file,           \* the acceptance database
    note,           \* note[p]: the acceptance repository object of process p
    run,            \* run[p]: the execute_once call process p is in
    stamp,          \* control events written so far, which names the newest
    last,           \* the control event that stands last in the file
    seen            \* seen[p]: the control event p holds to be the current one

acceptance == <<file, note, run>>
events == <<stamp, last, seen>>
allvars == <<vars, file, note, run, stamp, last, seen>>

\* RealDemoAcceptanceStatus, and "none" for a run without a result.
Status == {"none", "ACCEPTED", "REJECTED", "UNKNOWN"}

\* A readiness record binds a candidate, here the intent it is sealed into,
\* and the ENABLED control event it was issued under.
Readiness == [gen : Generation, intent : Intent, event : Nat]

\* A result names its generation and the intent of its execution record.
Result == [gen : Generation, intent : Intent, status : Status]

Repository == [ready : SUBSET Readiness, consumed : SUBSET Generation,
               results : SUBSET Result]
EmptyRepository == [ready |-> {}, consumed |-> {}, results |-> {}]

\* "none": no execute_once.  "consume", "execute", "service", "seal", "close":
\* what it does next; "failed": it is leaving with an exception.
Run == [pc : {"none", "consume", "execute", "service", "seal", "close", "failed"},
        gen : Generation \cup {"none"}, intent : Intent \cup {"none"}, event : Nat]
NoRun == [pc |-> "none", gen |-> "none", intent |-> "none", event |-> 0]

\* _acceptance_status
AcceptanceStatus(state) ==
    CASE state = "CONFIRMED" -> "ACCEPTED"
      [] state = "REJECTED" -> "REJECTED"
      [] OTHER -> "UNKNOWN"

RInit ==
    /\ Init
    /\ file = EmptyRepository
    /\ note = [p \in Process |-> EmptyRepository]
    /\ run = [p \in Process |-> NoRun]
    /\ stamp = 0
    /\ last = 0
    /\ seen = [p \in Process |-> 0]

\* A control event that p appends is p's current one.  It stands last in the
\* file unless it is a halt that comes late.
Stamp(p) ==
    IF mem'[p].control = mem[p].control THEN UNCHANGED events
    ELSE /\ stamp' = stamp + 1
         /\ last' = IF p \in late \ late' /\ call[p].pc = "halt" THEN last ELSE stamp + 1
         /\ seen' = [seen EXCEPT ![p] = stamp + 1]

-----------------------------------------------------------------------------
(* The process: both repositories are opened, and lost, together.          *)

OpenAll(p) ==
    /\ Open(p)
    /\ note' = [note EXCEPT ![p] = file]
    /\ seen' = [seen EXCEPT ![p] = last]
    /\ UNCHANGED <<file, run, stamp, last>>

CrashAll(p) ==
    /\ Crash(p)
    /\ note' = [note EXCEPT ![p] = EmptyRepository]
    /\ run' = [run EXCEPT ![p] = NoRun]
    /\ UNCHANGED <<file, events>>

-----------------------------------------------------------------------------
(* Readiness.                                                              *)

Vacant(p) == run[p].pc = "none" /\ call[p].pc = "idle"

\* readiness_only: authority for the candidate, a clear account, and a run
\* and generation that neither this memory nor the file knows.
ReadinessOnly(p, g, i) ==
    /\ Vacant(p)
    /\ mem[p].control = "ENABLED"
    /\ \E a \in mem[p].granted \ mem[p].revoked : ApprovedIntent[a] = i
    /\ open = {}
    /\ \A r \in note[p].ready \cup file.ready : r.gen # g
    /\ LET r == [gen |-> g, intent |-> i, event |-> seen[p]]
       IN  /\ file' = [file EXCEPT !.ready = @ \cup {r}]
           /\ note' = [note EXCEPT ![p].ready = @ \cup {r}]
    /\ UNCHANGED <<vars, run, events>>

-----------------------------------------------------------------------------
(* execute_once                                                            *)

Move(p, pc) == run' = [run EXCEPT ![p].pc = pc]

\* The readiness is not consumed as far as this process knows, and the control
\* event of the moment is kept.  The candidate is an argument of its own.
StartRun(p, g, i) ==
    /\ Vacant(p)
    /\ g \notin note[p].consumed
    /\ mem[p].control = "ENABLED"
    /\ run' = [run EXCEPT ![p] = [pc |-> "consume", gen |-> g, intent |-> i,
                                  event |-> seen[p]]]
    /\ UNCHANGED <<vars, file, note, events>>

\* As Consume, but only memory is asked and written.
ConsumeInMemory(p) ==
    /\ run[p].pc = "consume"
    /\ \/ /\ \E r \in note[p].ready : r.gen = run[p].gen /\ r.event = run[p].event
          /\ run[p].gen \notin note[p].consumed
          /\ note' = [note EXCEPT ![p].consumed = @ \cup {run[p].gen}]
          /\ Move(p, "execute")
       \/ /\ run' = [run EXCEPT ![p] = NoRun]
          /\ UNCHANGED note
    /\ UNCHANGED <<vars, file, events>>

\* repository.consume: the stored readiness and the human's approval name the
\* control event of this run, and no process consumed the generation.  A
\* refusal, of the file, of an expired readiness or of another approval, ends
\* the run and leaves the control as it is.
Consume(p) ==
    /\ run[p].pc = "consume"
    /\ \/ /\ \E r \in note[p].ready : r.gen = run[p].gen /\ r.event = run[p].event
          /\ run[p].gen \notin note[p].consumed \cup file.consumed
          /\ note' = [note EXCEPT ![p].consumed = @ \cup {run[p].gen}]
          /\ file' = [file EXCEPT !.consumed = @ \cup {run[p].gen}]
          /\ Move(p, "execute")
       \/ /\ run' = [run EXCEPT ![p] = NoRun]
          /\ UNCHANGED <<file, note>>
    /\ UNCHANGED <<vars, events>>

\* The service is called, once.
Execute(p) ==
    /\ run[p].pc = "execute"
    /\ \/ \E a \in Approval : Begin(p, run[p].intent, a)
       \/ BeginRefused(p)
    /\ Move(p, "service")
    /\ UNCHANGED <<file, note, events>>

ServiceRuns(p) ==
    /\ run[p].pc = "service"
    /\ ServiceStep(p)
    /\ Stamp(p)
    /\ UNCHANGED acceptance

\* The service has returned a record, or raised.
Answered(p) ==
    /\ run[p].pc = "service"
    /\ \/ call[p].pc = "returned" /\ Move(p, "seal")
       \/ call[p].pc = "raised" /\ Move(p, "failed")
    /\ UNCHANGED <<vars, file, note, events>>

\* As Seal, but the status follows the broker's receipt.
SealReceipt(p) ==
    LET r == [gen |-> run[p].gen, intent |-> call[p].row.intent,
              status |-> call[p].row.receipt]
    IN  /\ run[p].pc = "seal"
        /\ file' = [file EXCEPT !.results = @ \cup {r}]
        /\ note' = [note EXCEPT ![p].results = @ \cup {r}]
        /\ Move(p, "close")
        /\ UNCHANGED <<vars, events>>

\* The result is derived from the record and saved, if that can be done.
Seal(p) ==
    LET r == [gen |-> run[p].gen, intent |-> call[p].row.intent,
              status |-> AcceptanceStatus(call[p].row.state)]
    IN  /\ run[p].pc = "seal"
        /\ \/ /\ \A o \in note[p].results \cup file.results : o.gen # r.gen
              /\ file' = [file EXCEPT !.results = @ \cup {r}]
              /\ note' = [note EXCEPT ![p].results = @ \cup {r}]
              /\ Move(p, "close")
           \/ Move(p, "failed") /\ UNCHANGED <<file, note>>
        /\ UNCHANGED <<vars, events>>

\* As Close, but a confirmed order leaves the control as it is.
CloseUnlessConfirmed(p) ==
    /\ run[p].pc = "close"
    /\ \/ call[p].row.state = "CONFIRMED" /\ UNCHANGED <<vars, events>>
       \/ /\ mem[p].control # "ENABLED"
          /\ UNCHANGED <<vars, events>>
       \/ CloseControl(p, "HALTED") /\ Stamp(p)
    /\ run' = [run EXCEPT ![p] = NoRun]
    /\ UNCHANGED <<file, note>>

\* _finish_control: PAUSED after a clean end, HALTED after any other, and
\* nothing if the control is not ENABLED any more.  The result is returned.
Close(p) ==
    /\ run[p].pc = "close"
    /\ \/ mem[p].control # "ENABLED" /\ UNCHANGED <<vars, events>>
       \/ /\ CloseControl(p, IF call[p].row.state \in {"CONFIRMED", "REJECTED"}
                             THEN "PAUSED" ELSE "HALTED")
          /\ Stamp(p)
    /\ run' = [run EXCEPT ![p] = NoRun]
    /\ UNCHANGED <<file, note>>

\* The same when the exception of the service or of save_result is passed on.
Fail(p) ==
    /\ run[p].pc = "failed"
    /\ \/ mem[p].control # "ENABLED" /\ UNCHANGED <<vars, events>>
       \/ CloseControl(p, "HALTED") /\ Stamp(p)
    /\ run' = [run EXCEPT ![p] = NoRun]
    /\ UNCHANGED <<file, note>>

\* The control event cannot be written: the exception leaves it as it is.
CloseFails(p) ==
    /\ run[p].pc \in {"close", "failed"}
    /\ mem[p].control = "ENABLED"
    /\ Move(p, "none")
    /\ UNCHANGED <<vars, file, note, events>>

\* The caller of the command goes on.
Leave(p) ==
    /\ run[p].pc = "none"
    /\ Return(p)
    /\ run' = [run EXCEPT ![p] = NoRun]
    /\ UNCHANGED <<file, note, events>>

-----------------------------------------------------------------------------

Operator(p) ==
    /\ \/ \E s \in ControlState : OperatorControl(p, s)
       \/ \E a \in Approval : Grant(p, a) \/ Revoke(p, a)
    /\ Stamp(p)
    /\ UNCHANGED acceptance

Broker ==
    /\ \E i \in Intent : LateFill(i) \/ ClosePosition(i)
    /\ UNCHANGED <<acceptance, events>>

RNext ==
    \/ \E p \in Process :
          \/ OpenAll(p) \/ CrashAll(p)
          \/ \E g \in Generation, i \in Intent : ReadinessOnly(p, g, i) \/ StartRun(p, g, i)
          \/ Consume(p) \/ Execute(p) \/ ServiceRuns(p) \/ Answered(p) \/ Seal(p)
          \/ Close(p) \/ Fail(p) \/ CloseFails(p) \/ Leave(p) \/ Operator(p)
    \/ Broker

RSpec == RInit /\ [][RNext]_allvars

-----------------------------------------------------------------------------
(* What the command guarantees.                                            *)

\* Every variable of the command has its type.
RTypeOK ==
    /\ file \in Repository
    /\ note \in [Process -> Repository]
    /\ run \in [Process -> Run]
    /\ stamp \in Nat
    /\ last \in Nat
    /\ seen \in [Process -> Nat]

\* A consumed readiness generation lets at most one order out, and no order
\* goes out without one, whatever processes run, crash and run again.
OneSendPerConsumption ==
    Cardinality({i \in Intent : sends[i] > 0}) <= Cardinality(file.consumed)

\* A saved result says of its intent what the records and the broker say: an
\* accepted one has its position as sealed, a rejected one has left none, and
\* an uncertain one stands for a record that was uncertain.
ResultIsTrue ==
    \A r \in file.results :
        /\ r.gen \in file.consumed
        /\ r.status = "ACCEPTED" => HasState(r.intent, "CONFIRMED") /\ fills[r.intent] = "match"
        /\ r.status = "REJECTED" => HasState(r.intent, "REJECTED") /\ NothingExecuted(r.intent)
        /\ r.status = "UNKNOWN" =>
              HasState(r.intent, "UNKNOWN") \/ HasState(r.intent, "RECONCILIATION_FAILED")

\* A run that hands back its result has ended the control event under which
\* its readiness was consumed: a later event stands last in the file.
AuthorityIsSpent ==
    [][\A p \in Process :
          run[p].pc = "close" /\ run'[p] = NoRun /\ call'[p].pc # "down" =>
             last' > run[p].event]_allvars

=============================================================================
