---------------------------- MODULE DemoExecution ----------------------------
(***************************************************************************)
(* The M11 guarded DEMO execution: DemoExecutionService over the SQLite    *)
(* execution repository and the MT5 adapter.                               *)
(*                                                                         *)
(* Several operating-system processes may open the same database file.     *)
(* Each loads the whole file into memory when it opens it and from then on *)
(* reads its own memory only; a write goes to that memory and then, in one *)
(* transaction, to the file, whose PRIMARY KEY and UNIQUE constraints are  *)
(* all that the processes share.  A write that the file refuses, whatever  *)
(* the reason, is undone in memory and raised to the caller.  A process    *)
(* runs one call of the service at a time; operator commands on the same   *)
(* repository may come from another thread of it.                          *)
(***************************************************************************)
EXTENDS Naturals, FiniteSets

CONSTANTS
    Process,        \* processes that may open the database
    Intent,         \* sealed DemoOrderIntents, named by execution_intent_id
    Source,         \* shadow trade intents, named by their digest
    SourceOf,       \* source_shadow_intent_digest of each intent
    Approval,       \* human DEMO approvals for the one account and symbol
    ApprovedIntent, \* the intent an approval's digests bind
    Exclusive,      \* TRUE: one process at a time, recovery only between calls,
                    \* and no operator command from the guard to the halt
    TimeoutsFinal,  \* TRUE: an order whose return code is a timeout or a lost
                    \* connection was not executed
    MaxCrashes,     \* bound: times a process stops
    MaxOperator     \* bound: operator commands (control events, approvals)

ASSUME SourceOfAssumption == SourceOf \in [Intent -> Source]
ASSUME ApprovedAssumption == ApprovedIntent \in [Approval -> Intent]
ASSUME ExclusiveAssumption == Exclusive \in BOOLEAN /\ TimeoutsFinal \in BOOLEAN
ASSUME BoundsAssumption == MaxCrashes \in Nat /\ MaxOperator \in Nat
ASSUME IntentAssumption == Intent # {}

VARIABLES
    rows,       \* m11_record_revision: every revision of every record
    control,    \* state of the last row of m11_control_event, by occurred_at
    late,       \* processes whose halt, not yet written, is stamped before it
    granted,    \* m11_approval
    revoked,    \* m11_approval_revocation, by approval
    mem,        \* mem[p]: the repository object of process p
    call,       \* call[p]: the service call process p is in
    sends,      \* sends[i]: calls of order_send for intent i
    fills,      \* fills[i]: the execution the broker gave intent i
    open,       \* intents whose position is open at the broker
    used        \* how much of each bound is spent

db == <<rows, control, late, granted, revoked>>
broker == <<sends, fills, open>>
vars == <<rows, control, late, granted, revoked, mem, call, sends, fills, open, used>>

\* DemoExecutionState; "ABSENT" stands for an intent without a record.  A
\* claim writes CREATED and CLAIMED together, as revision 2.
RecordState == {"ABSENT", "CLAIMED", "DISPATCHING", "SUBMITTED", "CONFIRMED",
                "REJECTED", "UNKNOWN", "RECONCILIATION_FAILED"}

\* The transitions DemoExecutionRecord.validate_lifecycle accepts.
AllowedNext(s) ==
    CASE s = "ABSENT" -> {"CLAIMED"}
      [] s = "CLAIMED" -> {"DISPATCHING", "REJECTED"}
      [] s = "DISPATCHING" -> {"SUBMITTED", "REJECTED", "UNKNOWN"}
      [] s = "SUBMITTED" -> {"CONFIRMED", "UNKNOWN", "RECONCILIATION_FAILED"}
      [] s = "UNKNOWN" -> {"CONFIRMED", "RECONCILIATION_FAILED"}
      [] OTHER -> {}

Unsettled == {"CLAIMED", "DISPATCHING", "SUBMITTED"}

\* What the broker may have made of an intent: a position exactly as sealed,
\* one that differs from it (a part of the volume, other protective levels),
\* an order still pending, or nothing.
Fill == {"none", "pending", "match", "other"}
Executed == {"match", "other"}

\* Disposition of the DemoSubmissionReceipt.  Only an accepted one carries
\* composite broker evidence.
Receipt == {"none", "ACCEPTED", "REJECTED", "UNKNOWN"}

ControlState == {"DISABLED", "ENABLED", "PAUSED", "HALTED"}

\* The transitions ExecutionControlEvent.validate_transition accepts.
ControlNext(s) ==
    CASE s = "DISABLED" -> {"ENABLED", "HALTED"}
      [] s = "ENABLED" -> {"PAUSED", "DISABLED", "HALTED"}
      [] s = "PAUSED" -> {"ENABLED", "DISABLED", "HALTED"}
      [] s = "HALTED" -> {"DISABLED"}

\* One row of m11_record_revision: a record whose last event is `state`.
Row == [intent : Intent, revision : Nat, state : RecordState, receipt : Receipt]

Absent(i) == [intent |-> i, revision |-> 0, state |-> "ABSENT", receipt |-> "none"]
AnyRow == Absent(CHOOSE i \in Intent : TRUE)

RowsOf(i) == {r \in rows : r.intent = i}

\* What _load keeps of an intent: its row of the highest revision.
Latest(i) ==
    IF RowsOf(i) = {} THEN Absent(i)
    ELSE CHOOSE r \in RowsOf(i) : \A o \in RowsOf(i) : o.revision <= r.revision

Memory == [rec : [Intent -> Row], control : ControlState,
           granted : SUBSET Approval, revoked : SUBSET Approval]

NoMemory == [rec |-> [i \in Intent |-> Absent(i)], control |-> "DISABLED",
             granted |-> {}, revoked |-> {}]

\* "down": the process does not run.  "idle": no call.  The others name the
\* next thing a call does; "returned" and "raised" are how a call ends.
PC == {"down", "idle", "capture", "claim", "check", "observe", "guard",
       "dispatch", "send", "settle", "reconcile", "halt", "returned", "raised"}

Call == [pc : PC, row : Row, approval : Approval \cup {"none"},
         clear : BOOLEAN, receipt : Receipt]

Idle == [pc |-> "idle", row |-> AnyRow, approval |-> "none",
         clear |-> FALSE, receipt |-> "none"]
Down == [Idle EXCEPT !.pc = "down"]
Raised == [Idle EXCEPT !.pc = "raised"]

-----------------------------------------------------------------------------
(* The database handle of a process: opening, crashing, writing.           *)

Init ==
    /\ rows = {}
    /\ control \in ControlState
    /\ late = {}
    /\ granted \in SUBSET Approval
    /\ revoked = {}
    /\ mem = [p \in Process |-> NoMemory]
    /\ call = [p \in Process |-> Down]
    /\ sends = [i \in Intent |-> 0]
    /\ fills = [i \in Intent |-> "none"]
    /\ open = {}
    /\ used = [crashes |-> 0, operator |-> 0]

\* SQLiteDemoExecutionRepository(path): read the file once.
Open(p) ==
    /\ call[p].pc = "down"
    /\ Exclusive => \A q \in Process : call[q].pc = "down"
    /\ mem' = [mem EXCEPT ![p] = [rec |-> [i \in Intent |-> Latest(i)],
                                  control |-> control,
                                  granted |-> granted, revoked |-> revoked]]
    /\ call' = [call EXCEPT ![p] = Idle]
    /\ UNCHANGED <<db, broker, used>>

\* The process ends, orderly or not, wherever its call is.
Crash(p) ==
    /\ call[p].pc # "down"
    /\ used.crashes < MaxCrashes
    /\ used' = [used EXCEPT !.crashes = @ + 1]
    /\ mem' = [mem EXCEPT ![p] = NoMemory]
    /\ call' = [call EXCEPT ![p] = Down]
    /\ UNCHANGED <<db, broker>>

\* An exception leaves the call: nothing is kept but what is in the file.
Raise(p) ==
    /\ call' = [call EXCEPT ![p] = Raised]
    /\ UNCHANGED <<db, mem, broker, used>>

\* The next record of the call's intent: one more event, the same intent.
Advance(p, state, receipt) ==
    [call[p].row EXCEPT !.revision = @ + 1, !.state = state, !.receipt = receipt]

\* As Save, but a revision the file already has is skipped, not refused.
SaveIgnoring(p, row, pc) ==
    /\ mem[p].rec[row.intent] = call[p].row
    /\ rows' = IF \E r \in RowsOf(row.intent) : r.revision = row.revision
               THEN rows ELSE rows \cup {row}
    /\ mem' = [mem EXCEPT ![p].rec[row.intent] = row]
    /\ call' = [call EXCEPT ![p].row = row, ![p].pc = pc]
    /\ UNCHANGED <<control, late, granted, revoked, broker, used>>

\* repository.save: the record must extend the one in memory, and the file
\* must have no such revision yet.
Save(p, row, pc) ==
    /\ mem[p].rec[row.intent] = call[p].row
    /\ \A r \in RowsOf(row.intent) : r.revision # row.revision
    /\ rows' = rows \cup {row}
    /\ mem' = [mem EXCEPT ![p].rec[row.intent] = row]
    /\ call' = [call EXCEPT ![p].row = row, ![p].pc = pc]
    /\ UNCHANGED <<control, late, granted, revoked, broker, used>>

\* As SaveOrRaise, but memory is not put back when the file refuses.
SaveOrRaiseKeeping(p, row, pc) ==
    \/ Save(p, row, pc)
    \/ /\ mem[p].rec[row.intent] = call[p].row
       /\ mem' = [mem EXCEPT ![p].rec[row.intent] = row]
       /\ call' = [call EXCEPT ![p] = Raised]
       /\ UNCHANGED <<db, broker, used>>

\* Either the record is saved or the storage raises (a locked file, a full
\* disk, a revision some other process wrote first).
SaveOrRaise(p, row, pc) == Save(p, row, pc) \/ Raise(p)

\* _reject_before_dispatch
RejectBeforeDispatch(p) ==
    SaveOrRaise(p, Advance(p, "REJECTED", "none"), "returned")

-----------------------------------------------------------------------------
(* DemoExecutionService.execute, one action per outside call it makes.     *)

Go(p, pc) ==
    /\ call' = [call EXCEPT ![p].pc = pc]
    /\ UNCHANGED <<db, mem, broker, used>>

\* Authority: control ENABLED and exactly one effective approval, which
\* binds this intent.  All of it is read from memory.  An approval outside its
\* interval is not effective, so others that stand need not count.
Begin(p, i, a) ==
    /\ call[p].pc = "idle"
    /\ mem[p].control = "ENABLED"
    /\ a \in mem[p].granted \ mem[p].revoked
    /\ ApprovedIntent[a] = i
    /\ call' = [call EXCEPT ![p] = [Idle EXCEPT !.pc = "capture",
                                    !.row = Absent(i), !.approval = a]]
    /\ UNCHANGED <<db, mem, broker, used>>

\* The call has no authority, or its clock or its inputs are refused.
BeginRefused(p) ==
    /\ call[p].pc = "idle"
    /\ Raise(p)

\* As AccountClear, but only a position of the call's own intent conflicts.
OwnIntentClear(p) == call[p].row.intent \notin open

\* Any open position of the account conflicts with the order of a call.
AccountClear(p) == open = {}

\* Fresh observation, preflight and risk revalidation: the account must have
\* no open position; every other check may fail for reasons of its own.
Capture(p) ==
    /\ call[p].pc = "capture"
    /\ \/ AccountClear(p) /\ Go(p, "claim")
       \/ Raise(p)

\* As ClaimIntent, but only the memory of this process is asked.
ClaimIntentInMemory(p) ==
    LET i == call[p].row.intent
        claimed == [Absent(i) EXCEPT !.revision = 2, !.state = "CLAIMED"]
    IN  /\ call[p].pc = "claim"
        /\ \/ /\ \A j \in Intent : SourceOf[j] = SourceOf[i] =>
                    mem[p].rec[j].state = "ABSENT"
              /\ Save(p, claimed, "check")
           \/ Raise(p)

\* repository.claim: intent id, source digest and client id unused in memory,
\* then PRIMARY KEY and UNIQUE in the file.
ClaimIntent(p) ==
    LET i == call[p].row.intent
        claimed == [Absent(i) EXCEPT !.revision = 2, !.state = "CLAIMED"]
    IN  /\ call[p].pc = "claim"
        /\ \/ /\ \A j \in Intent : SourceOf[j] = SourceOf[i] =>
                    /\ mem[p].rec[j].state = "ABSENT"
                    /\ RowsOf(j) = {}
              /\ Save(p, claimed, "check")
           \/ Raise(p)

\* adapter.order_check: accepted, or not accepted, or an exception.
OrderCheck(p) ==
    /\ call[p].pc = "check"
    /\ Go(p, "observe") \/ RejectBeforeDispatch(p)

\* adapter.observe_final_dispatch: the positions seen are kept for the guard.
ObserveFinal(p) ==
    /\ call[p].pc = "observe"
    /\ \/ /\ call' = [call EXCEPT ![p].pc = "guard", ![p].clear = AccountClear(p)]
          /\ UNCHANGED <<db, mem, broker, used>>
       \/ RejectBeforeDispatch(p)

\* As GuardPasses, but authority is what it was when the call began.
GuardPassesUnchecked(p) ==
    /\ mem[p].rec[call[p].row.intent].state = "CLAIMED"
    /\ call[p].clear

\* FinalDispatchGuard.evaluate with claim, approval and control as this
\* process remembers them.  Expiry, quote and environment may fail besides.
GuardPasses(p) ==
    /\ mem[p].rec[call[p].row.intent].state = "CLAIMED"
    /\ call[p].approval \notin mem[p].revoked
    /\ mem[p].control = "ENABLED"
    /\ call[p].clear

Guard(p) ==
    /\ call[p].pc = "guard"
    /\ \/ GuardPasses(p) /\ Go(p, "dispatch")
       \/ RejectBeforeDispatch(p)

\* DISPATCHING is saved before the broker is called.
PersistDispatching(p) ==
    /\ call[p].pc = "dispatch"
    /\ SaveOrRaise(p, Advance(p, "DISPATCHING", "none"), "send")

\* What order_send may answer and what the broker made of it: an order that
\* was placed may execute later ("pending"), a lost answer says nothing, and
\* every return code but the three that accept, a timeout among them, is mapped
\* to a rejection.
Answers == ({"ACCEPTED"} \X {"match", "other", "pending"})
           \cup ({"UNKNOWN"} \X Fill)
           \cup ({"REJECTED"} \X IF TimeoutsFinal THEN {"none"} ELSE Fill)

\* The broker executed nothing for i, if its timeouts are to be believed.
NothingExecuted(i) == TimeoutsFinal => fills[i] = "none"

\* adapter.submit_demo_market_intent: it may raise before it calls order_send.
Submit(p) ==
    LET i == call[p].row.intent
    IN  /\ call[p].pc = "send"
        /\ \/ /\ call' = [call EXCEPT ![p].pc = "settle", ![p].receipt = "UNKNOWN"]
              /\ UNCHANGED broker
           \/ \E ans \in Answers :
                 /\ sends' = [sends EXCEPT ![i] = @ + 1]
                 /\ fills' = [fills EXCEPT ![i] = ans[2]]
                 /\ open' = IF ans[2] \in Executed THEN open \cup {i} ELSE open
                 /\ call' = [call EXCEPT ![p].pc = "settle", ![p].receipt = ans[1]]
        /\ late' = late \ {p}
        /\ UNCHANGED <<rows, control, granted, revoked, mem, used>>

\* The receipt becomes the next revision.
Settle(p) ==
    /\ call[p].pc = "settle"
    /\ CASE call[p].receipt = "REJECTED" ->
              SaveOrRaise(p, Advance(p, "REJECTED", "REJECTED"), "returned")
         [] call[p].receipt = "UNKNOWN" ->
              SaveOrRaise(p, Advance(p, "UNKNOWN", "UNKNOWN"), "halt")
         [] call[p].receipt = "ACCEPTED" ->
              SaveOrRaise(p, Advance(p, "SUBMITTED", "ACCEPTED"), "reconcile")
         [] OTHER -> FALSE

\* What find_broker_evidence and reconcile_broker_evidence can conclude.  The
\* adapter looks for a position only if the receipt carries evidence; one of
\* its own may be invisible yet, closed already, or joined by a look-alike.
Conclusions(row) ==
    IF row.receipt # "ACCEPTED" THEN {"NOT_FOUND"}
    ELSE {"NOT_FOUND", "MISMATCH"} \cup
         (IF row.intent \in open /\ fills[row.intent] = "match"
          THEN {"CONFIRMED"} ELSE {})

\* _reconcile_record.  An exception of the adapter and NOT_FOUND end alike: a
\* SUBMITTED record becomes UNKNOWN, an UNKNOWN one is returned as it is.
Reconcile(p) ==
    LET row == call[p].row
    IN  /\ call[p].pc = "reconcile"
        /\ \/ /\ "CONFIRMED" \in Conclusions(row)
              /\ SaveOrRaise(p, Advance(p, "CONFIRMED", row.receipt), "returned")
           \/ /\ "MISMATCH" \in Conclusions(row)
              /\ SaveOrRaise(p, Advance(p, "RECONCILIATION_FAILED", row.receipt), "halt")
           \/ /\ row.state = "SUBMITTED"
              /\ SaveOrRaise(p, Advance(p, "UNKNOWN", row.receipt), "halt")
           \/ /\ row.state = "UNKNOWN"
              /\ Go(p, "returned")

\* A halt that is already stamped: with the time at which the broker call
\* ended or the evidence was judged, before the record was saved.
HaltStamped(c) == c.pc = "halt" \/ (c.pc = "settle" /\ c.receipt = "UNKNOWN")

\* append_control_event continues the state this process remembers; the file
\* accepts any new event.  The event of a command is stamped as it is made,
\* and so later than every halt that is on its way.
AppendControl(p, s) ==
    /\ s \in ControlNext(mem[p].control)
    /\ control' = s
    /\ late' = {q \in Process : HaltStamped(call[q])}
    /\ mem' = [mem EXCEPT ![p].control = s]
    /\ UNCHANGED <<rows, granted, revoked, broker>>

\* As AppendHalt, but the event stays in memory.
AppendHaltInMemory(p) ==
    /\ "HALTED" \in ControlNext(mem[p].control)
    /\ mem' = [mem EXCEPT ![p].control = "HALTED"]
    /\ UNCHANGED <<db, broker>>

\* The same for the event of _halt: a late one is filed, but the last event of
\* the file is another.
AppendHalt(p) ==
    /\ "HALTED" \in ControlNext(mem[p].control)
    /\ control' = IF p \in late THEN control ELSE "HALTED"
    /\ late' = late \ {p}
    /\ mem' = [mem EXCEPT ![p].control = "HALTED"]
    /\ UNCHANGED <<rows, granted, revoked, broker>>

\* _halt, after an uncertain result has been saved.
Halt(p) ==
    /\ call[p].pc = "halt"
    /\ \/ mem[p].control = "HALTED" /\ Go(p, "returned")
       \/ /\ mem[p].control # "HALTED"
          /\ AppendHalt(p)
          /\ call' = [call EXCEPT ![p].pc = "returned"]
          /\ UNCHANGED used
       \/ mem[p].control # "HALTED" /\ Raise(p)

\* The acceptance coordinator closes an ENABLED control after the call.
CloseControl(p, s) ==
    /\ call[p].pc \in {"returned", "raised"}
    /\ mem[p].control = "ENABLED"
    /\ s \in {"PAUSED", "HALTED"}
    /\ AppendControl(p, s)
    /\ UNCHANGED <<call, used>>

\* The caller has the record, or the exception.
Return(p) ==
    /\ call[p].pc \in {"returned", "raised"}
    /\ call' = [call EXCEPT ![p] = Idle]
    /\ UNCHANGED <<db, mem, broker, used>>

\* reconcile_unknown
ReconcileUnknown(p, i) ==
    /\ call[p].pc = "idle"
    /\ mem[p].rec[i].state = "UNKNOWN"
    /\ call' = [call EXCEPT ![p].pc = "reconcile", ![p].row = mem[p].rec[i]]
    /\ late' = late \ {p}
    /\ UNCHANGED <<rows, control, granted, revoked, mem, broker, used>>

-----------------------------------------------------------------------------
(* Commands of the operator, and recovery.                                 *)

\* A command may come from another thread while a call is in progress; in an
\* exclusive deployment none falls between the guard and the halt.
Reachable(p) ==
    /\ call[p].pc # "down"
    /\ Exclusive => call[p].pc \notin {"dispatch", "send", "settle", "halt"}

OperatorActs ==
    /\ used.operator < MaxOperator
    /\ used' = [used EXCEPT !.operator = @ + 1]

OperatorControl(p, s) ==
    /\ Reachable(p)
    /\ OperatorActs
    /\ AppendControl(p, s)
    /\ UNCHANGED call

\* add_approval: unused identity in memory and in the file.
Grant(p, a) ==
    /\ Reachable(p)
    /\ OperatorActs
    /\ a \notin mem[p].granted \cup granted
    /\ granted' = granted \cup {a}
    /\ mem' = [mem EXCEPT ![p].granted = @ \cup {a}]
    /\ UNCHANGED <<rows, control, late, revoked, broker, call>>

\* revoke_approval: of an approval this process knows.
Revoke(p, a) ==
    /\ Reachable(p)
    /\ OperatorActs
    /\ a \in mem[p].granted
    /\ revoked' = revoked \cup {a}
    /\ mem' = [mem EXCEPT ![p].revoked = @ \cup {a}]
    /\ UNCHANGED <<rows, control, late, granted, broker, call>>

\* As Recovered, but every unsettled record is given up.
RecoveredAsRejected(r) == [r EXCEPT !.revision = @ + 1, !.state = "REJECTED"]

\* As Recovered, but the revision number is that of the record it replaces.
RecoveredInPlace(r) ==
    [r EXCEPT !.revision = @ + 2,
              !.state = IF @ = "CLAIMED" THEN "REJECTED" ELSE "UNKNOWN",
              !.receipt = IF @ = "none" THEN "UNKNOWN" ELSE @]

\* recover_incomplete: a record before dispatch is rejected, one after it
\* becomes UNKNOWN, with a receipt made up where the broker's is missing.
Recovered(r) ==
    IF r.state = "CLAIMED"
    THEN [r EXCEPT !.revision = @ + 1, !.state = "REJECTED"]
    ELSE [r EXCEPT !.revision = @ + 1, !.state = "UNKNOWN",
                   !.receipt = IF @ = "none" THEN "UNKNOWN" ELSE @]

\* All unsettled records of this memory move in one transaction, or none.
Recover(p) ==
    LET old == {i \in Intent : mem[p].rec[i].state \in Unsettled}
        new == {Recovered(mem[p].rec[i]) : i \in old}
    IN  /\ call[p].pc # "down"
        /\ Exclusive => call[p].pc = "idle"
        /\ old # {}
        /\ \A n \in new, r \in rows : r.intent = n.intent => r.revision # n.revision
        /\ rows' = rows \cup new
        /\ mem' = [mem EXCEPT ![p].rec = [i \in Intent |->
                      IF i \in old THEN Recovered(mem[p].rec[i]) ELSE mem[p].rec[i]]]
        /\ UNCHANGED <<control, late, granted, revoked, broker, call, used>>

\* The broker executes a pending order, or drops it.
LateFill(i) ==
    /\ fills[i] = "pending"
    /\ \E f \in {"none", "match", "other"} :
          /\ fills' = [fills EXCEPT ![i] = f]
          /\ open' = IF f \in Executed THEN open \cup {i} ELSE open
    /\ UNCHANGED <<db, mem, call, sends, used>>

\* A position is closed at the broker, by its stop, its target or a person.
ClosePosition(i) ==
    /\ i \in open
    /\ open' = open \ {i}
    /\ UNCHANGED <<db, mem, call, sends, fills, used>>

-----------------------------------------------------------------------------

\* The steps of a call once it has begun.
ServiceStep(p) ==
    \/ Capture(p) \/ ClaimIntent(p) \/ OrderCheck(p) \/ ObserveFinal(p)
    \/ Guard(p) \/ PersistDispatching(p) \/ Submit(p) \/ Settle(p)
    \/ Reconcile(p) \/ Halt(p)

CallStep(p) == ServiceStep(p) \/ Return(p)

Next ==
    \/ \E p \in Process :
          \/ Open(p) \/ Crash(p) \/ Recover(p) \/ BeginRefused(p) \/ CallStep(p)
          \/ \E i \in Intent : ReconcileUnknown(p, i)
          \/ \E i \in Intent, a \in Approval : Begin(p, i, a)
          \/ \E s \in ControlState : OperatorControl(p, s) \/ CloseControl(p, s)
          \/ \E a \in Approval : Grant(p, a) \/ Revoke(p, a)
    \/ \E i \in Intent : LateFill(i) \/ ClosePosition(i)

Spec == Init /\ [][Next]_vars

-----------------------------------------------------------------------------
(* What the subsystem guarantees.                                          *)

\* Every variable has its type.
TypeOK ==
    /\ rows \subseteq Row
    /\ control \in ControlState
    /\ late \subseteq Process
    /\ granted \subseteq Approval
    /\ revoked \subseteq Approval
    /\ mem \in [Process -> Memory]
    /\ call \in [Process -> Call]
    /\ sends \in [Intent -> Nat]
    /\ fills \in [Intent -> Fill]
    /\ open \subseteq Intent
    /\ used \in [crashes : Nat, operator : Nat]

\* Of all intents sealed from one shadow decision order_send is called for at
\* most one, and once: whatever processes claim, crash, restart, recover and
\* reconcile ("the intent can never be resent").
AtMostOneSend ==
    /\ \A i \in Intent : sends[i] <= 1
    /\ \A i, j \in Intent :
          SourceOf[i] = SourceOf[j] /\ sends[i] > 0 /\ sends[j] > 0 => i = j

\* Nothing reaches the broker before its DISPATCHING revision is in the file.
SentIsDurable ==
    \A i \in Intent : sends[i] > 0 => \E r \in RowsOf(i) : r.state = "DISPATCHING"

\* A record that reads REJECTED left nothing at the broker, as far as return
\* codes can be believed, and no process is still about to send it, even when
\* another process rejected it in recovery.
RejectedMeansNoExposure ==
    \A r \in rows : r.state = "REJECTED" =>
        /\ NothingExecuted(r.intent)
        /\ \A p \in Process : call[p].pc = "send" => call[p].row.intent # r.intent

\* "A timeout, crash, or unknown broker result can only enter reconciliation":
\* a rejected record, which nobody reconciles, has no execution at the broker.
RejectedIsFinal ==
    \A r \in rows : r.state = "REJECTED" => fills[r.intent] = "none"

\* A record reads CONFIRMED only if the broker executed that intent as sealed.
ConfirmedMeansFilled ==
    \A r \in rows : r.state = "CONFIRMED" => fills[r.intent] = "match"

\* The revisions of an intent are one history, whoever wrote them: numbered
\* from 2 without gap or fork, each an allowed successor of the one before.
LogIsLifecycle ==
    \A r \in rows :
        /\ \A o \in RowsOf(r.intent) : o.revision = r.revision => o = r
        /\ IF r.revision = 2 THEN r.state = "CLAIMED"
           ELSE \E o \in RowsOf(r.intent) :
                   o.revision + 1 = r.revision /\ r.state \in AllowedNext(o.state)

\* What a process remembers of a record is in the file: a write the file
\* refused has been undone in memory.
MemoryIsDurable ==
    \A p \in Process, i \in Intent :
        mem[p].rec[i] = Absent(i) \/ mem[p].rec[i] \in RowsOf(i)

\* A call that hands its caller a record hands over one that is in the file
\* and no longer in flight.
ReturnsSettled ==
    \A p \in Process : call[p].pc = "returned" =>
        call[p].row \in rows /\ call[p].row.state \notin Unsettled

\* The records and the broker together keep the promise of OneShotDispatch.
HasState(i, s) == \E r \in RowsOf(i) : r.state = s

Phase(i) ==
    IF HasState(i, "DISPATCHING") THEN "armed"
    ELSE IF HasState(i, "REJECTED") THEN "refused"
    ELSE IF RowsOf(i) # {} THEN "owned" ELSE "open"

Verdict(i) ==
    IF HasState(i, "CONFIRMED") THEN "CONFIRMED"
    ELSE IF HasState(i, "RECONCILIATION_FAILED") THEN "RECONCILIATION_FAILED"
    ELSE IF HasState(i, "DISPATCHING") /\ HasState(i, "REJECTED") THEN "REJECTED"
    ELSE "pending"

Abstract == INSTANCE OneShotDispatch WITH
    phase <- [i \in Intent |-> Phase(i)],
    shots <- sends,
    effect <- fills,
    verdict <- [i \in Intent |-> Verdict(i)]

ImplementsOneShot == Abstract!Spec

\* With one process at a time a send happens only while the record in the
\* file still reads DISPATCHING, the operator's last word in the file is
\* ENABLED and an approval of the intent stands.
SendUnderAuthority ==
    [][\A i \in Intent : sends'[i] # sends[i] =>
          /\ Latest(i).state = "DISPATCHING"
          /\ control = "ENABLED"
          /\ \E a \in granted \ revoked : ApprovedIntent[a] = i]_vars

\* "Uncertainty or mismatch moves it to HALTED": a call that ends after an
\* uncertain result has left HALTED as the last word of the file.  It needs one
\* process at a time and no command while the order is on its way.
HaltIsDurable ==
    [][\A p \in Process :
          call[p].pc = "halt" /\ call'[p].pc = "returned" => control' = "HALTED"]_vars

\* "M11 requires zero account positions before dispatch" (preflight.py:101), but
\* the last look at them comes before DISPATCHING is saved and the order is
\* sent.  With one process at a time a position that stands beside the order
\* all the same is the late execution of one whose record is not confirmed: no
\* order is added to a position this program has already accounted for.
NoOrderBesideConfirmed ==
    [][\A i \in Intent : sends'[i] # sends[i] =>
          \A j \in open : ~HasState(j, "CONFIRMED")]_vars
=============================================================================
