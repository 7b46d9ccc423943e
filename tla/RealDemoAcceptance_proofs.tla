---------------------- MODULE RealDemoAcceptance_proofs ----------------------
(***************************************************************************)
(* What holds of DemoExecution and of RealDemoAcceptance for any number of *)
(* processes, intents, approvals, generations, crashes and operator        *)
(* commands.                                                               *)
(*                                                                         *)
(* The first part is about the service.  None of its safety properties is  *)
(* inductive alone.  The argument runs through the file: a process may     *)
(* send only after it inserted revision 3 in state DISPATCHING, the file   *)
(* has one revision 3 of an intent, and a REJECTED that competes with it   *)
(* has the same number.  It holds whether or not the deployment is         *)
(* exclusive, and so does the refinement of OneShotDispatch that rests on  *)
(* it, for a broker whose timeouts are final.  Then one process at a time: *)
(* there the memory of the process that runs is the file.                  *)
(*                                                                         *)
(* The last part is about the acceptance command.  It drives the service   *)
(* within what the service allows, so what is proved of the service holds  *)
(* under it, and the results it saves are true.                            *)
(***************************************************************************)
EXTENDS RealDemoAcceptance, FiniteSetTheorems, TLAPS

\* The revision number of a row follows from its state, up to the ways that
\* lead there.
Shape(r) ==
    \/ r.state = "CLAIMED" /\ r.revision = 2
    \/ r.state = "DISPATCHING" /\ r.revision = 3
    \/ r.state = "SUBMITTED" /\ r.revision = 4
    \/ r.state = "REJECTED" /\ r.revision \in {3, 4}
    \/ r.state = "UNKNOWN" /\ r.revision \in {4, 5}
    \/ r.state \in {"CONFIRMED", "RECONCILIATION_FAILED"} /\ r.revision \in {5, 6}

Shapes == \A r \in rows : Shape(r)

\* One intent of a shadow decision has rows.
OneIntentPerSource ==
    \A r, o \in rows : SourceOf[r.intent] = SourceOf[o.intent] => r.intent = o.intent

\* What the row of a call is, by the place of the call.
CallShape(c) ==
    /\ c.pc \in {"capture", "claim"} => c.row = Absent(c.row.intent)
    /\ c.pc \in {"check", "observe", "guard", "dispatch"} =>
          c.row \in rows /\ c.row.state = "CLAIMED"
    /\ c.pc \in {"send", "settle"} => c.row \in rows /\ c.row.state = "DISPATCHING"
    /\ c.pc = "send" => sends[c.row.intent] = 0
    /\ c.pc = "settle" /\ c.receipt = "REJECTED" =>
          sends[c.row.intent] = 1 /\ NothingExecuted(c.row.intent)
    /\ c.pc = "reconcile" => c.row \in rows /\ c.row.state \in {"SUBMITTED", "UNKNOWN"}
    /\ c.pc \in {"halt", "returned"} => c.row \in rows /\ c.row.state \notin Unsettled

CallShapes == \A p \in Process : CallShape(call[p])

\* At most one process is at or past the send of an intent.
Sending(p) == call[p].pc \in {"send", "settle"}
OneSender ==
    \A p, q \in Process :
        Sending(p) /\ Sending(q) /\ call[p].row.intent = call[q].row.intent => p = q

\* sends and fills count what the rows allow.
SendsOnce == \A i \in Intent : sends[i] <= 1
FillIsSent == \A i \in Intent : fills[i] # "none" => sends[i] = 1
RejectedAfterSend ==
    \A r \in rows : r.state = "REJECTED" /\ r.revision = 4 =>
        sends[r.intent] = 1 /\ NothingExecuted(r.intent)

IInv ==
    /\ TypeOK
    /\ LogIsLifecycle
    /\ Shapes
    /\ OneIntentPerSource
    /\ MemoryIsDurable
    /\ CallShapes
    /\ OneSender
    /\ SendsOnce
    /\ SentIsDurable
    /\ FillIsSent
    /\ RejectedAfterSend
    /\ ConfirmedMeansFilled

-----------------------------------------------------------------------------
(* Types.                                                                  *)

\* The rows that stand for no record are rows by type.
LEMMA AbsentType ==
  ASSUME NEW i \in Intent
  PROVE  /\ Absent(i) \in Row
         /\ Absent(i).intent = i /\ Absent(i).state = "ABSENT"
         /\ Absent(i).revision = 0 /\ Absent(i).receipt = "none"
  BY DEF Absent, Row, RecordState, Receipt

LEMMA IdleType ==
  /\ Idle \in Call /\ Down \in Call /\ Raised \in Call
  /\ Idle.pc = "idle" /\ Down.pc = "down" /\ Raised.pc = "raised"
  <1>1. (CHOOSE i \in Intent : TRUE) \in Intent
    BY IntentAssumption
  <1>2. AnyRow \in Row
    BY <1>1, AbsentType DEF AnyRow
  <1>3. QED
    BY <1>2 DEF Idle, Down, Raised, Call, PC, Receipt

LEMMA NoMemoryType == NoMemory \in Memory
  BY AbsentType DEF NoMemory, Memory, ControlState

\* What _load keeps of an intent is one of its rows, if it has any.
LEMMA LatestType ==
  ASSUME TypeOK, Shapes, NEW i \in Intent
  PROVE  /\ Latest(i) \in Row
         /\ Latest(i) = Absent(i) \/ Latest(i) \in RowsOf(i)
<1> DEFINE Top(r) == \A o \in RowsOf(i) : o.revision <= r.revision
<1>1. CASE RowsOf(i) = {}
  BY <1>1, AbsentType DEF Latest
<1>2. CASE RowsOf(i) # {}
  <2>1. \A r \in RowsOf(i) : r \in Row /\ r.revision \in 2..6
    BY DEF RowsOf, TypeOK, Shapes, Shape, Row
  <2>2. \E r \in RowsOf(i) : Top(r)
    <3>1. CASE \E r \in RowsOf(i) : r.revision = 6
      BY <2>1, <3>1
    <3>2. CASE /\ \A r \in RowsOf(i) : r.revision # 6
               /\ \E r \in RowsOf(i) : r.revision = 5
      BY <2>1, <3>2
    <3>3. CASE /\ \A r \in RowsOf(i) : r.revision \notin {5, 6}
               /\ \E r \in RowsOf(i) : r.revision = 4
      BY <2>1, <3>3
    <3>4. CASE /\ \A r \in RowsOf(i) : r.revision \notin {4, 5, 6}
               /\ \E r \in RowsOf(i) : r.revision = 3
      BY <2>1, <3>4
    <3>5. CASE \A r \in RowsOf(i) : r.revision = 2
      BY <1>2, <2>1, <3>5
    <3>6. QED
      BY <2>1, <3>1, <3>2, <3>3, <3>4, <3>5
  <2>3. Latest(i) = CHOOSE r \in RowsOf(i) : Top(r)
    BY <1>2 DEF Latest
  <2>4. Latest(i) \in RowsOf(i)
    BY <2>2, <2>3
  <2>5. QED
    BY <2>1, <2>4
<1>3. QED
  BY <1>1, <1>2

\* Initially there are no records and no calls.
LEMMA InitIInv == Init => IInv
<1> SUFFICES ASSUME Init PROVE IInv
  OBVIOUS
<1>1. \A p \in Process : call[p].pc = "down" /\ mem[p] = NoMemory
  BY IdleType DEF Init
<1>2. TypeOK
  BY IdleType, NoMemoryType DEF Init, TypeOK, Fill
<1>3. MemoryIsDurable
  <2>1. \A i \in Intent : NoMemory.rec[i] = Absent(i)
    BY DEF NoMemory
  <2>2. QED
    BY <1>1, <2>1 DEF MemoryIsDurable
<1>4. CallShapes /\ OneSender
  BY <1>1 DEF CallShapes, CallShape, OneSender, Sending
<1>5. LogIsLifecycle /\ Shapes /\ OneIntentPerSource /\ RejectedAfterSend /\ ConfirmedMeansFilled
  BY DEF Init, LogIsLifecycle, Shapes, OneIntentPerSource, RejectedAfterSend,
         ConfirmedMeansFilled
<1>6. SendsOnce /\ SentIsDurable /\ FillIsSent
  BY DEF Init, SendsOnce, SentIsDurable, FillIsSent
<1>7. QED
  BY <1>2, <1>3, <1>4, <1>5, <1>6 DEF IInv

-----------------------------------------------------------------------------
(* Steps by what they touch.                                               *)

\* A step that leaves the file's rows and the broker's executions alone and
\* gives process p the memory m and the call c.
LEMMA QuietStep ==
  ASSUME IInv, NEW p \in Process, NEW m \in Memory, NEW c \in Call,
         mem' = [mem EXCEPT ![p] = m], call' = [call EXCEPT ![p] = c],
         UNCHANGED <<rows, sends, fills>>,
         control' \in ControlState, late' \subseteq Process, granted' \subseteq Approval,
         revoked' \subseteq Approval, open' \subseteq Intent,
         used' \in [crashes : Nat, operator : Nat],
         \A i \in Intent : m.rec[i] = Absent(i) \/ m.rec[i] \in RowsOf(i),
         CallShape(c), c.pc \notin {"send", "settle"}
  PROVE  IInv'
<1>1. TypeOK'
  BY DEF IInv, TypeOK
<1>2. /\ \A q \in Process : mem'[q] = IF q = p THEN m ELSE mem[q]
      /\ \A q \in Process : call'[q] = IF q = p THEN c ELSE call[q]
  BY DEF IInv, TypeOK
<1>3. \A i \in Intent : RowsOf(i)' = RowsOf(i)
  BY DEF RowsOf
<1>4. MemoryIsDurable'
  BY <1>2, <1>3 DEF IInv, MemoryIsDurable
<1>5. \A q \in Process : CallShape(call[q])'
  <2> SUFFICES ASSUME NEW q \in Process PROVE CallShape(call[q])'
    OBVIOUS
  <2>1. CallShape(call'[q])
    BY <1>2 DEF IInv, CallShapes
  <2>2. QED
    BY <2>1 DEF CallShape, NothingExecuted
<1>6. OneSender'
  BY <1>2 DEF IInv, OneSender, Sending
<1>7. LogIsLifecycle' /\ SentIsDurable'
  BY <1>3 DEF IInv, LogIsLifecycle, SentIsDurable, TypeOK, Row
<1>8. /\ Shapes' /\ OneIntentPerSource' /\ SendsOnce' /\ FillIsSent'
      /\ RejectedAfterSend' /\ ConfirmedMeansFilled'
  BY DEF IInv, Shapes, OneIntentPerSource, SendsOnce, FillIsSent,
         RejectedAfterSend, ConfirmedMeansFilled, NothingExecuted
<1>9. QED
  BY <1>1, <1>4, <1>5, <1>6, <1>7, <1>8 DEF IInv, CallShapes

\* The same for a step that moves the call of p and nothing else.
LEMMA CallOnlyStep ==
  ASSUME IInv, NEW p \in Process, NEW c \in Call,
         call' = [call EXCEPT ![p] = c],
         UNCHANGED <<rows, control, late, granted, revoked, mem, sends, fills, open, used>>,
         CallShape(c), c.pc \notin {"send", "settle"}
  PROVE  IInv'
<1>1. mem[p] \in Memory /\ mem' = [mem EXCEPT ![p] = mem[p]]
  BY DEF IInv, TypeOK
<1>2. \A i \in Intent : mem[p].rec[i] = Absent(i) \/ mem[p].rec[i] \in RowsOf(i)
  BY DEF IInv, MemoryIsDurable
<1>3. /\ control' \in ControlState /\ late' \subseteq Process /\ granted' \subseteq Approval
      /\ revoked' \subseteq Approval /\ open' \subseteq Intent
      /\ used' \in [crashes : Nat, operator : Nat]
  BY DEF IInv, TypeOK
<1>4. QED
  BY <1>1, <1>2, <1>3, QuietStep

\* An exception leaves the invariant as it is.
LEMMA RaiseStep ==
  ASSUME IInv, NEW p \in Process, Raise(p)
  PROVE  IInv'
<1>1. CallShape(Raised)
  BY IdleType DEF CallShape
<1>2. QED
  BY <1>1, IdleType, CallOnlyStep DEF Raise, db, broker

\* What the row a call saves must be, relative to the rows there are.
Extends(row) ==
    \/ /\ row.revision = 2
       /\ row.state = "CLAIMED"
       /\ \A j \in Intent : SourceOf[j] = SourceOf[row.intent] => RowsOf(j) = {}
    \/ /\ row.revision # 2
       /\ \E o \in RowsOf(row.intent) :
             o.revision + 1 = row.revision /\ row.state \in AllowedNext(o.state)

\* Where a save may continue, given what it saved.
SavedFor(row, pc) ==
    \/ pc = "check" /\ row.state = "CLAIMED"
    \/ pc = "send" /\ row.state = "DISPATCHING"
    \/ pc = "reconcile" /\ row.state \in {"SUBMITTED", "UNKNOWN"}
    \/ pc \in {"halt", "returned"} /\ row.state \notin Unsettled

\* A new row keeps the invariant if it is the next of its history, and if
\* what it says of the broker is so.
LEMMA SaveStep ==
  ASSUME IInv, NEW p \in Process, NEW row \in Row, NEW pc \in PC,
         Save(p, row, pc), Shape(row), Extends(row), SavedFor(row, pc),
         row.state = "REJECTED" /\ row.revision = 4 =>
             sends[row.intent] = 1 /\ NothingExecuted(row.intent),
         row.state = "CONFIRMED" => fills[row.intent] = "match"
  PROVE  IInv'
<1> DEFINE i == row.intent
           c == [call[p] EXCEPT !.row = row, !.pc = pc]
<1>1. i \in Intent
  BY DEF Row
<1>2. /\ rows' = rows \cup {row}
      /\ \A r \in RowsOf(i) : r.revision # row.revision
      /\ UNCHANGED <<control, late, granted, revoked, sends, fills, open, used>>
  BY DEF Save, broker
<1>3. \A j \in Intent : RowsOf(j)' = IF j = i THEN RowsOf(j) \cup {row} ELSE RowsOf(j)
  BY <1>2 DEF RowsOf
<1>4. /\ c \in Call /\ c.row = row /\ c.pc = pc
      /\ \A q \in Process : call'[q] = IF q = p THEN c ELSE call[q]
      /\ call' \in [Process -> Call]
  <2>1. call \in [Process -> Call] /\ call' = [call EXCEPT ![p] = c]
    BY DEF IInv, TypeOK, Save
  <2>2. c \in Call /\ c.row = row /\ c.pc = pc
    BY <2>1 DEF Call
  <2>. HIDE DEF c
  <2>3. QED
    BY <2>1, <2>2
<1>5. /\ \A q \in Process, j \in Intent :
            mem'[q].rec[j] = IF q = p /\ j = i THEN row ELSE mem[q].rec[j]
      /\ mem' \in [Process -> Memory]
  <2> DEFINE m == [mem[p] EXCEPT !.rec[i] = row]
  <2>1. mem' = [mem EXCEPT ![p] = m]
    BY DEF IInv, TypeOK, Save
  <2>2. /\ m \in Memory
        /\ \A j \in Intent : m.rec[j] = IF j = i THEN row ELSE mem[p].rec[j]
    BY <1>1 DEF IInv, TypeOK, Memory
  <2>3. QED
    BY <2>1, <2>2 DEF IInv, TypeOK
<1>6. TypeOK'
  BY <1>2, <1>4, <1>5 DEF IInv, TypeOK
<1>7. LogIsLifecycle'
  <2> SUFFICES ASSUME NEW r \in rows'
               PROVE  /\ \A o \in RowsOf(r.intent)' : o.revision = r.revision => o = r
                      /\ IF r.revision = 2 THEN r.state = "CLAIMED"
                         ELSE \E o \in RowsOf(r.intent)' :
                            o.revision + 1 = r.revision /\ r.state \in AllowedNext(o.state)
    BY DEF LogIsLifecycle
  <2>1. r.intent \in Intent /\ r \in RowsOf(r.intent)'
    BY <1>6 DEF TypeOK, Row, RowsOf
  <2>2. \A o \in RowsOf(r.intent)' : o.revision = r.revision => o = r
    <3>1. CASE r = row
      BY <1>2, <1>3, <2>1, <3>1
    <3>2. CASE r \in rows
      BY <1>2, <1>3, <2>1, <3>2 DEF IInv, LogIsLifecycle, RowsOf
    <3>3. QED
      BY <1>2, <3>1, <3>2
  <2>3. IF r.revision = 2 THEN r.state = "CLAIMED"
        ELSE \E o \in RowsOf(r.intent)' :
            o.revision + 1 = r.revision /\ r.state \in AllowedNext(o.state)
    <3>1. CASE r = row
      BY <1>1, <1>3, <3>1 DEF Extends
    <3>2. CASE r \in rows
      BY <1>3, <2>1, <3>2 DEF IInv, LogIsLifecycle
    <3>3. QED
      BY <1>2, <3>1, <3>2
  <2>4. QED
    BY <2>2, <2>3
<1>8. Shapes' /\ RejectedAfterSend' /\ ConfirmedMeansFilled'
  BY <1>2 DEF IInv, Shapes, RejectedAfterSend, ConfirmedMeansFilled, Shape, NothingExecuted
<1>9. OneIntentPerSource'
  <2>1. \A r \in rows : SourceOf[r.intent] = SourceOf[i] => r.intent = i
    BY DEF Extends, RowsOf, IInv, OneIntentPerSource, TypeOK, Row
  <2>2. QED
    BY <1>2, <2>1 DEF IInv, OneIntentPerSource
<1>10. MemoryIsDurable'
  BY <1>1, <1>3, <1>5 DEF IInv, MemoryIsDurable
<1>11. pc = "send" =>
         /\ sends[i] = 0
         /\ \A q \in Process : Sending(q) => call[q].row.intent # i
  <2> SUFFICES ASSUME pc = "send" PROVE /\ sends[i] = 0
                    /\ \A q \in Process : Sending(q) => call[q].row.intent # i
    OBVIOUS
  <2>1. row.revision = 3
    BY DEF SavedFor, Shape, Unsettled
  <2>2. \A r \in RowsOf(i) : r.state # "DISPATCHING"
    BY <1>2, <2>1 DEF IInv, Shapes, Shape, RowsOf
  <2>3. sends[i] = 0
    BY <1>1, <2>2 DEF IInv, SentIsDurable, TypeOK
  <2>4. \A q \in Process : Sending(q) => call[q].row.intent # i
    BY <2>2 DEF IInv, CallShapes, CallShape, Sending, RowsOf
  <2>5. QED
    BY <2>3, <2>4
<1>12. \A q \in Process : CallShape(call[q])'
  <2> SUFFICES ASSUME NEW q \in Process PROVE CallShape(call[q])'
    OBVIOUS
  <2>1. CASE q = p
    BY <1>2, <1>4, <1>11, <2>1 DEF CallShape, SavedFor, Unsettled
  <2>2. CASE q # p
    BY <1>2, <1>4, <2>2 DEF IInv, CallShapes, CallShape, NothingExecuted
  <2>3. QED
    BY <2>1, <2>2
<1>13. OneSender'
  <2>1. Sending(p)' => pc = "send"
    BY <1>4 DEF Sending, SavedFor
  <2>2. \A q \in Process : q # p => (Sending(q)' <=> Sending(q)) /\ call'[q] = call[q]
    BY <1>4 DEF Sending
  <2>3. call'[p].row.intent = i
    BY <1>4
  <2>4. \A q \in Process : pc = "send" /\ Sending(q) => call[q].row.intent # i
    BY <1>11
  <2>5. \A q, s \in Process :
           Sending(q) /\ Sending(s) /\ call[q].row.intent = call[s].row.intent => q = s
    BY DEF IInv, OneSender
  <2>6. ASSUME NEW q \in Process, NEW s \in Process, Sending(q)', Sending(s)',
               call'[q].row.intent = call'[s].row.intent
        PROVE  q = s
    <3>1. CASE q # p /\ s # p
      BY <2>2, <2>5, <2>6, <3>1
    <3>2. CASE q = p
      BY <2>1, <2>2, <2>3, <2>4, <2>6, <3>2
    <3>3. CASE s = p
      BY <2>1, <2>2, <2>3, <2>4, <2>6, <3>3
    <3>4. QED
      BY <3>1, <3>2, <3>3
  <2>7. QED
    BY <2>6 DEF OneSender
<1>14. SendsOnce' /\ FillIsSent'
  BY <1>2 DEF IInv, SendsOnce, FillIsSent
<1>15. SentIsDurable'
  BY <1>2, <1>3 DEF IInv, SentIsDurable
<1>16. QED
  BY <1>6, <1>7, <1>8, <1>9, <1>10, <1>12, <1>13, <1>14, <1>15 DEF IInv, CallShapes

-----------------------------------------------------------------------------
(* The broker's part.                                                      *)

\* The one call of order_send: p is the only sender of its intent, which no
\* row has rejected and for which nothing was sent.
LEMMA SubmitStep ==
  ASSUME IInv, NEW p \in Process, Submit(p)
  PROVE  IInv'
<1> DEFINE i == call[p].row.intent
<1>1. /\ i \in Intent /\ call[p].pc = "send" /\ call[p].row \in rows
      /\ call[p].row.state = "DISPATCHING" /\ sends[i] = 0
      /\ UNCHANGED <<rows, control, granted, revoked, mem, used>> /\ late' \subseteq Process
  BY DEF IInv, TypeOK, Call, Row, CallShapes, CallShape, Submit, db
<1>2. PICK receipt \in Receipt :
        /\ call' = [call EXCEPT ![p].pc = "settle", ![p].receipt = receipt]
        /\ \/ receipt = "UNKNOWN" /\ UNCHANGED <<sends, fills, open>>
           \/ /\ sends' = [sends EXCEPT ![i] = @ + 1]
              /\ \E f \in Fill : /\ fills' = [fills EXCEPT ![i] = f]
                                 /\ receipt = "REJECTED" /\ TimeoutsFinal => f = "none"
              /\ open' \in SUBSET Intent
  <2>1. CASE UNCHANGED broker /\ call' = [call EXCEPT ![p].pc = "settle", ![p].receipt = "UNKNOWN"]
    BY <2>1 DEF broker, Receipt
  <2>2. ASSUME NEW ans \in Answers,
               sends' = [sends EXCEPT ![i] = @ + 1],
               fills' = [fills EXCEPT ![i] = ans[2]],
               open' = IF ans[2] \in Executed THEN open \cup {i} ELSE open,
               call' = [call EXCEPT ![p].pc = "settle", ![p].receipt = ans[1]]
        PROVE  \E receipt \in Receipt :
                 /\ call' = [call EXCEPT ![p].pc = "settle", ![p].receipt = receipt]
                 /\ sends' = [sends EXCEPT ![i] = @ + 1]
                 /\ \E f \in Fill : /\ fills' = [fills EXCEPT ![i] = f]
                                    /\ receipt = "REJECTED" /\ TimeoutsFinal => f = "none"
                 /\ open' \in SUBSET Intent
    <3>1. /\ ans[1] \in Receipt /\ ans[2] \in Fill
          /\ ans[1] = "REJECTED" /\ TimeoutsFinal => ans[2] = "none"
      BY DEF Answers, Receipt, Fill
    <3>2. open' \in SUBSET Intent
      BY <1>1, <2>2 DEF IInv, TypeOK
    <3>3. QED
      BY <2>2, <3>1, <3>2
  <2>3. QED
    BY <2>1, <2>2 DEF Submit
<1>3. /\ \A q \in Process : q # p => call'[q] = call[q]
      /\ call'[p] \in Call /\ call'[p].pc = "settle" /\ call'[p].row = call[p].row
      /\ call'[p].receipt = receipt /\ call' \in [Process -> Call]
  <2> DEFINE c == [call[p] EXCEPT !.pc = "settle", !.receipt = receipt]
  <2>1. call \in [Process -> Call] /\ call[p] \in Call
    BY DEF IInv, TypeOK
  <2>2. c \in Call /\ c.pc = "settle" /\ c.row = call[p].row /\ c.receipt = receipt
    BY <2>1 DEF Call, PC
  <2>3. call' = [call EXCEPT ![p] = c]
    BY <1>2, <2>1 DEF Call
  <2> HIDE DEF c
  <2>4. QED
    BY <2>1, <2>2, <2>3
<1>4. /\ \A j \in Intent : j # i => sends'[j] = sends[j] /\ fills'[j] = fills[j]
      /\ sends'[i] \in {0, 1}
      /\ fills'[i] # "none" => sends'[i] = 1
      /\ receipt = "REJECTED" => sends'[i] = 1 /\ NothingExecuted(i)'
      /\ sends' \in [Intent -> Nat] /\ fills' \in [Intent -> Fill] /\ open' \subseteq Intent
  BY <1>1, <1>2 DEF IInv, TypeOK, FillIsSent, NothingExecuted
<1>5. TypeOK'
  BY <1>1, <1>3, <1>4 DEF IInv, TypeOK
<1>6. \A j \in Intent : RowsOf(j)' = RowsOf(j)
  BY <1>1 DEF RowsOf
<1>7. LogIsLifecycle' /\ Shapes' /\ OneIntentPerSource' /\ MemoryIsDurable'
  BY <1>1, <1>6 DEF IInv, LogIsLifecycle, Shapes, OneIntentPerSource, MemoryIsDurable,
                    TypeOK, Row
<1>8. \A q \in Process : q # p /\ Sending(q) => call[q].row.intent # i
  BY <1>1 DEF IInv, OneSender, Sending
<1>9. \A q \in Process : CallShape(call[q])'
  <2> SUFFICES ASSUME NEW q \in Process PROVE CallShape(call[q])'
    OBVIOUS
  <2>1. CASE q = p
    BY <1>1, <1>3, <1>4, <2>1 DEF CallShape
  <2>2. CASE q # p
    <3>1. CallShape(call[q]) /\ call'[q] = call[q] /\ call[q].row.intent \in Intent
      BY <1>3, <2>2 DEF IInv, CallShapes, TypeOK, Call, Row
    <3>2. Sending(q) => /\ sends'[call[q].row.intent] = sends[call[q].row.intent]
                        /\ fills'[call[q].row.intent] = fills[call[q].row.intent]
      BY <1>4, <1>8, <2>2, <3>1
    <3>3. QED
      BY <1>1, <3>1, <3>2 DEF CallShape, Sending, NothingExecuted
  <2>3. QED
    BY <2>1, <2>2
<1>10. OneSender'
  BY <1>1, <1>3 DEF IInv, OneSender, Sending
<1>11. SendsOnce' /\ FillIsSent'
  BY <1>4 DEF IInv, SendsOnce, FillIsSent
<1>12. SentIsDurable'
  BY <1>1, <1>4, <1>6 DEF IInv, SentIsDurable, RowsOf
<1>13. RejectedAfterSend' /\ ConfirmedMeansFilled'
  <2>1. \A r \in rows : r.intent \in Intent
    BY DEF IInv, TypeOK, Row
  <2>2. \A r \in rows : r.state = "REJECTED" /\ r.revision = 4 => r.intent # i
    BY <1>1 DEF IInv, RejectedAfterSend
  <2>3. \A r \in rows : r.state = "CONFIRMED" => r.intent # i
    BY <1>1 DEF IInv, ConfirmedMeansFilled, FillIsSent
  <2>4. QED
    BY <1>1, <1>4, <2>1, <2>2, <2>3 DEF IInv, RejectedAfterSend, ConfirmedMeansFilled, NothingExecuted
<1>14. QED
  BY <1>5, <1>7, <1>9, <1>10, <1>11, <1>12, <1>13 DEF IInv, CallShapes

\* What the broker does later concerns orders it left pending.
LEMMA BrokerStep ==
  ASSUME IInv, NEW i \in Intent, LateFill(i) \/ ClosePosition(i)
  PROVE  IInv'
<1>1. UNCHANGED <<rows, control, late, granted, revoked, mem, call, sends, used>>
  BY DEF LateFill, ClosePosition, db
<1>2. \/ fills' = fills
      \/ fills[i] = "pending" /\ \E f \in Fill : fills' = [fills EXCEPT ![i] = f]
  BY DEF LateFill, ClosePosition, Fill
<1>3. open' \subseteq Intent
  BY DEF IInv, TypeOK, LateFill, ClosePosition
<1>4. TypeOK'
  BY <1>1, <1>2, <1>3 DEF IInv, TypeOK
<1>5. \A j \in Intent : RowsOf(j)' = RowsOf(j)
  BY <1>1 DEF RowsOf
<1>6. /\ LogIsLifecycle' /\ Shapes' /\ OneIntentPerSource' /\ MemoryIsDurable'
      /\ OneSender' /\ SendsOnce' /\ SentIsDurable'
  BY <1>1, <1>5 DEF IInv, LogIsLifecycle, Shapes, OneIntentPerSource, MemoryIsDurable,
                    OneSender, Sending, SendsOnce, SentIsDurable, TypeOK, Row
<1>7. \A j \in Intent : fills[j] \in {"none", "match"} => fills'[j] = fills[j]
  BY <1>2 DEF IInv, TypeOK
<1>8. FillIsSent'
  BY <1>1, <1>2 DEF IInv, FillIsSent, TypeOK
<1>9. \A q \in Process : CallShape(call[q])'
  BY <1>1, <1>7 DEF IInv, CallShapes, CallShape, TypeOK, Call, Row, NothingExecuted
<1>10. RejectedAfterSend' /\ ConfirmedMeansFilled'
  BY <1>1, <1>7 DEF IInv, RejectedAfterSend, ConfirmedMeansFilled, TypeOK, Row, NothingExecuted
<1>11. QED
  BY <1>4, <1>6, <1>8, <1>9, <1>10 DEF IInv, CallShapes

-----------------------------------------------------------------------------
(* Recovery.                                                               *)

\* The row recovery writes for an unsettled one is its allowed successor.
LEMMA RecoveredRow ==
  ASSUME NEW r \in Row, Shape(r), r.state \in Unsettled
  PROVE  /\ Recovered(r) \in Row /\ Shape(Recovered(r))
         /\ Recovered(r).intent = r.intent
         /\ Recovered(r).revision = r.revision + 1
         /\ Recovered(r).revision # 2
         /\ Recovered(r).state \in AllowedNext(r.state)
         /\ Recovered(r).state = "REJECTED" => Recovered(r).revision = 3
         /\ Recovered(r).state # "CONFIRMED"
<1>1. /\ Recovered(r).intent = r.intent
      /\ Recovered(r).revision = r.revision + 1
      /\ Recovered(r).state = IF r.state = "CLAIMED" THEN "REJECTED" ELSE "UNKNOWN"
  BY DEF Recovered, Row
<1>2. Recovered(r) \in Row
  <2> DEFINE next(state, receipt) ==
               [r EXCEPT !.revision = r.revision + 1, !.state = state, !.receipt = receipt]
  <2>1. \A state \in RecordState, receipt \in Receipt : next(state, receipt) \in Row
    <3>1. r.revision + 1 \in Nat
      BY DEF Row
    <3>2. QED
      BY <3>1 DEF Row
  <2>2. /\ r.receipt \in Receipt /\ "UNKNOWN" \in Receipt
        /\ "UNKNOWN" \in RecordState /\ "REJECTED" \in RecordState
    BY DEF Row, Receipt, RecordState
  <2>3. CASE r.state = "CLAIMED"
    <3>1. Recovered(r) = next("REJECTED", r.receipt)
      BY <2>3 DEF Recovered, Row
    <3>2. QED
      BY <2>1, <2>2, <3>1
  <2>4. CASE r.state # "CLAIMED"
    <3>1. \E receipt \in Receipt : Recovered(r) = next("UNKNOWN", receipt)
      <4>1. CASE r.receipt = "none"
        BY <2>2, <2>4, <4>1 DEF Recovered, Row
      <4>2. CASE r.receipt # "none"
        BY <2>2, <2>4, <4>2 DEF Recovered, Row
      <4>3. QED
        BY <4>1, <4>2
    <3>2. QED
      BY <2>1, <2>2, <3>1
  <2>5. QED
    BY <2>3, <2>4
<1>3. CASE r.state = "CLAIMED"
  BY <1>1, <1>2, <1>3 DEF Shape, AllowedNext
<1>4. CASE r.state = "DISPATCHING"
  BY <1>1, <1>2, <1>4 DEF Shape, AllowedNext
<1>5. CASE r.state = "SUBMITTED"
  BY <1>1, <1>2, <1>5 DEF Shape, AllowedNext
<1>6. QED
  BY <1>3, <1>4, <1>5 DEF Unsettled

LEMMA RecoverStep ==
  ASSUME IInv, NEW p \in Process, Recover(p)
  PROVE  IInv'
<1> DEFINE old == {i \in Intent : mem[p].rec[i].state \in Unsettled}
           new == {Recovered(mem[p].rec[i]) : i \in old}
           n(i) == Recovered(mem[p].rec[i])
<1>1. /\ rows' = rows \cup new
      /\ \A r \in new, o \in rows : o.intent = r.intent => o.revision # r.revision
      /\ mem' = [mem EXCEPT ![p].rec = [i \in Intent |->
                    IF i \in old THEN n(i) ELSE mem[p].rec[i]]]
      /\ UNCHANGED <<control, late, granted, revoked, sends, fills, open, call, used>>
  BY DEF Recover, broker
<1>2. \A i \in old : /\ mem[p].rec[i] \in RowsOf(i) /\ mem[p].rec[i] \in Row
                     /\ mem[p].rec[i].intent = i /\ Shape(mem[p].rec[i])
                     /\ mem[p].rec[i].state \in Unsettled
  <2> SUFFICES ASSUME NEW i \in old
               PROVE  /\ mem[p].rec[i] \in RowsOf(i) /\ mem[p].rec[i] \in Row
                      /\ mem[p].rec[i].intent = i /\ Shape(mem[p].rec[i])
                      /\ mem[p].rec[i].state \in Unsettled
    OBVIOUS
  <2>1. mem[p].rec[i] # Absent(i)
    BY AbsentType DEF Unsettled
  <2>2. mem[p].rec[i] \in RowsOf(i)
    BY <2>1 DEF IInv, MemoryIsDurable
  <2>3. QED
    BY <2>2 DEF RowsOf, IInv, TypeOK, Shapes
<1>3. \A i \in old :
        /\ n(i) \in Row /\ Shape(n(i)) /\ n(i).intent = i
        /\ n(i).revision = mem[p].rec[i].revision + 1 /\ n(i).revision # 2
        /\ n(i).state \in AllowedNext(mem[p].rec[i].state)
        /\ n(i).state = "REJECTED" => n(i).revision = 3
        /\ n(i).state # "CONFIRMED"
  BY <1>2, RecoveredRow
<1> HIDE DEF n
<1>4. new = {n(i) : i \in old}
  BY DEF n
<1> HIDE DEF new
<1>5. \A i \in Intent : /\ i \in old => RowsOf(i)' = RowsOf(i) \cup {n(i)}
                        /\ i \notin old => RowsOf(i)' = RowsOf(i)
  BY <1>1, <1>3, <1>4 DEF RowsOf
<1>6. /\ \A q \in Process, i \in Intent :
            mem'[q].rec[i] = IF q = p /\ i \in old THEN n(i) ELSE mem[q].rec[i]
      /\ mem' \in [Process -> Memory]
  <2> DEFINE f == [i \in Intent |-> IF i \in old THEN n(i) ELSE mem[p].rec[i]]
             m == [mem[p] EXCEPT !.rec = f]
  <2>1. mem \in [Process -> Memory] /\ mem[p] \in Memory
    BY DEF IInv, TypeOK
  <2>2. f \in [Intent -> Row]
    BY <1>3, <2>1 DEF Memory
  <2>3. mem' = [mem EXCEPT ![p] = m]
    BY <1>1
  <2>4. m \in Memory /\ m.rec = f
    <3> HIDE DEF f
    <3>1. QED
      BY <2>1, <2>2 DEF Memory
  <2>5. QED
    BY <2>1, <2>3, <2>4
<1>7. TypeOK'
  BY <1>1, <1>3, <1>4, <1>6 DEF IInv, TypeOK
<1>8. LogIsLifecycle'
  <2> SUFFICES ASSUME NEW r \in rows'
               PROVE  /\ \A o \in RowsOf(r.intent)' : o.revision = r.revision => o = r
                      /\ IF r.revision = 2 THEN r.state = "CLAIMED"
                         ELSE \E o \in RowsOf(r.intent)' :
                            o.revision + 1 = r.revision /\ r.state \in AllowedNext(o.state)
    BY DEF LogIsLifecycle
  <2>1. r.intent \in Intent
    BY <1>7 DEF TypeOK, Row
  <2>2. CASE r \in rows
    <3>1. r \in RowsOf(r.intent)
      BY <2>2 DEF RowsOf
    <3>2. \A o \in RowsOf(r.intent)' : o.revision = r.revision => o = r
      BY <1>1, <1>3, <1>4, <1>5, <2>1, <2>2, <3>1 DEF IInv, LogIsLifecycle
    <3>3. QED
      BY <1>5, <2>1, <2>2, <3>2 DEF IInv, LogIsLifecycle
  <2>3. CASE r \in new
    <3>1. PICK i \in old : r = n(i)
      BY <1>4, <2>3
    <3>2. r.intent = i /\ RowsOf(i)' = RowsOf(i) \cup {r}
      BY <1>3, <1>5, <3>1
    <3>3. \A o \in RowsOf(i) : o.revision # r.revision
      BY <1>1, <2>3, <3>2 DEF RowsOf
    <3>4. QED
      BY <1>2, <1>3, <3>1, <3>2, <3>3
  <2>4. QED
    BY <1>1, <2>2, <2>3
<1>9. Shapes' /\ RejectedAfterSend' /\ ConfirmedMeansFilled'
  BY <1>1, <1>3, <1>4 DEF IInv, Shapes, Shape, RejectedAfterSend, ConfirmedMeansFilled, NothingExecuted
<1>10. OneIntentPerSource'
  <2>1. \A r \in new : \E o \in rows : o.intent = r.intent
    BY <1>2, <1>3, <1>4 DEF RowsOf
  <2>2. QED
    BY <1>1, <2>1 DEF IInv, OneIntentPerSource
<1>11. MemoryIsDurable'
  BY <1>5, <1>6 DEF IInv, MemoryIsDurable
<1>12. \A q \in Process : CallShape(call[q])'
  BY <1>1 DEF IInv, CallShapes, CallShape, NothingExecuted
<1>13. OneSender' /\ SendsOnce' /\ FillIsSent'
  BY <1>1 DEF IInv, OneSender, Sending, SendsOnce, FillIsSent
<1>14. SentIsDurable'
  BY <1>1, <1>5 DEF IInv, SentIsDurable
<1>15. QED
  BY <1>7, <1>8, <1>9, <1>10, <1>11, <1>12, <1>13, <1>14 DEF IInv, CallShapes

-----------------------------------------------------------------------------
(* The steps of a call.                                                    *)

\* A call that goes on from the row it holds writes an allowed successor, or
\* raises.
LEMMA AdvanceStep ==
  ASSUME IInv, NEW p \in Process, NEW state \in RecordState, NEW receipt \in Receipt,
         NEW pc \in PC,
         call[p].row \in rows, state \in AllowedNext(call[p].row.state),
         SaveOrRaise(p, Advance(p, state, receipt), pc),
         \/ pc = "send" /\ state = "DISPATCHING"
         \/ pc = "reconcile" /\ state = "SUBMITTED"
         \/ pc \in {"halt", "returned"} /\ state \notin Unsettled,
         state = "REJECTED" =>
             \/ call[p].row.state = "CLAIMED"
             \/ sends[call[p].row.intent] = 1 /\ NothingExecuted(call[p].row.intent),
         state = "CONFIRMED" => fills[call[p].row.intent] = "match"
  PROVE  IInv'
<1> DEFINE old == call[p].row
           row == Advance(p, state, receipt)
<1>1. old \in Row /\ Shape(old)
  BY DEF IInv, TypeOK, Shapes
<1>2. /\ row.intent = old.intent /\ row.revision = old.revision + 1
      /\ row.state = state /\ row \in Row
  <2>1. old.revision + 1 \in Nat
    BY <1>1 DEF Row
  <2>2. QED
    BY <1>1, <2>1 DEF Advance, Row
<1>3. Shape(row) /\ row.revision # 2
  BY <1>1, <1>2 DEF Shape, AllowedNext
<1>4. Extends(row)
  BY <1>2, <1>3 DEF Extends, RowsOf
<1>5. SavedFor(row, pc)
  BY <1>2 DEF SavedFor
<1>6. row.state = "REJECTED" /\ row.revision = 4 =>
          sends[row.intent] = 1 /\ NothingExecuted(row.intent)
  <2> SUFFICES ASSUME row.state = "REJECTED", row.revision = 4
               PROVE  sends[row.intent] = 1 /\ NothingExecuted(row.intent)
    OBVIOUS
  <2>1. old.state # "CLAIMED"
    BY <1>1, <1>2 DEF Shape, Row
  <2>2. QED
    BY <1>2, <2>1
<1>7. CASE Save(p, row, pc)
  BY <1>2, <1>3, <1>4, <1>5, <1>6, <1>7, SaveStep
<1>8. CASE Raise(p)
  BY <1>8, RaiseStep
<1>9. QED
  BY <1>7, <1>8 DEF SaveOrRaise

\* A call that moves on without a write, its row fit for where it goes.
LEMMA GoStep ==
  ASSUME IInv, NEW p \in Process, NEW pc \in PC \ {"send", "settle"}, Go(p, pc),
         CallShape([call[p] EXCEPT !.pc = pc])
  PROVE  IInv'
<1> DEFINE c == [call[p] EXCEPT !.pc = pc]
<1>1. c \in Call /\ c.pc = pc
  BY DEF IInv, TypeOK, Call
<1>2. call' = [call EXCEPT ![p] = c]
  BY DEF Go
<1> HIDE DEF c
<1>3. CallShape(c)
  BY DEF c
<1>4. QED
  BY <1>1, <1>2, <1>3, CallOnlyStep DEF Go, db, broker

\* The file's constraints make a claim the first of its shadow decision.
LEMMA ClaimStep ==
  ASSUME IInv, NEW p \in Process, ClaimIntent(p)
  PROVE  IInv'
<1> DEFINE i == call[p].row.intent
           row == [Absent(i) EXCEPT !.revision = 2, !.state = "CLAIMED"]
<1>1. i \in Intent
  BY DEF IInv, TypeOK, Call, Row
<1>2. /\ row \in Row /\ row.intent = i /\ row.revision = 2 /\ row.state = "CLAIMED"
  BY <1>1 DEF Absent, Row, RecordState, Receipt
<1>3. CASE Raise(p)
  BY <1>3, RaiseStep
<1>4. CASE /\ \A j \in Intent : SourceOf[j] = SourceOf[i] => RowsOf(j) = {}
           /\ Save(p, row, "check")
  <2>1. Shape(row) /\ Extends(row) /\ SavedFor(row, "check") /\ "check" \in PC
    BY <1>2, <1>4 DEF Shape, Extends, SavedFor, PC
  <2> HIDE DEF row
  <2>2. QED
    BY <1>2, <1>4, <2>1, SaveStep
<1>5. QED
  BY <1>3, <1>4 DEF ClaimIntent

\* A rejection before dispatch, from a row that was claimed.
LEMMA RejectStep ==
  ASSUME IInv, NEW p \in Process, RejectBeforeDispatch(p),
         call[p].pc \in {"check", "observe", "guard"}
  PROVE  IInv'
<1>1. call[p].row \in rows /\ call[p].row.state = "CLAIMED"
  BY DEF IInv, CallShapes, CallShape
<1>2. /\ "REJECTED" \in AllowedNext(call[p].row.state) /\ "REJECTED" \in RecordState
      /\ "none" \in Receipt /\ "returned" \in PC /\ "REJECTED" \notin Unsettled
  BY <1>1 DEF AllowedNext, RecordState, Receipt, PC, Unsettled
<1>3. QED
  BY <1>1, <1>2, AdvanceStep DEF RejectBeforeDispatch

\* Every step of a call, in the order of the call.
LEMMA CallStepInv ==
  ASSUME IInv, NEW p \in Process, CallStep(p)
  PROVE  IInv'
<1> USE DEF PC
<1>1. CallShape(call[p]) /\ call[p] \in Call
  BY DEF IInv, CallShapes, TypeOK
<1>2. CASE Capture(p)
  <2>1. CASE Go(p, "claim")
    BY <1>1, <1>2, <2>1, GoStep DEF Capture, CallShape, Call
  <2>2. QED
    BY <1>2, <2>1, RaiseStep DEF Capture
<1>3. CASE ClaimIntent(p)
  BY <1>3, ClaimStep
<1>4. CASE OrderCheck(p)
  <2>1. CASE Go(p, "observe")
    BY <1>1, <1>4, <2>1, GoStep DEF OrderCheck, CallShape, Call
  <2>2. QED
    BY <1>4, <2>1, RejectStep DEF OrderCheck
<1>5. CASE ObserveFinal(p)
  <2> DEFINE c == [call[p] EXCEPT !.pc = "guard", !.clear = AccountClear(p)]
  <2>1. CASE /\ call' = [call EXCEPT ![p].pc = "guard", ![p].clear = AccountClear(p)]
             /\ UNCHANGED <<db, mem, broker, used>>
    <3>1. c \in Call /\ c.pc = "guard" /\ c.row = call[p].row
      <4>1. AccountClear(p) \in BOOLEAN
        BY DEF AccountClear
      <4>2. QED
        BY <1>1, <4>1 DEF Call
    <3>2. call' = [call EXCEPT ![p] = c]
      BY <2>1, <1>1 DEF IInv, TypeOK
    <3> HIDE DEF c
    <3>3. CallShape(c) /\ c.pc \notin {"send", "settle"}
      BY <1>1, <1>5, <3>1 DEF ObserveFinal, CallShape
    <3>4. QED
      BY <2>1, <3>1, <3>2, <3>3, CallOnlyStep DEF db, broker
  <2>2. QED
    BY <1>5, <2>1, RejectStep DEF ObserveFinal
<1>6. CASE Guard(p)
  <2>1. CASE Go(p, "dispatch")
    BY <1>1, <1>6, <2>1, GoStep DEF Guard, CallShape, Call
  <2>2. QED
    BY <1>6, <2>1, RejectStep DEF Guard
<1>7. CASE PersistDispatching(p)
  <2>1. call[p].row \in rows /\ "DISPATCHING" \in AllowedNext(call[p].row.state)
    BY <1>1, <1>7 DEF PersistDispatching, CallShape, AllowedNext
  <2>2. "DISPATCHING" \in RecordState /\ "none" \in Receipt
    BY DEF RecordState, Receipt
  <2>3. QED
    BY <1>7, <2>1, <2>2, AdvanceStep DEF PersistDispatching
<1>8. CASE Submit(p)
  BY <1>8, SubmitStep
<1>9. CASE Settle(p)
  <2>1. call[p].row \in rows /\ AllowedNext(call[p].row.state) = {"SUBMITTED", "REJECTED", "UNKNOWN"}
    BY <1>1, <1>9 DEF Settle, CallShape, AllowedNext
  <2>2. /\ {"REJECTED", "UNKNOWN", "SUBMITTED"} \subseteq RecordState
        /\ {"REJECTED", "UNKNOWN", "ACCEPTED"} \subseteq Receipt
    BY DEF RecordState, Receipt
  <2>3. CASE call[p].receipt = "REJECTED"
    <3>1. sends[call[p].row.intent] = 1 /\ NothingExecuted(call[p].row.intent)
      BY <1>1, <1>9, <2>3 DEF Settle, CallShape
    <3>2. SaveOrRaise(p, Advance(p, "REJECTED", "REJECTED"), "returned")
      BY <1>9, <2>3 DEF Settle
    <3>3. QED
      BY <2>1, <2>2, <3>1, <3>2, AdvanceStep DEF Unsettled
  <2>4. CASE call[p].receipt = "UNKNOWN"
    <3>1. SaveOrRaise(p, Advance(p, "UNKNOWN", "UNKNOWN"), "halt")
      BY <1>9, <2>4 DEF Settle
    <3>2. QED
      BY <2>1, <2>2, <3>1, AdvanceStep DEF Unsettled
  <2>5. CASE call[p].receipt \notin {"REJECTED", "UNKNOWN"}
    <3>1. SaveOrRaise(p, Advance(p, "SUBMITTED", "ACCEPTED"), "reconcile")
      BY <1>9, <2>5 DEF Settle
    <3>2. QED
      BY <2>1, <2>2, <3>1, AdvanceStep
  <2>6. QED
    BY <2>3, <2>4, <2>5
<1>10. CASE Reconcile(p)
  <2> DEFINE row == call[p].row
  <2>1. row \in rows /\ row.state \in {"SUBMITTED", "UNKNOWN"} /\ row.receipt \in Receipt
    BY <1>1, <1>10 DEF Reconcile, CallShape, Call, Row
  <2>2. /\ {"CONFIRMED", "RECONCILIATION_FAILED"} \subseteq AllowedNext(row.state)
        /\ row.state = "SUBMITTED" => "UNKNOWN" \in AllowedNext(row.state)
        /\ {"CONFIRMED", "RECONCILIATION_FAILED", "UNKNOWN"} \subseteq RecordState \ Unsettled
    BY <2>1 DEF AllowedNext, RecordState, Unsettled
  <2>3. CASE /\ "CONFIRMED" \in Conclusions(row)
             /\ SaveOrRaise(p, Advance(p, "CONFIRMED", row.receipt), "returned")
    <3>1. fills[row.intent] = "match"
      BY <2>3 DEF Conclusions
    <3>2. QED
      BY <2>1, <2>2, <2>3, <3>1, AdvanceStep
  <2>4. CASE SaveOrRaise(p, Advance(p, "RECONCILIATION_FAILED", row.receipt), "halt")
    BY <2>1, <2>2, <2>4, AdvanceStep
  <2>5. CASE /\ row.state = "SUBMITTED"
             /\ SaveOrRaise(p, Advance(p, "UNKNOWN", row.receipt), "halt")
    BY <2>1, <2>2, <2>5, AdvanceStep
  <2>6. CASE row.state = "UNKNOWN" /\ Go(p, "returned")
    <3>1. CallShape([call[p] EXCEPT !.pc = "returned"])
      BY <1>1, <2>1, <2>6 DEF CallShape, Call, Unsettled
    <3>2. QED
      BY <2>6, <3>1, GoStep
  <2>7. QED
    BY <1>10, <2>3, <2>4, <2>5, <2>6 DEF Reconcile
<1>11. CASE Halt(p)
  <2> DEFINE c == [call[p] EXCEPT !.pc = "returned"]
             m == [mem[p] EXCEPT !.control = "HALTED"]
  <2>1. c \in Call /\ c.pc = "returned" /\ CallShape(c)
    BY <1>1, <1>11 DEF Halt, CallShape, Call
  <2>2. CASE Go(p, "returned")
    BY <2>1, <2>2, GoStep
  <2>3. CASE AppendHalt(p) /\ call' = [call EXCEPT ![p].pc = "returned"] /\ UNCHANGED used
    <3>1. m \in Memory /\ m.rec = mem[p].rec
      BY DEF IInv, TypeOK, Memory, ControlState
    <3>2. mem' = [mem EXCEPT ![p] = m] /\ call' = [call EXCEPT ![p] = c]
      BY <2>3 DEF AppendHalt
    <3>3. /\ control' \in ControlState /\ late' \subseteq Process
          /\ granted' \subseteq Approval /\ revoked' \subseteq Approval
          /\ open' \subseteq Intent /\ used' \in [crashes : Nat, operator : Nat]
          /\ UNCHANGED <<rows, sends, fills>>
      BY <2>3 DEF IInv, TypeOK, AppendHalt, ControlState, broker
    <3>4. \A i \in Intent : m.rec[i] = Absent(i) \/ m.rec[i] \in RowsOf(i)
      BY <3>1 DEF IInv, MemoryIsDurable
    <3> HIDE DEF c, m
    <3>5. QED
      BY <2>1, <3>1, <3>2, <3>3, <3>4, QuietStep
  <2>4. QED
    BY <1>11, <2>2, <2>3, RaiseStep DEF Halt
<1>12. CASE Return(p)
  <2>1. CallShape(Idle)
    BY IdleType DEF CallShape
  <2>2. QED
    BY <1>12, <2>1, IdleType, CallOnlyStep DEF Return, db, broker
<1>13. QED
  BY <1>2, <1>3, <1>4, <1>5, <1>6, <1>7, <1>8, <1>9, <1>10, <1>11, <1>12 DEF CallStep, ServiceStep

\* Opening reads whole rows; a crash forgets; operators write no record.
LEMMA HandleStep ==
  ASSUME IInv, NEW p \in Process,
         \/ Open(p) \/ Crash(p) \/ BeginRefused(p)
         \/ \E i \in Intent, a \in Approval : Begin(p, i, a)
         \/ \E i \in Intent : ReconcileUnknown(p, i)
         \/ \E s \in ControlState : OperatorControl(p, s) \/ CloseControl(p, s)
         \/ \E a \in Approval : Grant(p, a) \/ Revoke(p, a)
  PROVE  IInv'
<1>1. /\ mem \in [Process -> Memory] /\ mem[p] \in Memory
      /\ call \in [Process -> Call] /\ call[p] \in Call /\ CallShape(call[p])
      /\ control \in ControlState /\ late \subseteq Process
      /\ granted \subseteq Approval /\ revoked \subseteq Approval
      /\ open \subseteq Intent /\ used \in [crashes : Nat, operator : Nat]
      /\ \A i \in Intent : mem[p].rec[i] = Absent(i) \/ mem[p].rec[i] \in RowsOf(i)
  BY DEF IInv, TypeOK, CallShapes, MemoryIsDurable
<1>2. CASE Open(p)
  <2> DEFINE recs == [i \in Intent |-> Latest(i)]
             m == [rec |-> recs, control |-> control, granted |-> granted, revoked |-> revoked]
  <2>1. recs \in [Intent -> Row] /\ \A i \in Intent : recs[i] = Absent(i) \/ recs[i] \in RowsOf(i)
    BY LatestType DEF IInv
  <2>2. mem' = [mem EXCEPT ![p] = m]
    BY <1>2 DEF Open
  <2> HIDE DEF recs
  <2>3. m \in Memory /\ m.rec = recs
    BY <1>1, <2>1 DEF Memory
  <2>4. call' = [call EXCEPT ![p] = Idle] /\ UNCHANGED <<rows, control, late, granted, revoked, sends, fills, open, used>>
    BY <1>2 DEF Open, db, broker
  <2>5. CallShape(Idle) /\ Idle.pc \notin {"send", "settle"}
    BY IdleType DEF CallShape
  <2> HIDE DEF m
  <2>6. QED
    BY <1>1, <2>1, <2>2, <2>3, <2>4, <2>5, IdleType, QuietStep
<1>3. CASE Crash(p)
  <2>1. /\ mem' = [mem EXCEPT ![p] = NoMemory] /\ call' = [call EXCEPT ![p] = Down]
        /\ UNCHANGED <<rows, control, late, granted, revoked, sends, fills, open>>
    BY <1>3 DEF Crash, db, broker
  <2>2. used' \in [crashes : Nat, operator : Nat]
    BY <1>1, <1>3 DEF Crash
  <2>3. \A i \in Intent : NoMemory.rec[i] = Absent(i)
    BY DEF NoMemory
  <2>4. CallShape(Down) /\ Down.pc \notin {"send", "settle"}
    BY IdleType DEF CallShape
  <2>5. QED
    BY <1>1, <2>1, <2>2, <2>3, <2>4, IdleType, NoMemoryType, QuietStep
<1>4. ASSUME NEW i \in Intent, NEW a \in Approval, Begin(p, i, a)
      PROVE  IInv'
  <2> DEFINE c == [Idle EXCEPT !.pc = "capture", !.row = Absent(i), !.approval = a]
  <2>1. c \in Call /\ c.pc = "capture" /\ c.row = Absent(i)
    BY AbsentType, IdleType DEF Call, PC
  <2>2. CallShape(c)
    BY <2>1, AbsentType DEF CallShape
  <2>3. call' = [call EXCEPT ![p] = c]
    BY <1>4 DEF Begin
  <2> HIDE DEF c
  <2>4. QED
    BY <1>4, <2>1, <2>2, <2>3, CallOnlyStep DEF Begin, db, broker
<1>5. ASSUME NEW i \in Intent, ReconcileUnknown(p, i)
      PROVE  IInv'
  <2> DEFINE row == mem[p].rec[i]
             c == [call[p] EXCEPT !.pc = "reconcile", !.row = row]
  <2>1. row \in rows /\ row.state = "UNKNOWN" /\ row \in Row
    BY <1>1, <1>5, AbsentType DEF ReconcileUnknown, RowsOf, IInv, TypeOK
  <2>2. c \in Call /\ c.pc = "reconcile" /\ c.row = row
    BY <1>1, <2>1 DEF Call, PC
  <2>3. call' = [call EXCEPT ![p] = c]
    BY <1>1, <1>5 DEF ReconcileUnknown
  <2> HIDE DEF c
  <2>4. CallShape(c)
    BY <2>1, <2>2 DEF CallShape
  <2>5. QED
    <3>1. /\ mem' = [mem EXCEPT ![p] = mem[p]] /\ late' \subseteq Process
          /\ UNCHANGED <<rows, control, granted, revoked, sends, fills, open, used>>
      BY <1>1, <1>5 DEF ReconcileUnknown, broker
    <3>2. QED
      BY <1>1, <2>2, <2>3, <2>4, <3>1, QuietStep
<1>6. ASSUME NEW m \in Memory, mem' = [mem EXCEPT ![p] = m], m.rec = mem[p].rec,
             UNCHANGED <<rows, sends, fills, open, call>>,
             OperatorActs \/ UNCHANGED used,
             control' \in ControlState, late' \subseteq Process,
             granted' \subseteq Approval, revoked' \subseteq Approval
      PROVE  IInv'
  <2>1. used' \in [crashes : Nat, operator : Nat]
    BY <1>1, <1>6 DEF OperatorActs
  <2>2. \A q \in Process : (q # p => mem'[q] = mem[q]) /\ mem'[q].rec = mem[q].rec
    BY <1>1, <1>6
  <2>3. \A i \in Intent : RowsOf(i)' = RowsOf(i)
    BY <1>6 DEF RowsOf
  <2>4. TypeOK'
    BY <1>1, <1>6, <2>1 DEF IInv, TypeOK
  <2>5. MemoryIsDurable' /\ LogIsLifecycle' /\ SentIsDurable'
    BY <1>6, <2>2, <2>3 DEF IInv, MemoryIsDurable, LogIsLifecycle, SentIsDurable, TypeOK, Row
  <2>6. CallShapes' /\ OneSender'
    BY <1>6 DEF IInv, CallShapes, CallShape, OneSender, Sending, NothingExecuted
  <2>7. /\ Shapes' /\ OneIntentPerSource' /\ SendsOnce' /\ FillIsSent'
        /\ RejectedAfterSend' /\ ConfirmedMeansFilled'
    BY <1>6 DEF IInv, Shapes, OneIntentPerSource, SendsOnce, FillIsSent,
                RejectedAfterSend, ConfirmedMeansFilled, NothingExecuted
  <2>8. QED
    BY <2>4, <2>5, <2>6, <2>7 DEF IInv
<1>7. ASSUME NEW s \in ControlState, OperatorControl(p, s) \/ CloseControl(p, s)
      PROVE  IInv'
  <2> DEFINE m == [mem[p] EXCEPT !.control = s]
  <2>1. m \in Memory /\ m.rec = mem[p].rec
    BY <1>1 DEF Memory
  <2>2. mem' = [mem EXCEPT ![p] = m]
    BY <1>7 DEF OperatorControl, CloseControl, AppendControl
  <2> HIDE DEF m
  <2>3. QED
    BY <1>1, <1>6, <1>7, <2>1, <2>2 DEF OperatorControl, CloseControl, AppendControl, broker
<1>8. ASSUME NEW a \in Approval, Grant(p, a)
      PROVE  IInv'
  <2> DEFINE m == [mem[p] EXCEPT !.granted = mem[p].granted \cup {a}]
  <2>1. m \in Memory /\ m.rec = mem[p].rec
    BY <1>1 DEF Memory
  <2>2. mem' = [mem EXCEPT ![p] = m]
    BY <1>1, <1>8 DEF Grant, Memory
  <2> HIDE DEF m
  <2>3. QED
    BY <1>1, <1>6, <1>8, <2>1, <2>2 DEF Grant, broker
<1>9. ASSUME NEW a \in Approval, Revoke(p, a)
      PROVE  IInv'
  <2> DEFINE m == [mem[p] EXCEPT !.revoked = mem[p].revoked \cup {a}]
  <2>1. m \in Memory /\ m.rec = mem[p].rec
    BY <1>1 DEF Memory
  <2>2. mem' = [mem EXCEPT ![p] = m]
    BY <1>1, <1>9 DEF Revoke, Memory
  <2> HIDE DEF m
  <2>3. QED
    BY <1>1, <1>6, <1>9, <2>1, <2>2 DEF Revoke, broker
<1>10. CASE BeginRefused(p)
  BY <1>10, RaiseStep DEF BeginRefused
<1>11. QED
  BY <1>2, <1>3, <1>4, <1>5, <1>7, <1>8, <1>9, <1>10

-----------------------------------------------------------------------------
(* What follows for every behaviour.                                       *)

LEMMA NextIInv == IInv /\ [Next]_vars => IInv'
<1> SUFFICES ASSUME IInv, [Next]_vars PROVE IInv'
  OBVIOUS
<1>1. CASE UNCHANGED vars
  <2>1. UNCHANGED <<rows, control, late, granted, revoked, mem, call, sends, fills, open, used>>
    BY <1>1 DEF vars
  <2>2. \A i \in Intent : RowsOf(i)' = RowsOf(i)
    BY <2>1 DEF RowsOf
  <2>3. TypeOK' /\ MemoryIsDurable' /\ LogIsLifecycle' /\ SentIsDurable'
    BY <2>1, <2>2 DEF IInv, TypeOK, MemoryIsDurable, LogIsLifecycle, SentIsDurable, Row
  <2>4. CallShapes' /\ OneSender'
    BY <2>1 DEF IInv, CallShapes, CallShape, OneSender, Sending, NothingExecuted
  <2>5. /\ Shapes' /\ OneIntentPerSource' /\ SendsOnce' /\ FillIsSent'
        /\ RejectedAfterSend' /\ ConfirmedMeansFilled'
    BY <2>1 DEF IInv, Shapes, OneIntentPerSource, SendsOnce, FillIsSent,
                RejectedAfterSend, ConfirmedMeansFilled, NothingExecuted
  <2>6. QED
    BY <2>3, <2>4, <2>5 DEF IInv
<1>2. ASSUME NEW p \in Process, Recover(p) PROVE IInv'
  BY <1>2, RecoverStep
<1>3. ASSUME NEW p \in Process, CallStep(p) PROVE IInv'
  BY <1>3, CallStepInv
<1>4. ASSUME NEW i \in Intent, LateFill(i) \/ ClosePosition(i) PROVE IInv'
  BY <1>4, BrokerStep
<1>5. QED
  BY <1>1, <1>2, <1>3, <1>4, HandleStep DEF Next

LEMMA Invariance == Spec => []IInv
<1>1. Init => IInv
  BY InitIInv
<1>2. IInv /\ [Next]_vars => IInv'
  BY NextIInv
<1>3. QED
  BY <1>1, <1>2, PTL DEF Spec

\* Every variable keeps its type; in particular what _load picks is a record.
THEOREM TypeCorrect == Spec => []TypeOK
<1>1. IInv => TypeOK
  BY DEF IInv
<1>2. QED
  BY <1>1, Invariance, PTL

\* Of all intents sealed from one shadow decision order_send is called for at
\* most one, and once, however many processes share the database, crash,
\* recover and reconcile.
THEOREM OneSendPerDecision == Spec => []AtMostOneSend
<1>1. IInv => AtMostOneSend
  <2> SUFFICES ASSUME IInv PROVE AtMostOneSend
    OBVIOUS
  <2>1. \A i \in Intent : sends[i] <= 1
    BY DEF IInv, SendsOnce
  <2>2. \A i \in Intent : sends[i] > 0 => \E r \in rows : r.intent = i
    BY DEF IInv, SentIsDurable, RowsOf
  <2>3. QED
    BY <2>1, <2>2 DEF IInv, OneIntentPerSource, AtMostOneSend
<1>2. QED
  BY <1>1, Invariance, PTL

\* Nothing reaches the broker before its DISPATCHING revision is in the file.
THEOREM SentOnlyWhenDurable == Spec => []SentIsDurable
<1>1. IInv => SentIsDurable
  BY DEF IInv
<1>2. QED
  BY <1>1, Invariance, PTL

\* A rejected record left nothing at the broker and nobody is about to send it,
\* also when it was rejected by the recovery of another process.
THEOREM RejectionIsSafe == Spec => []RejectedMeansNoExposure
<1>1. IInv => RejectedMeansNoExposure
  <2> SUFFICES ASSUME IInv, NEW r \in rows, r.state = "REJECTED"
               PROVE  /\ NothingExecuted(r.intent)
                      /\ \A p \in Process : call[p].pc = "send" => call[p].row.intent # r.intent
    BY DEF RejectedMeansNoExposure
  <2>1. r.intent \in Intent /\ r.revision \in {3, 4} /\ r \in RowsOf(r.intent)
    BY DEF IInv, TypeOK, Row, Shapes, Shape, RowsOf
  <2>2. CASE r.revision = 3
    <3>1. \A o \in RowsOf(r.intent) : o.state # "DISPATCHING"
      BY <2>1, <2>2 DEF IInv, LogIsLifecycle, Shapes, Shape, RowsOf
    <3>2. sends[r.intent] = 0
      BY <2>1, <3>1 DEF IInv, SentIsDurable, TypeOK
    <3>3. \A p \in Process : call[p].pc = "send" => call[p].row.intent # r.intent
      BY <3>1 DEF IInv, CallShapes, CallShape, RowsOf
    <3>4. QED
      BY <2>1, <3>2, <3>3 DEF IInv, FillIsSent, NothingExecuted
  <2>3. CASE r.revision = 4
    <3>1. sends[r.intent] = 1 /\ NothingExecuted(r.intent)
      BY <2>3 DEF IInv, RejectedAfterSend
    <3>2. QED
      BY <3>1 DEF IInv, CallShapes, CallShape
  <2>4. QED
    BY <2>1, <2>2, <2>3
<1>2. QED
  BY <1>1, Invariance, PTL

\* A confirmed record tells of an execution exactly as sealed.
THEOREM ConfirmationIsTrue == Spec => []ConfirmedMeansFilled
<1>1. IInv => ConfirmedMeansFilled
  BY DEF IInv
<1>2. QED
  BY <1>1, Invariance, PTL

\* The file holds one gapless history of each intent, whoever wrote it.
THEOREM OneHistory == Spec => []LogIsLifecycle
<1>1. IInv => LogIsLifecycle
  BY DEF IInv
<1>2. QED
  BY <1>1, Invariance, PTL

\* No process remembers a record that is not in the file.
THEOREM MemoryBehindFile == Spec => []MemoryIsDurable
<1>1. IInv => MemoryIsDurable
  BY DEF IInv
<1>2. QED
  BY <1>1, Invariance, PTL

\* A record handed to the caller is in the file and no longer in flight.
THEOREM ReturnedIsSettled == Spec => []ReturnsSettled
<1>1. IInv => ReturnsSettled
  BY DEF IInv, CallShapes, CallShape, ReturnsSettled
<1>2. QED
  BY <1>1, Invariance, PTL
-----------------------------------------------------------------------------
(* Each step is a step of OneShotDispatch, or none.                        *)

\* A set of rows of one intent, as LogIsLifecycle and Shapes describe it.
History(S) ==
    \A r \in S :
        /\ Shape(r)
        /\ \A o \in S : o.revision = r.revision => o = r
        /\ IF r.revision = 2 THEN r.state = "CLAIMED"
           ELSE \E o \in S : o.revision + 1 = r.revision /\ r.state \in AllowedNext(o.state)

\* Phase and Verdict as functions of the rows of an intent.
Has(S, s) == \E r \in S : r.state = s

PhaseOf(S) ==
    IF Has(S, "DISPATCHING") THEN "armed"
    ELSE IF Has(S, "REJECTED") THEN "refused"
    ELSE IF S # {} THEN "owned" ELSE "open"

VerdictOf(S) ==
    IF Has(S, "CONFIRMED") THEN "CONFIRMED"
    ELSE IF Has(S, "RECONCILIATION_FAILED") THEN "RECONCILIATION_FAILED"
    ELSE IF Has(S, "DISPATCHING") /\ Has(S, "REJECTED") THEN "REJECTED"
    ELSE "pending"

LEMMA RowsAreHistory == IInv => \A i \in Intent : History(RowsOf(i))
  BY DEF IInv, Shapes, LogIsLifecycle, History, RowsOf

\* A history has a row of every revision below one it has.
LEMMA Downward ==
  ASSUME NEW S, History(S), NEW r \in S, NEW n \in 2..r.revision
  PROVE  \E o \in S : o.revision = n
<1>1. \A o \in S : o.revision \in 2..6
  BY DEF History, Shape
<1>2. \A o \in S : o.revision # 2 => \E q \in S : q.revision = o.revision - 1
  BY <1>1 DEF History
<1>3. CASE n = r.revision
  BY <1>3
<1>4. CASE n < r.revision
  <2>1. PICK o1 \in S : o1.revision = r.revision - 1
    BY <1>1, <1>2, <1>4
  <2>2. CASE n = o1.revision
    BY <2>2
  <2>3. CASE n < o1.revision
    <3>1. PICK o2 \in S : o2.revision = r.revision - 2
      BY <1>1, <1>2, <2>1, <2>3
    <3>2. CASE n = o2.revision
      BY <3>2
    <3>3. CASE n < o2.revision
      <4>1. PICK o3 \in S : o3.revision = r.revision - 3
        BY <1>1, <1>2, <3>1, <3>3
      <4>2. CASE n = o3.revision
        BY <4>2
      <4>3. CASE n < o3.revision
        BY <1>1, <1>2, <4>1, <4>3
      <4>4. QED
        BY <1>1, <3>1, <3>3, <4>1, <4>2, <4>3
    <3>4. QED
      BY <1>1, <2>1, <2>3, <3>1, <3>2, <3>3
  <2>4. QED
    BY <1>1, <1>4, <2>1, <2>2, <2>3
<1>5. QED
  BY <1>1, <1>3, <1>4

\* A row that allows no successor is the last of its history.
LEMMA TerminalLast ==
  ASSUME NEW S, History(S), NEW t \in S, AllowedNext(t.state) = {}, NEW r \in S
  PROVE  r.revision <= t.revision
<1>1. t.revision \in 2..6 /\ r.revision \in 2..6
  BY DEF History, Shape
<1>2. SUFFICES ASSUME t.revision < r.revision PROVE FALSE
  BY <1>1
<1>3. PICK o \in S : o.revision = t.revision + 1
  <2>1. t.revision + 1 \in 2..r.revision
    BY <1>1, <1>2
  <2>2. QED
    BY <2>1, Downward
<1>4. PICK q \in S : q.revision + 1 = o.revision /\ o.state \in AllowedNext(q.state)
  BY <1>1, <1>3 DEF History
<1>5. q.revision = t.revision
  <2>1. q.revision \in 2..6
    BY DEF History, Shape
  <2>2. QED
    BY <1>1, <1>3, <1>4, <2>1
<1>6. q = t
  BY <1>5 DEF History
<1>7. QED
  BY <1>4, <1>6

\* A history that went beyond revision 3 went through DISPATCHING.
LEMMA Armed ==
  ASSUME NEW S, History(S), NEW r \in S, r.revision >= 4
  PROVE  Has(S, "DISPATCHING")
<1>1. r.revision \in 4..6 /\ 4 \in 2..r.revision
  BY DEF History, Shape
<1>2. PICK o \in S : o.revision = 4
  BY <1>1, Downward
<1>3. PICK q \in S : q.revision + 1 = 4 /\ o.state \in AllowedNext(q.state)
  BY <1>2 DEF History
<1>4. q.revision = 3
  <2>1. q.revision \in 2..6
    BY DEF History, Shape
  <2>2. QED
    BY <1>3, <2>1
<1>5. q.state \in {"DISPATCHING", "REJECTED"}
  BY <1>4 DEF History, Shape
<1>6. AllowedNext("REJECTED") = {}
  BY DEF AllowedNext
<1>7. QED
  BY <1>3, <1>5, <1>6 DEF Has

\* A row that an insertion adds to a history is its last.
LEMMA NewIsLast ==
  ASSUME NEW S, NEW r, History(S), History(S \cup {r}),
         \A o \in S : o.revision # r.revision
  PROVE  \A o \in S : o.revision < r.revision /\ AllowedNext(o.state) # {}
<1>1. r.revision \in 2..6 /\ \A o \in S : o.revision \in 2..6
  BY DEF History, Shape
<1>2. \A o \in S : o.revision < r.revision
  <2> SUFFICES ASSUME NEW o \in S, r.revision < o.revision PROVE FALSE
    BY <1>1
  <2>1. r.revision \in 2..o.revision
    BY <1>1
  <2>2. \E q \in S : q.revision = r.revision
    BY <2>1, Downward
  <2>3. QED
    BY <2>2
<1>3. ASSUME NEW o \in S, AllowedNext(o.state) = {} PROVE FALSE
  <2>1. r.revision <= o.revision
    BY <1>3, TerminalLast
  <2>2. QED
    BY <1>1, <1>2, <2>1
<1>4. QED
  BY <1>2, <1>3

\* What the row r does to the phase and the verdict that S gave, T the rows
\* with it, by the state it brings.
Effect(S, T, r) ==
    /\ VerdictOf(S) = "pending"
    /\ r.state = "CLAIMED" =>
          S = {} /\ PhaseOf(T) = "owned" /\ VerdictOf(T) = "pending"
    /\ r.state = "DISPATCHING" =>
          PhaseOf(S) = "owned" /\ PhaseOf(T) = "armed" /\ VerdictOf(T) = "pending"
    /\ r.state = "REJECTED" /\ r.revision = 3 =>
          PhaseOf(S) = "owned" /\ PhaseOf(T) = "refused" /\ VerdictOf(T) = "pending"
    /\ r.state = "REJECTED" /\ r.revision = 4 =>
          PhaseOf(S) = "armed" /\ PhaseOf(T) = "armed" /\ VerdictOf(T) = "REJECTED"
    /\ r.state \in {"SUBMITTED", "UNKNOWN"} =>
          PhaseOf(S) = "armed" /\ PhaseOf(T) = "armed" /\ VerdictOf(T) = "pending"
    /\ r.state \in {"CONFIRMED", "RECONCILIATION_FAILED"} =>
          PhaseOf(S) = "armed" /\ PhaseOf(T) = "armed" /\ VerdictOf(T) = r.state

LEMMA NewRow ==
  ASSUME NEW S, NEW r, History(S), History(S \cup {r}),
         \A o \in S : o.revision # r.revision
  PROVE  Effect(S, S \cup {r}, r)
<1> DEFINE T == S \cup {r}
<1>1. \A o \in S : o.revision < r.revision /\ AllowedNext(o.state) # {}
  BY NewIsLast
<1>2. \A o \in S : o.state \notin {"CONFIRMED", "RECONCILIATION_FAILED", "REJECTED"}
  BY <1>1 DEF AllowedNext
<1>3. ~Has(S, "CONFIRMED") /\ ~Has(S, "RECONCILIATION_FAILED") /\ ~Has(S, "REJECTED")
  BY <1>2 DEF Has
<1>4. \A s : Has(T, s) <=> Has(S, s) \/ r.state = s
  BY DEF Has
<1>5. Shape(r) /\ \A o \in S : Shape(o)
  BY DEF History
<1>6. r.revision # 2 => \E o \in S : o.revision + 1 = r.revision
  <2> SUFFICES ASSUME r.revision # 2 PROVE \E o \in S : o.revision + 1 = r.revision
    OBVIOUS
  <2>1. PICK o \in T : o.revision + 1 = r.revision
    BY DEF History
  <2>2. o # r
    BY <1>5, <2>1 DEF Shape
  <2>3. QED
    BY <2>1, <2>2
<1>7. r.revision = 2 => S = {}
  BY <1>1, <1>5 DEF Shape
<1>8. r.revision = 3 => S # {} /\ ~Has(S, "DISPATCHING")
  BY <1>1, <1>5, <1>6 DEF Shape, Has
<1>9. r.revision >= 4 => Has(S, "DISPATCHING")
  <2> SUFFICES ASSUME r.revision >= 4 PROVE Has(S, "DISPATCHING")
    OBVIOUS
  <2>1. r.state # "DISPATCHING"
    BY <1>5 DEF Shape
  <2>2. Has(T, "DISPATCHING")
    BY Armed
  <2>3. QED
    BY <1>4, <2>1, <2>2
<1>10. VerdictOf(S) = "pending"
  BY <1>3 DEF VerdictOf
<1>11. CASE r.state = "CLAIMED"
  <2>1. S = {} /\ \A s : ~Has(S, s)
    BY <1>5, <1>7, <1>11 DEF Shape, Has
  <2>2. QED
    BY <1>4, <1>10, <1>11, <2>1 DEF PhaseOf, VerdictOf, Effect
<1>12. CASE r.state = "DISPATCHING"
  <2>1. S # {} /\ ~Has(S, "DISPATCHING")
    BY <1>5, <1>8, <1>12 DEF Shape
  <2>2. QED
    BY <1>3, <1>4, <1>10, <1>12, <2>1 DEF PhaseOf, VerdictOf, Effect
<1>13. CASE r.state = "REJECTED" /\ r.revision = 3
  BY <1>3, <1>4, <1>8, <1>10, <1>13 DEF PhaseOf, VerdictOf, Effect
<1>14. CASE r.revision >= 4
  BY <1>3, <1>4, <1>5, <1>9, <1>10, <1>14 DEF PhaseOf, VerdictOf, Effect, Shape
<1>15. QED
  BY <1>5, <1>11, <1>12, <1>13, <1>14 DEF Shape

\* The mapped variables, for the proof.
Phases == [i \in Intent |-> Phase(i)]
Verdicts == [i \in Intent |-> Verdict(i)]
Mapped == <<Phases, sends, fills, Verdicts>>

\* A step that leaves the rows alone leaves phases and verdicts alone.
LEMMA SameRows ==
  ASSUME UNCHANGED rows
  PROVE  UNCHANGED <<Phases, Verdicts>>
  BY DEF Phases, Verdicts, Phase, Verdict, HasState, RowsOf

\* A save is a claim, a refusal, an arming or a verdict, or it is not seen.
LEMMA SaveMaps ==
  ASSUME IInv, IInv', TimeoutsFinal, NEW p \in Process, NEW row, NEW pc, Save(p, row, pc)
  PROVE  \/ UNCHANGED Mapped
         \/ \E i \in Intent : Abstract!Claim(i) \/ Abstract!Arm(i) \/ Abstract!Judge(i)
         \/ \E I \in SUBSET Intent : Abstract!Refuse(I)
<1> DEFINE i == row.intent
<1>1. /\ rows' = rows \cup {row} /\ UNCHANGED <<sends, fills>>
      /\ \A o \in RowsOf(i) : o.revision # row.revision
  BY DEF Save, broker
<1>2. row \in rows' /\ row \in Row /\ i \in Intent /\ Shape(row)
  BY <1>1 DEF IInv, TypeOK, Row, Shapes
<1>3. \A j \in Intent : RowsOf(j)' = IF j = i THEN RowsOf(j) \cup {row} ELSE RowsOf(j)
  BY <1>1 DEF RowsOf
<1>4. History(RowsOf(i)) /\ History(RowsOf(i) \cup {row})
  <2>1. History(RowsOf(i)')
    BY <1>2 DEF IInv, Shapes, LogIsLifecycle, History, RowsOf
  <2>2. QED
    BY <1>2, <1>3, <2>1, RowsAreHistory
<1>5. \A j \in Intent : /\ Phase(j)' = PhaseOf(RowsOf(j)') /\ Phase(j) = PhaseOf(RowsOf(j))
                        /\ Verdict(j)' = VerdictOf(RowsOf(j)') /\ Verdict(j) = VerdictOf(RowsOf(j))
  BY DEF Phase, Verdict, PhaseOf, VerdictOf, HasState, Has
<1>6. \A j \in Intent \ {i} : Phase(j)' = Phase(j) /\ Verdict(j)' = Verdict(j)
  BY <1>3, <1>5
<1>7. /\ Verdict(i) = "pending"
      /\ row.state = "CLAIMED" =>
            RowsOf(i) = {} /\ Phase(i)' = "owned" /\ Verdict(i)' = "pending"
      /\ row.state = "DISPATCHING" =>
            Phase(i) = "owned" /\ Phase(i)' = "armed" /\ Verdict(i)' = "pending"
      /\ row.state = "REJECTED" /\ row.revision = 3 =>
            Phase(i) = "owned" /\ Phase(i)' = "refused" /\ Verdict(i)' = "pending"
      /\ row.state = "REJECTED" /\ row.revision = 4 =>
            Phase(i) = "armed" /\ Phase(i)' = "armed" /\ Verdict(i)' = "REJECTED"
      /\ row.state \in {"SUBMITTED", "UNKNOWN"} =>
            Phase(i) = "armed" /\ Phase(i)' = "armed" /\ Verdict(i)' = "pending"
      /\ row.state \in {"CONFIRMED", "RECONCILIATION_FAILED"} =>
            Phase(i) = "armed" /\ Phase(i)' = "armed" /\ Verdict(i)' = row.state
  <2>1. RowsOf(i)' = RowsOf(i) \cup {row}
    BY <1>2, <1>3
  <2>2. Effect(RowsOf(i), RowsOf(i) \cup {row}, row)
    BY <1>1, <1>4, NewRow
  <2>3. Effect(RowsOf(i), RowsOf(i)', row)
    BY <2>1, <2>2
  <2>4. /\ Phase(i)' = PhaseOf(RowsOf(i)') /\ Phase(i) = PhaseOf(RowsOf(i))
        /\ Verdict(i)' = VerdictOf(RowsOf(i)') /\ Verdict(i) = VerdictOf(RowsOf(i))
    BY <1>2, <1>5
  <2>5. QED
    BY <2>3, <2>4 DEF Effect
<1>8. /\ Phases' = [Phases EXCEPT ![i] = Phase(i)']
      /\ Verdicts' = [Verdicts EXCEPT ![i] = Verdict(i)']
      /\ Phases[i] = Phase(i) /\ Verdicts[i] = Verdict(i)
  BY <1>2, <1>6 DEF Phases, Verdicts
<1>9. Phase(i)' = Phase(i) => UNCHANGED Phases
  BY <1>2, <1>8 DEF Phases
<1>10. Verdict(i)' = Verdict(i) => UNCHANGED Verdicts
  BY <1>2, <1>8 DEF Verdicts
<1> USE DEF Phases, Verdicts
<1>11. CASE row.state = "CLAIMED"
  <2>1. \A j \in Intent : SourceOf[j] = SourceOf[i] => RowsOf(j) = {}
    <3> SUFFICES ASSUME NEW j \in Intent, SourceOf[j] = SourceOf[i], NEW r \in RowsOf(j)
                 PROVE  FALSE
      OBVIOUS
    <3>1. r \in rows' /\ r.intent = j
      BY <1>1 DEF RowsOf
    <3>2. j = i
      BY <1>2, <3>1 DEF IInv, OneIntentPerSource
    <3>3. QED
      BY <1>7, <1>11, <3>2
  <2>2. \A j \in Intent : SourceOf[j] = SourceOf[i] => Phase(j) = "open"
    BY <1>5, <2>1 DEF PhaseOf, Has
  <2>3. Abstract!Claim(i)
    BY <1>1, <1>2, <1>7, <1>8, <1>10, <1>11, <2>2 DEF Abstract!Claim
  <2>4. QED
    BY <1>2, <2>3
<1>12. CASE row.state = "DISPATCHING"
  <2>1. Abstract!Arm(i)
    BY <1>1, <1>2, <1>7, <1>8, <1>10, <1>12 DEF Abstract!Arm
  <2>2. QED
    BY <1>2, <2>1
<1>13. CASE row.state = "REJECTED" /\ row.revision = 3
  <2>1. Abstract!Refuse({i})
    BY <1>1, <1>2, <1>6, <1>7, <1>10, <1>13 DEF Abstract!Refuse
  <2>2. {i} \in SUBSET Intent
    BY <1>2
  <2>3. QED
    BY <2>1, <2>2
<1>14. CASE row.state = "REJECTED" /\ row.revision = 4
  <2>1. sends[i] = 1 /\ fills[i] = "none"
    BY <1>1, <1>2, <1>14 DEF IInv, RejectedAfterSend, NothingExecuted
  <2>2. Abstract!Judge(i)
    BY <1>1, <1>2, <1>7, <1>8, <1>9, <1>14, <2>1 DEF Abstract!Judge
  <2>3. QED
    BY <1>2, <2>2
<1>15. CASE row.state \in {"SUBMITTED", "UNKNOWN"}
  BY <1>1, <1>2, <1>7, <1>9, <1>10, <1>15 DEF Mapped
<1>16. CASE row.state \in {"CONFIRMED", "RECONCILIATION_FAILED"}
  <2>1. row.state = "CONFIRMED" => fills[i] = "match"
    BY <1>1, <1>2 DEF IInv, ConfirmedMeansFilled
  <2>2. Abstract!Judge(i)
    BY <1>1, <1>2, <1>7, <1>8, <1>9, <1>16, <2>1 DEF Abstract!Judge
  <2>3. QED
    BY <1>2, <2>2
<1>17. QED
  BY <1>2, <1>11, <1>12, <1>13, <1>14, <1>15, <1>16 DEF Shape

\* A step of a call is the one call of order_send, a save, or touches neither
\* the rows nor the broker's executions.
LEMMA CallStepKinds ==
  ASSUME NEW p \in Process, CallStep(p)
  PROVE  \/ UNCHANGED <<rows, sends, fills>>
         \/ Submit(p)
         \/ \E row, pc : Save(p, row, pc)
<1> DEFINE Kinds == UNCHANGED <<rows, sends, fills>> \/ \E row, pc : Save(p, row, pc)
<1>1. Raise(p) \/ (\E pc : Go(p, pc)) => Kinds
  BY DEF Raise, Go, db, broker
<1>2. ASSUME NEW row, NEW pc, SaveOrRaise(p, row, pc) PROVE Kinds
  BY <1>1, <1>2 DEF SaveOrRaise
<1>3. RejectBeforeDispatch(p) => Kinds
  BY <1>2 DEF RejectBeforeDispatch
<1> HIDE DEF Kinds
<1>4. Capture(p) \/ OrderCheck(p) \/ Guard(p) \/ PersistDispatching(p) => Kinds
  BY <1>1, <1>2, <1>3 DEF Capture, OrderCheck, Guard, PersistDispatching
<1>5. ClaimIntent(p) => Kinds
  BY <1>1 DEF ClaimIntent, Kinds
<1>6. ObserveFinal(p) => Kinds
  BY <1>3 DEF ObserveFinal, Kinds, db, broker
<1>7. Settle(p) => Kinds
  <2> SUFFICES ASSUME Settle(p) PROVE Kinds
    OBVIOUS
  <2>1. CASE call[p].receipt = "REJECTED"
    BY <1>2, <2>1 DEF Settle
  <2>2. CASE call[p].receipt = "UNKNOWN"
    BY <1>2, <2>2 DEF Settle
  <2>3. CASE call[p].receipt \notin {"REJECTED", "UNKNOWN"}
    BY <1>2, <2>3 DEF Settle
  <2>4. QED
    BY <2>1, <2>2, <2>3
<1>8. Reconcile(p) => Kinds
  BY <1>1, <1>2 DEF Reconcile
<1>9. Halt(p) \/ Return(p) => Kinds
  BY <1>1 DEF Halt, Return, AppendHalt, Kinds, db, broker
<1>10. QED
  BY <1>4, <1>5, <1>6, <1>7, <1>8, <1>9 DEF CallStep, ServiceStep, Kinds

\* The call of order_send is the shot; an exception before it is not seen.
LEMMA SubmitMaps ==
  ASSUME IInv, NEW p \in Process, Submit(p)
  PROVE  UNCHANGED Mapped \/ \E i \in Intent : Abstract!Shoot(i)
<1> DEFINE i == call[p].row.intent
<1>1. /\ i \in Intent /\ sends[i] = 0 /\ UNCHANGED rows
      /\ call[p].row \in RowsOf(i) /\ call[p].row.state = "DISPATCHING"
  BY DEF IInv, TypeOK, Call, Row, CallShapes, CallShape, Submit, RowsOf
<1>2. UNCHANGED <<Phases, Verdicts>>
  BY <1>1, SameRows
<1>3. Phases[i] = "armed"
  BY <1>1 DEF Phases, Phase, HasState
<1>4. CASE UNCHANGED broker
  BY <1>2, <1>4 DEF Mapped, broker
<1>5. ASSUME NEW ans \in Answers,
             sends' = [sends EXCEPT ![i] = @ + 1], fills' = [fills EXCEPT ![i] = ans[2]]
      PROVE  Abstract!Shoot(i)
  <2>1. ans[2] \in {"none", "pending", "match", "other"}
    BY DEF Answers, Fill
  <2>2. sends' = [sends EXCEPT ![i] = 1]
    BY <1>1, <1>5 DEF IInv, TypeOK
  <2>3. QED
    BY <1>1, <1>2, <1>3, <1>5, <2>1, <2>2 DEF Abstract!Shoot, Phases, Verdicts
<1>6. QED
  BY <1>1, <1>4, <1>5 DEF Submit

\* What the broker does later is an execution, or is not seen.
LEMMA BrokerMaps ==
  ASSUME NEW i \in Intent, LateFill(i) \/ ClosePosition(i)
  PROVE  UNCHANGED Mapped \/ Abstract!Execute(i)
<1>1. UNCHANGED <<rows, sends>>
  BY DEF LateFill, ClosePosition, db
<1>2. UNCHANGED <<Phases, Verdicts>>
  BY <1>1, SameRows
<1>3. CASE LateFill(i)
  BY <1>1, <1>2, <1>3 DEF LateFill, Abstract!Execute, Phases, Verdicts
<1>4. CASE ClosePosition(i)
  BY <1>1, <1>2, <1>4 DEF ClosePosition, Mapped
<1>5. QED
  BY <1>3, <1>4

\* Recovery gives up, in one step, every intent that was claimed and not armed.
LEMMA RecoverMaps ==
  ASSUME IInv, IInv', NEW p \in Process, Recover(p)
  PROVE  \E I \in SUBSET Intent : Abstract!Refuse(I)
<1> DEFINE old == {i \in Intent : mem[p].rec[i].state \in Unsettled}
           n(i) == Recovered(mem[p].rec[i])
           given == {i \in old : mem[p].rec[i].state = "CLAIMED"}
<1>1. /\ rows' = rows \cup {n(i) : i \in old}
      /\ \A i \in old, o \in rows : o.intent = n(i).intent => o.revision # n(i).revision
      /\ UNCHANGED <<sends, fills>>
  BY DEF Recover, broker
<1>2. \A i \in old : mem[p].rec[i] \in Row /\ Shape(mem[p].rec[i]) /\ mem[p].rec[i].intent = i
  <2> SUFFICES ASSUME NEW i \in old
               PROVE  mem[p].rec[i] \in Row /\ Shape(mem[p].rec[i]) /\ mem[p].rec[i].intent = i
    OBVIOUS
  <2>1. mem[p].rec[i] # Absent(i)
    BY AbsentType DEF Unsettled
  <2>2. mem[p].rec[i] \in RowsOf(i)
    BY <2>1 DEF IInv, MemoryIsDurable
  <2>3. QED
    BY <2>2 DEF RowsOf, IInv, TypeOK, Shapes
<1>3. \A i \in old :
        /\ n(i).intent = i
        /\ i \in given => n(i).state = "REJECTED" /\ n(i).revision = 3
        /\ i \notin given => n(i).state = "UNKNOWN"
  <2> SUFFICES ASSUME NEW i \in old
               PROVE  /\ n(i).intent = i
                      /\ i \in given => n(i).state = "REJECTED" /\ n(i).revision = 3
                      /\ i \notin given => n(i).state = "UNKNOWN"
    OBVIOUS
  <2>1. /\ n(i).intent = i /\ n(i).revision = mem[p].rec[i].revision + 1
        /\ n(i).state = IF mem[p].rec[i].state = "CLAIMED" THEN "REJECTED" ELSE "UNKNOWN"
    BY <1>2 DEF Recovered, Row
  <2>2. i \in given => mem[p].rec[i].revision = 2
    BY <1>2 DEF Shape
  <2>3. QED
    BY <2>1, <2>2
<1> HIDE DEF n
<1>4. \A i \in Intent : /\ i \in old => RowsOf(i)' = RowsOf(i) \cup {n(i)}
                        /\ i \notin old => RowsOf(i)' = RowsOf(i)
  BY <1>1, <1>3 DEF RowsOf
<1>5. \A i \in Intent : /\ Phase(i)' = PhaseOf(RowsOf(i)') /\ Phase(i) = PhaseOf(RowsOf(i))
                        /\ Verdict(i)' = VerdictOf(RowsOf(i)') /\ Verdict(i) = VerdictOf(RowsOf(i))
  BY DEF Phase, Verdict, PhaseOf, VerdictOf, HasState, Has
<1>6. \A i \in old : Effect(RowsOf(i), RowsOf(i)', n(i))
  <2> SUFFICES ASSUME NEW i \in old PROVE Effect(RowsOf(i), RowsOf(i)', n(i))
    OBVIOUS
  <2>1. RowsOf(i)' = RowsOf(i) \cup {n(i)} /\ \A o \in RowsOf(i) : o.revision # n(i).revision
    BY <1>1, <1>3, <1>4 DEF RowsOf
  <2>2. History(RowsOf(i)) /\ History(RowsOf(i)')
    BY RowsAreHistory DEF IInv, Shapes, LogIsLifecycle, History, RowsOf
  <2>3. QED
    BY <2>1, <2>2, NewRow
<1>7. \A i \in given : Phase(i) = "owned" /\ Phase(i)' = "refused" /\ UNCHANGED Verdict(i)
  BY <1>3, <1>5, <1>6 DEF Effect
<1>8. \A i \in Intent \ given : UNCHANGED <<Phase(i), Verdict(i)>>
  <2>1. \A i \in old \ given : UNCHANGED <<Phase(i), Verdict(i)>>
    BY <1>3, <1>5, <1>6 DEF Effect
  <2>2. \A i \in Intent \ old : UNCHANGED <<Phase(i), Verdict(i)>>
    BY <1>4, <1>5
  <2>3. QED
    BY <2>1, <2>2
<1>9. given \in SUBSET Intent
  OBVIOUS
<1> HIDE DEF given
<1>10. UNCHANGED Verdicts
  BY <1>7, <1>8, <1>9 DEF Verdicts
<1>11. Phases' = [i \in Intent |-> IF i \in given THEN "refused" ELSE Phases[i]]
  BY <1>7, <1>8, <1>9 DEF Phases
<1>12. \A i \in given : Phases[i] = "owned"
  BY <1>7, <1>9 DEF Phases
<1>13. Abstract!Refuse(given)
  BY <1>1, <1>10, <1>11, <1>12 DEF Abstract!Refuse, Phases, Verdicts
<1>14. QED
  BY <1>9, <1>13

LEMMA StepMaps ==
  ASSUME IInv, IInv', TimeoutsFinal, [Next]_vars
  PROVE  [Abstract!Next]_(Abstract!vars)
<1> DEFINE Maps == \/ UNCHANGED Mapped
                   \/ \E i \in Intent : \/ Abstract!Claim(i) \/ Abstract!Arm(i)
                                        \/ Abstract!Shoot(i) \/ Abstract!Execute(i)
                                        \/ Abstract!Judge(i)
                   \/ \E I \in SUBSET Intent : Abstract!Refuse(I)
<1>1. Maps => [Abstract!Next]_(Abstract!vars)
  BY DEF Abstract!Next, Abstract!vars, Mapped, Phases, Verdicts
<1>2. UNCHANGED <<rows, sends, fills>> => Maps
  BY SameRows DEF Mapped
<1>3. ASSUME NEW p \in Process, NEW row, NEW pc, Save(p, row, pc) PROVE Maps
  BY <1>3, SaveMaps
<1>4. ASSUME NEW p \in Process, Submit(p) PROVE Maps
  BY <1>4, SubmitMaps
<1>5. ASSUME NEW p \in Process, Recover(p) PROVE Maps
  BY <1>5, RecoverMaps
<1>6. ASSUME NEW i \in Intent, LateFill(i) \/ ClosePosition(i) PROVE Maps
  BY <1>6, BrokerMaps
<1> HIDE DEF Maps
<1>7. UNCHANGED vars => Maps
  BY <1>2 DEF vars
<1>8. ASSUME NEW p \in Process, CallStep(p) PROVE Maps
  BY <1>2, <1>3, <1>4, <1>8, CallStepKinds
<1>9. ASSUME NEW p \in Process,
             \/ Open(p) \/ Crash(p) \/ BeginRefused(p)
             \/ \E i \in Intent, a \in Approval : Begin(p, i, a)
             \/ \E i \in Intent : ReconcileUnknown(p, i)
             \/ \E s \in ControlState : OperatorControl(p, s) \/ CloseControl(p, s)
             \/ \E a \in Approval : Grant(p, a) \/ Revoke(p, a)
      PROVE  Maps
  <2>1. Open(p) \/ Crash(p) \/ BeginRefused(p) => UNCHANGED <<rows, sends, fills>>
    BY DEF Open, Crash, BeginRefused, Raise, db, broker
  <2>2. ASSUME NEW i \in Intent, NEW a \in Approval, Begin(p, i, a)
        PROVE  UNCHANGED <<rows, sends, fills>>
    BY <2>2 DEF Begin, db, broker
  <2>3. ASSUME NEW s \in ControlState, OperatorControl(p, s) \/ CloseControl(p, s)
        PROVE  UNCHANGED <<rows, sends, fills>>
    BY <2>3 DEF OperatorControl, CloseControl, AppendControl, broker
  <2>4. ASSUME NEW a \in Approval, Grant(p, a) \/ Revoke(p, a)
        PROVE  UNCHANGED <<rows, sends, fills>>
    BY <2>4 DEF Grant, Revoke, broker
  <2>5. ASSUME NEW i \in Intent, ReconcileUnknown(p, i)
        PROVE  UNCHANGED <<rows, sends, fills>>
    BY <2>5 DEF ReconcileUnknown, broker
  <2>6. UNCHANGED <<rows, sends, fills>>
    BY <1>9, <2>1, <2>2, <2>3, <2>4, <2>5
  <2>7. QED
    BY <1>2, <2>6
<1>10. Maps
  BY <1>5, <1>6, <1>7, <1>8, <1>9 DEF Next
<1>11. QED
  BY <1>1, <1>10

\* The records, the processes and the broker together keep the promise of
\* OneShotDispatch: one decision is taken up once, armed before it is shot,
\* shot once, and judged in accordance with what the broker did.  A rejection
\* agrees with the broker only if its timeouts may be believed.
THEOREM OneShotRefinement == TimeoutsFinal => (Spec => ImplementsOneShot)
<1> SUFFICES ASSUME TimeoutsFinal PROVE Spec => ImplementsOneShot
  OBVIOUS
<1>1. Init => Abstract!Init
  <2> SUFFICES ASSUME Init PROVE Abstract!Init
    OBVIOUS
  <2>1. \A i \in Intent : Phase(i) = "open" /\ Verdict(i) = "pending"
    BY DEF Init, Phase, Verdict, HasState, RowsOf
  <2>2. QED
    BY <2>1 DEF Init, Abstract!Init
<1>2. IInv /\ IInv' /\ [Next]_vars => [Abstract!Next]_(Abstract!vars)
  BY StepMaps
<1>3. QED
  BY <1>1, <1>2, Invariance, PTL DEF Spec, ImplementsOneShot, Abstract!Spec

-----------------------------------------------------------------------------
(* One process at a time.                                                  *)

\* The places of a call that began with an approval and has not sent yet.
Authorised == {"capture", "claim", "check", "observe", "guard", "dispatch", "send"}

\* What a process remembers of authority is what the file says.
Knows(p) ==
    mem[p].control = control /\ mem[p].granted = granted /\ mem[p].revoked = revoked

\* The authority of a call: the approval it began with is one of its intent;
\* past the guard the control is ENABLED and the approval stands; about to
\* send, its row is the last of its intent.
Authority(p) ==
    LET c == call[p]
    IN  /\ c.pc \in Authorised =>
              c.approval \in granted /\ ApprovedIntent[c.approval] = c.row.intent
        /\ c.pc \in {"dispatch", "send"} => control = "ENABLED" /\ c.approval \notin revoked
        /\ c.pc = "send" => \A o \in RowsOf(c.row.intent) : o.revision <= c.row.revision

Alone == \A p, q \in Process : call[p].pc # "down" /\ call[q].pc # "down" => p = q

ExclusiveInv ==
    /\ Alone
    /\ \A p \in Process : call[p].pc # "down" => Knows(p) /\ Authority(p)
    /\ late = {}

\* The other processes are down, so a step of p need only keep what is true
\* of p.
LEMMA LoneStep ==
  ASSUME ExclusiveInv, NEW p \in Process, call[p].pc # "down",
         \A q \in Process : q # p => call'[q] = call[q],
         late' = {},
         call'[p].pc # "down" => Knows(p)' /\ Authority(p)'
  PROVE  ExclusiveInv'
<1>1. \A q \in Process : q # p => call'[q].pc = "down"
  BY DEF ExclusiveInv, Alone
<1>2. Alone'
  BY <1>1 DEF Alone
<1>3. \A q \in Process : (call[q].pc # "down" => Knows(q) /\ Authority(q))'
  <2> SUFFICES ASSUME NEW q \in Process, call'[q].pc # "down"
               PROVE  Knows(q)' /\ Authority(q)'
    OBVIOUS
  <2>1. q = p
    BY <1>1
  <2>2. QED
    BY <2>1
<1>4. QED
  BY <1>2, <1>3 DEF ExclusiveInv

\* A process that runs knows what the file says of authority.
LEMMA LoneFacts ==
  ASSUME ExclusiveInv, NEW p \in Process, call[p].pc # "down"
  PROVE  Knows(p) /\ Authority(p) /\ late = {}
  BY DEF ExclusiveInv

\* An exception ends the call.
LEMMA LoneRaise ==
  ASSUME IInv, ExclusiveInv, NEW p \in Process, call[p].pc # "down", Raise(p)
  PROVE  ExclusiveInv'
<1>1. /\ \A q \in Process : q # p => call'[q] = call[q]
      /\ call'[p].pc = "raised"
      /\ UNCHANGED <<control, late, granted, revoked, mem>>
  BY IdleType DEF Raise, IInv, TypeOK, db
<1>2. Knows(p)' /\ Authority(p)' /\ late' = {}
  BY <1>1, LoneFacts DEF Knows, Authority, Authorised
<1>3. QED
  BY <1>1, <1>2, LoneStep

\* A call that moves on without a write.
LEMMA LoneGo ==
  ASSUME IInv, ExclusiveInv, NEW p \in Process, NEW pc \in PC, Go(p, pc),
         call[p].pc # "down", pc # "send",
         pc \in Authorised => call[p].pc \in Authorised,
         pc = "dispatch" => control = "ENABLED" /\ call[p].approval \notin revoked
  PROVE  ExclusiveInv'
<1>1. /\ \A q \in Process : q # p => call'[q] = call[q]
      /\ call'[p] = [call[p] EXCEPT !.pc = pc]
      /\ UNCHANGED <<control, late, granted, revoked, mem>>
  BY DEF Go, IInv, TypeOK, db
<1>2. call'[p].pc = pc /\ call'[p].row = call[p].row /\ call'[p].approval = call[p].approval
  BY <1>1 DEF IInv, TypeOK, Call
<1>3. Knows(p)' /\ late' = {}
  BY <1>1, LoneFacts DEF Knows
<1>4. Authority(p)'
  BY <1>1, <1>2, LoneFacts DEF Authority
<1>5. QED
  BY <1>1, <1>3, <1>4, LoneStep

\* A call that saves the next row of its intent: after the DISPATCHING row it
\* is about to send, and that row is the last of its intent.
LEMMA LoneSave ==
  ASSUME IInv, IInv', ExclusiveInv, NEW p \in Process, NEW row, NEW pc \in PC,
         Save(p, row, pc), row.intent = call[p].row.intent,
         \/ pc = "check" /\ call[p].pc = "claim"
         \/ pc = "send" /\ call[p].pc = "dispatch"
         \/ pc \notin Authorised /\ call[p].pc # "down"
  PROVE  ExclusiveInv'
<1>1. /\ \A q \in Process : q # p => call'[q] = call[q]
      /\ call'[p] = [call[p] EXCEPT !.row = row, !.pc = pc]
      /\ UNCHANGED <<control, late, granted, revoked>>
      /\ rows' = rows \cup {row} /\ \A o \in RowsOf(row.intent) : o.revision # row.revision
  BY DEF Save, IInv, TypeOK
<1>2. call'[p].pc = pc /\ call'[p].row = row /\ call'[p].approval = call[p].approval
  BY <1>1 DEF IInv, TypeOK, Call
<1>3. /\ mem'[p].control = mem[p].control /\ mem'[p].granted = mem[p].granted
      /\ mem'[p].revoked = mem[p].revoked
  BY DEF Save, IInv, TypeOK, Memory
<1>4. call[p].pc # "down"
  OBVIOUS
<1>5. Knows(p)' /\ late' = {}
  BY <1>1, <1>3, <1>4, LoneFacts DEF Knows
<1>6. pc = "send" => \A o \in RowsOf(row.intent)' : o.revision <= row.revision
  <2>1. row \in Row /\ row.intent \in Intent
    BY <1>1 DEF IInv, TypeOK, Row
  <2>2. RowsOf(row.intent)' = RowsOf(row.intent) \cup {row}
    BY <1>1 DEF RowsOf
  <2>3. History(RowsOf(row.intent)) /\ History(RowsOf(row.intent)')
    BY <2>1, RowsAreHistory DEF IInv, Shapes, LogIsLifecycle, History, RowsOf
  <2>4. \A o \in RowsOf(row.intent) : o.revision < row.revision
    BY <1>1, <2>2, <2>3, NewIsLast
  <2>5. \A o \in RowsOf(row.intent)' : o.revision \in Nat
    BY DEF IInv, TypeOK, Row, RowsOf
  <2>6. row \in RowsOf(row.intent)'
    BY <2>2
  <2>7. QED
    BY <2>2, <2>4, <2>5, <2>6
<1>7. Authority(p)'
  BY <1>1, <1>2, <1>4, <1>6, LoneFacts DEF Authority, Authorised
<1>8. QED
  BY <1>1, <1>4, <1>5, <1>7, LoneStep

LEMMA LoneAdvance ==
  ASSUME IInv, IInv', ExclusiveInv, NEW p \in Process, NEW state, NEW receipt, NEW pc \in PC,
         SaveOrRaise(p, Advance(p, state, receipt), pc), call[p].pc # "down",
         \/ pc = "send" /\ call[p].pc = "dispatch"
         \/ pc \notin Authorised
  PROVE  ExclusiveInv'
<1>1. Advance(p, state, receipt).intent = call[p].row.intent
  BY DEF Advance, IInv, TypeOK, Call, Row
<1>2. CASE Raise(p)
  BY <1>2, LoneRaise
<1>3. CASE Save(p, Advance(p, state, receipt), pc)
  BY <1>1, <1>3, LoneSave
<1>4. QED
  BY <1>2, <1>3 DEF SaveOrRaise

\* Every step of a call.
LEMMA LoneCallStep ==
  ASSUME IInv, IInv', ExclusiveInv, NEW p \in Process, CallStep(p)
  PROVE  ExclusiveInv'
<1> USE DEF PC, Authorised
<1>1. /\ call \in [Process -> Call] /\ call[p] \in Call
      /\ mem \in [Process -> Memory] /\ mem[p] \in Memory
  BY DEF IInv, TypeOK
<1>2. call[p].pc # "down"
  BY DEF CallStep, ServiceStep, Capture, ClaimIntent, OrderCheck, ObserveFinal, Guard,
         PersistDispatching, Submit, Settle, Reconcile, Halt, Return
<1>3. Knows(p) /\ Authority(p) /\ late = {}
  BY <1>2, LoneFacts
<1>4. RejectBeforeDispatch(p) => ExclusiveInv'
  BY <1>2, LoneAdvance DEF RejectBeforeDispatch
<1>5. Raise(p) => ExclusiveInv'
  BY <1>2, LoneRaise
<1>6. CASE Capture(p)
  BY <1>2, <1>5, <1>6, LoneGo DEF Capture
<1>7. CASE ClaimIntent(p)
  <2> DEFINE i == call[p].row.intent
             row == [Absent(i) EXCEPT !.revision = 2, !.state = "CLAIMED"]
  <2>1. row.intent = i
    BY DEF Absent
  <2> HIDE DEF row
  <2>2. CASE Save(p, row, "check")
    BY <1>7, <2>1, <2>2, LoneSave DEF ClaimIntent
  <2>3. QED
    BY <1>5, <1>7, <2>2 DEF ClaimIntent, row
<1>8. CASE OrderCheck(p)
  BY <1>2, <1>4, <1>8, LoneGo DEF OrderCheck
<1>9. CASE ObserveFinal(p)
  <2> DEFINE c == [call[p] EXCEPT !.pc = "guard", !.clear = AccountClear(p)]
  <2>1. CASE call' = [call EXCEPT ![p] = c] /\ UNCHANGED <<db, mem>>
    <3>1. c.pc = "guard" /\ c.row = call[p].row /\ c.approval = call[p].approval
      BY <1>1 DEF Call
    <3> HIDE DEF c
    <3>2. call'[p] = c /\ \A q \in Process : q # p => call'[q] = call[q]
      BY <1>1, <2>1
    <3>3. UNCHANGED <<control, late, granted, revoked, mem>>
      BY <2>1 DEF db
    <3>4. Knows(p)' /\ Authority(p)' /\ late' = {}
      BY <1>3, <1>9, <3>1, <3>2, <3>3 DEF Knows, Authority, ObserveFinal
    <3>5. QED
      BY <1>2, <3>2, <3>4, LoneStep
  <2>2. QED
    BY <1>4, <1>9, <2>1 DEF ObserveFinal
<1>10. CASE Guard(p)
  <2>1. CASE GuardPasses(p) /\ Go(p, "dispatch")
    BY <1>2, <1>3, <1>10, <2>1, LoneGo DEF Guard, GuardPasses, Knows
  <2>2. QED
    BY <1>4, <1>10, <2>1 DEF Guard
<1>11. CASE PersistDispatching(p)
  BY <1>2, <1>11, LoneAdvance DEF PersistDispatching
<1>12. CASE Submit(p)
  <2>1. PICK receipt \in Receipt : call' = [call EXCEPT ![p].pc = "settle", ![p].receipt = receipt]
    BY <1>12 DEF Submit, Answers, Receipt
  <2>2. call'[p].pc = "settle" /\ \A q \in Process : q # p => call'[q] = call[q]
    BY <1>1, <2>1 DEF Call
  <2>3. UNCHANGED <<rows, control, granted, revoked, mem>> /\ late' = late \ {p}
    BY <1>12 DEF Submit
  <2>4. Knows(p)' /\ Authority(p)' /\ late' = {}
    BY <1>3, <2>2, <2>3 DEF Knows, Authority
  <2>5. QED
    BY <1>2, <2>2, <2>4, LoneStep
<1>13. CASE Settle(p)
  <2>1. CASE call[p].receipt = "REJECTED"
    <3>1. SaveOrRaise(p, Advance(p, "REJECTED", "REJECTED"), "returned")
      BY <1>13, <2>1 DEF Settle
    <3>2. QED
      BY <1>2, <3>1, LoneAdvance
  <2>2. CASE call[p].receipt = "UNKNOWN"
    <3>1. SaveOrRaise(p, Advance(p, "UNKNOWN", "UNKNOWN"), "halt")
      BY <1>13, <2>2 DEF Settle
    <3>2. QED
      BY <1>2, <3>1, LoneAdvance
  <2>3. CASE call[p].receipt \notin {"REJECTED", "UNKNOWN"}
    <3>1. SaveOrRaise(p, Advance(p, "SUBMITTED", "ACCEPTED"), "reconcile")
      BY <1>13, <2>3 DEF Settle
    <3>2. QED
      BY <1>2, <3>1, LoneAdvance
  <2>4. QED
    BY <2>1, <2>2, <2>3
<1>14. CASE Reconcile(p)
  <2> DEFINE row == call[p].row
  <2>1. ASSUME NEW state, NEW pc \in {"returned", "halt"},
               SaveOrRaise(p, Advance(p, state, row.receipt), pc)
        PROVE  ExclusiveInv'
    BY <1>2, <2>1, LoneAdvance
  <2>2. Go(p, "returned") => ExclusiveInv'
    BY <1>2, LoneGo
  <2>3. QED
    BY <1>14, <2>1, <2>2 DEF Reconcile
<1>15. CASE Halt(p)
  <2>1. CASE AppendHalt(p) /\ call' = [call EXCEPT ![p].pc = "returned"]
    <3>1. /\ call'[p].pc = "returned" /\ \A q \in Process : q # p => call'[q] = call[q]
          /\ control' = "HALTED" /\ late' = {} /\ UNCHANGED <<granted, revoked>>
      BY <1>1, <1>3, <2>1 DEF AppendHalt, Call
    <3>2. /\ mem'[p].control = "HALTED" /\ mem'[p].granted = mem[p].granted
          /\ mem'[p].revoked = mem[p].revoked
      BY <1>1, <2>1 DEF AppendHalt, Memory
    <3>3. Knows(p)' /\ Authority(p)'
      BY <1>3, <3>1, <3>2 DEF Knows, Authority
    <3>4. QED
      BY <1>2, <3>1, <3>3, LoneStep
  <2>2. CASE Go(p, "returned")
    BY <1>2, <2>2, LoneGo
  <2>3. QED
    BY <1>5, <1>15, <2>1, <2>2 DEF Halt
<1>16. CASE Return(p)
  <2>1. /\ call'[p].pc = "idle" /\ \A q \in Process : q # p => call'[q] = call[q]
        /\ UNCHANGED <<control, late, granted, revoked, mem>>
    BY <1>1, <1>16, IdleType DEF Return, db
  <2>2. Knows(p)' /\ Authority(p)' /\ late' = {}
    BY <1>3, <2>1 DEF Knows, Authority
  <2>3. QED
    BY <1>2, <2>1, <2>2, LoneStep
<1>17. QED
  BY <1>6, <1>7, <1>8, <1>9, <1>10, <1>11, <1>12, <1>13, <1>14, <1>15, <1>16
     DEF CallStep, ServiceStep

\* Opening reads the file; a crash forgets; a command writes the file and the
\* memory of the only process, and none falls where an order is on its way.
LEMMA LoneHandleStep ==
  ASSUME Exclusive, IInv, ExclusiveInv, NEW p \in Process,
         \/ Open(p) \/ Crash(p) \/ Recover(p) \/ BeginRefused(p)
         \/ \E i \in Intent, a \in Approval : Begin(p, i, a)
         \/ \E i \in Intent : ReconcileUnknown(p, i)
         \/ \E s \in ControlState : OperatorControl(p, s) \/ CloseControl(p, s)
         \/ \E a \in Approval : Grant(p, a) \/ Revoke(p, a)
  PROVE  ExclusiveInv'
<1>1. /\ call \in [Process -> Call] /\ call[p] \in Call
      /\ mem \in [Process -> Memory] /\ mem[p] \in Memory
  BY DEF IInv, TypeOK
<1>2. CASE Open(p)
  <2>1. /\ \A q \in Process : call[q].pc = "down"
        /\ call' = [call EXCEPT ![p] = Idle]
        /\ UNCHANGED <<rows, control, late, granted, revoked>>
    BY <1>2 DEF Open, db
  <2>2. \A q \in Process : q # p => call'[q].pc = "down"
    BY <1>1, <2>1
  <2>3. call'[p].pc = "idle"
    BY <1>1, <2>1, IdleType
  <2>4. Knows(p)'
    BY <1>1, <1>2 DEF Open, Knows, db
  <2>5. Authority(p)'
    BY <2>3 DEF Authority, Authorised
  <2>6. Alone'
    BY <2>2 DEF Alone
  <2>7. late' = {}
    BY <2>1 DEF ExclusiveInv
  <2>8. \A q \in Process : call'[q].pc # "down" => q = p
    BY <2>2
  <2>9. \A q \in Process : (call[q].pc # "down" => Knows(q) /\ Authority(q))'
    BY <2>4, <2>5, <2>8
  <2>10. QED
    BY <2>6, <2>7, <2>9 DEF ExclusiveInv
<1>3. CASE Crash(p)
  <2>1. /\ call'[p].pc = "down" /\ \A q \in Process : q # p => call'[q] = call[q]
        /\ call[p].pc # "down" /\ late' = {}
    BY <1>1, <1>3, IdleType DEF Crash, db, ExclusiveInv
  <2>2. QED
    BY <2>1, LoneStep
<1>4. CASE Recover(p)
  <2>1. /\ call[p].pc = "idle" /\ call' = call
        /\ UNCHANGED <<control, late, granted, revoked>>
    BY <1>4 DEF Recover
  <2>2. /\ mem'[p].control = mem[p].control /\ mem'[p].granted = mem[p].granted
        /\ mem'[p].revoked = mem[p].revoked
    BY <1>1, <1>4 DEF Recover, Memory
  <2>3. Knows(p)' /\ Authority(p)' /\ late' = {}
    BY <2>1, <2>2, LoneFacts DEF Knows, Authority, Authorised
  <2>4. QED
    BY <2>1, <2>3, LoneStep
<1>5. CASE BeginRefused(p)
  BY <1>5, LoneRaise DEF BeginRefused
<1>6. ASSUME NEW i \in Intent, NEW a \in Approval, Begin(p, i, a) PROVE ExclusiveInv'
  <2> DEFINE c == [Idle EXCEPT !.pc = "capture", !.row = Absent(i), !.approval = a]
  <2>1. c.pc = "capture" /\ c.row = Absent(i) /\ c.approval = a
    BY IdleType DEF Call
  <2>2. /\ call[p].pc = "idle" /\ a \in mem[p].granted \ mem[p].revoked
        /\ ApprovedIntent[a] = i
        /\ call' = [call EXCEPT ![p] = c] /\ UNCHANGED <<db, mem, broker, used>>
    BY <1>6, Zenon DEF Begin
  <2> HIDE DEF c
  <2>3. call'[p] = c /\ \A q \in Process : q # p => call'[q] = call[q]
    BY <1>1, <2>2
  <2>4. a \in mem[p].granted /\ UNCHANGED <<control, late, granted, revoked, mem>>
    BY <2>2 DEF db
  <2>5. Absent(i).intent = i
    BY DEF Absent
  <2>6. Knows(p) /\ late = {}
    BY <2>2, LoneFacts
  <2>7. Knows(p)' /\ late' = {}
    BY <2>4, <2>6 DEF Knows
  <2>8. Authority(p)'
    BY <2>1, <2>2, <2>3, <2>4, <2>5, <2>6 DEF Knows, Authority, Authorised
  <2>9. QED
    BY <2>2, <2>3, <2>7, <2>8, LoneStep
<1>7. ASSUME NEW i \in Intent, ReconcileUnknown(p, i) PROVE ExclusiveInv'
  <2> DEFINE row == mem[p].rec[i]
  <2>1. /\ call[p].pc = "idle" /\ late' = late \ {p}
        /\ call' = [call EXCEPT ![p].pc = "reconcile", ![p].row = row]
        /\ UNCHANGED <<control, granted, revoked, mem>>
    BY <1>7, Zenon DEF ReconcileUnknown
  <2> HIDE DEF row
  <2>2. call'[p].pc = "reconcile" /\ \A q \in Process : q # p => call'[q] = call[q]
    BY <1>1, <2>1 DEF Call
  <2>3. Knows(p)' /\ Authority(p)' /\ late' = {}
    BY <2>1, <2>2, LoneFacts DEF Knows, Authority, Authorised
  <2>4. QED
    BY <2>1, <2>2, <2>3, LoneStep
<1>8. ASSUME NEW s \in ControlState, OperatorControl(p, s) \/ CloseControl(p, s)
      PROVE  ExclusiveInv'
  <2>1. /\ call[p].pc \notin {"down", "dispatch", "send", "settle", "halt"}
        /\ call' = call /\ UNCHANGED <<rows, granted, revoked>>
        /\ control' = s /\ late' = {q \in Process : HaltStamped(call[q])}
        /\ mem' = [mem EXCEPT ![p].control = s]
    BY <1>8 DEF OperatorControl, CloseControl, Reachable, AppendControl
  <2>2. /\ mem'[p].control = s /\ mem'[p].granted = mem[p].granted
        /\ mem'[p].revoked = mem[p].revoked
    BY <1>1, <2>1 DEF Memory
  <2>3. Knows(p) /\ Authority(p)
    BY <2>1, LoneFacts
  <2>4. \A q \in Process : ~HaltStamped(call[q])
    BY <2>1 DEF ExclusiveInv, Alone, HaltStamped
  <2>5. Knows(p)' /\ Authority(p)' /\ late' = {}
    BY <2>1, <2>2, <2>3, <2>4 DEF Knows, Authority
  <2>6. QED
    BY <2>1, <2>5, LoneStep
<1>9. ASSUME NEW a \in Approval, Grant(p, a) \/ Revoke(p, a) PROVE ExclusiveInv'
  <2>1. /\ call[p].pc \notin {"down", "dispatch", "send"}
        /\ call' = call /\ UNCHANGED <<rows, control, late>>
    BY <1>9 DEF Grant, Revoke, Reachable
  <2>2. Knows(p) /\ Authority(p) /\ late = {}
    BY <2>1, LoneFacts
  <2>3. /\ granted \subseteq granted'
        /\ mem'[p].control = mem[p].control /\ mem'[p].granted = granted'
        /\ mem'[p].revoked = revoked'
    <3>1. CASE Grant(p, a)
      BY <1>1, <2>2, <3>1 DEF Grant, Knows, Memory
    <3>2. CASE Revoke(p, a)
      BY <1>1, <2>2, <3>2 DEF Revoke, Knows, Memory
    <3>3. QED
      BY <1>9, <3>1, <3>2
  <2>4. Knows(p)' /\ Authority(p)' /\ late' = {}
    BY <2>1, <2>2, <2>3 DEF Knows, Authority
  <2>5. QED
    BY <2>1, <2>4, LoneStep
<1>10. QED
  BY <1>2, <1>3, <1>4, <1>5, <1>6, <1>7, <1>8, <1>9

LEMMA ExclusiveInvariance ==
  ASSUME Exclusive
  PROVE  Spec => [](IInv /\ ExclusiveInv)
<1>1. Init => IInv /\ ExclusiveInv
  <2>1. Init => \A p \in Process : call[p].pc = "down"
    BY IdleType DEF Init
  <2>2. QED
    BY <2>1, InitIInv DEF Init, ExclusiveInv, Alone
<1>2. IInv /\ ExclusiveInv /\ [Next]_vars => (IInv /\ ExclusiveInv)'
  <2> SUFFICES ASSUME IInv, ExclusiveInv, [Next]_vars PROVE IInv' /\ ExclusiveInv'
    OBVIOUS
  <2>1. IInv'
    BY NextIInv
  <2>2. UNCHANGED <<rows, control, late, granted, revoked, mem, call>> => ExclusiveInv'
    BY DEF ExclusiveInv, Alone, Knows, Authority, RowsOf
  <2>3. UNCHANGED vars => ExclusiveInv'
    BY <2>2 DEF vars
  <2>4. ASSUME NEW i \in Intent, LateFill(i) \/ ClosePosition(i) PROVE ExclusiveInv'
    BY <2>2, <2>4 DEF LateFill, ClosePosition, db
  <2>5. ASSUME NEW p \in Process, CallStep(p) PROVE ExclusiveInv'
    BY <2>1, <2>5, LoneCallStep
  <2>6. QED
    BY <2>1, <2>3, <2>4, <2>5, LoneHandleStep DEF Next
<1>3. QED
  BY <1>1, <1>2, PTL DEF Spec

\* Opening, crashes, commands and recovery leave the broker alone.
LEMMA BrokerOutsideCalls ==
  ASSUME NEW p \in Process,
         \/ Open(p) \/ Crash(p) \/ Recover(p) \/ BeginRefused(p)
         \/ \E i \in Intent, a \in Approval : Begin(p, i, a)
         \/ \E i \in Intent : ReconcileUnknown(p, i)
         \/ \E s \in ControlState : OperatorControl(p, s) \/ CloseControl(p, s)
         \/ \E a \in Approval : Grant(p, a) \/ Revoke(p, a)
  PROVE  UNCHANGED <<sends, fills>>
<1>1. Open(p) \/ Crash(p) \/ Recover(p) \/ BeginRefused(p) => UNCHANGED <<sends, fills>>
  BY DEF Open, Crash, Recover, BeginRefused, Raise, broker
<1>2. ASSUME NEW i \in Intent, NEW a \in Approval, Begin(p, i, a)
      PROVE  UNCHANGED <<sends, fills>>
  <2>1. UNCHANGED broker
    BY <1>2, Zenon DEF Begin
  <2>2. QED
    BY <2>1 DEF broker
<1>3. ASSUME NEW i \in Intent, ReconcileUnknown(p, i) PROVE UNCHANGED <<sends, fills>>
  BY <1>3 DEF ReconcileUnknown, broker
<1>4. ASSUME NEW s \in ControlState, OperatorControl(p, s) \/ CloseControl(p, s)
      PROVE  UNCHANGED <<sends, fills>>
  BY <1>4 DEF OperatorControl, CloseControl, AppendControl, broker
<1>5. ASSUME NEW a \in Approval, Grant(p, a) \/ Revoke(p, a) PROVE UNCHANGED <<sends, fills>>
  BY <1>5 DEF Grant, Revoke, broker
<1>6. QED
  BY <1>1, <1>2, <1>3, <1>4, <1>5

\* Only the call of order_send counts as one.
LEMMA OnlySubmitSends ==
  ASSUME Next, NEW i \in Intent, sends'[i] # sends[i]
  PROVE  \E p \in Process : Submit(p)
<1>1. ASSUME NEW p \in Process,
             \/ Open(p) \/ Crash(p) \/ Recover(p) \/ BeginRefused(p)
             \/ \E j \in Intent, a \in Approval : Begin(p, j, a)
             \/ \E j \in Intent : ReconcileUnknown(p, j)
             \/ \E s \in ControlState : OperatorControl(p, s) \/ CloseControl(p, s)
             \/ \E a \in Approval : Grant(p, a) \/ Revoke(p, a)
      PROVE  UNCHANGED sends
  BY <1>1, BrokerOutsideCalls
<1>2. ASSUME NEW p \in Process, CallStep(p) PROVE UNCHANGED sends \/ Submit(p)
  BY <1>2, CallStepKinds DEF Save, broker
<1>3. ASSUME NEW j \in Intent, LateFill(j) \/ ClosePosition(j) PROVE UNCHANGED sends
  BY <1>3 DEF LateFill, ClosePosition
<1>4. QED
  BY <1>1, <1>2, <1>3 DEF Next

\* A row that no other exceeds is the one _load keeps.
LEMMA LatestIs ==
  ASSUME IInv, NEW i \in Intent, NEW row \in RowsOf(i),
         \A o \in RowsOf(i) : o.revision <= row.revision
  PROVE  Latest(i) = row
<1> DEFINE Top(r) == \A o \in RowsOf(i) : o.revision <= r.revision
<1>1. Latest(i) = CHOOSE r \in RowsOf(i) : Top(r)
  BY DEF Latest
<1>2. Top(row)
  OBVIOUS
<1>3. Latest(i) \in RowsOf(i) /\ Top(Latest(i))
  BY <1>1, <1>2
<1>4. Latest(i).revision = row.revision
  <2>1. \A o \in RowsOf(i) : o.revision \in Nat
    BY DEF RowsOf, IInv, TypeOK, Row
  <2>2. QED
    BY <1>2, <1>3, <2>1
<1>5. QED
  BY <1>3, <1>4, RowsAreHistory DEF History

\* With one process at a time order_send is called only while the record in the
\* file reads DISPATCHING, the operator's last word in the file is ENABLED and
\* an approval of the intent stands.
THEOREM SentUnderAuthority == Exclusive => (Spec => SendUnderAuthority)
<1> DEFINE Step == \A i \in Intent : sends'[i] # sends[i] =>
                      /\ Latest(i).state = "DISPATCHING"
                      /\ control = "ENABLED"
                      /\ \E a \in granted \ revoked : ApprovedIntent[a] = i
<1> SUFFICES ASSUME Exclusive PROVE Spec => [][Step]_vars
  BY DEF SendUnderAuthority
<1>1. IInv /\ ExclusiveInv /\ [Next]_vars => [Step]_vars
  <2> SUFFICES ASSUME IInv, ExclusiveInv, Next, NEW i \in Intent, sends'[i] # sends[i]
               PROVE  /\ Latest(i).state = "DISPATCHING"
                      /\ control = "ENABLED"
                      /\ \E a \in granted \ revoked : ApprovedIntent[a] = i
    OBVIOUS
  <2>1. PICK p \in Process : Submit(p)
    BY OnlySubmitSends
  <2>2. /\ call[p].pc = "send" /\ call[p].row.intent = i
        /\ call[p].row \in RowsOf(i) /\ call[p].row.state = "DISPATCHING"
    BY <2>1 DEF Submit, IInv, TypeOK, CallShapes, CallShape, RowsOf, broker
  <2>3. Authority(p)
    BY <2>2, LoneFacts
  <2>4. Latest(i) = call[p].row
    BY <2>2, <2>3, LatestIs DEF IInv, Authority
  <2>5. QED
    BY <2>2, <2>3, <2>4 DEF Authority, Authorised
<1>2. QED
  BY <1>1, ExclusiveInvariance, PTL DEF Spec

\* With one process at a time, and no command while an order is on its way, a
\* call that ends after an uncertain result has left HALTED as the last word
\* of the file.
THEOREM HaltReachesFile == Exclusive => (Spec => HaltIsDurable)
<1> DEFINE Step == \A p \in Process :
                      call[p].pc = "halt" /\ call'[p].pc = "returned" => control' = "HALTED"
<1> SUFFICES ASSUME Exclusive PROVE Spec => [][Step]_vars
  BY DEF HaltIsDurable
<1>1. IInv /\ ExclusiveInv /\ [Next]_vars => [Step]_vars
  <2> SUFFICES ASSUME IInv, ExclusiveInv, Next, NEW p \in Process,
                      call[p].pc = "halt", call'[p].pc = "returned"
               PROVE  control' = "HALTED"
    OBVIOUS
  <2>1. Knows(p) /\ late = {}
    BY LoneFacts
  <2>2. \A q \in Process : q # p => call[q].pc = "down"
    BY DEF ExclusiveInv, Alone
  <2>3. Halt(p)
    <3>1. PICK q \in Process :
            \/ Open(q) \/ Crash(q) \/ Recover(q) \/ BeginRefused(q) \/ CallStep(q)
            \/ \E i \in Intent : ReconcileUnknown(q, i)
            \/ \E i \in Intent, a \in Approval : Begin(q, i, a)
            \/ \E s \in ControlState : OperatorControl(q, s) \/ CloseControl(q, s)
            \/ \E a \in Approval : Grant(q, a) \/ Revoke(q, a)
      BY DEF Next, LateFill, ClosePosition
    <3>2. ~Open(q)
      BY DEF Open
    <3>3. q = p
      <4>1. Crash(q) \/ Recover(q) \/ BeginRefused(q) => call[q].pc # "down"
        BY DEF Crash, Recover, BeginRefused
      <4>2. CallStep(q) => call[q].pc # "down"
        BY DEF CallStep, ServiceStep, Capture, ClaimIntent, OrderCheck, ObserveFinal, Guard,
           PersistDispatching, Submit, Settle, Reconcile, Halt, Return
      <4>3. \A i \in Intent : ReconcileUnknown(q, i) => call[q].pc # "down"
        BY Zenon DEF ReconcileUnknown
      <4>4. \A i \in Intent, a \in Approval : Begin(q, i, a) => call[q].pc # "down"
        BY Zenon DEF Begin
      <4>5. \A s \in ControlState : OperatorControl(q, s) \/ CloseControl(q, s) => call[q].pc # "down"
        BY DEF OperatorControl, CloseControl, Reachable
      <4>6. \A a \in Approval : Grant(q, a) \/ Revoke(q, a) => call[q].pc # "down"
        BY DEF Grant, Revoke, Reachable
      <4>7. QED
        BY <2>2, <3>1, <3>2, <4>1, <4>2, <4>3, <4>4, <4>5, <4>6
    <3>4. ~Crash(p)
      BY IdleType DEF Crash, IInv, TypeOK
    <3>5. /\ ~Recover(p) /\ ~BeginRefused(p)
          /\ \A i \in Intent : ~ReconcileUnknown(p, i)
          /\ \A i \in Intent, a \in Approval : ~Begin(p, i, a)
      BY DEF Recover, BeginRefused, ReconcileUnknown, Begin
    <3>6. /\ \A s \in ControlState : ~OperatorControl(p, s) /\ ~CloseControl(p, s)
          /\ \A a \in Approval : ~Grant(p, a) /\ ~Revoke(p, a)
      BY DEF OperatorControl, CloseControl, Grant, Revoke, Reachable
    <3>7. CallStep(p)
      BY <3>1, <3>2, <3>3, <3>4, <3>5, <3>6
    <3>8. QED
      BY <3>7 DEF CallStep, ServiceStep, Capture, ClaimIntent, OrderCheck, ObserveFinal, Guard,
         PersistDispatching, Submit, Settle, Reconcile, Return
  <2>4. CASE mem[p].control = "HALTED" /\ Go(p, "returned")
    BY <2>1, <2>4 DEF Go, Knows, db
  <2>5. CASE AppendHalt(p)
    BY <2>1, <2>5 DEF AppendHalt
  <2>6. ~Raise(p)
    BY IdleType DEF Raise, IInv, TypeOK
  <2>7. QED
    BY <2>3, <2>4, <2>5, <2>6 DEF Halt
<1>2. QED
  BY <1>1, ExclusiveInvariance, PTL DEF Spec

\* A call that has looked at the positions of the account and found none: what
\* is open since then has no confirmed record.
Looked(p) ==
    call[p].pc \in {"dispatch", "send"} \/ (call[p].pc = "guard" /\ call[p].clear)

Unconfirmed == \A j \in open, r \in rows : r.intent = j => r.state # "CONFIRMED"

LookInv == \A p \in Process : Looked(p) => Unconfirmed

\* A step of the only process that runs keeps LookInv if it keeps what is true
\* of that process.
LEMMA LookAlone ==
  ASSUME ExclusiveInv, NEW p \in Process, call[p].pc # "down",
         \A q \in Process : q # p => call'[q] = call[q],
         Looked(p)' => Unconfirmed'
  PROVE  LookInv'
<1> SUFFICES ASSUME NEW q \in Process, Looked(q)' PROVE Unconfirmed'
  BY DEF LookInv
<1>1. CASE q = p
  BY <1>1
<1>2. CASE q # p
  <2>1. call'[q].pc = "down"
    BY <1>2 DEF ExclusiveInv, Alone
  <2>2. QED
    BY <2>1 DEF Looked
<1>3. QED
  BY <1>1, <1>2

\* The steps of a call: the look itself, the guard that relies on it, and the
\* saved DISPATCHING, which confirms nothing.
LEMMA LookCallStep ==
  ASSUME IInv, IInv', ExclusiveInv, LookInv, NEW p \in Process, CallStep(p)
  PROVE  LookInv'
<1>1. call \in [Process -> Call] /\ call[p] \in Call
  BY DEF IInv, TypeOK
<1>2. call[p].pc # "down"
  BY DEF CallStep, ServiceStep, Capture, ClaimIntent, OrderCheck, ObserveFinal, Guard,
         PersistDispatching, Submit, Settle, Reconcile, Halt, Return
<1>3. ASSUME \A q \in Process : q # p => call'[q] = call[q],
             call'[p].pc \notin {"guard", "dispatch", "send"}
      PROVE  LookInv'
  <2>1. ~ Looked(p)'
    BY <1>3 DEF Looked
  <2>2. QED
    BY <1>2, <1>3, <2>1, LookAlone
<1>4. Raise(p) => LookInv'
  BY <1>1, <1>3, IdleType DEF Raise
<1>5. ASSUME NEW pc \in PC, pc \notin {"guard", "dispatch", "send"}, Go(p, pc)
      PROVE  LookInv'
  BY <1>1, <1>3, <1>5 DEF Go, Call
<1>6. ASSUME NEW row, NEW pc \in PC, pc \notin {"guard", "dispatch", "send"},
             SaveOrRaise(p, row, pc)
      PROVE  LookInv'
  <2>1. CASE Save(p, row, pc)
    BY <1>1, <1>3, <1>6, <2>1 DEF Save, Call
  <2>2. QED
    BY <1>4, <1>6, <2>1 DEF SaveOrRaise
<1>7. RejectBeforeDispatch(p) => LookInv'
  BY <1>6 DEF RejectBeforeDispatch, PC
<1>8. CASE Capture(p)
  BY <1>4, <1>5, <1>8 DEF Capture, PC
<1>9. CASE ClaimIntent(p)
  <2>1. PICK row : Save(p, row, "check") \/ Raise(p)
    BY <1>9 DEF ClaimIntent
  <2>2. QED
    BY <1>6, <2>1 DEF SaveOrRaise, PC
<1>10. CASE OrderCheck(p)
  BY <1>5, <1>7, <1>10 DEF OrderCheck, PC
<1>11. CASE ObserveFinal(p)
  <2>1. CASE /\ call' = [call EXCEPT ![p].pc = "guard", ![p].clear = AccountClear(p)]
             /\ UNCHANGED <<db, mem, broker, used>>
    <3>1. /\ call'[p].pc = "guard" /\ call'[p].clear = AccountClear(p)
          /\ \A q \in Process : q # p => call'[q] = call[q]
          /\ open' = open
      BY <1>1, <2>1 DEF Call, broker
    <3>2. Looked(p)' => Unconfirmed'
      BY <3>1 DEF Looked, Unconfirmed, AccountClear
    <3>3. QED
      BY <1>2, <3>1, <3>2, LookAlone
  <2>2. QED
    BY <1>7, <1>11, <2>1 DEF ObserveFinal
<1>12. CASE Guard(p)
  <2>1. CASE GuardPasses(p) /\ Go(p, "dispatch")
    <3>1. Unconfirmed
      BY <1>12, <2>1 DEF Guard, GuardPasses, LookInv, Looked
    <3>2. /\ \A q \in Process : q # p => call'[q] = call[q]
          /\ UNCHANGED <<rows, open>>
      BY <1>1, <2>1 DEF Go, db, broker
    <3>3. QED
      BY <1>2, <3>1, <3>2, LookAlone DEF Unconfirmed
  <2>2. QED
    BY <1>7, <1>12, <2>1 DEF Guard
<1>13. CASE PersistDispatching(p)
  <2> DEFINE row == Advance(p, "DISPATCHING", "none")
  <2>1. CASE Save(p, row, "send")
    <3>1. Unconfirmed
      BY <1>13 DEF PersistDispatching, LookInv, Looked
    <3>2. row.state # "CONFIRMED"
      BY <1>1 DEF Advance, Call, Row
    <3> HIDE DEF row
    <3>3. /\ \A q \in Process : q # p => call'[q] = call[q]
          /\ open' = open /\ rows' = rows \cup {row}
      BY <1>1, <2>1 DEF Save, broker
    <3>4. Unconfirmed'
      BY <3>1, <3>2, <3>3 DEF Unconfirmed
    <3>5. QED
      BY <1>2, <3>3, <3>4, LookAlone
  <2>2. QED
    BY <1>4, <1>13, <2>1 DEF PersistDispatching, SaveOrRaise
<1>14. CASE Submit(p)
  <2>1. PICK receipt : call' = [call EXCEPT ![p].pc = "settle", ![p].receipt = receipt]
    BY <1>14 DEF Submit
  <2>2. QED
    BY <1>1, <1>3, <2>1 DEF Call
<1>15. CASE Settle(p)
  <2>1. CASE call[p].receipt = "REJECTED"
    BY <1>6, <1>15, <2>1 DEF Settle, PC
  <2>2. CASE call[p].receipt = "UNKNOWN"
    BY <1>6, <1>15, <2>2 DEF Settle, PC
  <2>3. CASE call[p].receipt \notin {"REJECTED", "UNKNOWN"}
    BY <1>6, <1>15, <2>3 DEF Settle, PC
  <2>4. QED
    BY <2>1, <2>2, <2>3
<1>16. CASE Reconcile(p)
  BY <1>5, <1>6, <1>16 DEF Reconcile, PC
<1>17. CASE Halt(p)
  <2>1. CASE call' = [call EXCEPT ![p].pc = "returned"]
    BY <1>1, <1>3, <2>1 DEF Call
  <2>2. QED
    BY <1>4, <1>5, <1>17, <2>1 DEF Halt, PC
<1>18. CASE Return(p)
  BY <1>1, <1>3, <1>18, IdleType DEF Return
<1>19. QED
  BY <1>8, <1>9, <1>10, <1>11, <1>12, <1>13, <1>14, <1>15, <1>16, <1>17, <1>18
     DEF CallStep, ServiceStep

\* Around a call: no step leads to the guard, and the records move only where
\* no call is.
LEMMA LookHandleStep ==
  ASSUME Exclusive, IInv, ExclusiveInv, LookInv, NEW p \in Process,
         \/ Open(p) \/ Crash(p) \/ Recover(p) \/ BeginRefused(p)
         \/ \E i \in Intent, a \in Approval : Begin(p, i, a)
         \/ \E i \in Intent : ReconcileUnknown(p, i)
         \/ \E s \in ControlState : OperatorControl(p, s) \/ CloseControl(p, s)
         \/ \E a \in Approval : Grant(p, a) \/ Revoke(p, a)
  PROVE  LookInv'
<1>1. call \in [Process -> Call] /\ call[p] \in Call
  BY DEF IInv, TypeOK
<1>2. ASSUME call[p].pc # "down", NEW c, call' = [call EXCEPT ![p] = c],
             c.pc \notin {"guard", "dispatch", "send"}
      PROVE  LookInv'
  <2>1. call'[p].pc = c.pc /\ \A q \in Process : q # p => call'[q] = call[q]
    BY <1>1, <1>2
  <2>2. ~ Looked(p)'
    BY <1>2, <2>1 DEF Looked
  <2>3. QED
    BY <1>2, <2>1, <2>2, LookAlone
<1>3. CASE Open(p)
  <2>1. \A q \in Process : call'[q].pc \in {"down", "idle"}
    BY <1>1, <1>3, IdleType DEF Open
  <2>2. QED
    BY <2>1 DEF LookInv, Looked
<1>4. CASE Crash(p)
  BY <1>2, <1>4, IdleType DEF Crash
<1>5. CASE Recover(p)
  <2>1. call[p].pc = "idle" /\ call' = call
    BY <1>5 DEF Recover
  <2>2. ~ Looked(p)'
    BY <2>1 DEF Looked
  <2>3. QED
    BY <2>1, <2>2, LookAlone
<1>6. CASE BeginRefused(p)
  BY <1>2, <1>6, IdleType DEF BeginRefused, Raise
<1>7. ASSUME NEW i \in Intent, NEW a \in Approval, Begin(p, i, a) PROVE LookInv'
  <2> DEFINE c == [Idle EXCEPT !.pc = "capture", !.row = Absent(i), !.approval = a]
  <2>1. c.pc = "capture"
    BY IdleType DEF Call
  <2>2. call[p].pc = "idle" /\ call' = [call EXCEPT ![p] = c]
    BY <1>7, Zenon DEF Begin
  <2> HIDE DEF c
  <2>3. QED
    BY <1>2, <2>1, <2>2
<1>8. ASSUME NEW i \in Intent, ReconcileUnknown(p, i) PROVE LookInv'
  <2> DEFINE row == mem[p].rec[i]
  <2>1. /\ call[p].pc = "idle"
        /\ call' = [call EXCEPT ![p].pc = "reconcile", ![p].row = row]
    BY <1>8, Zenon DEF ReconcileUnknown
  <2> HIDE DEF row
  <2>2. call'[p].pc = "reconcile" /\ \A q \in Process : q # p => call'[q] = call[q]
    BY <1>1, <2>1 DEF Call
  <2>3. ~ Looked(p)'
    BY <2>2 DEF Looked
  <2>4. QED
    BY <2>1, <2>2, <2>3, LookAlone
<1>9. ASSUME UNCHANGED <<call, rows, open>> PROVE LookInv'
  BY <1>9 DEF LookInv, Looked, Unconfirmed
<1>10. ASSUME NEW s \in ControlState, OperatorControl(p, s) \/ CloseControl(p, s)
       PROVE  LookInv'
  BY <1>9, <1>10 DEF OperatorControl, CloseControl, AppendControl, broker
<1>11. ASSUME NEW a \in Approval, Grant(p, a) \/ Revoke(p, a) PROVE LookInv'
  BY <1>9, <1>11 DEF Grant, Revoke, broker
<1>12. QED
  BY <1>3, <1>4, <1>5, <1>6, <1>7, <1>8, <1>10, <1>11

\* The broker executes only what was pending, and that has no confirmed record.
LEMMA LookBrokerStep ==
  ASSUME IInv, LookInv, NEW i \in Intent, LateFill(i) \/ ClosePosition(i)
  PROVE  LookInv'
<1>1. UNCHANGED <<call, rows>>
  BY DEF LateFill, ClosePosition, db
<1>2. CASE LateFill(i)
  <2>1. fills[i] = "pending" /\ open' \subseteq open \cup {i}
    BY <1>2 DEF LateFill
  <2>2. \A r \in rows : r.intent = i => r.state # "CONFIRMED"
    BY <2>1 DEF IInv, ConfirmedMeansFilled
  <2>3. QED
    BY <1>1, <2>1, <2>2 DEF LookInv, Looked, Unconfirmed
<1>3. CASE ClosePosition(i)
  BY <1>1, <1>3 DEF ClosePosition, LookInv, Looked, Unconfirmed
<1>4. QED
  BY <1>2, <1>3

\* With one process at a time an order goes out beside no position whose record
\* is confirmed, though a broker may fill an older order between the last look
\* at the positions and the send.
THEOREM NoOrderIsAdded == Exclusive => (Spec => NoOrderBesideConfirmed)
<1> DEFINE Step == \A i \in Intent : sends'[i] # sends[i] =>
                      \A j \in open : ~HasState(j, "CONFIRMED")
<1> SUFFICES ASSUME Exclusive PROVE Spec => [][Step]_vars
  BY DEF NoOrderBesideConfirmed
<1>1. Init => LookInv
  <2>1. Init => \A p \in Process : call[p].pc = "down"
    BY IdleType DEF Init
  <2>2. QED
    BY <2>1 DEF LookInv, Looked
<1>2. IInv /\ IInv' /\ ExclusiveInv /\ LookInv /\ [Next]_vars => LookInv'
  <2> SUFFICES ASSUME IInv, IInv', ExclusiveInv, LookInv, [Next]_vars PROVE LookInv'
    OBVIOUS
  <2>1. UNCHANGED vars => LookInv'
    BY DEF vars, LookInv, Looked, Unconfirmed
  <2>2. QED
    BY <2>1, LookCallStep, LookHandleStep, LookBrokerStep DEF Next
<1>3. IInv /\ LookInv /\ [Next]_vars => [Step]_vars
  <2> SUFFICES ASSUME IInv, LookInv, Next, NEW i \in Intent, sends'[i] # sends[i]
               PROVE  \A j \in open : ~HasState(j, "CONFIRMED")
    OBVIOUS
  <2>1. PICK p \in Process : Submit(p)
    BY OnlySubmitSends
  <2>2. Unconfirmed
    BY <2>1 DEF Submit, LookInv, Looked
  <2>3. QED
    BY <2>2 DEF Unconfirmed, HasState, RowsOf
<1>4. QED
  BY <1>1, <1>2, <1>3, ExclusiveInvariance, PTL DEF Spec

-----------------------------------------------------------------------------
(* The acceptance command.                                                 *)

\* Where a run stands: what it has consumed, and what the service told it.
RunShape(p) ==
    /\ run[p].pc \notin {"none", "failed"} => run[p].gen \in Generation /\ run[p].intent \in Intent
    /\ run[p].pc \in {"execute", "service", "seal", "close"} => run[p].gen \in file.consumed
    /\ run[p].pc \in {"seal", "close"} => call[p].pc = "returned"

RunShapes == \A p \in Process : RunShape(p)

\* What the records say of a saved result.
ResultKnown(r) ==
    /\ r.gen \in file.consumed
    /\ r.status = "ACCEPTED" => \E o \in rows : o.intent = r.intent /\ o.state = "CONFIRMED"
    /\ r.status = "REJECTED" => \E o \in rows : o.intent = r.intent /\ o.state = "REJECTED"
    /\ r.status = "UNKNOWN" =>
          \E o \in rows : /\ o.intent = r.intent
                         /\ o.state \in {"UNKNOWN", "RECONCILIATION_FAILED"}

ResultsKnown == \A r \in file.results : ResultKnown(r)

RInv == IInv /\ RTypeOK /\ RunShapes /\ ResultsKnown

\* Every step of the command is a step of the service or leaves it alone.
LEMMA CommandStep == RunShapes /\ [RNext]_allvars => [Next]_vars
<1> SUFFICES ASSUME RunShapes, [RNext]_allvars PROVE [Next]_vars
  OBVIOUS
<1>1. CASE UNCHANGED allvars
  BY <1>1 DEF allvars
<1>2. ASSUME NEW p \in Process, OpenAll(p) \/ CrashAll(p) PROVE [Next]_vars
  BY <1>2 DEF OpenAll, CrashAll, Next
<1>3. ASSUME NEW p \in Process, NEW g \in Generation, NEW i \in Intent,
             ReadinessOnly(p, g, i) \/ StartRun(p, g, i)
      PROVE  [Next]_vars
  BY <1>3 DEF ReadinessOnly, StartRun
<1>4. ASSUME NEW p \in Process, Consume(p) \/ Answered(p) \/ Seal(p) \/ CloseFails(p)
      PROVE  [Next]_vars
  BY <1>4 DEF Consume, Answered, Seal, CloseFails
<1>5. ASSUME NEW p \in Process, Execute(p) PROVE [Next]_vars
  <2>1. run[p].intent \in Intent
    BY <1>5 DEF Execute, RunShapes, RunShape
  <2>2. QED
    BY <1>5, <2>1 DEF Execute, Next
<1>6. ASSUME NEW p \in Process, ServiceRuns(p) PROVE [Next]_vars
  BY <1>6 DEF ServiceRuns, Next, CallStep
<1>7. ASSUME NEW p \in Process, Close(p) \/ Fail(p) PROVE [Next]_vars
  BY <1>7 DEF Close, Fail, Next, ControlState
<1>8. ASSUME NEW p \in Process, Leave(p) PROVE [Next]_vars
  BY <1>8 DEF Leave, Next, CallStep
<1>9. ASSUME NEW p \in Process, Operator(p) PROVE [Next]_vars
  BY <1>9 DEF Operator, Next
<1>10. CASE Broker
  BY <1>10 DEF Broker, Next
<1>11. QED
  BY <1>1, <1>2, <1>3, <1>4, <1>5, <1>6, <1>7, <1>8, <1>9, <1>10 DEF RNext

\* Rows are written and never taken back.
LEMMA RowsGrow == [Next]_vars => rows \subseteq rows'
<1> SUFFICES ASSUME [Next]_vars PROVE rows \subseteq rows'
  OBVIOUS
<1>1. \A p \in Process : \A row, pc : SaveOrRaise(p, row, pc) => rows \subseteq rows'
  BY DEF SaveOrRaise, Save, Raise, db
<1>2. ASSUME NEW p \in Process, CallStep(p) PROVE rows \subseteq rows'
  <2>1. CASE ClaimIntent(p)
    BY <2>1 DEF ClaimIntent, Save, Raise, db
  <2>2. CASE Capture(p) \/ OrderCheck(p) \/ ObserveFinal(p) \/ Guard(p) \/ PersistDispatching(p)
    BY <1>1, <2>2 DEF Capture, OrderCheck, ObserveFinal, Guard, PersistDispatching,
                      RejectBeforeDispatch, Go, Raise, db
  <2>3. CASE Submit(p) \/ Return(p)
    BY <2>3 DEF Submit, Return, db
  <2>4. CASE Settle(p)
    BY <1>1, <2>4 DEF Settle
  <2>5. CASE Reconcile(p)
    BY <1>1, <2>5 DEF Reconcile, Go, db
  <2>6. CASE Halt(p)
    BY <2>6 DEF Halt, Go, Raise, AppendHalt, db
  <2>7. QED
    BY <1>2, <2>1, <2>2, <2>3, <2>4, <2>5, <2>6 DEF CallStep, ServiceStep
<1>3. ASSUME NEW p \in Process,
             \/ Open(p) \/ Crash(p) \/ Recover(p) \/ BeginRefused(p)
             \/ \E i \in Intent : ReconcileUnknown(p, i)
             \/ \E i \in Intent, a \in Approval : Begin(p, i, a)
             \/ \E s \in ControlState : OperatorControl(p, s) \/ CloseControl(p, s)
             \/ \E a \in Approval : Grant(p, a) \/ Revoke(p, a)
      PROVE  rows \subseteq rows'
  BY <1>3 DEF Open, Crash, Recover, BeginRefused, Raise, ReconcileUnknown, Begin,
              OperatorControl, CloseControl, AppendControl, Grant, Revoke, db
<1>4. ASSUME NEW i \in Intent, LateFill(i) \/ ClosePosition(i) PROVE rows \subseteq rows'
  BY <1>4 DEF LateFill, ClosePosition, db
<1>5. QED
  BY <1>2, <1>3, <1>4 DEF Next, vars

\* A step that leaves the runs of the others alone, forgets no consumption,
\* and adds only results the records bear out.
LEMMA RunStep ==
  ASSUME RInv, [Next]_vars, NEW p \in Process, RTypeOK',
         file.consumed \subseteq file'.consumed,
         \A q \in Process : q # p => run'[q] = run[q] /\ call'[q] = call[q],
         RunShape(p)',
         \A r \in file'.results : r \in file.results \/ ResultKnown(r)'
  PROVE  RInv'
<1>1. IInv'
  BY NextIInv DEF RInv
<1>2. RunShapes'
  <2> SUFFICES ASSUME NEW q \in Process, q # p PROVE RunShape(q)'
    BY DEF RunShapes
  <2>1. QED
    BY DEF RInv, RunShapes, RunShape
<1>3. ResultsKnown'
  <2> SUFFICES ASSUME NEW r \in file'.results, r \in file.results PROVE ResultKnown(r)'
    BY DEF ResultsKnown
  <2>1. rows \subseteq rows'
    BY RowsGrow
  <2>2. QED
    BY <2>1 DEF RInv, ResultsKnown, ResultKnown
<1>4. QED
  BY <1>1, <1>2, <1>3 DEF RInv

\* The steps of a service call are steps of one process.
LEMMA OneCallMoves ==
  ASSUME NEW p \in Process, NEW q \in Process, q # p, TypeOK,
         \/ ServiceStep(p) \/ Open(p) \/ Crash(p) \/ Return(p) \/ BeginRefused(p)
         \/ \E i \in Intent, a \in Approval : Begin(p, i, a)
         \/ \E s \in ControlState : OperatorControl(p, s) \/ CloseControl(p, s)
         \/ \E a \in Approval : Grant(p, a) \/ Revoke(p, a)
  PROVE  call'[q] = call[q]
<1>1. \A row, pc : SaveOrRaise(p, row, pc) => call'[q] = call[q]
  BY DEF SaveOrRaise, Save, Raise, TypeOK
<1>2. \A pc : Go(p, pc) => call'[q] = call[q]
  BY DEF Go, TypeOK
<1>3. Raise(p) => call'[q] = call[q]
  BY DEF Raise, TypeOK
<1>4. CASE ServiceStep(p)
  <2>1. CASE ClaimIntent(p)
    BY <1>3, <2>1 DEF ClaimIntent, Save, TypeOK
  <2>2. CASE Capture(p) \/ OrderCheck(p) \/ Guard(p) \/ PersistDispatching(p)
    BY <1>1, <1>2, <1>3, <2>2 DEF Capture, OrderCheck, Guard, PersistDispatching,
                                  RejectBeforeDispatch
  <2>3. CASE ObserveFinal(p) \/ Submit(p)
    BY <1>1, <2>3 DEF ObserveFinal, Submit, RejectBeforeDispatch, TypeOK
  <2>4. CASE Settle(p)
    BY <1>1, <2>4 DEF Settle
  <2>5. CASE Reconcile(p)
    BY <1>1, <1>2, <2>5 DEF Reconcile
  <2>6. CASE Halt(p)
    BY <1>2, <1>3, <2>6 DEF Halt, TypeOK
  <2>7. QED
    BY <1>4, <2>1, <2>2, <2>3, <2>4, <2>5, <2>6 DEF ServiceStep
<1>5. CASE BeginRefused(p)
  BY <1>3, <1>5 DEF BeginRefused
<1>6. QED
  BY <1>4, <1>5 DEF Open, Crash, Return, Begin, OperatorControl, CloseControl, Grant, Revoke, TypeOK

\* Naming an appended control event keeps the types.
LEMMA StampType ==
  ASSUME RTypeOK, NEW p \in Process, Stamp(p)
  PROVE  stamp' \in Nat /\ last' \in Nat /\ seen' \in [Process -> Nat]
  BY DEF RTypeOK, Stamp, events

LEMMA RInit1 == RInit => RInv
<1> SUFFICES ASSUME RInit PROVE RInv
  OBVIOUS
<1>1. IInv
  BY InitIInv DEF RInit
<1>2. EmptyRepository \in Repository /\ NoRun \in Run
  BY DEF EmptyRepository, Repository, NoRun, Run
<1>3. RTypeOK
  BY <1>2 DEF RInit, RTypeOK
<1>4. RunShapes /\ ResultsKnown
  BY DEF RInit, NoRun, EmptyRepository, RunShapes, RunShape, ResultsKnown
<1>5. QED
  BY <1>1, <1>3, <1>4 DEF RInv

\* Steps of the coordinator itself.
LEMMA CoordinatorStep ==
  ASSUME RInv, [Next]_vars, NEW p \in Process,
         \/ \E g \in Generation, i \in Intent : ReadinessOnly(p, g, i) \/ StartRun(p, g, i)
         \/ Consume(p) \/ Answered(p) \/ Seal(p) \/ CloseFails(p)
  PROVE  RInv'
<1>1. /\ file \in Repository /\ note \in [Process -> Repository] /\ note[p] \in Repository
      /\ run \in [Process -> Run] /\ run[p] \in Run /\ RunShape(p)
      /\ stamp \in Nat /\ last \in Nat /\ seen \in [Process -> Nat]
  BY DEF RInv, RTypeOK, RunShapes
<1>2. UNCHANGED vars /\ UNCHANGED <<stamp, last, seen>> /\ call' = call /\ rows' = rows
  BY DEF ReadinessOnly, StartRun, Consume, Answered, Seal, CloseFails, events, vars
<1>3. ASSUME NEW pc \in {"none", "seal", "failed", "execute", "close"}, Move(p, pc)
      PROVE  /\ run' \in [Process -> Run] /\ run'[p].pc = pc
             /\ run'[p].gen = run[p].gen /\ run'[p].intent = run[p].intent
             /\ \A q \in Process : q # p => run'[q] = run[q]
  <2> DEFINE c == [run[p] EXCEPT !.pc = pc]
  <2>1. c \in Run /\ c.pc = pc /\ c.gen = run[p].gen /\ c.intent = run[p].intent
    BY <1>1 DEF Run
  <2>2. run' = [run EXCEPT ![p] = c]
    BY <1>3 DEF Move
  <2> HIDE DEF c
  <2>3. QED
    BY <1>1, <2>1, <2>2
<1>4. ASSUME NEW g \in Generation, NEW i \in Intent, ReadinessOnly(p, g, i)
      PROVE  RInv'
  <2> DEFINE r == [gen |-> g, intent |-> i, event |-> seen[p]]
             f == [file EXCEPT !.ready = file.ready \cup {r}]
             n == [note[p] EXCEPT !.ready = note[p].ready \cup {r}]
  <2>1. r \in Readiness
    BY <1>1 DEF Readiness
  <2>2. f \in Repository /\ n \in Repository /\ f.consumed = file.consumed /\ f.results = file.results
    <3> HIDE DEF r
    <3>1. QED
      BY <1>1, <2>1 DEF Repository
  <2>3. file' = f /\ note' = [note EXCEPT ![p] = n] /\ run' = run
    BY <1>1, <1>4 DEF ReadinessOnly, Repository
  <2> HIDE DEF f, n
  <2>4. RTypeOK'
    BY <1>1, <1>2, <2>2, <2>3 DEF RTypeOK
  <2>5. RunShape(p)'
    BY <1>1, <1>2, <2>2, <2>3 DEF RunShape
  <2>6. QED
    BY <1>2, <2>2, <2>3, <2>4, <2>5, RunStep
<1>5. ASSUME NEW g \in Generation, NEW i \in Intent, StartRun(p, g, i)
      PROVE  RInv'
  <2> DEFINE c == [pc |-> "consume", gen |-> g, intent |-> i, event |-> seen[p]]
  <2>1. c \in Run
    BY <1>1 DEF Run
  <2>2. run' = [run EXCEPT ![p] = c] /\ UNCHANGED <<file, note>>
    BY <1>5 DEF StartRun
  <2>3. RTypeOK'
    BY <1>1, <1>2, <2>1, <2>2 DEF RTypeOK
  <2>4. run'[p] = c
    BY <1>1, <2>2
  <2>5. RunShape(p)'
    BY <2>4 DEF RunShape
  <2>6. QED
    BY <1>1, <1>2, <2>2, <2>3, <2>5, RunStep
<1>6. CASE Consume(p)
  <2>1. CASE run' = [run EXCEPT ![p] = NoRun] /\ UNCHANGED <<file, note>>
    <3>1. NoRun \in Run /\ NoRun.pc = "none"
      BY DEF NoRun, Run
    <3>2. RTypeOK'
      BY <1>1, <1>2, <2>1, <3>1 DEF RTypeOK
    <3>3. RunShape(p)'
      BY <1>1, <2>1, <3>1 DEF RunShape
    <3>4. QED
      BY <1>1, <1>2, <2>1, <3>2, <3>3, RunStep
  <2>2. CASE /\ note' = [note EXCEPT ![p].consumed = @ \cup {run[p].gen}]
             /\ file' = [file EXCEPT !.consumed = @ \cup {run[p].gen}]
             /\ Move(p, "execute")
    <3> DEFINE f == [file EXCEPT !.consumed = file.consumed \cup {run[p].gen}]
               n == [note[p] EXCEPT !.consumed = note[p].consumed \cup {run[p].gen}]
    <3>1. run[p].gen \in Generation /\ run[p].intent \in Intent
      BY <1>1, <1>6 DEF Consume, RunShape
    <3>2. /\ f \in Repository /\ n \in Repository /\ f.results = file.results
          /\ f.consumed = file.consumed \cup {run[p].gen}
      BY <1>1, <3>1 DEF Repository
    <3>3. file' = f /\ note' = [note EXCEPT ![p] = n]
      BY <1>1, <2>2 DEF Repository
    <3> HIDE DEF f, n
    <3>4. RTypeOK'
      BY <1>1, <1>2, <1>3, <2>2, <3>2, <3>3 DEF RTypeOK
    <3>5. RunShape(p)'
      BY <1>3, <2>2, <3>1, <3>2, <3>3 DEF RunShape
    <3>6. QED
      BY <1>2, <1>3, <2>2, <3>2, <3>3, <3>4, <3>5, RunStep
  <2>3. QED
    BY <1>6, <2>1, <2>2 DEF Consume
<1>7. CASE Answered(p)
  <2>1. UNCHANGED <<file, note>>
    BY <1>7 DEF Answered
  <2>2. RTypeOK'
    BY <1>1, <1>2, <1>3, <1>7, <2>1 DEF RTypeOK, Answered
  <2>3. RunShape(p)'
    BY <1>1, <1>2, <1>3, <1>7, <2>1 DEF RunShape, Answered
  <2>4. QED
    BY <1>2, <1>3, <1>7, <2>1, <2>2, <2>3, RunStep DEF Answered
<1>8. CASE Seal(p)
  <2> DEFINE row == call[p].row
             r == [gen |-> run[p].gen, intent |-> row.intent, status |-> AcceptanceStatus(row.state)]
             f == [file EXCEPT !.results = file.results \cup {r}]
             n == [note[p] EXCEPT !.results = note[p].results \cup {r}]
  <2>1. /\ run[p].gen \in Generation /\ run[p].intent \in Intent
        /\ run[p].gen \in file.consumed /\ call[p].pc = "returned" /\ run[p].pc = "seal"
    BY <1>1, <1>8 DEF Seal, RunShape
  <2>2. CASE Move(p, "failed") /\ UNCHANGED <<file, note>>
    <3>1. RTypeOK'
      BY <1>1, <1>2, <1>3, <2>2 DEF RTypeOK
    <3>2. RunShape(p)'
      BY <1>3, <2>2 DEF RunShape
    <3>3. QED
      BY <1>2, <1>3, <2>2, <3>1, <3>2, RunStep
  <2>3. CASE /\ file' = [file EXCEPT !.results = @ \cup {r}]
             /\ note' = [note EXCEPT ![p].results = @ \cup {r}]
             /\ Move(p, "close")
    <3>1. /\ row \in rows /\ row \in Row /\ row.state \notin Unsettled /\ Shape(row)
      BY <2>1 DEF RInv, IInv, TypeOK, Shapes, CallShapes, CallShape
    <3>2. row.intent \in Intent
          /\ row.state \in {"CONFIRMED", "REJECTED", "UNKNOWN", "RECONCILIATION_FAILED"}
      BY <3>1 DEF Row, Shape, Unsettled
    <3>3. r \in Result /\ ResultKnown(r)
      BY <2>1, <3>1, <3>2 DEF Result, Status, AcceptanceStatus, ResultKnown
    <3> HIDE DEF r
    <3>4. PICK new : new = r
      OBVIOUS
    <3>5. /\ f \in Repository /\ n \in Repository /\ f.consumed = file.consumed
          /\ f.results = file.results \cup {r}
      BY <1>1, <3>3 DEF Repository
    <3>6. file' = f /\ note' = [note EXCEPT ![p] = n]
      BY <1>1, <2>3 DEF Repository
    <3> HIDE DEF f, n
    <3>7. RTypeOK'
      BY <1>1, <1>2, <1>3, <2>3, <3>5, <3>6 DEF RTypeOK
    <3>8. RunShape(p)'
      BY <1>2, <1>3, <2>1, <2>3, <3>5, <3>6 DEF RunShape
    <3>9. ResultKnown(new)'
      BY <1>2, <3>3, <3>5, <3>6, <3>4 DEF ResultKnown
    <3>10. QED
      BY <1>2, <1>3, <2>3, <3>5, <3>6, <3>7, <3>8, <3>9, <3>4, RunStep
  <2>4. QED
    BY <1>8, <2>2, <2>3 DEF Seal
<1>9. CASE CloseFails(p)
  <2>1. UNCHANGED <<file, note>>
    BY <1>9 DEF CloseFails
  <2>2. RTypeOK'
    BY <1>1, <1>2, <1>3, <1>9, <2>1 DEF RTypeOK, CloseFails
  <2>3. RunShape(p)'
    BY <1>3, <1>9 DEF RunShape, CloseFails
  <2>4. QED
    BY <1>2, <1>3, <1>9, <2>1, <2>2, <2>3, RunStep DEF CloseFails
<1>10. QED
  BY <1>4, <1>5, <1>6, <1>7, <1>8, <1>9

\* Steps in which the coordinator and the service move together.
LEMMA JointStep ==
  ASSUME RInv, [Next]_vars, NEW p \in Process,
         \/ OpenAll(p) \/ CrashAll(p) \/ Execute(p) \/ ServiceRuns(p)
         \/ Close(p) \/ Fail(p) \/ Leave(p) \/ Operator(p)
  PROVE  RInv'
<1>1. /\ file \in Repository /\ note \in [Process -> Repository]
      /\ run \in [Process -> Run] /\ run[p] \in Run /\ RunShape(p)
      /\ stamp \in Nat /\ last \in Nat /\ seen \in [Process -> Nat] /\ TypeOK
  BY DEF RInv, IInv, RTypeOK, RunShapes
<1>2. EmptyRepository \in Repository /\ NoRun \in Run /\ NoRun.pc = "none"
  BY DEF EmptyRepository, Repository, NoRun, Run
<1>3. file' = file
  BY DEF OpenAll, CrashAll, Execute, ServiceRuns, Close, Fail, Leave, Operator, acceptance
<1>4. CASE OpenAll(p)
  <2>1. RTypeOK'
    BY <1>1, <1>3, <1>4 DEF RTypeOK, OpenAll
  <2>2. \A q \in Process : q # p => run'[q] = run[q] /\ call'[q] = call[q]
    BY <1>1, <1>4, OneCallMoves DEF OpenAll
  <2>3. RunShape(p)'
    BY <1>1, <1>3, <1>4 DEF RunShape, OpenAll, Open
  <2>4. QED
    BY <1>3, <2>1, <2>2, <2>3, RunStep
<1>5. CASE CrashAll(p)
  <2>1. RTypeOK'
    BY <1>1, <1>2, <1>3, <1>5 DEF RTypeOK, CrashAll, events
  <2>2. \A q \in Process : q # p => run'[q] = run[q] /\ call'[q] = call[q]
    BY <1>1, <1>5, OneCallMoves DEF CrashAll
  <2>3. RunShape(p)'
    BY <1>1, <1>2, <1>5 DEF RunShape, CrashAll
  <2>4. QED
    BY <1>3, <2>1, <2>2, <2>3, RunStep
<1>6. CASE Execute(p)
  <2> DEFINE c == [run[p] EXCEPT !.pc = "service"]
  <2>1. c \in Run /\ c.pc = "service" /\ c.gen = run[p].gen /\ c.intent = run[p].intent
    BY <1>1 DEF Run
  <2>2. run' = [run EXCEPT ![p] = c]
    BY <1>6 DEF Execute, Move
  <2> HIDE DEF c
  <2>3. RTypeOK'
    BY <1>1, <1>3, <1>6, <2>1, <2>2 DEF RTypeOK, Execute, events
  <2>4. run[p].intent \in Intent /\ run[p].gen \in Generation /\ run[p].gen \in file.consumed
    BY <1>1, <1>6 DEF Execute, RunShape
  <2>5. RunShape(p)'
    BY <1>1, <1>3, <2>1, <2>2, <2>4 DEF RunShape
  <2>6. \A q \in Process : q # p => run'[q] = run[q] /\ call'[q] = call[q]
    BY <1>1, <1>6, <2>2, <2>4, OneCallMoves DEF Execute
  <2>7. QED
    BY <1>3, <2>3, <2>5, <2>6, RunStep
<1>7. CASE ServiceRuns(p) \/ Operator(p)
  <2>1. run' = run /\ note' = note /\ Stamp(p)
    BY <1>7 DEF ServiceRuns, Operator, acceptance
  <2>2. RTypeOK'
    BY <1>1, <1>3, <2>1, StampType DEF RInv, RTypeOK
  <2>3. \A q \in Process : q # p => run'[q] = run[q] /\ call'[q] = call[q]
    BY <1>1, <1>7, <2>1, OneCallMoves DEF ServiceRuns, Operator
  <2>4. RunShape(p)'
    <3>1. CASE ServiceRuns(p)
      BY <1>1, <1>3, <2>1, <3>1 DEF RunShape, ServiceRuns
    <3>2. CASE Operator(p)
      <4>1. call' = call
        BY <3>2 DEF Operator, OperatorControl, Grant, Revoke
      <4>2. QED
        BY <1>1, <1>3, <2>1, <4>1 DEF RunShape
    <3>3. QED
      BY <1>7, <3>1, <3>2
  <2>5. QED
    BY <1>3, <2>2, <2>3, <2>4, RunStep
<1>8. CASE Close(p) \/ Fail(p)
  <2>1. run' = [run EXCEPT ![p] = NoRun] /\ note' = note
    BY <1>8 DEF Close, Fail
  <2>2. call' = call /\ (Stamp(p) \/ UNCHANGED <<stamp, last, seen>>)
    BY <1>8 DEF Close, Fail, CloseControl, vars, events
  <2>3. RTypeOK'
    BY <1>1, <1>2, <1>3, <2>1, <2>2, StampType DEF RInv, RTypeOK
  <2>4. RunShape(p)'
    BY <1>1, <1>2, <2>1 DEF RunShape
  <2>5. QED
    BY <1>1, <1>3, <2>1, <2>2, <2>3, <2>4, RunStep
<1>9. CASE Leave(p)
  <2>1. run' = [run EXCEPT ![p] = NoRun] /\ note' = note /\ UNCHANGED <<stamp, last, seen>>
    BY <1>9 DEF Leave, events
  <2>2. \A q \in Process : q # p => run'[q] = run[q] /\ call'[q] = call[q]
    BY <1>1, <1>9, <2>1, OneCallMoves DEF Leave
  <2>3. RTypeOK'
    BY <1>1, <1>2, <1>3, <2>1 DEF RTypeOK
  <2>4. RunShape(p)'
    BY <1>1, <1>2, <2>1 DEF RunShape
  <2>5. QED
    BY <1>3, <2>2, <2>3, <2>4, RunStep
<1>10. QED
  BY <1>4, <1>5, <1>6, <1>7, <1>8, <1>9

LEMMA RNextRInv == RInv /\ [RNext]_allvars => RInv'
<1> SUFFICES ASSUME RInv, [RNext]_allvars PROVE RInv'
  OBVIOUS
<1>1. [Next]_vars
  BY CommandStep DEF RInv
<1>2. ASSUME UNCHANGED <<call, file, note, run, stamp, last, seen>> PROVE RInv'
  <2>1. IInv'
    BY <1>1, NextIInv DEF RInv
  <2>2. rows \subseteq rows'
    BY <1>1, RowsGrow
  <2>3. RTypeOK' /\ RunShapes'
    BY <1>2 DEF RInv, RTypeOK, RunShapes, RunShape
  <2>4. ResultsKnown'
    BY <1>2, <2>2 DEF RInv, ResultsKnown, ResultKnown
  <2>5. QED
    BY <2>1, <2>3, <2>4 DEF RInv
<1>3. CASE UNCHANGED allvars
  BY <1>2, <1>3 DEF allvars, vars
<1>4. CASE Broker
  BY <1>2, <1>4 DEF Broker, LateFill, ClosePosition, acceptance, events
<1>5. QED
  BY <1>1, <1>3, <1>4, CoordinatorStep, JointStep DEF RNext

LEMMA RInvariance == RSpec => []RInv
<1>1. RInit => RInv
  BY RInit1
<1>2. RInv /\ [RNext]_allvars => RInv'
  BY RNextRInv
<1>3. QED
  BY <1>1, <1>2, PTL DEF RSpec

\* The variables of the acceptance command keep their types.
THEOREM CommandTypeCorrect == RSpec => []RTypeOK
<1>1. RInv => RTypeOK
  BY DEF RInv
<1>2. QED
  BY <1>1, RInvariance, PTL

\* The command implements the service: seen from the execution database and
\* the broker each of its behaviours is one that DemoExecution allows.
THEOREM CommandImplementsService == RSpec => Spec
<1>1. RInit => Init
  BY DEF RInit
<1>2. RInv /\ [RNext]_allvars => [Next]_vars
  BY CommandStep DEF RInv
<1>3. QED
  BY <1>1, <1>2, RInvariance, PTL DEF RSpec, Spec

\* Under the command too order_send is called once for a shadow decision.
THEOREM CommandSendsOnce == RSpec => []AtMostOneSend
  BY CommandImplementsService, OneSendPerDecision, PTL

\* A saved result says of its intent what the records and the broker say.
THEOREM ResultsAreTrue == RSpec => []ResultIsTrue
<1>1. IInv => ConfirmedMeansFilled /\ TypeOK
  BY DEF IInv
<1>2. RSpec => []RejectedMeansNoExposure
  BY CommandImplementsService, RejectionIsSafe, PTL
<1>3. RInv /\ RejectedMeansNoExposure => ResultIsTrue
  <2> SUFFICES ASSUME RInv, RejectedMeansNoExposure, NEW r \in file.results
               PROVE  /\ r.gen \in file.consumed
                      /\ r.status = "ACCEPTED" =>
                            HasState(r.intent, "CONFIRMED") /\ fills[r.intent] = "match"
                      /\ r.status = "REJECTED" =>
                            HasState(r.intent, "REJECTED") /\ NothingExecuted(r.intent)
                      /\ r.status = "UNKNOWN" =>
                            \/ HasState(r.intent, "UNKNOWN")
                            \/ HasState(r.intent, "RECONCILIATION_FAILED")
    BY DEF ResultIsTrue
  <2>1. ResultKnown(r)
    BY DEF RInv, ResultsKnown
  <2>2. QED
    BY <1>1, <2>1 DEF RInv, ResultKnown, HasState, RowsOf, ConfirmedMeansFilled,
                      RejectedMeansNoExposure
<1>4. QED
  BY <1>2, <1>3, RInvariance, PTL
-----------------------------------------------------------------------------
(* What a consumption is spent on.                                         *)

\* A process that has consumed its generation and has not sent with it.
Holds(p) ==
    \/ run[p].pc = "execute"
    \/ run[p].pc = "service" /\ call[p].pc \in Authorised

Sent == {i \in Intent : sends[i] > 0}

\* f names, for each intent that was sent, a consumed generation of its own
\* that no process holds any more.
Spent(f) ==
    /\ f \in [Sent -> Generation]
    /\ \A i \in Sent : /\ f[i] \in file.consumed
                       /\ \A p \in Process : Holds(p) => run[p].gen # f[i]
    /\ \A i, j \in Sent : f[i] = f[j] => i = j

SpendInv ==
    /\ \A p, q \in Process : Holds(p) /\ Holds(q) /\ run[p].gen = run[q].gen => p = q
    /\ \E f : Spent(f)
    /\ IsFiniteSet(file.consumed)

\* A service call is not authorised again once it is past the send.
LEMMA AuthorisedBefore ==
  ASSUME NEW p \in Process, TypeOK, ServiceStep(p), call'[p].pc \in Authorised
  PROVE  call[p].pc \in Authorised
<1> USE DEF Authorised
<1>1. \A pc : Go(p, pc) => call'[p].pc = pc
  BY DEF Go, TypeOK, Call
<1>2. ~Raise(p)
  BY IdleType DEF Raise, TypeOK
<1>3. \A row, pc : Save(p, row, pc) => call'[p].pc = pc
  BY DEF Save, TypeOK, Call
<1>4. \A row, pc : SaveOrRaise(p, row, pc) => call'[p].pc = pc
  BY <1>2, <1>3 DEF SaveOrRaise
<1>5. ~Settle(p)
  <2> SUFFICES ASSUME Settle(p) PROVE FALSE
    OBVIOUS
  <2>1. CASE call[p].receipt = "REJECTED"
    BY <1>4, <2>1 DEF Settle
  <2>2. CASE call[p].receipt = "UNKNOWN"
    BY <1>4, <2>2 DEF Settle
  <2>3. CASE call[p].receipt \notin {"REJECTED", "UNKNOWN"}
    BY <1>4, <2>3 DEF Settle
  <2>4. QED
    BY <2>1, <2>2, <2>3
<1>6. ~Reconcile(p)
  BY <1>1, <1>4 DEF Reconcile
<1>7. ~Halt(p)
  <2>1. CASE call' = [call EXCEPT ![p].pc = "returned"]
    BY <2>1 DEF TypeOK, Call
  <2>2. QED
    BY <1>1, <1>2, <2>1 DEF Halt
<1>8. QED
  BY <1>5, <1>6, <1>7 DEF ServiceStep, Capture, ClaimIntent, OrderCheck, ObserveFinal, Guard,
                          PersistDispatching, Submit

\* A step after which process p holds nothing that it did not hold before.
LEMMA SpendQuiet ==
  ASSUME SpendInv, NEW p \in Process,
         \A q \in Process : q # p => run'[q] = run[q] /\ call'[q] = call[q],
         Holds(p)' => Holds(p) /\ run'[p].gen = run[p].gen,
         file'.consumed = file.consumed, sends' = sends
  PROVE  SpendInv'
<1>1. \A q \in Process : Holds(q)' => Holds(q) /\ run'[q].gen = run[q].gen
  BY DEF Holds
<1>2. Sent' = Sent
  BY DEF Sent
<1>3. PICK f : Spent(f)
  BY DEF SpendInv
<1>4. Spent(f)'
  BY <1>1, <1>2, <1>3 DEF Spent
<1>5. \A q, r \in Process : Holds(q)' /\ Holds(r)' /\ run'[q].gen = run'[r].gen => q = r
  BY <1>1 DEF SpendInv
<1>6. QED
  BY <1>4, <1>5 DEF SpendInv

\* A consumption is of a generation nothing was spent on.
LEMMA SpendConsume ==
  ASSUME RInv, SpendInv, NEW p \in Process, Consume(p)
  PROVE  SpendInv'
<1>1. /\ run \in [Process -> Run] /\ run[p] \in Run /\ RunShape(p) /\ run[p].pc = "consume"
      /\ file \in Repository /\ sends' = sends /\ call' = call
  BY DEF RInv, RTypeOK, RunShapes, Consume, vars
<1>2. ~Holds(p)
  BY <1>1 DEF Holds
<1>3. CASE run' = [run EXCEPT ![p] = NoRun] /\ UNCHANGED file
  <2>1. \A q \in Process : q # p => run'[q] = run[q]
    BY <1>1, <1>3
  <2>2. ~Holds(p)'
    BY <1>1, <1>3 DEF Holds, NoRun
  <2>3. QED
    BY <1>1, <1>3, <2>1, <2>2, SpendQuiet
<1>4. CASE /\ run[p].gen \notin file.consumed
           /\ file' = [file EXCEPT !.consumed = @ \cup {run[p].gen}]
           /\ Move(p, "execute")
  <2>1. file'.consumed = file.consumed \cup {run[p].gen} /\ run[p].gen \in Generation
    BY <1>1, <1>4 DEF Repository, RunShape
  <2>2. /\ \A q \in Process : run'[q].gen = run[q].gen
        /\ \A q \in Process : q # p => run'[q] = run[q]
    BY <1>1, <1>4 DEF Move, Run
  <2>3. \A q \in Process : q # p /\ Holds(q)' => Holds(q) /\ run[q].gen # run[p].gen
    <3>1. \A q \in Process : Holds(q) => run[q].gen \in file.consumed
      BY DEF Holds, RInv, RunShapes, RunShape
    <3>2. QED
      BY <1>1, <1>4, <2>2, <3>1 DEF Holds
  <2>4. \A q, r \in Process : Holds(q)' /\ Holds(r)' /\ run'[q].gen = run'[r].gen => q = r
    BY <2>2, <2>3 DEF SpendInv
  <2>5. PICK f : Spent(f)
    BY DEF SpendInv
  <2>6. Sent' = Sent
    BY <1>1 DEF Sent
  <2>7. \A i \in Sent : f[i] \in file'.consumed /\ \A q \in Process : Holds(q)' => run'[q].gen # f[i]
    BY <1>4, <2>1, <2>2, <2>3, <2>5 DEF Spent
  <2>8. Spent(f)'
    BY <2>5, <2>6, <2>7 DEF Spent
  <2>9. IsFiniteSet(file'.consumed)
    BY <2>1, FS_AddElement DEF SpendInv
  <2>10. QED
    BY <2>4, <2>8, <2>9 DEF SpendInv
<1>5. QED
  BY <1>3, <1>4 DEF Consume

\* The one send of a service call spends what its process holds.
LEMMA SpendSubmit ==
  ASSUME RInv, SpendInv, NEW p \in Process, ServiceRuns(p), Submit(p)
  PROVE  SpendInv'
<1> DEFINE i == call[p].row.intent
           g == run[p].gen
<1>1. /\ TypeOK /\ IInv /\ run \in [Process -> Run] /\ run' = run /\ file' = file
      /\ run[p].pc = "service" /\ call[p].pc = "send" /\ RunShape(p)
  BY DEF RInv, IInv, RTypeOK, RunShapes, ServiceRuns, Submit, acceptance
<1>2. \A q \in Process : q # p => call'[q] = call[q]
  BY <1>1, OneCallMoves DEF ServiceStep
<1>3. call'[p].pc = "settle"
  BY <1>1 DEF Submit, TypeOK, Call
<1>4. Holds(p) /\ ~Holds(p)' /\ \A q \in Process : q # p => (Holds(q)' <=> Holds(q))
  BY <1>1, <1>2, <1>3 DEF Holds, Authorised
<1>5. i \in Intent /\ sends[i] = 0 /\ g \in file.consumed /\ g \in Generation
  BY <1>1 DEF IInv, TypeOK, Call, Row, CallShapes, CallShape, RunShape
<1>6. CASE sends' = sends
  BY <1>1, <1>2, <1>4, <1>6, SpendQuiet
<1>7. CASE sends' = [sends EXCEPT ![i] = @ + 1]
  <2>1. Sent' = Sent \cup {i} /\ i \notin Sent
    BY <1>1, <1>5, <1>7 DEF Sent, TypeOK
  <2>2. PICK f : Spent(f)
    BY DEF SpendInv
  <2>3. \A j \in Sent : f[j] # g /\ f[j] \in Generation
    BY <1>4, <2>2 DEF Spent
  <2>4. \A q \in Process : Holds(q)' => run[q].gen # g
    BY <1>4 DEF SpendInv
  <2> HIDE DEF i, g
  <2>5. PICK j : j = i
    OBVIOUS
  <2>6. PICK h : h = g
    OBVIOUS
  <2> DEFINE k == [s \in Sent \cup {j} |-> IF s = j THEN h ELSE f[s]]
  <2>7. PICK F : F = k
    OBVIOUS
  <2>8. /\ F \in [Sent \cup {j} -> Generation]
        /\ F[j] = h /\ \A s \in Sent : F[s] = f[s]
    BY <1>5, <2>1, <2>3, <2>5, <2>6, <2>7
  <2> HIDE DEF k
  <2>9. \A s \in Sent' : /\ F[s] \in file'.consumed
                         /\ \A q \in Process : Holds(q)' => run'[q].gen # F[s]
    BY <1>1, <1>4, <1>5, <2>1, <2>2, <2>4, <2>5, <2>6, <2>8 DEF Spent
  <2>10. \A s, t \in Sent' : F[s] = F[t] => s = t
    BY <2>1, <2>2, <2>3, <2>5, <2>6, <2>8 DEF Spent
  <2>11. Spent(F)'
    BY <2>1, <2>5, <2>8, <2>9, <2>10 DEF Spent
  <2>12. \A q, r \in Process : Holds(q)' /\ Holds(r)' /\ run'[q].gen = run'[r].gen => q = r
    BY <1>1, <1>4 DEF SpendInv
  <2>13. QED
    BY <1>1, <2>11, <2>12 DEF SpendInv
<1>8. QED
  BY <1>6, <1>7 DEF Submit, broker

LEMMA SpendStep == RInv /\ SpendInv /\ [RNext]_allvars => SpendInv'
<1> SUFFICES ASSUME RInv, SpendInv, [RNext]_allvars PROVE SpendInv'
  OBVIOUS
<1>1. TypeOK /\ IInv /\ run \in [Process -> Run]
  BY DEF RInv, IInv, RTypeOK
<1>2. UNCHANGED <<sends, call, run, file>> => SpendInv'
  BY DEF SpendInv, Spent, Sent, Holds
<1>3. CASE UNCHANGED allvars
  BY <1>2, <1>3 DEF allvars, vars
<1>4. CASE Broker
  BY <1>2, <1>4 DEF Broker, LateFill, ClosePosition, acceptance
<1>5. ASSUME NEW p \in Process, NEW pc, Move(p, pc)
      PROVE  run'[p].pc = pc /\ run'[p].gen = run[p].gen /\ \A q \in Process : q # p => run'[q] = run[q]
  BY <1>1, <1>5 DEF Move, Run
<1>6. ASSUME NEW p \in Process, run' = [run EXCEPT ![p] = NoRun]
      PROVE  ~Holds(p)' /\ \A q \in Process : q # p => run'[q] = run[q]
  BY <1>1, <1>6 DEF Holds, NoRun
<1>7. ASSUME NEW p \in Process, OpenAll(p) PROVE SpendInv'
  <2>1. run' = run /\ file' = file /\ sends' = sends /\ call'[p].pc = "idle"
    <3>1. run' = run /\ file' = file /\ sends' = sends /\ call' = [call EXCEPT ![p] = Idle]
      BY <1>7 DEF OpenAll, Open, broker
    <3>2. QED
      BY <1>1, <3>1, IdleType DEF TypeOK
  <2>2. \A q \in Process : q # p => call'[q] = call[q]
    BY <1>1, <1>7, OneCallMoves DEF OpenAll
  <2>3. Holds(p)' => Holds(p)
    BY <2>1 DEF Holds, Authorised
  <2>4. QED
    BY <2>1, <2>2, <2>3, SpendQuiet
<1>8. ASSUME NEW p \in Process, CrashAll(p) \/ Leave(p) PROVE SpendInv'
  <2>1. file' = file /\ sends' = sends
    BY <1>8 DEF CrashAll, Crash, Leave, Return, broker
  <2>2. \A q \in Process : q # p => call'[q] = call[q]
    BY <1>1, <1>8, OneCallMoves DEF CrashAll, Leave
  <2>3. QED
    BY <1>6, <1>8, <2>1, <2>2, SpendQuiet DEF CrashAll, Leave
<1>9. ASSUME NEW p \in Process, NEW g \in Generation, NEW i \in Intent, ReadinessOnly(p, g, i)
      PROVE  SpendInv'
  <2>1. file'.consumed = file.consumed /\ run' = run /\ call' = call /\ sends' = sends
    BY <1>9 DEF ReadinessOnly, vars, RInv, RTypeOK, Repository
  <2>2. QED
    BY <2>1, SpendQuiet DEF Holds
<1>10. ASSUME NEW p \in Process, NEW g \in Generation, NEW i \in Intent, StartRun(p, g, i)
       PROVE  SpendInv'
  <2> DEFINE c == [pc |-> "consume", gen |-> g, intent |-> i, event |-> seen[p]]
  <2>1. /\ run' = [run EXCEPT ![p] = c]
        /\ file' = file /\ call' = call /\ sends' = sends
    BY <1>10 DEF StartRun, vars
  <2>2. run'[p].pc = "consume" /\ \A q \in Process : q # p => run'[q] = run[q]
    BY <1>1, <2>1
  <2>3. QED
    BY <2>1, <2>2, SpendQuiet DEF Holds
<1>11. ASSUME NEW p \in Process, Execute(p) PROVE SpendInv'
  <2>1. /\ file' = file /\ sends' = sends /\ run[p].pc = "execute"
        /\ \A q \in Process : q # p => call'[q] = call[q]
    <3>1. run[p].intent \in Intent
      BY <1>11 DEF Execute, RInv, RunShapes, RunShape
    <3>2. sends' = sends
      BY <1>11, <3>1, BrokerOutsideCalls DEF Execute
    <3>3. \A q \in Process : q # p => call'[q] = call[q]
      BY <1>1, <1>11, <3>1, OneCallMoves DEF Execute
    <3>4. QED
      BY <1>11, <3>2, <3>3 DEF Execute
  <2>2. run'[p].gen = run[p].gen /\ \A q \in Process : q # p => run'[q] = run[q]
    BY <1>5, <1>11 DEF Execute
  <2>3. QED
    BY <2>1, <2>2, SpendQuiet DEF Holds
<1>12. ASSUME NEW p \in Process, ServiceRuns(p) PROVE SpendInv'
  <2>1. CASE Submit(p)
    BY <1>12, <2>1, SpendSubmit
  <2>2. CASE ~Submit(p)
    <3>1. sends' = sends
      BY <1>12, <2>2, CallStepKinds DEF ServiceRuns, CallStep, Save, broker
    <3>2. run' = run /\ file' = file /\ run[p].pc = "service"
      BY <1>12 DEF ServiceRuns, acceptance
    <3>3. \A q \in Process : q # p => call'[q] = call[q]
      BY <1>1, <1>12, OneCallMoves DEF ServiceRuns
    <3>4. Holds(p)' => Holds(p)
      BY <1>1, <1>12, <3>2, AuthorisedBefore DEF Holds, ServiceRuns
    <3>5. QED
      BY <3>1, <3>2, <3>3, <3>4, SpendQuiet
  <2>3. QED
    BY <2>1, <2>2
<1>13. ASSUME NEW p \in Process, Answered(p) \/ CloseFails(p) PROVE SpendInv'
  <2>1. file' = file /\ sends' = sends /\ call' = call
    BY <1>13 DEF Answered, CloseFails, vars
  <2>2. run'[p].pc \in {"seal", "failed", "none"} /\ \A q \in Process : q # p => run'[q] = run[q]
    BY <1>5, <1>13 DEF Answered, CloseFails
  <2>3. QED
    BY <2>1, <2>2, SpendQuiet DEF Holds
<1>14. ASSUME NEW p \in Process, Seal(p) PROVE SpendInv'
  <2>1. file'.consumed = file.consumed /\ sends' = sends /\ call' = call
    BY <1>14 DEF Seal, vars, RInv, RTypeOK, Repository
  <2>2. run'[p].pc \in {"close", "failed"} /\ \A q \in Process : q # p => run'[q] = run[q]
    BY <1>5, <1>14 DEF Seal
  <2>3. QED
    BY <2>1, <2>2, SpendQuiet DEF Holds
<1>15. ASSUME NEW p \in Process, Close(p) \/ Fail(p) PROVE SpendInv'
  <2>1. file' = file /\ sends' = sends /\ call' = call
    BY <1>15 DEF Close, Fail, CloseControl, AppendControl, vars, broker
  <2>2. QED
    BY <1>6, <1>15, <2>1, SpendQuiet DEF Close, Fail
<1>16. ASSUME NEW p \in Process, Operator(p) PROVE SpendInv'
  BY <1>2, <1>16 DEF Operator, OperatorControl, AppendControl, Grant, Revoke, acceptance, broker
<1>17. QED
  BY <1>3, <1>4, <1>7, <1>8, <1>9, <1>10, <1>11, <1>12, <1>13, <1>14, <1>15, <1>16,
     SpendConsume DEF RNext

\* A consumed readiness generation lets at most one order out, and no order
\* goes out without one, whatever processes run, crash and run again.
THEOREM ConsumptionSendsOnce == RSpec => []OneSendPerConsumption
<1>1. RInit => SpendInv
  <2> SUFFICES ASSUME RInit PROVE SpendInv
    OBVIOUS
  <2>1. Sent = {} /\ \A p \in Process : ~Holds(p)
    BY DEF RInit, Init, Sent, Holds, NoRun
  <2>2. Spent([i \in {} |-> i])
    BY <2>1 DEF Spent
  <2>3. file.consumed = {}
    BY DEF RInit, EmptyRepository
  <2>4. QED
    BY <2>1, <2>2, <2>3, FS_EmptySet DEF SpendInv
<1>2. RInv /\ SpendInv /\ [RNext]_allvars => SpendInv'
  BY SpendStep
<1>3. SpendInv => OneSendPerConsumption
  <2> SUFFICES ASSUME SpendInv PROVE Cardinality(Sent) <= Cardinality(file.consumed)
    BY DEF OneSendPerConsumption, Sent
  <2>1. PICK f : Spent(f)
    BY DEF SpendInv
  <2>2. f \in Injection(Sent, file.consumed)
    BY <2>1 DEF Spent, Injection, IsInjective
  <2>3. QED
    BY <2>2, FS_Injection DEF SpendInv
<1>4. QED
  BY <1>1, <1>2, <1>3, RInvariance, PTL DEF RSpec

-----------------------------------------------------------------------------
(* Which control event stands last.                                        *)

Pending(p) == run[p].pc # "none"

\* Stamps only grow.  While a run is pending, a control that is no longer
\* ENABLED was changed by a later event, and a halt that will be filed late is
\* late to one.
EventShape(p) ==
    /\ seen[p] <= stamp
    /\ call[p].pc = "down" => ~Pending(p)
    /\ Pending(p) => run[p].event <= stamp
    /\ Pending(p) /\ mem[p].control # "ENABLED" => run[p].event < last
    /\ Pending(p) /\ HaltStamped(call[p]) /\ p \in late => run[p].event < last
    /\ call[p].pc \in {"settle", "reconcile"} /\ ~HaltStamped(call[p]) => p \notin late

EventInv == last <= stamp /\ \A p \in Process : EventShape(p)

\* Where the events stand after a step: none is taken back.
Later ==
    /\ stamp' \in Nat /\ last' \in Nat
    /\ stamp <= stamp' /\ last <= last' /\ last' <= stamp'

\* What a stamp does to them: a new event stands last unless it is a late halt.
LEMMA StampMoves ==
  ASSUME RTypeOK, EventInv, NEW p \in Process, Stamp(p)
  PROVE  /\ Later
         /\ seen'[p] <= stamp'
         /\ \A q \in Process : q # p => seen'[q] = seen[q]
         /\ mem'[p].control # mem[p].control =>
               \/ last' = stamp + 1
               \/ p \in late /\ p \notin late' /\ call[p].pc = "halt"
<1>1. /\ stamp \in Nat /\ last \in Nat /\ seen \in [Process -> Nat]
      /\ last <= stamp /\ seen[p] <= stamp
  BY DEF RTypeOK, EventInv, EventShape
<1>2. CASE mem'[p].control = mem[p].control
  BY <1>1, <1>2 DEF Stamp, events, Later
<1>3. CASE mem'[p].control # mem[p].control
  BY <1>1, <1>3 DEF Stamp, Later
<1>4. QED
  BY <1>2, <1>3

\* The event of a command differs from the control before it, and every halt
\* that is on its way is late to it.
LEMMA CommandMoves ==
  ASSUME TypeOK, NEW p \in Process, NEW s, AppendControl(p, s)
  PROVE  /\ s # mem[p].control /\ mem'[p].control = s
         /\ \A q \in Process : q # p => mem'[q] = mem[q]
         /\ late' = {q \in Process : HaltStamped(call[q])}
<1>1. mem \in [Process -> Memory] /\ mem[p] \in Memory
  BY DEF TypeOK
<1>2. mem[p].control \in ControlState /\ s \in ControlNext(mem[p].control)
  BY <1>1 DEF AppendControl, Memory
<1>3. s # mem[p].control
  BY <1>2 DEF ControlState, ControlNext
<1>4. mem' = [mem EXCEPT ![p].control = s] /\ late' = {q \in Process : HaltStamped(call[q])}
  BY DEF AppendControl
<1>5. mem'[p].control = s /\ \A q \in Process : q # p => mem'[q] = mem[q]
  BY <1>1, <1>4 DEF Memory
<1>6. QED
  BY <1>3, <1>4, <1>5

\* The events stand as they must for all processes if they do for the one that
\* moved.
LEMMA EventStep ==
  ASSUME RTypeOK, EventInv, NEW p \in Process, Later,
         \A q \in Process : q # p => /\ run'[q] = run[q] /\ call'[q] = call[q]
                                     /\ mem'[q].control = mem[q].control
                                     /\ seen'[q] = seen[q],
         \A q \in Process : q # p /\ q \in late' =>
            q \in late \/ (last' = stamp + 1 /\ HaltStamped(call[q])),
         EventShape(p)'
  PROVE  EventInv'
<1>1. last' <= stamp'
  BY DEF Later
<1>2. ASSUME NEW q \in Process, q # p PROVE EventShape(q)'
  <2>1. /\ stamp \in Nat /\ last \in Nat /\ seen[q] \in Nat /\ run[q].event \in Nat
        /\ stamp' \in Nat /\ last' \in Nat /\ stamp <= stamp' /\ last <= last'
    BY DEF RTypeOK, Run, Later
  <2>2. EventShape(q)
    BY DEF EventInv
  <2>3. /\ run'[q] = run[q] /\ call'[q] = call[q]
        /\ mem'[q].control = mem[q].control /\ seen'[q] = seen[q]
    BY <1>2
  <2>4. HaltStamped(call[q])' = HaltStamped(call[q])
    BY <2>3 DEF HaltStamped
  <2>5. q \in late' => q \in late \/ (last' = stamp + 1 /\ HaltStamped(call[q]))
    BY <1>2
  <2>6. seen'[q] <= stamp' /\ (run[q].event <= stamp => run'[q].event <= stamp')
        /\ (run[q].event < last => run'[q].event < last')
        /\ (last' = stamp + 1 /\ run[q].event <= stamp => run'[q].event < last')
    BY <2>1, <2>2, <2>3 DEF EventShape
  <2>7. QED
    BY <2>2, <2>3, <2>4, <2>5, <2>6 DEF EventShape, Pending
<1>3. QED
  BY <1>1, <1>2 DEF EventInv

\* Nothing about the events of p depends on what these steps change.
LEMMA EventQuiet ==
  ASSUME RTypeOK, EventInv, NEW p \in Process,
         \A q \in Process : q # p => /\ run'[q] = run[q] /\ call'[q] = call[q]
                                     /\ mem'[q].control = mem[q].control,
         UNCHANGED <<stamp, last, late>>,
         \A q \in Process : q # p => seen'[q] = seen[q],
         EventShape(p)'
  PROVE  EventInv'
<1>1. Later
  BY DEF Later, RTypeOK, EventInv
<1>2. late' = late
  OBVIOUS
<1>3. QED
  BY <1>1, <1>2, EventStep

\* What the steps of a service call do to the control and to the late halts.
LEMMA ServiceControl ==
  ASSUME TypeOK, NEW p \in Process, ServiceStep(p)
  PROVE  /\ \A q \in Process : q # p => mem'[q].control = mem[q].control
         /\ late' \subseteq late
         /\ \/ mem'[p].control = mem[p].control
            \/ call[p].pc = "halt" /\ call'[p].pc = "returned"
         /\ call'[p].pc = "settle" => p \notin late'
         /\ call'[p].pc = "reconcile" => call[p].pc = "settle" /\ ~HaltStamped(call[p])
         /\ call'[p].pc = "halt" => HaltStamped(call[p]) \/ call[p].pc = "reconcile"
         /\ call'[p].pc # "down"
<1> DEFINE Same == /\ \A q \in Process : mem'[q].control = mem[q].control
                   /\ late' = late
<1>1. call \in [Process -> Call] /\ call[p] \in Call /\ mem \in [Process -> Memory]
  BY DEF TypeOK
<1>2. ASSUME NEW pc, Go(p, pc) PROVE Same /\ call'[p].pc = pc
  BY <1>1, <1>2 DEF Go, db, Call
<1>3. ASSUME Raise(p) PROVE Same /\ call'[p].pc = "raised"
  BY <1>1, <1>3, IdleType DEF Raise, db
<1>4. ASSUME NEW row, NEW pc, Save(p, row, pc) PROVE Same /\ call'[p].pc = pc
  <2>1. mem' = [mem EXCEPT ![p].rec[row.intent] = row] /\ late' = late
    BY <1>4 DEF Save
  <2>2. \A q \in Process : mem'[q].control = mem[q].control
    BY <1>1, <2>1 DEF Memory
  <2>3. call'[p].pc = pc
    BY <1>1, <1>4 DEF Save, Call
  <2>4. QED
    BY <2>1, <2>2, <2>3
<1>5. ASSUME NEW row, NEW pc, SaveOrRaise(p, row, pc)
      PROVE  Same /\ call'[p].pc \in {pc, "raised"}
  BY <1>3, <1>4, <1>5 DEF SaveOrRaise
<1>6. ASSUME RejectBeforeDispatch(p) PROVE Same /\ call'[p].pc \in {"returned", "raised"}
  BY <1>5, <1>6 DEF RejectBeforeDispatch
<1> HIDE DEF Same
<1>7. CASE Capture(p)
  BY <1>2, <1>3, <1>7 DEF Capture, Same
<1>8. CASE ClaimIntent(p)
  BY <1>3, <1>4, <1>8 DEF ClaimIntent, Same
<1>9. CASE OrderCheck(p) \/ Guard(p)
  BY <1>2, <1>6, <1>9 DEF OrderCheck, Guard, Same
<1>10. CASE ObserveFinal(p)
  <2>1. CASE RejectBeforeDispatch(p)
    BY <1>6, <2>1 DEF Same
  <2>2. CASE /\ call' = [call EXCEPT ![p].pc = "guard", ![p].clear = AccountClear(p)]
             /\ UNCHANGED <<db, mem, broker, used>>
    <3>1. call'[p].pc = "guard" /\ mem' = mem /\ late' = late
      BY <1>1, <2>2, Zenon DEF db, Call
    <3>2. QED
      BY <3>1
  <2>3. QED
    BY <1>10, <2>1, <2>2 DEF ObserveFinal
<1>11. CASE PersistDispatching(p)
  BY <1>5, <1>11 DEF PersistDispatching, Same
<1>12. CASE Submit(p)
  <2>1. mem' = mem /\ late' = late \ {p} /\ call'[p].pc = "settle"
    BY <1>1, <1>12 DEF Submit, Call
  <2>2. QED
    BY <2>1
<1>13. CASE Settle(p)
  <2>1. CASE call[p].receipt = "REJECTED"
    BY <1>5, <1>13, <2>1 DEF Settle, Same
  <2>2. CASE call[p].receipt = "UNKNOWN"
    BY <1>5, <1>13, <2>2 DEF Settle, Same, HaltStamped
  <2>3. CASE call[p].receipt \notin {"REJECTED", "UNKNOWN"}
    BY <1>5, <1>13, <2>3 DEF Settle, Same, HaltStamped
  <2>4. QED
    BY <2>1, <2>2, <2>3
<1>14. CASE Reconcile(p)
  BY <1>2, <1>5, <1>14 DEF Reconcile, Same
<1>15. CASE Halt(p)
  <2>1. CASE Go(p, "returned") \/ Raise(p)
    BY <1>2, <1>3, <2>1 DEF Same
  <2>2. CASE AppendHalt(p) /\ call' = [call EXCEPT ![p].pc = "returned"]
    <3>1. call'[p].pc = "returned" /\ call[p].pc = "halt"
      BY <1>1, <1>15, <2>2 DEF Halt, Call
    <3>2. mem' = [mem EXCEPT ![p].control = "HALTED"] /\ late' = late \ {p}
      BY <2>2 DEF AppendHalt
    <3>3. QED
      BY <1>1, <3>1, <3>2 DEF Memory
  <2>3. QED
    BY <1>15, <2>1, <2>2 DEF Halt
<1>16. QED
  BY <1>7, <1>8, <1>9, <1>10, <1>11, <1>12, <1>13, <1>14, <1>15 DEF ServiceStep

\* Steps in which the control is not touched.
LEMMA EventCoordinator ==
  ASSUME RInv, EventInv, NEW p \in Process,
         \/ OpenAll(p) \/ CrashAll(p)
         \/ \E g \in Generation, i \in Intent : ReadinessOnly(p, g, i) \/ StartRun(p, g, i)
         \/ Consume(p) \/ Execute(p) \/ Answered(p) \/ Seal(p) \/ CloseFails(p) \/ Leave(p)
  PROVE  EventInv'
<1>1. /\ RTypeOK /\ TypeOK /\ EventShape(p) /\ RunShape(p)
      /\ run \in [Process -> Run] /\ run[p] \in Run /\ call \in [Process -> Call]
      /\ mem \in [Process -> Memory] /\ seen \in [Process -> Nat]
      /\ stamp \in Nat /\ last \in Nat /\ last <= stamp
  BY DEF RInv, IInv, RTypeOK, TypeOK, EventInv, RunShapes
<1>2. ASSUME NEW pc, Move(p, pc)
      PROVE  /\ run'[p].pc = pc /\ run'[p].event = run[p].event
             /\ \A q \in Process : q # p => run'[q] = run[q]
  BY <1>1, <1>2 DEF Move, Run
<1>3. ASSUME run' = [run EXCEPT ![p] = NoRun]
      PROVE  run'[p].pc = "none" /\ \A q \in Process : q # p => run'[q] = run[q]
  BY <1>1, <1>3 DEF NoRun
<1>4. CASE OpenAll(p)
  <2>1. /\ run' = run /\ late' = late /\ stamp' = stamp /\ last' = last
        /\ call' = [call EXCEPT ![p] = Idle] /\ seen' = [seen EXCEPT ![p] = last]
        /\ call[p].pc = "down" /\ \A q \in Process : q # p => mem'[q] = mem[q]
    BY <1>1, <1>4 DEF OpenAll, Open, db
  <2>2. call'[p].pc = "idle" /\ seen'[p] = last
    BY <1>1, <2>1, IdleType
  <2>3. EventShape(p)'
    BY <1>1, <2>1, <2>2 DEF EventShape, Pending, HaltStamped
  <2>4. QED
    BY <1>1, <2>1, <2>3, EventQuiet
<1>5. CASE CrashAll(p)
  <2>1. /\ late' = late /\ stamp' = stamp /\ last' = last /\ seen' = seen
        /\ call' = [call EXCEPT ![p] = Down] /\ run' = [run EXCEPT ![p] = NoRun]
        /\ \A q \in Process : q # p => mem'[q] = mem[q]
    BY <1>1, <1>5 DEF CrashAll, Crash, events, db
  <2>2. call'[p].pc = "down" /\ run'[p].pc = "none"
    BY <1>1, <1>3, <2>1, IdleType
  <2>3. EventShape(p)'
    BY <1>1, <2>1, <2>2 DEF EventShape, Pending, HaltStamped
  <2>4. QED
    BY <1>1, <1>3, <2>1, <2>3, EventQuiet
<1>6. ASSUME UNCHANGED vars, UNCHANGED events,
             \A q \in Process : q # p => run'[q] = run[q],
             Pending(p)' => Pending(p) /\ run'[p].event = run[p].event
      PROVE  EventInv'
  <2>1. UNCHANGED <<stamp, last, late, mem, call, seen>>
    BY <1>6 DEF vars, events
  <2>2. EventShape(p)'
    BY <1>1, <1>6, <2>1 DEF EventShape, Pending, HaltStamped
  <2>3. QED
    BY <1>1, <1>6, <2>1, <2>2, EventQuiet
<1>7. ASSUME NEW g \in Generation, NEW i \in Intent, ReadinessOnly(p, g, i) PROVE EventInv'
  <2>1. UNCHANGED vars /\ UNCHANGED events /\ run' = run
    BY <1>7 DEF ReadinessOnly
  <2>2. QED
    BY <1>6, <2>1 DEF Pending
<1>8. ASSUME NEW g \in Generation, NEW i \in Intent, StartRun(p, g, i) PROVE EventInv'
  <2>1. /\ UNCHANGED <<stamp, last, late, mem, call, seen>>
        /\ run' = [run EXCEPT ![p] = [pc |-> "consume", gen |-> g, intent |-> i, event |-> seen[p]]]
        /\ mem[p].control = "ENABLED" /\ call[p].pc = "idle"
    BY <1>8 DEF StartRun, Vacant, vars, events
  <2>2. run'[p].event = seen[p] /\ \A q \in Process : q # p => run'[q] = run[q]
    BY <1>1, <2>1
  <2>3. EventShape(p)'
    BY <1>1, <2>1, <2>2 DEF EventShape, Pending, HaltStamped
  <2>4. QED
    BY <1>1, <2>1, <2>2, <2>3, EventQuiet
<1>9. CASE Consume(p)
  <2>1. run[p].pc = "consume" /\ (run' = [run EXCEPT ![p] = NoRun] \/ Move(p, "execute"))
    BY <1>9 DEF Consume
  <2>2. /\ Pending(p)' => Pending(p) /\ run'[p].event = run[p].event
        /\ \A q \in Process : q # p => run'[q] = run[q]
    BY <1>2, <1>3, <2>1 DEF Pending
  <2>3. QED
    BY <1>6, <1>9, <2>2 DEF Consume
<1>10. CASE Execute(p)
  <2>1. run[p].pc = "execute" /\ Move(p, "service") /\ UNCHANGED events /\ run[p].intent \in Intent
    BY <1>1, <1>10 DEF Execute, RunShape
  <2>2. /\ \A q \in Process : q # p => call'[q] = call[q]
        /\ mem' = mem /\ late' = late
    <3>1. ASSUME NEW a \in Approval, Begin(p, run[p].intent, a)
          PROVE  mem' = mem /\ late' = late /\ \A q \in Process : q # p => call'[q] = call[q]
      BY <1>1, <2>1, <3>1, OneCallMoves, Zenon DEF Begin, db
    <3>2. CASE BeginRefused(p)
      BY <1>1, <3>2, OneCallMoves DEF BeginRefused, Raise, db
    <3>3. QED
      BY <1>10, <3>1, <3>2 DEF Execute
  <2>3. call'[p].pc \in {"capture", "raised"}
    <3>1. ASSUME NEW a \in Approval, Begin(p, run[p].intent, a)
          PROVE  call'[p].pc = "capture"
      <4> DEFINE c == [Idle EXCEPT !.pc = "capture", !.row = Absent(run[p].intent), !.approval = a]
      <4>1. call' = [call EXCEPT ![p] = c]
        BY <3>1, Zenon DEF Begin
      <4>2. c.pc = "capture"
        BY DEF Idle
      <4> HIDE DEF c
      <4>3. QED
        BY <1>1, <4>1, <4>2
    <3>2. CASE BeginRefused(p)
      BY <1>1, <3>2, IdleType DEF BeginRefused, Raise
    <3>3. QED
      BY <1>10, <3>1, <3>2 DEF Execute
  <2>4. EventShape(p)'
    BY <1>1, <1>2, <2>1, <2>2, <2>3 DEF EventShape, Pending, HaltStamped, events
  <2>5. QED
    BY <1>1, <1>2, <2>1, <2>2, <2>4, EventQuiet DEF events
<1>11. CASE Answered(p)
  <2>1. /\ Pending(p)' => Pending(p) /\ run'[p].event = run[p].event
        /\ \A q \in Process : q # p => run'[q] = run[q]
    BY <1>2, <1>11 DEF Pending, Answered
  <2>2. QED
    BY <1>6, <1>11, <2>1 DEF Answered
<1>12. CASE Seal(p)
  <2>1. run[p].pc = "seal" /\ (Move(p, "close") \/ Move(p, "failed"))
    BY <1>12 DEF Seal
  <2>2. /\ Pending(p)' => Pending(p) /\ run'[p].event = run[p].event
        /\ \A q \in Process : q # p => run'[q] = run[q]
    BY <1>2, <2>1 DEF Pending
  <2>3. UNCHANGED vars /\ UNCHANGED events
    BY <1>12 DEF Seal
  <2>4. QED
    BY <1>6, <2>2, <2>3
<1>13. CASE CloseFails(p)
  <2>1. /\ Pending(p)' => Pending(p) /\ run'[p].event = run[p].event
        /\ \A q \in Process : q # p => run'[q] = run[q]
    BY <1>2, <1>13 DEF Pending, CloseFails
  <2>2. QED
    BY <1>6, <1>13, <2>1 DEF CloseFails
<1>14. CASE Leave(p)
  <2>1. /\ UNCHANGED <<late, mem, stamp, last, seen>> /\ run' = [run EXCEPT ![p] = NoRun]
        /\ call' = [call EXCEPT ![p] = Idle]
    BY <1>14 DEF Leave, Return, events, db
  <2>2. call'[p].pc = "idle"
    BY <1>1, <2>1, IdleType
  <2>3. EventShape(p)'
    BY <1>1, <1>3, <2>1, <2>2 DEF EventShape, Pending, HaltStamped
  <2>4. QED
    BY <1>1, <1>3, <2>1, <2>3, EventQuiet
<1>15. QED
  BY <1>4, <1>5, <1>7, <1>8, <1>9, <1>10, <1>11, <1>12, <1>13, <1>14

\* Steps that may write a control event.
LEMMA EventControl ==
  ASSUME RInv, EventInv, NEW p \in Process,
         ServiceRuns(p) \/ Operator(p) \/ Close(p) \/ Fail(p)
  PROVE  EventInv'
<1>1. /\ RTypeOK /\ TypeOK /\ EventShape(p)
      /\ run \in [Process -> Run] /\ run[p] \in Run /\ call \in [Process -> Call]
      /\ mem \in [Process -> Memory] /\ seen \in [Process -> Nat]
      /\ stamp \in Nat /\ last \in Nat /\ last <= stamp /\ run[p].event \in Nat
  BY DEF RInv, IInv, RTypeOK, TypeOK, EventInv, Run
<1>2. ASSUME run' = [run EXCEPT ![p] = NoRun]
      PROVE  run'[p].pc = "none" /\ \A q \in Process : q # p => run'[q] = run[q]
  BY <1>1, <1>2 DEF NoRun
<1>3. CASE ServiceRuns(p)
  <2>1. run' = run /\ Stamp(p) /\ ServiceStep(p)
    BY <1>3 DEF ServiceRuns, acceptance
  <2>2. Later /\ seen'[p] <= stamp' /\ \A q \in Process : q # p => seen'[q] = seen[q]
    BY <1>1, <2>1, StampMoves
  <2>3. \A q \in Process : q # p => call'[q] = call[q]
    BY <1>1, <2>1, OneCallMoves
  <2>4. EventShape(p)'
    <3>1. call'[p].pc = "down" => ~Pending(p)'
      BY <1>1, <2>1, ServiceControl
    <3>2. Pending(p)' => Pending(p) /\ run'[p].event <= stamp'
      BY <1>1, <2>1, <2>2 DEF Pending, EventShape, Later
    <3>3. Pending(p) /\ run[p].event < last => run'[p].event < last'
      BY <1>1, <2>1, <2>2 DEF Later
    <3>4. Pending(p)' /\ mem'[p].control # "ENABLED" => run'[p].event < last'
      <4>1. CASE mem'[p].control = mem[p].control
        BY <1>1, <3>2, <3>3, <4>1 DEF EventShape
      <4>2. CASE mem'[p].control # mem[p].control
        <5>1. call[p].pc = "halt" /\ HaltStamped(call[p])
          BY <1>1, <2>1, <4>2, ServiceControl DEF HaltStamped
        <5>2. last' = stamp + 1 \/ p \in late
          BY <1>1, <2>1, <4>2, StampMoves
        <5>3. last' = stamp + 1 /\ Pending(p)' => run'[p].event < last'
          BY <1>1, <2>1, <3>2 DEF EventShape, Pending
        <5>4. QED
          BY <1>1, <3>2, <3>3, <5>1, <5>2, <5>3 DEF EventShape
      <4>3. QED
        BY <4>1, <4>2
    <3>5. Pending(p)' /\ HaltStamped(call'[p]) /\ p \in late' => run'[p].event < last'
      <4>1. HaltStamped(call'[p]) /\ p \in late' => HaltStamped(call[p]) /\ p \in late
        BY <1>1, <2>1, ServiceControl DEF HaltStamped, EventShape
      <4>2. QED
        BY <1>1, <3>2, <3>3, <4>1 DEF EventShape
    <3>6. call'[p].pc \in {"settle", "reconcile"} /\ ~HaltStamped(call'[p]) => p \notin late'
      BY <1>1, <2>1, ServiceControl DEF EventShape
    <3>7. QED
      BY <2>2, <3>1, <3>2, <3>4, <3>5, <3>6 DEF EventShape
  <2>5. QED
    BY <1>1, <2>1, <2>2, <2>3, <2>4, ServiceControl, EventStep
<1>4. ASSUME NEW s, AppendControl(p, s), Stamp(p), call' = call,
             \A q \in Process : q # p => run'[q] = run[q],
             Pending(p)' => Pending(p) /\ run'[p].event = run[p].event
      PROVE  EventInv'
  <2>1. /\ mem'[p].control # mem[p].control
        /\ \A q \in Process : q # p => mem'[q] = mem[q]
        /\ late' = {q \in Process : HaltStamped(call[q])}
    BY <1>1, <1>4, CommandMoves
  <2>2. Later /\ seen'[p] <= stamp' /\ \A q \in Process : q # p => seen'[q] = seen[q]
    BY <1>1, <1>4, StampMoves
  <2>3. last' = stamp + 1
    BY <1>1, <1>4, <2>1, StampMoves DEF HaltStamped
  <2>4. Pending(p)' => run'[p].event <= stamp' /\ run'[p].event < last'
    BY <1>1, <1>4, <2>2, <2>3 DEF EventShape, Later
  <2>5. EventShape(p)'
    BY <1>1, <1>4, <2>1, <2>2, <2>4 DEF EventShape, Pending
  <2>6. QED
    BY <1>1, <1>4, <2>1, <2>2, <2>3, <2>5, EventStep
<1>5. ASSUME UNCHANGED <<call, late, stamp, last, seen>>,
             \A q \in Process : mem'[q].control = mem[q].control,
             \A q \in Process : q # p => run'[q] = run[q],
             Pending(p)' => Pending(p) /\ run'[p].event = run[p].event
      PROVE  EventInv'
  <2>1. EventShape(p)'
    BY <1>1, <1>5 DEF EventShape, Pending, HaltStamped
  <2>2. QED
    BY <1>1, <1>5, <2>1, EventQuiet
<1>6. CASE Close(p) \/ Fail(p)
  <2>1. run' = [run EXCEPT ![p] = NoRun]
    BY <1>6 DEF Close, Fail
  <2>2. ~Pending(p)' /\ \A q \in Process : q # p => run'[q] = run[q]
    BY <1>2, <2>1 DEF Pending
  <2>3. CASE UNCHANGED <<vars, events>>
    BY <1>5, <2>2, <2>3 DEF vars, events
  <2>4. ASSUME NEW s, CloseControl(p, s), Stamp(p) PROVE EventInv'
    BY <1>4, <2>2, <2>4 DEF CloseControl
  <2>5. QED
    BY <1>6, <2>3, <2>4 DEF Close, Fail
<1>7. CASE Operator(p)
  <2>1. run' = run /\ Stamp(p)
    BY <1>7 DEF Operator, acceptance
  <2>2. ASSUME NEW s \in ControlState, OperatorControl(p, s) PROVE EventInv'
    BY <1>4, <2>1, <2>2 DEF OperatorControl, Pending
  <2>3. ASSUME NEW a \in Approval, Grant(p, a) \/ Revoke(p, a) PROVE EventInv'
    <3>1. \A q \in Process : mem'[q].control = mem[q].control
      BY <1>1, <2>3 DEF Grant, Revoke, Memory
    <3>2. call' = call /\ late' = late
      BY <2>3 DEF Grant, Revoke
    <3>3. UNCHANGED <<stamp, last, seen>>
      BY <2>1, <3>1 DEF Stamp, events
    <3>4. QED
      BY <1>5, <2>1, <3>1, <3>2, <3>3 DEF Pending
  <2>4. QED
    BY <1>7, <2>2, <2>3 DEF Operator
<1>8. QED
  BY <1>3, <1>6, <1>7

LEMMA EventInvariance == RSpec => []EventInv
<1>1. RInit => EventInv
  <2> SUFFICES ASSUME RInit PROVE EventInv
    OBVIOUS
  <2>1. \A p \in Process : run[p].pc = "none" /\ seen[p] = 0 /\ call[p].pc = "down"
    BY IdleType DEF RInit, Init, NoRun
  <2>2. QED
    BY <2>1 DEF RInit, EventInv, EventShape, Pending, HaltStamped
<1>2. RInv /\ EventInv /\ [RNext]_allvars => EventInv'
  <2> SUFFICES ASSUME RInv, EventInv, [RNext]_allvars PROVE EventInv'
    OBVIOUS
  <2>1. UNCHANGED <<late, mem, call, run, stamp, last, seen>> => EventInv'
    BY DEF EventInv, EventShape, Pending, HaltStamped
  <2>2. CASE UNCHANGED allvars
    BY <2>1, <2>2 DEF allvars, vars
  <2>3. CASE Broker
    BY <2>1, <2>3 DEF Broker, LateFill, ClosePosition, acceptance, events, db
  <2>4. QED
    BY <2>2, <2>3, EventCoordinator, EventControl DEF RNext
<1>3. QED
  BY <1>1, <1>2, RInvariance, PTL DEF RSpec

\* A run that hands back its result has ended the control event under which
\* its readiness was consumed: a later event stands last in the file.
THEOREM ResultsEndAuthority == RSpec => AuthorityIsSpent
<1> DEFINE Spends == \A p \in Process :
              run[p].pc = "close" /\ run'[p] = NoRun /\ call'[p].pc # "down" =>
                 last' > run[p].event
<1>1. RInv /\ EventInv /\ [RNext]_allvars => [Spends]_allvars
  <2> SUFFICES ASSUME RInv, EventInv, RNext, NEW p \in Process,
                      run[p].pc = "close", run'[p] = NoRun, call'[p].pc # "down"
               PROVE  last' > run[p].event
    OBVIOUS
  <2>1. /\ run \in [Process -> Run] /\ RTypeOK /\ TypeOK /\ EventShape(p) /\ RunShape(p)
        /\ last \in Nat /\ stamp \in Nat /\ run[p].event \in Nat /\ call \in [Process -> Call]
    BY DEF RInv, IInv, RTypeOK, TypeOK, Run, EventInv, RunShapes
  <2>2. run'[p].pc = "none" /\ run'[p].gen = "none"
    BY DEF NoRun
  <2>3. Close(p)
    <3>1. ~OpenAll(p) /\ ~Operator(p) /\ ~ServiceRuns(p) /\ ~Broker
      BY <2>2 DEF OpenAll, Operator, ServiceRuns, Broker, acceptance
    <3>2. ~CrashAll(p)
      BY <2>1, IdleType DEF CrashAll, Crash
    <3>3. \A g \in Generation, i \in Intent : ~ReadinessOnly(p, g, i) /\ ~StartRun(p, g, i)
      BY DEF ReadinessOnly, StartRun, Vacant
    <3>4. ~Consume(p) /\ ~Execute(p) /\ ~Answered(p) /\ ~Seal(p) /\ ~Fail(p) /\ ~Leave(p)
      BY DEF Consume, Execute, Answered, Seal, Fail, Leave
    <3>5. ~CloseFails(p)
      <4>1. run[p].gen \in Generation
        BY <2>1 DEF RunShape
      <4>2. CloseFails(p) => run'[p].gen = run[p].gen
        BY <2>1 DEF CloseFails, Move, Run
      <4>3. QED
        BY <2>2, <4>1, <4>2, GenerationAssumption
    <3>6. ASSUME NEW q \in Process, q # p,
                 \/ OpenAll(q) \/ CrashAll(q)
                 \/ \E g \in Generation, i \in Intent : ReadinessOnly(q, g, i) \/ StartRun(q, g, i)
                 \/ Consume(q) \/ Execute(q) \/ ServiceRuns(q) \/ Answered(q) \/ Seal(q)
                 \/ Close(q) \/ Fail(q) \/ CloseFails(q) \/ Leave(q) \/ Operator(q)
          PROVE  FALSE
      <4>1. \A pc : Move(q, pc) => run'[p] = run[p]
        BY <2>1, <3>6 DEF Move
      <4>2. \A r : run' = [run EXCEPT ![q] = r] => run'[p] = run[p]
        BY <2>1, <3>6
      <4>3. run' = run \/ (\E pc : Move(q, pc)) \/ (\E r : run' = [run EXCEPT ![q] = r])
        BY <3>6, Zenon DEF OpenAll, CrashAll, ReadinessOnly, StartRun, Consume, Execute, ServiceRuns,
                    Answered, Seal, Close, Fail, CloseFails, Leave, Operator, acceptance
      <4>4. QED
        BY <2>2, <4>1, <4>2, <4>3
    <3>7. QED
      BY <3>1, <3>2, <3>3, <3>4, <3>5, <3>6 DEF RNext
  <2>4. CASE mem[p].control # "ENABLED" /\ UNCHANGED <<vars, events>>
    BY <2>1, <2>4 DEF EventShape, Pending, events
  <2>5. ASSUME NEW s, CloseControl(p, s), Stamp(p) PROVE last' > run[p].event
    <3>1. mem'[p].control # mem[p].control
      BY <2>1, <2>5, CommandMoves DEF CloseControl
    <3>2. last' = stamp + 1
      BY <2>1, <2>5, <3>1, StampMoves DEF RunShape
    <3>3. QED
      BY <2>1, <3>2 DEF EventShape, Pending
  <2>6. QED
    BY <2>3, <2>4, <2>5 DEF Close
<1>2. QED
  BY <1>1, RInvariance, EventInvariance, PTL DEF RSpec, AuthorityIsSpent
==============================================================================
