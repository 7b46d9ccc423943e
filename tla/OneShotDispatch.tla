--------------------------- MODULE OneShotDispatch ---------------------------
(***************************************************************************)
(* What the M11 execution subsystem promises about the broker, without its *)
(* records, caches or processes.  Of all the intents sealed from one       *)
(* shadow decision at most one is ever taken up; it is either refused      *)
(* before anything reaches the broker, or armed and then shot at most      *)
(* once.  A verdict agrees with what the broker did: an intent called      *)
(* rejected has left no position, a confirmed one has left its position.   *)
(***************************************************************************)
EXTENDS Naturals

CONSTANTS
    Intent,     \* sealed execution intents
    Source,     \* shadow trade intents they are sealed from
    SourceOf    \* the shadow intent of each execution intent

VARIABLES
    phase,      \* phase[i]: "open", "owned", "refused" or "armed"
    shots,      \* shots[i]: mutation calls made at the broker for i
    effect,     \* effect[i]: what the broker executed for i
    verdict     \* verdict[i]: the final word of the record, "pending" until then

vars == <<phase, shots, effect, verdict>>

Init ==
    /\ phase = [i \in Intent |-> "open"]
    /\ shots = [i \in Intent |-> 0]
    /\ effect = [i \in Intent |-> "none"]
    /\ verdict = [i \in Intent |-> "pending"]

\* One intent of a shadow decision is taken up, and only if none was before.
Claim(i) ==
    /\ \A j \in Intent : SourceOf[j] = SourceOf[i] => phase[j] = "open"
    /\ phase' = [phase EXCEPT ![i] = "owned"]
    /\ UNCHANGED <<shots, effect, verdict>>

\* Owned intents are given up for good: nothing has been or will be sent.  A
\* recovery gives up all that it finds in one step.
Refuse(I) ==
    /\ \A i \in I : phase[i] = "owned"
    /\ phase' = [i \in Intent |-> IF i \in I THEN "refused" ELSE phase[i]]
    /\ UNCHANGED <<shots, effect, verdict>>

\* The decision to send becomes durable before the send itself.
Arm(i) ==
    /\ phase[i] = "owned"
    /\ phase' = [phase EXCEPT ![i] = "armed"]
    /\ UNCHANGED <<shots, effect, verdict>>

\* The single mutation call; the broker may or may not execute it.
Shoot(i) ==
    /\ phase[i] = "armed"
    /\ shots[i] = 0
    /\ shots' = [shots EXCEPT ![i] = 1]
    /\ \E e \in {"none", "pending", "match", "other"} : effect' = [effect EXCEPT ![i] = e]
    /\ UNCHANGED <<phase, verdict>>

\* An order the broker left pending is executed or dropped.
Execute(i) ==
    /\ effect[i] = "pending"
    /\ \E e \in {"none", "match", "other"} : effect' = [effect EXCEPT ![i] = e]
    /\ UNCHANGED <<phase, shots, verdict>>

\* A verdict is given once, and it is consistent with the broker's side.
Judge(i) ==
    /\ phase[i] = "armed"
    /\ verdict[i] = "pending"
    /\ \/ /\ shots[i] = 1
          /\ effect[i] = "none"
          /\ verdict' = [verdict EXCEPT ![i] = "REJECTED"]
       \/ /\ effect[i] = "match"
          /\ verdict' = [verdict EXCEPT ![i] = "CONFIRMED"]
       \/ verdict' = [verdict EXCEPT ![i] = "RECONCILIATION_FAILED"]
    /\ UNCHANGED <<phase, shots, effect>>

Next ==
    \/ \E i \in Intent : Claim(i) \/ Arm(i) \/ Shoot(i) \/ Execute(i) \/ Judge(i)
    \/ \E I \in SUBSET Intent : Refuse(I)

Spec == Init /\ [][Next]_vars
=============================================================================
