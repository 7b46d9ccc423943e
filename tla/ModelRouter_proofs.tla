------------------------- MODULE ModelRouter_proofs -------------------------
(***************************************************************************)
(* What holds of the router for any number of calls, invocations and       *)
(* attempts, any limits and costs, and a provider that charges late.       *)
(*                                                                         *)
(* A call owns its invocation once it has reserved the first attempt; the  *)
(* ledger gives that reservation to one call only.  The state of the       *)
(* owner's last reservation follows from the place of the call, and what   *)
(* may be at the provider follows from the state of the reservation.       *)
(* From this follow the charges, the senders and the closed reservations.  *)
(* The budgets and the reported costs are sums over finite sets, whose laws *)
(* are proved by a smallest set that breaks them.                          *)
(***************************************************************************)
EXTENDS ModelRouter, FiniteSetTheorems, WellFoundedInduction, TLAPS

Owns(c, k) == k[1] = InvocationOf[c] /\ k[2] <= router[c].attempts

\* Every reservation and every request has an owner, and an invocation has
\* one.
Owned == \A k \in Key : Exists(k) => \E c \in Caller : Owns(c, k)
SentByOwner == \A k \in Key : \A c \in sender[k] : Owns(c, k)
OwnerExists == \A c \in Caller : \A k \in Key : Owns(c, k) => Exists(k)
OneOwner ==
    \A c, d \in Caller :
        router[c].attempts > 0 /\ router[d].attempts > 0 /\ InvocationOf[c] = InvocationOf[d]
            => c = d

Failed == {"UNCERTAIN", "RELEASED"}

\* The state of the last reservation of a call and of its request, by the
\* place of the call.
Last(c) == book[Current(c)].state
CallOK(c) ==
    /\ router[c].pc = "start" => router[c].attempts = 0
    /\ router[c].pc = "attempt" => router[c].attempts < MaxAttempts
    /\ router[c].pc \in {"mark", "call", "wait", "close", "settle", "parse"}
          => router[c].attempts > 0
    /\ router[c].attempts > 0 =>
          /\ router[c].pc = "mark" => Last(c) = "RESERVED"
          /\ router[c].pc \in {"call", "wait", "close", "settle"} => Last(c) = "DISPATCHED"
          /\ router[c].pc \in {"attempt", "report"} => Last(c) \in Failed
          /\ router[c].pc \in {"parse", "output", "failure"} => Last(c) \in {"SETTLED"} \cup Failed
          /\ router[c].pc = "call" => wire[Current(c)] = "unsent"
          /\ router[c].pc = "close" /\ ~ router[c].dispatched => wire[Current(c)] = "unsent"
          /\ router[c].pc = "settle" =>
                /\ wire[Current(c)] = "served"
                /\ router[c].report # None => charge[Current(c)] <= router[c].report

\* Attempts before the last have failed.
EarlierFailed ==
    \A c \in Caller : \A k \in Key :
        k[1] = InvocationOf[c] /\ k[2] < router[c].attempts => book[k].state \in Failed

\* A request that may be at the provider, or a charge, by the reservation.
RequestOK(k) ==
    /\ book[k].state \in {"NONE", "RESERVED", "RELEASED"} => wire[k] = "unsent"
    /\ book[k].state = "SETTLED" => wire[k] = "served" /\ charge[k] <= book[k].amount
    /\ book[k].state \in {"RESERVED", "DISPATCHED", "UNCERTAIN"} => book[k].amount = Cost[k[1]]
    /\ charge[k] > 0 => wire[k] = "served"

IInv ==
    /\ RouterTypeOK
    /\ Owned /\ SentByOwner /\ OwnerExists /\ OneOwner
    /\ EarlierFailed
    /\ \A c \in Caller : CallOK(c)
    /\ \A k \in Key : RequestOK(k)

-----------------------------------------------------------------------------

\* A reservation is found by its invocation and the number of its attempt.
LEMMA KeyParts ==
  ASSUME NEW k \in Key
  PROVE  k = <<k[1], k[2]>> /\ k[1] \in Invocation /\ k[2] \in Nat /\ k[2] >= 1
                /\ k[2] <= MaxAttempts
  BY BudgetAssumption DEF Key, Attempt

LEMMA CurrentParts ==
  ASSUME RouterTypeOK, NEW c \in Caller
  PROVE  /\ Current(c)[1] = InvocationOf[c] /\ Current(c)[2] = router[c].attempts
         /\ router[c].attempts \in Nat /\ router[c].attempts <= MaxAttempts
         /\ router[c].attempts > 0 => Current(c) \in Key
  BY BudgetAssumption, RouterAssumption DEF RouterTypeOK, Current, Key, Attempt, Router

\* Two calls with reservations never meet at one of them.
LEMMA Apart ==
  ASSUME IInv, NEW c \in Caller, NEW d \in Caller, c # d,
         router[c].attempts > 0, NEW k \in Key, Owns(d, k)
  PROVE  k[1] # InvocationOf[c] /\ k # Current(c)
<1>1. router[d].attempts > 0
  BY KeyParts, CurrentParts DEF IInv, Owns
<1>2. InvocationOf[c] # InvocationOf[d]
  BY <1>1 DEF IInv, OneOwner
<1>3. QED
  BY <1>2, CurrentParts DEF Owns, IInv

\* Initially nothing is reserved or sent.
LEMMA InitIInv == RouterInit => IInv
<1> SUFFICES ASSUME RouterInit PROVE IInv
  OBVIOUS
<1> USE BudgetAssumption, RouterAssumption DEF RouterInit, BudgetInit
<1>1. RouterTypeOK
  BY DEF RouterTypeOK, NoReservation, Reservation, ReservationState, Day, Start, Router, RouterPC
<1>2. \A k \in Key : ~ Exists(k)
  BY DEF Exists, NoReservation
<1>3. Owned /\ SentByOwner
  BY <1>2 DEF Owned, SentByOwner
<1>4. \A c \in Caller : router[c].attempts = 0 /\ router[c].pc = "start"
  BY DEF Start
<1>5. OwnerExists /\ OneOwner /\ EarlierFailed
  BY <1>4, KeyParts DEF OwnerExists, OneOwner, EarlierFailed, Owns
<1>6. \A c \in Caller : CallOK(c)
  BY <1>4 DEF CallOK
<1>7. \A k \in Key : RequestOK(k)
  BY DEF RequestOK, NoReservation
<1>8. QED
  BY <1>1, <1>3, <1>5, <1>6, <1>7 DEF IInv

\* A step of one call that touches neither the ledger nor the provider.
LEMMA CallStep ==
  ASSUME IInv, NEW c \in Caller,
         router' \in [Caller -> Router],
         \A d \in Caller \ {c} : router'[d] = router[d],
         router'[c].attempts = router[c].attempts,
         today' \in Day, UNCHANGED <<book, wire, charge, sender>>,
         CallOK(c)'
  PROVE  IInv'
<1>1. RouterTypeOK'
  BY DEF IInv, RouterTypeOK
<1>2. \A d \in Caller : router'[d].attempts = router[d].attempts
  OBVIOUS
<1>3. Owned' /\ SentByOwner' /\ OwnerExists' /\ OneOwner' /\ EarlierFailed'
  <2>1. \A d \in Caller, k \in Key : Owns(d, k)' <=> Owns(d, k)
    BY <1>2 DEF Owns
  <2>2. \A k \in Key : Exists(k)' <=> Exists(k)
    BY DEF Exists
  <2>3. Owned' /\ OwnerExists'
    BY <2>1, <2>2 DEF IInv, Owned, OwnerExists
  <2>4. SentByOwner'
    BY <2>1 DEF IInv, RouterTypeOK, SentByOwner
  <2>5. OneOwner' /\ EarlierFailed'
    BY <1>2 DEF IInv, OneOwner, EarlierFailed
  <2>6. QED
    BY <2>3, <2>4, <2>5
<1>4. \A d \in Caller : CallOK(d)'
  <2>1. \A d \in Caller \ {c} : CallOK(d)'
    BY DEF IInv, CallOK, Last, Current
  <2>2. QED
    BY <2>1
<1>5. \A k \in Key : RequestOK(k)'
  BY DEF IInv, RequestOK
<1>6. QED
  BY <1>1, <1>3, <1>4, <1>5 DEF IInv

\* A step of one call that changes its last reservation.
LEMMA BookStep ==
  ASSUME IInv, NEW c \in Caller, router[c].attempts > 0,
         NEW r \in Reservation, r.state # "NONE",
         book' = [book EXCEPT ![Current(c)] = r],
         router' \in [Caller -> Router],
         \A d \in Caller \ {c} : router'[d] = router[d],
         router'[c].attempts = router[c].attempts,
         UNCHANGED <<today, wire, charge, sender>>,
         CallOK(c)', NEW q \in Key, q = Current(c), RequestOK(q)'
  PROVE  IInv'
<1>1. RouterTypeOK' /\ Current(c) \in Key /\ Current(c)' = Current(c)
  BY CurrentParts DEF IInv, RouterTypeOK, Current
<1>2. \A d \in Caller : router'[d].attempts = router[d].attempts
  OBVIOUS
<1>3. /\ book'[Current(c)] = r
      /\ \A k \in Key \ {Current(c)} : book'[k] = book[k]
  BY <1>1 DEF IInv, RouterTypeOK
<1>4. Owned' /\ SentByOwner' /\ OwnerExists' /\ OneOwner'
  <2>1. \A d \in Caller, k \in Key : Owns(d, k)' <=> Owns(d, k)
    BY <1>2 DEF Owns
  <2>2. Owns(c, Current(c))
    BY CurrentParts DEF Owns, IInv
  <2>3. Exists(Current(c)) /\ Exists(Current(c))'
    BY <1>1, <1>3, <2>2 DEF IInv, OwnerExists, Exists
  <2>4. \A k \in Key : Exists(k)' <=> Exists(k)
    BY <1>3, <2>3 DEF Exists
  <2>5. Owned' /\ OwnerExists'
    BY <2>1, <2>4 DEF IInv, Owned, OwnerExists
  <2>6. SentByOwner'
    BY <2>1 DEF IInv, RouterTypeOK, SentByOwner
  <2>7. OneOwner'
    BY <1>2 DEF IInv, OneOwner
  <2>8. QED
    BY <2>5, <2>6, <2>7
<1>5. EarlierFailed'
  <2> SUFFICES ASSUME NEW d \in Caller, NEW k \in Key,
                      k[1] = InvocationOf[d], k[2] < router[d].attempts
               PROVE  book'[k].state \in Failed
    BY <1>2 DEF EarlierFailed
  <2>1. book[k].state \in Failed
    BY DEF IInv, EarlierFailed
  <2>2. k # Current(c)
    <3>1. CASE d = c
      BY <3>1, CurrentParts, KeyParts DEF IInv
    <3>2. CASE d # c
      <4>1. Owns(d, k)
        BY KeyParts, CurrentParts DEF Owns, IInv
      <4>2. QED
        BY <3>2, <4>1, Apart
    <3>3. QED
      BY <3>1, <3>2
  <2>3. QED
    BY <1>3, <2>1, <2>2
<1>6. \A d \in Caller : CallOK(d)'
  <2> SUFFICES ASSUME NEW d \in Caller, d # c PROVE CallOK(d)'
    OBVIOUS
  <2>1. CASE router[d].attempts > 0
    <3>1. Current(d) \in Key /\ Owns(d, Current(d))
      BY <2>1, CurrentParts DEF IInv, Owns
    <3>2. Current(d) # Current(c)
      BY <3>1, Apart
    <3>3. Current(d)' = Current(d) /\ Last(d)' = Last(d)
      BY <1>3, <3>1, <3>2 DEF Current, Last
    <3>4. QED
      BY <3>3 DEF IInv, CallOK
  <2>2. CASE router[d].attempts = 0
    BY <2>2 DEF IInv, CallOK
  <2>3. QED
    BY <2>1, <2>2, CurrentParts DEF IInv
<1>7. \A k \in Key : RequestOK(k)'
  <2>1. \A k \in Key \ {Current(c)} : RequestOK(k)'
    BY <1>3 DEF IInv, RequestOK
  <2>2. QED
    BY <1>1, <2>1
<1>8. QED
  BY <1>1, <1>4, <1>5, <1>6, <1>7 DEF IInv
-----------------------------------------------------------------------------
(* The steps of a call.                                                    *)

\* What every step of a call may assume about it.
LEMMA CallFacts ==
  ASSUME IInv, NEW c \in Caller
  PROVE  /\ router[c] \in Router /\ CallOK(c)
         /\ router[c].attempts \in Nat
         /\ router[c].attempts > 0 =>
               /\ Current(c) \in Key /\ RequestOK(Current(c))
               /\ book[Current(c)] \in Reservation
  BY CurrentParts DEF IInv, RouterTypeOK

\* A call that moves on, gives up, raises or ends without a ledger operation.
LEMMA MoveStep ==
  ASSUME IInv, NEW c \in Caller, NEW x \in RouterPC,
         router' = [router EXCEPT ![c].pc = x],
         UNCHANGED <<book, today, wire, charge, sender>>,
         \/ x \in {"raised", "gone"}
         \/ router[c].pc = "start" /\ x \in {"attempt", "failure"}
         \/ router[c].pc \in {"attempt", "report"} /\ x = "failure"
         \/ router[c].pc = "parse" /\ x \in {"output", "failure"}
  PROVE  IInv'
<1>1. router' \in [Caller -> Router]
  BY DEF IInv, RouterTypeOK, Router
<1>2. /\ \A d \in Caller \ {c} : router'[d] = router[d]
      /\ router'[c].attempts = router[c].attempts /\ router'[c].pc = x
  BY DEF IInv, RouterTypeOK, Router
<1>3. Last(c)' = Last(c)
  BY <1>2 DEF Last, Current
<1>4. CallOK(c)'
  BY <1>2, <1>3, CallFacts, BudgetAssumption DEF CallOK, Failed
<1>5. today' \in Day
  BY DEF IInv, RouterTypeOK
<1>6. QED
  BY <1>1, <1>2, <1>4, <1>5, CallStep

LEMMA ReserveStep ==
  ASSUME IInv, NEW c \in Caller, Reserve(c)
  PROVE  IInv'
<1> DEFINE i == InvocationOf[c]
           n == router[c].attempts + 1
<1>1. CASE Result(c, "failure") /\ UNCHANGED book
  BY <1>1, MoveStep DEF Reserve, Result, RouterPC, provider
<1>2. CASE /\ ReserveIfWithin(i, n)
           /\ router' = [router EXCEPT ![c].pc = "mark", ![c].attempts = n]
  <2>1. router[c].pc = "attempt" /\ UNCHANGED <<today, wire, charge, sender>>
    BY DEF Reserve, provider
  <2>2. router[c].attempts \in Nat /\ i \in Invocation /\ n \in Nat \ {0}
    BY CallFacts, RouterAssumption
  <2>3. n <= MaxAttempts
    BY <2>1, <2>2, CallFacts, BudgetAssumption DEF CallOK
  <2>4. PICK q \in Key : q = <<i, n>>
    <3>1. <<i, n>> \in Key
      BY <2>2, <2>3, BudgetAssumption DEF Key, Attempt
    <3>2. QED
      BY <3>1
  <2>5. /\ ~ Exists(q)
        /\ n = 1 => \A m \in Attempt : ~ Exists(<<i, m>>)
    BY <1>2, <2>4 DEF ReserveIfWithin, Fresh
  <2>6. DEFINE r == [state |-> "RESERVED", amount |-> Cost[i], day |-> today]
  <2>7. r \in Reservation
    BY <2>2, BudgetAssumption DEF IInv, RouterTypeOK, Reservation, ReservationState
  <2>8. /\ book' \in [Key -> Reservation] /\ book'[q] = r
        /\ \A k \in Key \ {q} : book'[k] = book[k]
    BY <1>2, <2>4, <2>7 DEF ReserveIfWithin, IInv, RouterTypeOK
  <2>9. /\ router' \in [Caller -> Router]
        /\ router'[c].pc = "mark" /\ router'[c].attempts = n
        /\ \A d \in Caller \ {c} : router'[d] = router[d]
    BY <1>2, <2>2, <2>3, BudgetAssumption DEF IInv, RouterTypeOK, Router, RouterPC
  <2>10. RouterTypeOK'
    BY <2>1, <2>8, <2>9 DEF IInv, RouterTypeOK
  <2>11. \A d \in Caller : d # c /\ InvocationOf[d] = i => router[d].attempts = 0
    <3> SUFFICES ASSUME NEW d \in Caller, d # c, InvocationOf[d] = i, router[d].attempts > 0
                 PROVE  FALSE
      BY CallFacts
    <3>1. CASE n = 1
      <4>1. <<i, 1>> \in Key /\ Owns(d, <<i, 1>>) /\ 1 \in Attempt
        BY <2>2, CallFacts, BudgetAssumption DEF Key, Attempt, Owns
      <4>2. QED
        BY <3>1, <4>1, <2>5 DEF IInv, OwnerExists
    <3>2. CASE n # 1
      BY <2>2, <3>2 DEF IInv, OneOwner
    <3>3. QED
      BY <3>1, <3>2
  <2>12. \A d \in Caller, k \in Key : k # q => (Owns(d, k)' <=> Owns(d, k))
    BY <2>2, <2>4, <2>9, KeyParts DEF Owns
  <2>13. Owns(c, q)' /\ Exists(q)'
    BY <2>2, <2>4, <2>8, <2>9 DEF Owns, Exists
  <2>14. Owned' /\ OwnerExists'
    <3>1. \A k \in Key : k # q => (Exists(k)' <=> Exists(k))
      BY <2>8 DEF Exists
    <3>2. QED
      BY <2>12, <2>13, <3>1 DEF IInv, Owned, OwnerExists
  <2>15. SentByOwner'
    <3>1. sender[q] = {}
      <4> SUFFICES ASSUME NEW d \in sender[q] PROVE FALSE
        BY <2>4 DEF IInv, RouterTypeOK
      <4>1. d \in Caller /\ Owns(d, q)
        BY <2>4 DEF IInv, RouterTypeOK, SentByOwner
      <4>2. QED
        BY <2>4, <2>5, <4>1 DEF IInv, OwnerExists
    <3>2. QED
      BY <2>1, <2>12, <3>1 DEF IInv, RouterTypeOK, SentByOwner
  <2>16. OneOwner'
    BY <2>2, <2>9, <2>11 DEF IInv, OneOwner
  <2>17. EarlierFailed'
    <3> SUFFICES ASSUME NEW d \in Caller, NEW k \in Key,
                        k[1] = InvocationOf[d], k[2] < router'[d].attempts
                 PROVE  book'[k].state \in Failed
      BY DEF EarlierFailed
    <3>1. CASE d # c
      <4>1. Owns(d, k) /\ book[k].state \in Failed
        BY <2>9, <3>1, KeyParts, CallFacts DEF IInv, EarlierFailed, Owns
      <4>2. k # q
        BY <2>4, <2>5, <4>1 DEF IInv, OwnerExists
      <4>3. QED
        BY <2>8, <4>1, <4>2
    <3>2. CASE d = c
      <4>1. k # q /\ k[2] <= router[c].attempts
        BY <2>2, <2>4, <2>9, <3>2, KeyParts
      <4>2. CASE k[2] < router[c].attempts
        BY <2>8, <3>2, <4>1, <4>2 DEF IInv, EarlierFailed
      <4>3. CASE k[2] = router[c].attempts
        <5>1. k = Current(c) /\ router[c].attempts > 0
          BY <3>2, <4>3, KeyParts DEF Current
        <5>2. book[k].state \in Failed
          BY <2>1, <5>1, CallFacts DEF CallOK, Last
        <5>3. QED
          BY <2>8, <4>1, <5>2
      <4>4. QED
        BY <2>2, <4>1, <4>2, <4>3, KeyParts
    <3>3. QED
      BY <3>1, <3>2
  <2>18. RequestOK(q)'
    <3>1. RequestOK(q) /\ book[q].state = "NONE"
      BY <2>4, <2>5 DEF IInv, Exists
    <3>2. wire[q] = "unsent"
      BY <3>1 DEF RequestOK
    <3>3. charge[q] = 0
      BY <2>4, <3>1, <3>2 DEF RequestOK, IInv, RouterTypeOK
    <3>4. QED
      BY <2>1, <2>4, <2>8, <3>2, <3>3 DEF RequestOK
  <2>19. \A k \in Key : RequestOK(k)'
    <3>1. \A k \in Key \ {q} : RequestOK(k)'
      BY <2>1, <2>8 DEF IInv, RequestOK
    <3>2. QED
      BY <2>18, <3>1
  <2>20. CallOK(c)'
    <3>1. Last(c)' = "RESERVED"
      BY <2>4, <2>8, <2>9 DEF Last, Current
    <3>2. QED
      BY <2>2, <2>9, <3>1 DEF CallOK
  <2>21. \A d \in Caller \ {c} : CallOK(d)'
    <3> SUFFICES ASSUME NEW d \in Caller, d # c PROVE CallOK(d)'
      OBVIOUS
    <3>1. CASE router[d].attempts > 0
      <4>1. Current(d) \in Key /\ Current(d) # q
        BY <2>4, <2>11, <3>1, CallFacts, CurrentParts DEF IInv
      <4>2. Current(d)' = Current(d) /\ Last(d)' = Last(d)
        BY <2>8, <2>9, <4>1 DEF Current, Last
      <4>3. QED
        BY <2>1, <2>9, <4>2 DEF IInv, CallOK
    <3>2. CASE router[d].attempts = 0
      BY <2>9, <3>2 DEF IInv, CallOK
    <3>3. QED
      BY <3>1, <3>2, CallFacts
  <2>22. QED
    BY <2>10, <2>14, <2>15, <2>16, <2>17, <2>19, <2>20, <2>21 DEF IInv
<1>3. QED
  BY <1>1, <1>2 DEF Reserve

LEMMA MarkDispatchedStep ==
  ASSUME IInv, NEW c \in Caller, MarkDispatched(c)
  PROVE  IInv'
<1> DEFINE q == Current(c)
           r == [book[q] EXCEPT !.state = "DISPATCHED"]
<1>1. /\ router[c].pc = "mark" /\ book[q].state = "RESERVED"
      /\ book' = [book EXCEPT ![q].state = "DISPATCHED"]
      /\ router' = [router EXCEPT ![c].pc = "call"]
      /\ UNCHANGED <<today, wire, charge, sender>>
  BY DEF MarkDispatched, Transition, Goto, provider
<1>2. router[c].attempts > 0 /\ q \in Key /\ RequestOK(q) /\ book[q] \in Reservation
  BY <1>1, CallFacts DEF CallOK
<1>3. r \in Reservation /\ r.state = "DISPATCHED" /\ r.amount = book[q].amount
  BY <1>2 DEF Reservation, ReservationState
<1>4. book' = [book EXCEPT ![q] = r] /\ book'[q] = r
  BY <1>1, <1>2 DEF IInv, RouterTypeOK
<1>5. /\ router' \in [Caller -> Router]
      /\ \A d \in Caller \ {c} : router'[d] = router[d]
      /\ router'[c].attempts = router[c].attempts /\ router'[c].pc = "call"
  BY <1>1 DEF IInv, RouterTypeOK, Router, RouterPC
<1>6. \A k \in Key : k = q => RequestOK(k)'
  BY <1>1, <1>2, <1>3, <1>4 DEF RequestOK
<1>7. CallOK(c)'
  <2>1. Current(c)' = q
    BY <1>5 DEF Current
  <2>2. Last(c)' = "DISPATCHED" /\ wire'[Current(c)'] = "unsent"
    BY <1>1, <1>2, <1>3, <1>4, <2>1 DEF Last, RequestOK
  <2>3. QED
    BY <1>2, <1>5, <2>2 DEF CallOK
<1>8. QED
  BY <1>1, <1>2, <1>3, <1>4, <1>5, <1>6, <1>7, BookStep

LEMMA InvokeStep ==
  ASSUME IInv, NEW c \in Caller, Invoke(c)
  PROVE  IInv'
<1>1. router[c].pc = "call" /\ UNCHANGED <<book, today, charge>>
  BY DEF Invoke
<1>2. /\ router[c].attempts > 0 /\ Current(c) \in Key
      /\ Last(c) = "DISPATCHED" /\ wire[Current(c)] = "unsent"
  BY <1>1, CallFacts DEF CallOK
<1>3. CASE /\ router' = [router EXCEPT ![c].pc = "close", ![c].dispatched = FALSE]
           /\ UNCHANGED <<wire, sender>>
  <2>1. /\ router' \in [Caller -> Router]
        /\ \A d \in Caller \ {c} : router'[d] = router[d]
        /\ router'[c].attempts = router[c].attempts /\ router'[c].pc = "close"
    <3>. DEFINE n == [router[c] EXCEPT !.pc = "close", !.dispatched = FALSE]
    <3>1. router \in [Caller -> Router] /\ router' = [router EXCEPT ![c] = n]
      BY <1>3 DEF IInv, RouterTypeOK
    <3>2. n \in Router /\ n.attempts = router[c].attempts /\ n.pc = "close"
      BY <3>1 DEF Router, RouterPC
    <3>. HIDE DEF n
    <3>3. QED
      BY <3>1, <3>2
  <2>2. Current(c)' = Current(c) /\ Last(c)' = Last(c)
    BY <1>1, <2>1 DEF Current, Last
  <2>3. CallOK(c)'
    BY <1>2, <1>3, <2>1, <2>2 DEF CallOK
  <2>4. today' \in Day
    BY <1>1 DEF IInv, RouterTypeOK
  <2>5. QED
    BY <1>1, <1>3, <2>1, <2>3, <2>4, CallStep
<1>4. CASE /\ wire' = [wire EXCEPT ![Current(c)] = "sent"]
           /\ sender' = [sender EXCEPT ![Current(c)] = @ \cup {c}]
           /\ Goto(c, "wait")
  <2>1. /\ router' \in [Caller -> Router]
        /\ \A d \in Caller \ {c} : router'[d] = router[d]
        /\ router'[c].attempts = router[c].attempts /\ router'[c].pc = "wait"
    BY <1>4 DEF Goto, IInv, RouterTypeOK, Router, RouterPC
  <2>2. PICK q \in Key : q = Current(c)
    BY <1>2
  <2>3. /\ wire'[q] = "sent" /\ sender'[q] = sender[q] \cup {c}
        /\ \A k \in Key \ {q} : wire'[k] = wire[k] /\ sender'[k] = sender[k]
    BY <1>4, <2>2 DEF IInv, RouterTypeOK
  <2>4. RouterTypeOK'
    BY <1>1, <1>4, <2>1, <2>2 DEF IInv, RouterTypeOK
  <2>5. \A d \in Caller : router'[d].attempts = router[d].attempts
    BY <2>1
  <2>6. \A d \in Caller, k \in Key : Owns(d, k)' <=> Owns(d, k)
    BY <2>5 DEF Owns
  <2>7. Owned' /\ OwnerExists' /\ OneOwner' /\ EarlierFailed'
    <3>1. \A k \in Key : Exists(k)' <=> Exists(k)
      BY <1>1 DEF Exists
    <3>2. Owned' /\ OwnerExists'
      BY <2>6, <3>1 DEF IInv, Owned, OwnerExists
    <3>3. OneOwner' /\ EarlierFailed'
      BY <1>1, <2>5 DEF IInv, OneOwner, EarlierFailed
    <3>4. QED
      BY <3>2, <3>3
  <2>8. SentByOwner'
    <3>1. Owns(c, q)
      BY <2>2, CurrentParts DEF Owns, IInv
    <3>2. QED
      BY <2>3, <2>6, <3>1 DEF IInv, RouterTypeOK, SentByOwner
  <2>9. \A k \in Key : RequestOK(k)'
    <3>1. \A k \in Key \ {q} : RequestOK(k)'
      BY <1>1, <2>3 DEF IInv, RequestOK
    <3>2. RequestOK(q) /\ book[q].state = "DISPATCHED" /\ charge[q] \in Nat
      BY <1>2, <2>2 DEF IInv, RouterTypeOK, Last
    <3>3. charge[q] = 0
      BY <1>2, <2>2, <3>2 DEF RequestOK
    <3>4. RequestOK(q)'
      BY <1>1, <3>2, <3>3 DEF RequestOK
    <3>5. QED
      BY <3>1, <3>4
  <2>10. CallOK(c)'
    <3>1. Last(c)' = Last(c)
      BY <1>1, <2>1 DEF Last, Current
    <3>2. QED
      BY <1>2, <2>1, <3>1 DEF CallOK
  <2>11. \A d \in Caller \ {c} : CallOK(d)'
    <3> SUFFICES ASSUME NEW d \in Caller, d # c PROVE CallOK(d)'
      OBVIOUS
    <3>1. CASE router[d].attempts > 0
      <4>1. Current(d) \in Key /\ Owns(d, Current(d))
        BY <3>1, CurrentParts DEF IInv, Owns
      <4>2. Current(d) # q
        BY <1>2, <2>2, <4>1, Apart
      <4>3. /\ Current(d)' = Current(d) /\ Last(d)' = Last(d)
            /\ wire'[Current(d)] = wire[Current(d)]
        BY <1>1, <2>1, <2>3, <4>1, <4>2 DEF Current, Last
      <4>4. QED
        BY <1>1, <2>1, <4>3 DEF IInv, CallOK
    <3>2. CASE router[d].attempts = 0
      BY <2>1, <3>2 DEF IInv, CallOK
    <3>3. QED
      BY <3>1, <3>2, CallFacts
  <2>12. QED
    BY <2>4, <2>7, <2>8, <2>9, <2>10, <2>11 DEF IInv
<1>5. QED
  BY <1>3, <1>4 DEF Invoke

LEMMA ServeStep ==
  ASSUME IInv, NEW q \in Key, Serve(q)
  PROVE  IInv'
<1>1. wire[q] = "sent" /\ UNCHANGED <<book, today, router, sender>>
  BY DEF Serve
<1>2. /\ wire'[q] \in {"served", "dropped"} /\ wire' \in [Key -> {"unsent", "sent", "served", "dropped"}]
      /\ charge' \in [Key -> Nat] /\ (wire'[q] = "dropped" => charge' = charge)
      /\ \A k \in Key \ {q} : wire'[k] = wire[k] /\ charge'[k] = charge[k]
  <2>1. \A a \in 0..(Cost[q[1]] + Excess) : a \in Nat
    BY KeyParts, BudgetAssumption, RouterAssumption
  <2>2. QED
    BY <2>1 DEF Serve, IInv, RouterTypeOK
<1>3. RouterTypeOK'
  BY <1>1, <1>2 DEF IInv, RouterTypeOK
<1>4. \A d \in Caller, k \in Key : Owns(d, k)' <=> Owns(d, k)
  BY <1>1 DEF Owns
<1>5. Owned' /\ OwnerExists' /\ OneOwner' /\ EarlierFailed' /\ SentByOwner'
  <2>1. \A k \in Key : Exists(k)' <=> Exists(k)
    BY <1>1 DEF Exists
  <2>2. Owned' /\ OwnerExists'
    BY <1>4, <2>1 DEF IInv, Owned, OwnerExists
  <2>3. OneOwner' /\ EarlierFailed'
    BY <1>1 DEF IInv, OneOwner, EarlierFailed
  <2>4. SentByOwner'
    BY <1>1, <1>4 DEF IInv, RouterTypeOK, SentByOwner
  <2>5. QED
    BY <2>2, <2>3, <2>4
<1>6. \A k \in Key : RequestOK(k)'
  <2>1. \A k \in Key \ {q} : RequestOK(k)'
    BY <1>1, <1>2 DEF IInv, RequestOK
  <2>2. RequestOK(q)'
    BY <1>1, <1>2 DEF IInv, RequestOK, RouterTypeOK
  <2>3. QED
    BY <2>1, <2>2
<1>7. \A d \in Caller : CallOK(d)'
  <2> SUFFICES ASSUME NEW d \in Caller PROVE CallOK(d)'
    OBVIOUS
  <2>1. Current(d)' = Current(d) /\ Last(d)' = Last(d)
    BY <1>1 DEF Current, Last
  <2>2. CASE router[d].attempts > 0
    <3>1. Current(d) \in Key
      BY <2>2, CallFacts
    <3>2. CASE Current(d) = q
      BY <1>1, <2>1, <3>2 DEF IInv, CallOK
    <3>3. CASE Current(d) # q
      BY <1>1, <1>2, <2>1, <3>1, <3>3 DEF IInv, CallOK
    <3>4. QED
      BY <3>2, <3>3
  <2>3. CASE router[d].attempts = 0
    BY <1>1, <2>3 DEF IInv, CallOK
  <2>4. QED
    BY <2>2, <2>3, CallFacts
<1>8. QED
  BY <1>3, <1>5, <1>6, <1>7 DEF IInv

\* Respond and ProviderFails: the call learns something, nothing else changes.
LEMMA AnswerStep ==
  ASSUME IInv, NEW c \in Caller, Respond(c) \/ ProviderFails(c)
  PROVE  IInv'
<1>1. /\ router[c].pc = "wait"
      /\ UNCHANGED <<book, today, wire, charge, sender>>
  BY DEF Respond, ProviderFails, provider
<1>2. router[c].attempts > 0 /\ Current(c) \in Key /\ Last(c) = "DISPATCHED"
  BY <1>1, CallFacts DEF CallOK
<1>3. today' \in Day
  BY <1>1 DEF IInv, RouterTypeOK
<1>4. CASE ProviderFails(c)
  <2>1. /\ router' \in [Caller -> Router]
        /\ \A d \in Caller \ {c} : router'[d] = router[d]
        /\ router'[c].attempts = router[c].attempts
        /\ router'[c].pc = "close" /\ router'[c].dispatched
    <3>. DEFINE n == [router[c] EXCEPT !.pc = "close", !.dispatched = TRUE]
    <3>1. router \in [Caller -> Router] /\ router' = [router EXCEPT ![c] = n]
      BY <1>4 DEF ProviderFails, IInv, RouterTypeOK
    <3>2. n \in Router /\ n.attempts = router[c].attempts /\ n.pc = "close" /\ n.dispatched
      BY <3>1 DEF Router, RouterPC
    <3>. HIDE DEF n
    <3>3. QED
      BY <3>1, <3>2
  <2>2. Last(c)' = Last(c)
    BY <1>1, <2>1 DEF Last, Current
  <2>3. CallOK(c)'
    BY <1>2, <2>1, <2>2 DEF CallOK
  <2>4. QED
    BY <1>1, <1>3, <2>1, <2>3, CallStep
<1>5. CASE Respond(c)
  <2>1. PICK a \in {None} \cup (charge[Current(c)]..(Cost[InvocationOf[c]] + Excess)) :
               router' = [router EXCEPT ![c].pc = "settle", ![c].report = a]
    BY <1>5 DEF Respond
  <2>2. charge[Current(c)] \in Nat /\ Cost[InvocationOf[c]] \in Nat /\ Excess \in Nat
    BY <1>2, BudgetAssumption, RouterAssumption DEF IInv, RouterTypeOK
  <2>3. a \in Nat \cup {None} /\ (a # None => charge[Current(c)] <= a)
    BY <2>2
  <2>4. /\ router' \in [Caller -> Router]
        /\ \A d \in Caller \ {c} : router'[d] = router[d]
        /\ router'[c].attempts = router[c].attempts
        /\ router'[c].pc = "settle" /\ router'[c].report = a
    <3>. DEFINE n == [router[c] EXCEPT !.pc = "settle", !.report = a]
    <3>1. router \in [Caller -> Router] /\ router' = [router EXCEPT ![c] = n]
      BY <2>1 DEF IInv, RouterTypeOK
    <3>2. n \in Router /\ n.attempts = router[c].attempts /\ n.pc = "settle" /\ n.report = a
      BY <2>3, <3>1 DEF Router, RouterPC
    <3>. HIDE DEF n
    <3>3. QED
      BY <3>1, <3>2
  <2>5. Current(c)' = Current(c) /\ Last(c)' = Last(c)
    BY <1>1, <2>4 DEF Last, Current
  <2>6. wire[Current(c)] = "served"
    BY <1>5 DEF Respond
  <2>7. CallOK(c)'
    BY <1>1, <1>2, <2>3, <2>4, <2>5, <2>6 DEF CallOK
  <2>8. QED
    BY <1>1, <1>3, <2>4, <2>7, CallStep
<1>6. QED
  BY <1>4, <1>5

LEMMA CloseStep ==
  ASSUME IInv, NEW c \in Caller, Close(c)
  PROVE  IInv'
<1> DEFINE q == Current(c)
           x == IF router[c].dispatched THEN "UNCERTAIN" ELSE "RELEASED"
           r == [book[q] EXCEPT !.state = x]
<1>1. /\ router[c].pc = "close" /\ book[q].state = "DISPATCHED"
      /\ book' = [book EXCEPT ![q].state = x]
      /\ UNCHANGED <<today, wire, charge, sender>>
  BY DEF Close, Transition, provider
<1>2. PICK y \in {"attempt", "report"} :
         /\ router' = [router EXCEPT ![c].pc = y]
         /\ y = "attempt" => router[c].attempts < MaxAttempts
  BY DEF Close, Retry, GiveUp, Goto
<1>3. /\ router[c].attempts > 0 /\ q \in Key /\ RequestOK(q) /\ book[q] \in Reservation
      /\ router[c].dispatched \in BOOLEAN
  BY <1>1, CallFacts DEF CallOK, Router
<1>4. r \in Reservation /\ r.state = x /\ r.amount = book[q].amount /\ x \in Failed
  BY <1>3 DEF Reservation, ReservationState, Failed
<1>5. book' = [book EXCEPT ![q] = r] /\ book'[q] = r
  BY <1>1, <1>3 DEF IInv, RouterTypeOK
<1>6. /\ router' \in [Caller -> Router]
      /\ \A d \in Caller \ {c} : router'[d] = router[d]
      /\ router'[c].attempts = router[c].attempts /\ router'[c].pc = y
  BY <1>2 DEF IInv, RouterTypeOK, Router, RouterPC
<1>7. x = "RELEASED" => wire[q] = "unsent"
  BY <1>1, <1>3, CallFacts DEF CallOK
<1>8. \A k \in Key : k = q => RequestOK(k)'
  BY <1>1, <1>3, <1>4, <1>5, <1>7 DEF RequestOK, Failed
<1>9. CallOK(c)'
  <2>1. Last(c)' \in Failed
    BY <1>4, <1>5, <1>6 DEF Last, Current
  <2>2. QED
    BY <1>2, <1>3, <1>6, <2>1 DEF CallOK
<1>10. r.state # "NONE"
  BY <1>4 DEF Failed
<1>11. QED
  BY <1>1, <1>3, <1>4, <1>5, <1>6, <1>8, <1>9, <1>10, BookStep

LEMMA SettleResponseStep ==
  ASSUME IInv, NEW c \in Caller, SettleResponse(c)
  PROVE  IInv'
<1> DEFINE q == Current(c)
<1>1. router[c].pc = "settle" /\ UNCHANGED <<today, wire, charge, sender>>
  BY DEF SettleResponse, provider
<1>2. /\ router[c].attempts > 0 /\ q \in Key /\ RequestOK(q) /\ book[q] \in Reservation
      /\ book[q].state = "DISPATCHED" /\ wire[q] = "served"
      /\ router[c].report # None => router[c].report \in Nat /\ charge[q] <= router[c].report
  BY <1>1, CallFacts DEF CallOK, Router, Last
<1>3. CASE UNCHANGED book /\ Goto(c, "raised")
  BY <1>1, <1>3, MoveStep DEF Goto, RouterPC
<1>4. ASSUME NEW r \in Reservation, book' = [book EXCEPT ![q] = r],
             r.state \in {"SETTLED", "UNCERTAIN"},
             r.state = "SETTLED" => charge[q] <= r.amount,
             r.state = "UNCERTAIN" => r.amount = book[q].amount,
             router' = [router EXCEPT ![c].pc = "parse"]
      PROVE  IInv'
  <2>1. book'[q] = r
    BY <1>2, <1>4 DEF IInv, RouterTypeOK
  <2>2. /\ router' \in [Caller -> Router]
        /\ \A d \in Caller \ {c} : router'[d] = router[d]
        /\ router'[c].attempts = router[c].attempts /\ router'[c].pc = "parse"
    BY <1>4 DEF IInv, RouterTypeOK, Router, RouterPC
  <2>3. \A k \in Key : k = q => RequestOK(k)'
    BY <1>1, <1>2, <1>4, <2>1 DEF RequestOK
  <2>4. CallOK(c)'
    <3>1. Last(c)' \in {"SETTLED", "UNCERTAIN"}
      BY <1>4, <2>1, <2>2 DEF Last, Current
    <3>2. QED
      BY <1>2, <2>2, <3>1 DEF CallOK, Failed
  <2>5. r.state # "NONE"
    BY <1>4
  <2>6. QED
    BY <1>1, <1>2, <1>4, <2>2, <2>3, <2>4, <2>5, BookStep
<1>5. CASE Transition(q, "DISPATCHED", "UNCERTAIN") /\ Goto(c, "parse")
  <2> DEFINE r == [book[q] EXCEPT !.state = "UNCERTAIN"]
  <2>1. r \in Reservation /\ r.state = "UNCERTAIN" /\ r.amount = book[q].amount
    BY <1>2 DEF Reservation, ReservationState
  <2>2. book' = [book EXCEPT ![q] = r] /\ router' = [router EXCEPT ![c].pc = "parse"]
    BY <1>2, <1>5 DEF Transition, Goto, IInv, RouterTypeOK
  <2>3. QED
    BY <1>4, <2>1, <2>2
<1>6. CASE router[c].report # None /\ Settle(q, router[c].report) /\ Goto(c, "parse")
  <2> DEFINE r == [book[q] EXCEPT !.state = "SETTLED", !.amount = router[c].report]
  <2>1. r \in Reservation /\ r.state = "SETTLED" /\ r.amount = router[c].report
    BY <1>2, <1>6 DEF Reservation, ReservationState
  <2>2. book' = [book EXCEPT ![q] = r] /\ router' = [router EXCEPT ![c].pc = "parse"]
    BY <1>2, <1>6 DEF Settle, Goto, IInv, RouterTypeOK
  <2>3. QED
    BY <1>2, <1>4, <1>6, <2>1, <2>2
<1>7. QED
  BY <1>3, <1>5, <1>6 DEF SettleResponse

\* Every step keeps the invariant.
LEMMA NextIInv == IInv /\ [RouterNext]_vars => IInv'
<1> SUFFICES ASSUME IInv, [RouterNext]_vars PROVE IInv'
  OBVIOUS
<1>1. ASSUME NEW c \in Caller, RouterStep(c) PROVE IInv'
  <2>1. CASE Preflight(c)
    BY <2>1, MoveStep DEF Preflight, Goto, Result, RouterPC, provider
  <2>2. CASE Parse(c)
    BY <2>2, MoveStep DEF Parse, Result, RouterPC, provider
  <2>3. CASE Report(c)
    BY <2>3, MoveStep DEF Report, Result, RouterPC, provider
  <2>4. QED
    BY <1>1, <2>1, <2>2, <2>3, ReserveStep, MarkDispatchedStep, InvokeStep, AnswerStep,
       CloseStep, SettleResponseStep DEF RouterStep
<1>2. ASSUME NEW c \in Caller, LedgerRaises(c) \/ Stop(c) PROVE IInv'
  BY <1>2, MoveStep DEF LedgerRaises, Stop, Goto, RouterPC, provider
<1>3. ASSUME NEW k \in Key, Serve(k) PROVE IInv'
  BY <1>3, ServeStep
<1>4. ASSUME today' \in Day, UNCHANGED <<book, router, wire, charge, sender>> PROVE IInv'
  <2>1. CASE Caller = {}
    BY <1>4, <2>1 DEF IInv, RouterTypeOK, Owned, SentByOwner, OwnerExists, OneOwner, EarlierFailed,
                      RequestOK, Exists
  <2>2. CASE Caller # {}
    <3>1. PICK c \in Caller : TRUE
      BY <2>2
    <3>2. CallOK(c)'
      BY <1>4 DEF IInv, CallOK, Last, Current
    <3>3. QED
      BY <1>4, <3>2, CallStep DEF IInv, RouterTypeOK
  <2>3. QED
    BY <2>1, <2>2
<1>5. CASE Midnight /\ UNCHANGED <<router, telemetry, provider>>
  <2>1. today' \in Day
    BY <1>5, BudgetAssumption DEF Midnight, IInv, RouterTypeOK, Day
  <2>2. QED
    BY <1>4, <1>5, <2>1 DEF Midnight, provider
<1>6. CASE UNCHANGED vars
  BY <1>4, <1>6 DEF vars, IInv, RouterTypeOK
<1>7. QED
  BY <1>1, <1>2, <1>3, <1>5, <1>6 DEF RouterNext

\* The inductive invariant holds in every state of the router.
THEOREM Invariant == RouterSpec => []IInv
  BY InitIInv, NextIInv, PTL DEF RouterSpec

-----------------------------------------------------------------------------
(* The properties.                                                         *)

\* A charge within the estimate is held by its reservation.
LEMMA HeldCharge ==
  ASSUME IInv, NEW k \in Key, charge[k] > 0, charge[k] <= Cost[k[1]]
  PROVE  k \in Active /\ charge[k] <= book[k].amount
<1>1. RequestOK(k) /\ wire[k] = "served"
  BY DEF IInv, RequestOK
<1>2. book[k].state \in {"DISPATCHED", "UNCERTAIN", "SETTLED"}
  BY <1>1 DEF IInv, RouterTypeOK, RequestOK, Reservation, ReservationState
<1>3. QED
  BY <1>1, <1>2 DEF RequestOK, Active

\* A charge within the estimate stays in the ledger whatever happened to the
\* call: after a timeout, a retry, a cancellation or the end of the process,
\* for any number of calls and any limits.
THEOREM ChargesStayHeld == RouterSpec => []ChargesAreHeld
<1>1. IInv => ChargesAreHeld
  BY HeldCharge DEF ChargesAreHeld
<1>2. QED
  BY <1>1, Invariant, PTL

\* All requests of an invocation are sent by one call, one after the other,
\* however many calls bear its identity.
THEOREM OneSenderPerInvocation == RouterSpec => []OneSender
<1>1. IInv => OneSender
  <2> SUFFICES ASSUME IInv, NEW i \in Invocation
               PROVE  /\ Cardinality(UNION {sender[<<i, n>>] : n \in Attempt}) <= 1
                      /\ \A n \in Attempt : n > 1 /\ Exists(<<i, n>>) =>
                            book[<<i, n - 1>>].state \in {"UNCERTAIN", "RELEASED"}
    BY DEF OneSender
  <2> DEFINE U == UNION {sender[<<i, n>>] : n \in Attempt}
  <2>1. \A n \in Attempt : <<i, n>> \in Key /\ n \in Nat /\ n > 0
    BY BudgetAssumption DEF Key, Attempt
  <2>2. \A c \in U : c \in Caller /\ InvocationOf[c] = i /\ router[c].attempts > 0
    <3> SUFFICES ASSUME NEW n \in Attempt, NEW c \in sender[<<i, n>>]
                 PROVE  c \in Caller /\ InvocationOf[c] = i /\ router[c].attempts > 0
      OBVIOUS
    <3>1. c \in Caller /\ Owns(c, <<i, n>>)
      BY <2>1 DEF IInv, RouterTypeOK, SentByOwner
    <3>2. QED
      BY <2>1, <3>1, CallFacts DEF Owns
  <2>3. \A c, d \in U : c = d
    BY <2>2 DEF IInv, OneOwner
  <2> HIDE DEF U
  <2>4. Cardinality(U) <= 1
    <3>1. CASE U = {}
      <4>1. Cardinality(U) = 0
        BY <3>1, FS_EmptySet
      <4>2. QED
        BY <4>1
    <3>2. CASE U # {}
      <4>1. PICK c \in U : U = {c}
        BY <2>3, <3>2
      <4>2. Cardinality(U) = 1
        BY <4>1, FS_Singleton
      <4>3. QED
        BY <4>2
    <3>3. QED
      BY <3>1, <3>2
  <2>5. ASSUME NEW n \in Attempt, n > 1, Exists(<<i, n>>)
        PROVE  book[<<i, n - 1>>].state \in Failed
    <3>1. PICK c \in Caller : Owns(c, <<i, n>>)
      BY <2>1, <2>5 DEF IInv, Owned
    <3>2. n - 1 \in Attempt /\ i = InvocationOf[c] /\ n - 1 < router[c].attempts
      BY <2>5, <3>1, BudgetAssumption, CallFacts DEF Attempt, Owns
    <3>3. QED
      BY <2>1, <3>2 DEF IInv, EarlierFailed
  <2>6. QED
    BY <2>4, <2>5 DEF Failed, U
<1>2. QED
  BY <1>1, Invariant, PTL

\* A call that returns has closed each of its reservations.
THEOREM ReturnsClosed == RouterSpec => []AnsweredMeansClosed
<1>1. IInv => AnsweredMeansClosed
  <2> SUFFICES ASSUME IInv, NEW c \in Caller, router[c].pc \in {"output", "failure"},
                      NEW n \in 1..router[c].attempts
               PROVE  book[<<InvocationOf[c], n>>].state \in {"SETTLED", "RELEASED", "UNCERTAIN"}
    BY DEF AnsweredMeansClosed
  <2>1. router[c].attempts \in Nat /\ router[c].attempts <= MaxAttempts /\ CallOK(c)
    BY CallFacts, CurrentParts DEF IInv
  <2>2. n \in Nat /\ n >= 1 /\ n <= router[c].attempts
    BY <2>1
  <2>3. <<InvocationOf[c], n>> \in Key
    BY <2>1, <2>2, BudgetAssumption, RouterAssumption DEF Key, Attempt
  <2>4. CASE n < router[c].attempts
    BY <2>3, <2>4 DEF IInv, EarlierFailed, Failed
  <2>5. CASE n = router[c].attempts
    BY <2>1, <2>2, <2>5 DEF CallOK, Last, Current, Failed
  <2>6. QED
    BY <2>1, <2>2, <2>4, <2>5
<1>2. QED
  BY <1>1, Invariant, PTL

\* The ledger, the calls and the provider keep their types.
THEOREM RouterTypeCorrect == RouterSpec => []RouterTypeOK
<1>1. IInv => RouterTypeOK
  BY DEF IInv
<1>2. QED
  BY <1>1, Invariant, PTL
-----------------------------------------------------------------------------
(* Sums over finite sets.                                                  *)

\* The element that is added first.
First(s) == CHOOSE x \in s : TRUE

\* What the recursive function under a sum satisfies, for the sets of at most
\* n elements and for all.
SummingUpTo(f, S, n, g) ==
    \A s \in SUBSET S : Cardinality(s) <= n =>
        g[s] = IF s = {} THEN 0 ELSE f[First(s)] + g[s \ {First(s)}]
Summing(f, S, g) ==
    g = [s \in SUBSET S |-> IF s = {} THEN 0 ELSE f[First(s)] + g[s \ {First(s)}]]

\* A non-empty set of finite sets has one with the fewest elements.
LEMMA Fewest ==
  ASSUME NEW B, B # {}, \A S \in B : IsFiniteSet(S)
  PROVE  \E S \in B : \A T \in B : Cardinality(S) <= Cardinality(T)
<1> DEFINE N == {Cardinality(S) : S \in B}
<1>1. N \subseteq Nat /\ N # {}
  BY FS_CardinalityType
<1>2. PICK n \in N : \A m \in N : ~ (<<m, n>> \in OpToRel(<, Nat))
  <2> HIDE DEF N
  <2>1. QED
    BY <1>1, NatLessThanWellFounded, WFMin, Zenon
<1>3. \A m \in N : ~ (m < n)
  <2> HIDE DEF N
  <2>1. QED
    BY <1>1, <1>2 DEF OpToRel
<1>4. \A m \in N : n <= m
  <2> HIDE DEF N
  <2>1. QED
    BY <1>1, <1>3
<1>5. QED
  BY <1>4

\* The subsets of a finite set, by their number of elements.
LEMMA Sizes ==
  ASSUME NEW S, IsFiniteSet(S)
  PROVE  /\ \A s \in SUBSET S : Cardinality(s) \in Nat /\ (Cardinality(s) = 0 <=> s = {})
         /\ \A s \in SUBSET S : s # {} =>
               First(s) \in s /\ Cardinality(s \ {First(s)}) = Cardinality(s) - 1
<1>1. \A s \in SUBSET S : IsFiniteSet(s) /\ Cardinality(s) \in Nat
  BY FS_Subset, FS_CardinalityType
<1>2. Cardinality({}) = 0
  BY FS_EmptySet
<1>3. ASSUME NEW s \in SUBSET S, s # {}
      PROVE  First(s) \in s /\ Cardinality(s \ {First(s)}) = Cardinality(s) - 1
  <2>1. First(s) \in s
    BY <1>3 DEF First
  <2>2. QED
    BY <1>1, <2>1, FS_RemoveElement
<1>4. ASSUME NEW s \in SUBSET S, s # {} PROVE Cardinality(s) # 0
  <2>1. s \ {First(s)} \in SUBSET S
    OBVIOUS
  <2>2. Cardinality(s \ {First(s)}) \in Nat
    BY <1>1, <2>1
  <2>3. Cardinality(s \ {First(s)}) = Cardinality(s) - 1
    BY <1>3, <1>4
  <2>4. QED
    BY <1>1, <2>2, <2>3
<1>5. QED
  BY <1>1, <1>2, <1>3, <1>4

\* The function of the sets of one more element.
LEMMA SumOneMore ==
  ASSUME NEW S, IsFiniteSet(S), NEW f, \A x \in S : f[x] \in Nat,
         NEW n \in Nat, n # 0, NEW g \in [SUBSET S -> Nat], SummingUpTo(f, S, n - 1, g)
  PROVE  \E h \in [SUBSET S -> Nat] : SummingUpTo(f, S, n, h)
<1> DEFINE h == [s \in SUBSET S |->
                    IF Cardinality(s) <= n - 1 THEN g[s] ELSE f[First(s)] + g[s \ {First(s)}]]
<1>1. \A s \in SUBSET S : g[s] \in Nat /\ s \ {First(s)} \in SUBSET S
  OBVIOUS
<1>2. ASSUME NEW s \in SUBSET S, ~ (Cardinality(s) <= n - 1) PROVE s # {}
  BY <1>2, Sizes
<1>3. h \in [SUBSET S -> Nat]
  <2> SUFFICES ASSUME NEW s \in SUBSET S, ~ (Cardinality(s) <= n - 1)
               PROVE  f[First(s)] + g[s \ {First(s)}] \in Nat
    BY <1>1
  <2>1. f[First(s)] \in Nat
    BY <1>2, Sizes
  <2>2. QED
    BY <1>1, <2>1
<1>4. ASSUME NEW s \in SUBSET S, Cardinality(s) <= n
      PROVE  h[s] = IF s = {} THEN 0 ELSE f[First(s)] + h[s \ {First(s)}]
  <2>1. CASE s = {}
    <3>1. Cardinality(s) = 0 /\ 0 <= n - 1
      BY <2>1, Sizes
    <3>2. QED
      BY <2>1, <3>1 DEF SummingUpTo
  <2>2. CASE s # {}
    <3>1. /\ s \ {First(s)} \in SUBSET S
          /\ Cardinality(s \ {First(s)}) <= n - 1
      BY <1>4, <2>2, Sizes
    <3>2. h[s \ {First(s)}] = g[s \ {First(s)}]
      BY <3>1
    <3>3. h[s] = f[First(s)] + g[s \ {First(s)}]
      BY <2>2 DEF SummingUpTo
    <3>4. QED
      BY <2>2, <3>2, <3>3
  <2>3. QED
    BY <2>1, <2>2
<1>5. SummingUpTo(f, S, n, h)
  BY <1>4 DEF SummingUpTo
<1>6. QED
  BY <1>3, <1>5

\* The function exists, up to any number of elements and for all of them.
LEMMA SumExists ==
  ASSUME NEW S, IsFiniteSet(S), NEW f, \A x \in S : f[x] \in Nat
  PROVE  \E g \in [SUBSET S -> Nat] : Summing(f, S, g)
<1> DEFINE B == {n \in Nat : ~ \E g \in [SUBSET S -> Nat] : SummingUpTo(f, S, n, g)}
<1>1. B \subseteq Nat
  OBVIOUS
<1>2. ASSUME B # {} PROVE FALSE
  <2>1. PICK n \in B : \A m \in B : ~ (<<m, n>> \in OpToRel(<, Nat))
    <3> HIDE DEF B
    <3>1. QED
      BY <1>1, <1>2, NatLessThanWellFounded, WFMin, Zenon
  <2>2. \A m \in Nat : m < n => m \notin B
    <3> HIDE DEF B
    <3>1. QED
      BY <1>1, <2>1 DEF OpToRel
  <2>3. CASE n = 0
    <3> DEFINE z == [s \in SUBSET S |-> 0]
    <3>1. \A s \in SUBSET S : Cardinality(s) <= n => s = {}
      BY <2>3, Sizes
    <3>2. SummingUpTo(f, S, n, z) /\ z \in [SUBSET S -> Nat]
      BY <3>1 DEF SummingUpTo
    <3>3. QED
      BY <3>2
  <2>4. CASE n # 0
    <3>1. n \in Nat /\ n - 1 \in Nat /\ n - 1 < n
      BY <2>4
    <3>2. PICK g \in [SUBSET S -> Nat] : SummingUpTo(f, S, n - 1, g)
      BY <2>2, <3>1
    <3>3. \E h \in [SUBSET S -> Nat] : SummingUpTo(f, S, n, h)
      BY <2>4, <3>1, <3>2, SumOneMore
    <3>4. QED
      BY <2>1, <3>3
  <2>5. QED
    BY <2>3, <2>4
<1>3. PICK n \in Nat : n = Cardinality(S)
  BY FS_CardinalityType
<1>4. PICK g \in [SUBSET S -> Nat] : SummingUpTo(f, S, n, g)
  BY <1>2
<1>5. \A s \in SUBSET S : Cardinality(s) <= n
  BY <1>3, FS_Subset
<1>6. Summing(f, S, g)
  BY <1>4, <1>5 DEF SummingUpTo, Summing
<1>7. QED
  BY <1>6

\* The functions under the sums of a set and of a subset agree.
LEMMA SumAgree ==
  ASSUME NEW S, IsFiniteSet(S), NEW U \in SUBSET S, NEW f, NEW g, NEW h,
         Summing(f, S, g), Summing(f, U, h)
  PROVE  \A u \in SUBSET U : g[u] = h[u]
<1> DEFINE B == {u \in SUBSET U : g[u] # h[u]}
<1> SUFFICES ASSUME B # {} PROVE FALSE
  OBVIOUS
<1>1. \A u \in B : IsFiniteSet(u)
  BY FS_Subset
<1>2. PICK u \in B : \A v \in B : Cardinality(u) <= Cardinality(v)
  <2> HIDE DEF B
  <2>1. QED
    BY <1>1, Fewest
<1>3. u \in SUBSET S /\ u \in SUBSET U /\ g[u] # h[u]
  OBVIOUS
<1>4. /\ g[u] = IF u = {} THEN 0 ELSE f[First(u)] + g[u \ {First(u)}]
      /\ h[u] = IF u = {} THEN 0 ELSE f[First(u)] + h[u \ {First(u)}]
  BY <1>3 DEF Summing
<1>5. u # {} /\ g[u \ {First(u)}] # h[u \ {First(u)}]
  BY <1>3, <1>4
<1>6. u \ {First(u)} \in B
  BY <1>3, <1>5
<1>7. Cardinality(u \ {First(u)}) = Cardinality(u) - 1 /\ Cardinality(u) \in Nat
  BY <1>3, <1>5, Sizes
<1>8. Cardinality(u) <= Cardinality(u \ {First(u)})
  BY <1>2, <1>6
<1>9. QED
  BY <1>7, <1>8

\* What a sum is: nothing for no element, else one element and the rest.
LEMMA SumUnfolds ==
  ASSUME NEW S, IsFiniteSet(S), NEW f, \A x \in S : f[x] \in Nat
  PROVE  /\ SumFunctionOnSet(f, S) \in Nat
         /\ S = {} => SumFunctionOnSet(f, S) = 0
         /\ S # {} => SumFunctionOnSet(f, S) =
                         f[First(S)] + SumFunctionOnSet(f, S \ {First(S)})
<1> DEFINE Under(U) == CHOOSE g : Summing(f, U, g)
<1>1. ASSUME NEW U \in SUBSET S PROVE Summing(f, U, Under(U))
  <2>1. IsFiniteSet(U) /\ \A x \in U : f[x] \in Nat
    BY FS_Subset
  <2>2. \E g : Summing(f, U, g)
    BY <2>1, SumExists
  <2>3. QED
    BY <2>2
<1>2. ASSUME NEW U \in SUBSET S PROVE SumFunctionOnSet(f, U) = Under(U)[U]
  BY DEF SumFunctionOnSet, FoldFunctionOnSet, MapThenFoldSet, Summing, First
<1> HIDE DEF Under
<1>3. PICK g \in [SUBSET S -> Nat] : Summing(f, S, g)
  BY SumExists
<1>4. \A U \in SUBSET S : SumFunctionOnSet(f, U) = g[U]
  <2> SUFFICES ASSUME NEW U \in SUBSET S PROVE SumFunctionOnSet(f, U) = g[U]
    OBVIOUS
  <2>1. Summing(f, U, Under(U)) /\ SumFunctionOnSet(f, U) = Under(U)[U]
    BY <1>1, <1>2
  <2>2. \A u \in SUBSET U : g[u] = Under(U)[u]
    BY <1>3, <2>1, SumAgree
  <2>3. QED
    BY <2>1, <2>2
<1>5. g[S] = IF S = {} THEN 0 ELSE f[First(S)] + g[S \ {First(S)}]
  BY <1>3 DEF Summing
<1>6. S \in SUBSET S /\ S \ {First(S)} \in SUBSET S
  OBVIOUS
<1>7. QED
  BY <1>3, <1>4, <1>5, <1>6

\* Any element may be added last.
LEMMA SumWithout ==
  ASSUME NEW S, IsFiniteSet(S), NEW f, \A x \in S : f[x] \in Nat, NEW a \in S
  PROVE  SumFunctionOnSet(f, S) = f[a] + SumFunctionOnSet(f, S \ {a})
<1> DEFINE Sum(U) == SumFunctionOnSet(f, U)
           B == {U \in SUBSET S : \E x \in U : Sum(U) # f[x] + Sum(U \ {x})}
<1> SUFFICES ASSUME B # {} PROVE FALSE
  OBVIOUS
<1> HIDE DEF Sum
<1>1. \A U \in SUBSET S : IsFiniteSet(U)
  BY FS_Subset
<1>2. PICK U \in B : \A V \in B : Cardinality(U) <= Cardinality(V)
  <2>1. \A V \in B : IsFiniteSet(V)
    BY <1>1
  <2> HIDE DEF B
  <2>2. QED
    BY <2>1, Fewest
<1>3. \A V \in SUBSET S : /\ Sum(V) \in Nat
                          /\ V # {} => /\ First(V) \in V
                                       /\ Sum(V) = f[First(V)] + Sum(V \ {First(V)})
  <2> SUFFICES ASSUME NEW V \in SUBSET S
               PROVE  /\ Sum(V) \in Nat
                      /\ V # {} => /\ First(V) \in V
                                   /\ Sum(V) = f[First(V)] + Sum(V \ {First(V)})
    OBVIOUS
  <2>1. IsFiniteSet(V) /\ \A x \in V : f[x] \in Nat
    BY <1>1
  <2>2. V # {} => First(V) \in V
    BY DEF First
  <2>3. QED
    BY <2>1, <2>2, SumUnfolds DEF Sum
<1>4. PICK x \in U : Sum(U) # f[x] + Sum(U \ {x})
  OBVIOUS
<1>5. PICK y : y = First(U)
  OBVIOUS
<1>6. /\ y \in U /\ x # y /\ U \in SUBSET S
      /\ Sum(U) = f[y] + Sum(U \ {y})
  BY <1>3, <1>4, <1>5
<1>7. \A z \in U : U \ {z} \notin B
  <2> SUFFICES ASSUME NEW z \in U, U \ {z} \in B PROVE FALSE
    OBVIOUS
  <2>1. Cardinality(U \ {z}) = Cardinality(U) - 1 /\ Cardinality(U) \in Nat
    BY <1>1, <1>6, FS_RemoveElement, FS_CardinalityType
  <2>2. Cardinality(U) <= Cardinality(U \ {z})
    BY <1>2
  <2>3. QED
    BY <2>1, <2>2
<1>8. Sum(U \ {y}) = f[x] + Sum((U \ {y}) \ {x})
  BY <1>6, <1>7
<1>9. Sum(U \ {x}) = f[y] + Sum((U \ {x}) \ {y})
  BY <1>6, <1>7
<1>10. (U \ {x}) \ {y} = (U \ {y}) \ {x}
  OBVIOUS
<1>11. f[x] \in Nat /\ f[y] \in Nat /\ Sum((U \ {y}) \ {x}) \in Nat
  BY <1>3, <1>6
<1>12. QED
  BY <1>4, <1>6, <1>8, <1>9, <1>10, <1>11

\* A sum is no greater than another one that has each of its elements that
\* count, with no smaller an amount.
LEMMA SumAtMost ==
  ASSUME NEW T, IsFiniteSet(T), NEW f, \A x \in T : f[x] \in Nat,
         NEW S, IsFiniteSet(S), NEW g, \A x \in S : g[x] \in Nat,
         \A x \in T : f[x] = 0 \/ (x \in S /\ f[x] <= g[x])
  PROVE  SumFunctionOnSet(f, T) <= SumFunctionOnSet(g, S)
<1> DEFINE Small(U) == SumFunctionOnSet(f, U)
           Great(V) == SumFunctionOnSet(g, V)
           Below(U, V) == \A x \in U : f[x] = 0 \/ (x \in V /\ f[x] <= g[x])
           B == {U \in SUBSET T : \E V \in SUBSET S : Below(U, V) /\ ~ (Small(U) <= Great(V))}
<1> SUFFICES ASSUME B # {} PROVE FALSE
  OBVIOUS
<1> HIDE DEF Small, Great
<1>1. \A U \in SUBSET T : IsFiniteSet(U)
  BY FS_Subset
<1>2. PICK U \in B : \A W \in B : Cardinality(U) <= Cardinality(W)
  <2>1. \A W \in B : IsFiniteSet(W)
    BY <1>1
  <2> HIDE DEF B
  <2>2. QED
    BY <2>1, Fewest
<1>3. U \in SUBSET T
  OBVIOUS
<1>4. PICK V \in SUBSET S : Below(U, V) /\ ~ (Small(U) <= Great(V))
  OBVIOUS
<1>5. Great(V) \in Nat /\ \A x \in V : Great(V) = g[x] + Great(V \ {x}) /\ g[x] \in Nat
  <2>1. IsFiniteSet(V) /\ \A x \in V : g[x] \in Nat
    BY FS_Subset
  <2>2. QED
    BY <2>1, SumUnfolds, SumWithout DEF Great
<1>6. /\ Small(U) \in Nat
      /\ U = {} => Small(U) = 0
      /\ \A x \in U : Small(U) = f[x] + Small(U \ {x}) /\ f[x] \in Nat
  <2>1. IsFiniteSet(U) /\ \A x \in U : f[x] \in Nat
    BY <1>1, <1>3
  <2>2. QED
    BY <2>1, SumUnfolds, SumWithout DEF Small
<1>7. U # {}
  BY <1>4, <1>5, <1>6
<1>8. PICK x \in U : TRUE
  BY <1>7
<1>9. U \ {x} \notin B
  <2>1. Cardinality(U \ {x}) = Cardinality(U) - 1 /\ Cardinality(U) \in Nat
    BY <1>1, <1>3, FS_RemoveElement, FS_CardinalityType
  <2>2. U \ {x} \in B => Cardinality(U) <= Cardinality(U \ {x})
    BY <1>2
  <2> HIDE DEF B
  <2>3. QED
    BY <2>1, <2>2
<1>10. \A W \in SUBSET S : Below(U \ {x}, W) => Small(U \ {x}) <= Great(W)
  BY <1>3, <1>9
<1>11. Small(U \ {x}) \in Nat
  <2>1. IsFiniteSet(U \ {x}) /\ \A z \in U \ {x} : f[z] \in Nat
    BY <1>1, <1>3
  <2>2. QED
    BY <2>1, SumUnfolds DEF Small
<1>12. CASE f[x] = 0
  <2>1. Below(U \ {x}, V)
    BY <1>4
  <2>2. Small(U) = Small(U \ {x})
    BY <1>6, <1>11, <1>12
  <2>3. QED
    BY <1>4, <1>10, <2>1, <2>2
<1>13. CASE f[x] # 0
  <2>1. x \in V /\ f[x] <= g[x]
    BY <1>4, <1>13
  <2>2. Below(U \ {x}, V \ {x})
    BY <1>4
  <2>3. Small(U \ {x}) <= Great(V \ {x})
    BY <1>10, <2>2
  <2>4. Great(V \ {x}) \in Nat
    <3>1. IsFiniteSet(V \ {x}) /\ \A z \in V \ {x} : g[z] \in Nat
      BY FS_Subset
    <3>2. QED
      BY <3>1, SumUnfolds DEF Great
  <2>5. Small(U) = f[x] + Small(U \ {x}) /\ Great(V) = g[x] + Great(V \ {x})
        /\ f[x] \in Nat /\ g[x] \in Nat
    BY <1>5, <1>6, <2>1
  <2>6. QED
    BY <1>4, <1>11, <2>1, <2>3, <2>4, <2>5
<1>14. QED
  BY <1>12, <1>13

-----------------------------------------------------------------------------
(* The limits of the policy.                                               *)

Amounts == [k \in Key |-> book[k].amount]

\* Finitely many reservations count, and they keep within the limits.
LedgerInv == IsFiniteSet(Active) /\ WithinPolicy

\* What the sets that the limits speak of have in common.
LEMMA LedgerSets ==
  ASSUME RouterTypeOK, IsFiniteSet(Active), NEW S \in SUBSET Active
  PROVE  /\ IsFiniteSet(S) /\ Cardinality(S) \in Nat
         /\ \A k \in S : k \in Key /\ Amounts[k] = book[k].amount /\ Amounts[k] \in Nat
         /\ Total(S) = SumFunctionOnSet(Amounts, S) /\ Total(S) \in Nat
<1>1. IsFiniteSet(S) /\ Cardinality(S) \in Nat
  BY FS_Subset, FS_CardinalityType
<1>2. \A k \in S : k \in Key /\ Amounts[k] = book[k].amount /\ Amounts[k] \in Nat
  BY DEF RouterTypeOK, Reservation, Active, Amounts
<1>3. Total(S) = SumFunctionOnSet(Amounts, S)
  BY DEF Total, Amounts
<1>4. SumFunctionOnSet(Amounts, S) \in Nat
  BY <1>1, <1>2, SumUnfolds
<1>5. QED
  BY <1>1, <1>2, <1>3, <1>4

\* If reservations are only closed or lowered, a part of them never holds
\* more than it did.
LEMMA Shrinks ==
  ASSUME RouterTypeOK, RouterTypeOK', IsFiniteSet(Active), IsFiniteSet(Active'),
         NEW S \in SUBSET Active, NEW T \in SUBSET Active', T \subseteq S,
         \A k \in T : book'[k].amount <= book[k].amount
  PROVE  /\ Cardinality(T) <= Cardinality(S) /\ Cardinality(T) \in Nat /\ Cardinality(S) \in Nat
         /\ Total(T)' <= Total(S) /\ Total(T)' \in Nat /\ Total(S) \in Nat
<1>1. /\ IsFiniteSet(S) /\ Cardinality(S) \in Nat /\ Total(S) \in Nat
      /\ Total(S) = SumFunctionOnSet(Amounts, S)
      /\ \A k \in S : Amounts[k] = book[k].amount /\ Amounts[k] \in Nat
  BY LedgerSets
<1>2. /\ IsFiniteSet(T) /\ Cardinality(T) \in Nat
      /\ \A k \in T : k \in Key
  BY FS_Subset, FS_CardinalityType DEF Active
<1>3. /\ Total(T)' = SumFunctionOnSet(Amounts', T)
      /\ \A k \in T : Amounts'[k] = book'[k].amount /\ Amounts'[k] \in Nat
  BY <1>2 DEF Total, Amounts, RouterTypeOK, Reservation
<1>4. SumFunctionOnSet(Amounts', T) \in Nat
  BY <1>2, <1>3, SumUnfolds
<1>5. \A k \in T : Amounts'[k] = 0 \/ (k \in S /\ Amounts'[k] <= Amounts[k])
  BY <1>1, <1>3
<1>6. SumFunctionOnSet(Amounts', T) <= SumFunctionOnSet(Amounts, S)
  BY <1>1, <1>2, <1>3, <1>5, SumAtMost
<1>7. QED
  BY <1>1, <1>2, <1>3, <1>4, <1>6, FS_Subset

\* A new reservation adds one call and its amount.
LEMMA Grows ==
  ASSUME RouterTypeOK, RouterTypeOK', IsFiniteSet(Active), NEW S \in SUBSET Active,
         NEW q \in Key, q \notin S, \A k \in Key \ {q} : book'[k] = book[k],
         NEW T, T = S \cup {q}
  PROVE  /\ Cardinality(T) = Cardinality(S) + 1 /\ Cardinality(S) \in Nat
         /\ Total(T)' <= Total(S) + book'[q].amount
         /\ Total(T)' \in Nat /\ Total(S) \in Nat /\ book'[q].amount \in Nat
<1>1. /\ IsFiniteSet(S) /\ Cardinality(S) \in Nat /\ Total(S) \in Nat
      /\ Total(S) = SumFunctionOnSet(Amounts, S)
      /\ \A k \in S : k \in Key /\ Amounts[k] = book[k].amount /\ Amounts[k] \in Nat
  BY LedgerSets
<1>2. IsFiniteSet(T) /\ Cardinality(T) = Cardinality(S) + 1
  BY <1>1, FS_AddElement
<1>3. /\ Total(T)' = SumFunctionOnSet(Amounts', T)
      /\ \A k \in T : Amounts'[k] = book'[k].amount /\ Amounts'[k] \in Nat
  BY <1>1 DEF Total, Amounts, RouterTypeOK, Reservation
<1>4. q \in T /\ T \ {q} = S
  OBVIOUS
<1>5. SumFunctionOnSet(Amounts', T) = Amounts'[q] + SumFunctionOnSet(Amounts', S)
  BY <1>2, <1>3, <1>4, SumWithout
<1>6. \A k \in S : Amounts'[k] \in Nat /\ (Amounts'[k] = 0 \/ (k \in S /\ Amounts'[k] <= Amounts[k]))
  BY <1>1, <1>3
<1>7. SumFunctionOnSet(Amounts', S) <= SumFunctionOnSet(Amounts, S)
  BY <1>1, <1>6, SumAtMost
<1>8. SumFunctionOnSet(Amounts', S) \in Nat
  BY <1>1, <1>6, SumUnfolds
<1>9. QED
  BY <1>1, <1>2, <1>3, <1>4, <1>5, <1>7, <1>8

\* Closing and lowering reservations keeps the limits.
LEMMA LimitsShrink ==
  ASSUME RouterTypeOK, RouterTypeOK', LedgerInv,
         \A k \in Active' : /\ k \in Active /\ book'[k].day = book[k].day
                            /\ book'[k].amount <= book[k].amount
  PROVE  LedgerInv'
<1>1. IsFiniteSet(Active) /\ IsFiniteSet(Active')
  BY FS_Subset DEF LedgerInv
<1>2. \A i \in Invocation : Cardinality(SameCycle(i)') <= CallsPerCycle
  <2> SUFFICES ASSUME NEW i \in Invocation PROVE Cardinality(SameCycle(i)') <= CallsPerCycle
    OBVIOUS
  <2>1. /\ SameCycle(i) \in SUBSET Active /\ SameCycle(i)' \in SUBSET Active'
        /\ SameCycle(i)' \subseteq SameCycle(i)
    BY DEF SameCycle
  <2>2. /\ Cardinality(SameCycle(i)') <= Cardinality(SameCycle(i))
        /\ Cardinality(SameCycle(i)') \in Nat /\ Cardinality(SameCycle(i)) \in Nat
    BY <1>1, <2>1, Shrinks
  <2>3. Cardinality(SameCycle(i)) <= CallsPerCycle /\ CallsPerCycle \in Nat
    BY BudgetAssumption DEF LedgerInv, WithinPolicy
  <2>4. QED
    BY <2>2, <2>3
<1>3. ASSUME NEW d \in Day
      PROVE  /\ Cardinality(SameDay(d)') <= CallsPerDay
             /\ Total(SameDay(d))' <= DailyBudget
             /\ Total(SameMonth(d))' <= MonthlyBudget
  <2>1. /\ SameDay(d) \in SUBSET Active /\ SameDay(d)' \in SUBSET Active'
        /\ SameDay(d)' \subseteq SameDay(d)
        /\ \A k \in SameDay(d)' : book'[k].amount <= book[k].amount
    BY DEF SameDay
  <2>2. /\ SameMonth(d) \in SUBSET Active /\ SameMonth(d)' \in SUBSET Active'
        /\ SameMonth(d)' \subseteq SameMonth(d)
        /\ \A k \in SameMonth(d)' : book'[k].amount <= book[k].amount
    BY DEF SameMonth
  <2>3. PICK D \in SUBSET Active' : D = SameDay(d)'
    BY <2>1
  <2>4. PICK M \in SUBSET Active' : M = SameMonth(d)'
    BY <2>2
  <2>5. /\ Cardinality(D) <= Cardinality(SameDay(d))
        /\ Cardinality(D) \in Nat /\ Cardinality(SameDay(d)) \in Nat
        /\ Total(D)' <= Total(SameDay(d)) /\ Total(D)' \in Nat /\ Total(SameDay(d)) \in Nat
    BY <1>1, <2>1, <2>3, Shrinks
  <2>6. Total(M)' <= Total(SameMonth(d)) /\ Total(M)' \in Nat /\ Total(SameMonth(d)) \in Nat
    BY <1>1, <2>2, <2>4, Shrinks
  <2>7. Total(SameDay(d))' = Total(D)' /\ Total(SameMonth(d))' = Total(M)'
    BY <2>3, <2>4 DEF Total
  <2>8. /\ Cardinality(SameDay(d)) <= CallsPerDay /\ CallsPerDay \in Nat
        /\ Total(SameDay(d)) <= DailyBudget /\ DailyBudget \in Nat
        /\ Total(SameMonth(d)) <= MonthlyBudget /\ MonthlyBudget \in Nat
    BY BudgetAssumption DEF LedgerInv, WithinPolicy
  <2>9. QED
    BY <2>3, <2>5, <2>6, <2>7, <2>8
<1>4. QED
  BY <1>1, <1>2, <1>3 DEF LedgerInv, WithinPolicy

\* A reservation that the limits admit keeps them, those of the coming days
\* of the same month included.
LEMMA LimitsGrow ==
  ASSUME RouterTypeOK, RouterTypeOK', LedgerInv, NEW i \in Invocation, NEW n,
         NEW q \in Key, q = <<i, n>>, ReserveIfWithin(i, n)
  PROVE  LedgerInv'
<1>1. /\ book'[q].state = "RESERVED" /\ book'[q].amount = Cost[i] /\ book'[q].day = today
      /\ \A k \in Key \ {q} : book'[k] = book[k]
  BY DEF ReserveIfWithin, RouterTypeOK
<1>2. q \notin Active /\ Active' = Active \cup {q}
  BY <1>1 DEF ReserveIfWithin, Fresh, Exists, Active
<1>3. IsFiniteSet(Active) /\ IsFiniteSet(Active')
  BY <1>2, FS_AddElement DEF LedgerInv
<1>4. /\ {CallsPerCycle, CallsPerDay, DailyBudget, MonthlyBudget} \subseteq Nat
      /\ Cost[i] \in Nat /\ q[1] = i
  BY BudgetAssumption
<1>5. ASSUME NEW j \in Invocation PROVE Cardinality(SameCycle(j)') <= CallsPerCycle
  <2>1. CASE CycleOf[j] = CycleOf[i]
    <3>1. /\ SameCycle(j)' = SameCycle(i) \cup {q} /\ q \notin SameCycle(i)
          /\ SameCycle(i) \in SUBSET Active
      BY <1>2, <1>4, <2>1 DEF SameCycle
    <3>2. PICK T : T = SameCycle(j)'
      OBVIOUS
    <3>3. Cardinality(T) = Cardinality(SameCycle(i)) + 1 /\ Cardinality(SameCycle(i)) \in Nat
      BY <1>1, <1>3, <3>1, <3>2, Grows
    <3>4. Cardinality(SameCycle(i)) < CallsPerCycle
      BY DEF ReserveIfWithin, Within
    <3>5. QED
      BY <1>4, <3>2, <3>3, <3>4
  <2>2. CASE CycleOf[j] # CycleOf[i]
    <3>1. SameCycle(j)' = SameCycle(j)
      BY <1>2, <1>4, <2>2 DEF SameCycle
    <3>2. QED
      BY <3>1 DEF LedgerInv, WithinPolicy
  <2>3. QED
    BY <2>1, <2>2
<1>6. ASSUME NEW d \in Day
      PROVE  Cardinality(SameDay(d)') <= CallsPerDay /\ Total(SameDay(d))' <= DailyBudget
  <2>1. CASE d = today
    <3>1. /\ SameDay(d)' = SameDay(today) \cup {q} /\ q \notin SameDay(today)
          /\ SameDay(today) \in SUBSET Active
      BY <1>1, <1>2, <2>1 DEF SameDay, Active
    <3>2. PICK T : T = SameDay(d)'
      OBVIOUS
    <3>3. /\ Cardinality(T) = Cardinality(SameDay(today)) + 1 /\ Cardinality(SameDay(today)) \in Nat
          /\ Total(T)' <= Total(SameDay(today)) + Cost[i]
          /\ Total(T)' \in Nat /\ Total(SameDay(today)) \in Nat
      BY <1>1, <1>3, <3>1, <3>2, Grows
    <3>4. /\ Cardinality(SameDay(today)) < CallsPerDay
          /\ Total(SameDay(today)) + Cost[i] <= DailyBudget
      BY DEF ReserveIfWithin, Within
    <3>5. Total(SameDay(d))' = Total(T)'
      BY <3>2 DEF Total
    <3>6. QED
      BY <1>4, <3>2, <3>3, <3>4, <3>5
  <2>2. CASE d # today
    <3>1. SameDay(d)' = SameDay(d)
      BY <1>1, <1>2, <2>2 DEF SameDay, Active
    <3>2. PICK T \in SUBSET Active : T = SameDay(d)
      BY DEF SameDay
    <3>3. T \in SUBSET Active' /\ \A k \in T : book'[k].amount <= book[k].amount
      <4>1. \A k \in T : k \in Key \ {q} /\ book[k].amount \in Nat
        BY <1>2, <1>3, LedgerSets DEF Active
      <4>2. QED
        BY <1>1, <1>2, <4>1
    <3>4. Total(T)' <= Total(T) /\ Total(T)' \in Nat /\ Total(T) \in Nat
      BY <1>3, <3>3, Shrinks
    <3>5. Total(SameDay(d))' = Total(T)'
      BY <3>1, <3>2 DEF Total
    <3>6. Cardinality(SameDay(d)) <= CallsPerDay /\ Total(T) <= DailyBudget
      BY <3>2 DEF LedgerInv, WithinPolicy
    <3>7. QED
      BY <1>4, <3>1, <3>4, <3>5, <3>6
  <2>3. QED
    BY <2>1, <2>2
<1>7. ASSUME NEW d \in Day PROVE Total(SameMonth(d))' <= MonthlyBudget
  <2>1. CASE MonthOf[d] = MonthOf[today]
    <3>1. /\ SameMonth(d)' = SameMonth(today) \cup {q} /\ q \notin SameMonth(today)
          /\ SameMonth(today) \in SUBSET Active
      BY <1>1, <1>2, <2>1 DEF SameMonth, Active
    <3>2. PICK T : T = SameMonth(d)'
      OBVIOUS
    <3>3. /\ Total(T)' <= Total(SameMonth(today)) + Cost[i]
          /\ Total(T)' \in Nat /\ Total(SameMonth(today)) \in Nat
      BY <1>1, <1>3, <3>1, <3>2, Grows
    <3>4. Total(SameMonth(today)) + Cost[i] <= MonthlyBudget
      BY DEF ReserveIfWithin, Within
    <3>5. Total(SameMonth(d))' = Total(T)'
      BY <3>2 DEF Total
    <3>6. QED
      BY <1>4, <3>3, <3>4, <3>5
  <2>2. CASE MonthOf[d] # MonthOf[today]
    <3>1. SameMonth(d)' = SameMonth(d)
      BY <1>1, <1>2, <2>2 DEF SameMonth, Active
    <3>2. PICK T \in SUBSET Active : T = SameMonth(d)
      BY DEF SameMonth
    <3>3. T \in SUBSET Active' /\ \A k \in T : book'[k].amount <= book[k].amount
      <4>1. \A k \in T : k \in Key \ {q} /\ book[k].amount \in Nat
        BY <1>2, <1>3, LedgerSets DEF Active
      <4>2. QED
        BY <1>1, <1>2, <4>1
    <3>4. Total(T)' <= Total(T) /\ Total(T)' \in Nat /\ Total(T) \in Nat
      BY <1>3, <3>3, Shrinks
    <3>5. Total(SameMonth(d))' = Total(T)'
      BY <3>1, <3>2 DEF Total
    <3>6. Total(T) <= MonthlyBudget
      BY <3>2 DEF LedgerInv, WithinPolicy
    <3>7. QED
      BY <1>4, <3>4, <3>5, <3>6
  <2>3. QED
    BY <2>1, <2>2
<1>8. QED
  BY <1>3, <1>5, <1>6, <1>7 DEF LedgerInv, WithinPolicy

LEMMA LedgerKept ==
  ASSUME IInv, IInv', LedgerInv, UNCHANGED book
  PROVE  LedgerInv'
<1>1. Active' = Active
  BY DEF Active
<1>2. \A k \in Active : book[k].amount \in Nat
  BY LedgerSets DEF LedgerInv, IInv
<1>3. \A k \in Active' : /\ k \in Active /\ book'[k].day = book[k].day
                         /\ book'[k].amount <= book[k].amount
  BY <1>1, <1>2
<1>4. QED
  BY <1>3, LimitsShrink DEF IInv

\* mark_dispatched, mark_uncertain, release_undispatched_attempt and settle.
LEMMA LedgerMoves ==
  ASSUME IInv, IInv', LedgerInv, NEW q \in Key, Exists(q), book[q].state # "RELEASED",
         \/ \E e, x : Transition(q, e, x)
         \/ \E amount \in Nat : Settle(q, amount)
  PROVE  LedgerInv'
<1>1. /\ \A k \in Key \ {q} : book'[k] = book[k]
      /\ book'[q].day = book[q].day /\ book'[q].amount <= book[q].amount
  <2>1. book \in [Key -> Reservation] /\ book[q].amount \in Nat
    BY DEF IInv, RouterTypeOK, Reservation
  <2>2. CASE \E e, x : Transition(q, e, x)
    BY <2>1, <2>2 DEF Transition, Reservation
  <2>3. CASE \E amount \in Nat : Settle(q, amount)
    BY <2>1, <2>3 DEF Settle, Reservation
  <2>4. QED
    BY <2>2, <2>3
<1>2. q \in Active
  BY DEF Active, Exists
<1>3. \A k \in Active' : k \in Active
  BY <1>1, <1>2 DEF Active
<1>4. \A k \in Active : k \in Key /\ book[k].amount \in Nat
  BY LedgerSets DEF LedgerInv, IInv
<1>5. \A k \in Active' : /\ k \in Active /\ book'[k].day = book[k].day
                         /\ book'[k].amount <= book[k].amount
  BY <1>1, <1>3, <1>4
<1>6. QED
  BY <1>5, LimitsShrink DEF IInv

LEMMA InitLedger == RouterInit => LedgerInv
<1> SUFFICES ASSUME RouterInit PROVE LedgerInv
  OBVIOUS
<1>1. Active = {}
  BY DEF RouterInit, BudgetInit, NoReservation, Active
<1>2. IsFiniteSet(Active) /\ Cardinality({}) = 0
  BY <1>1, FS_EmptySet
<1>3. RouterTypeOK
  BY InitIInv DEF IInv
<1>4. /\ \A i \in Invocation : SameCycle(i) = {}
      /\ \A d \in Day : SameDay(d) = {} /\ SameMonth(d) = {}
  BY <1>1 DEF SameCycle, SameDay, SameMonth
<1>5. Total({}) = 0
  <2>1. Total({}) = SumFunctionOnSet(Amounts, {})
    BY DEF Total, Amounts
  <2>2. IsFiniteSet({}) /\ \A x \in {} : Amounts[x] \in Nat
    BY <1>1, <1>2
  <2>3. QED
    BY <2>1, <2>2, SumUnfolds
<1>6. QED
  BY <1>2, <1>4, <1>5, BudgetAssumption DEF LedgerInv, WithinPolicy

\* The ledger changes in the operations of a call only, and at its last
\* reservation.
LEMMA NextLedger == IInv /\ IInv' /\ LedgerInv /\ [RouterNext]_vars => LedgerInv'
<1> SUFFICES ASSUME IInv, IInv', LedgerInv, [RouterNext]_vars PROVE LedgerInv'
  OBVIOUS
<1>1. ASSUME NEW c \in Caller, Reserve(c), ~ UNCHANGED book PROVE LedgerInv'
  <2>1. PICK n : n = router[c].attempts + 1 /\ ReserveIfWithin(InvocationOf[c], n)
    BY <1>1 DEF Reserve
  <2>2. router[c].attempts \in Nat /\ router[c].attempts < MaxAttempts /\ MaxAttempts \in Nat
    BY <1>1, CallFacts, BudgetAssumption DEF Reserve, CallOK
  <2>3. PICK q \in Key : q = <<InvocationOf[c], n>>
    <3>1. n \in Attempt /\ InvocationOf[c] \in Invocation
      BY <2>1, <2>2, RouterAssumption DEF Attempt
    <3>2. QED
      BY <3>1 DEF Key
  <2>4. InvocationOf[c] \in Invocation
    BY RouterAssumption
  <2>5. QED
    BY <2>1, <2>3, <2>4, LimitsGrow DEF IInv
<1>2. ASSUME NEW c \in Caller, router[c].pc \in {"mark", "close", "settle"}
      PROVE  /\ Current(c) \in Key /\ Exists(Current(c))
             /\ book[Current(c)].state # "RELEASED"
  BY <1>2, CallFacts DEF CallOK, Last, Exists
<1>3. ASSUME NEW c \in Caller, MarkDispatched(c) \/ Close(c) PROVE LedgerInv'
  BY <1>2, <1>3, LedgerMoves DEF MarkDispatched, Close
<1>4. ASSUME NEW c \in Caller, SettleResponse(c), ~ UNCHANGED book PROVE LedgerInv'
  <2>1. router[c].report # None => router[c].report \in Nat
    BY <1>4, CallFacts DEF Router
  <2>2. CASE Transition(Current(c), "DISPATCHED", "UNCERTAIN")
    BY <1>2, <1>4, <2>2, LedgerMoves DEF SettleResponse
  <2>3. CASE router[c].report # None /\ Settle(Current(c), router[c].report)
    BY <1>2, <1>4, <2>1, <2>3, LedgerMoves DEF SettleResponse
  <2>4. QED
    BY <1>4, <2>2, <2>3 DEF SettleResponse
<1>5. ASSUME UNCHANGED book PROVE LedgerInv'
  BY <1>5, LedgerKept
<1>6. ASSUME NEW c \in Caller, RouterStep(c) PROVE LedgerInv'
  BY <1>1, <1>3, <1>4, <1>5, <1>6
     DEF RouterStep, Preflight, Invoke, Respond, ProviderFails, Parse, Report
<1>7. QED
  BY <1>5, <1>6 DEF RouterNext, LedgerRaises, Stop, Serve, Midnight, vars

\* The reservations keep within the calls of a cycle and of a day and within
\* the daily and the monthly budget, for any number of calls that reserve,
\* settle and release side by side, any limits, costs and length of a month.
THEOREM BudgetsHold == RouterSpec => []WithinPolicy
<1>1. LedgerInv => WithinPolicy
  BY DEF LedgerInv
<1>2. QED
  BY <1>1, InitLedger, InitIInv, NextIInv, NextLedger, PTL DEF RouterSpec

-----------------------------------------------------------------------------
(* The reported costs.                                                     *)

\* A reported cost is that of the last attempt, where it was settled.
Reported(c) ==
    router[c].report # None =>
        /\ router[c].pc \in {"settle", "parse", "output", "failure", "raised", "gone"}
        /\ router[c].attempts > 0
        /\ router[c].pc \in {"parse", "output", "failure"} =>
              Last(c) = "SETTLED" /\ book[Current(c)].amount = router[c].report

\* A result still reports what the ledger holds for its call.
Answered(c) == router[c].pc \in {"output", "failure"} => telemetry[c] = TelemetryCost(c)

TelemetryInv ==
    /\ telemetry = [c \in Caller |-> telemetry[c]]
    /\ \A c \in Caller : Reported(c) /\ Answered(c)

\* The attempts of a call.
Mine(c) == {k \in Key : k[1] = InvocationOf[c] /\ k[2] <= router[c].attempts}
Prior(c) == {k \in Mine(c) : k[2] < router[c].attempts}

LEMMA MineFinite ==
  ASSUME IInv, NEW c \in Caller
  PROVE  IsFiniteSet(Mine(c)) /\ \A k \in Mine(c) : k \in Key /\ Owns(c, k)
<1> DEFINE pairs == {InvocationOf[c]} \X (1..MaxAttempts)
<1>1. IsFiniteSet({InvocationOf[c]}) /\ IsFiniteSet(1..MaxAttempts)
  <2>1. PICK a \in Int, b \in Int : a = 1 /\ b = MaxAttempts
    BY BudgetAssumption
  <2>2. IsFiniteSet(a..b)
    BY FS_Interval
  <2>3. QED
    BY <2>1, <2>2, FS_Singleton
<1>2. IsFiniteSet(pairs)
  BY <1>1, FS_Product
<1>3. Mine(c) \subseteq pairs
  BY KeyParts DEF Mine, Key, Attempt
<1>4. QED
  BY <1>2, <1>3, FS_Subset DEF Mine, Owns

\* The cost of a call is that of its own reservations.
LEMMA CostStays ==
  ASSUME IInv, IInv', NEW c \in Caller,
         router'[c].attempts = router[c].attempts, router'[c].report = router[c].report,
         \A k \in Key : Owns(c, k) => book'[k] = book[k]
  PROVE  TelemetryCost(c)' = TelemetryCost(c)
<1> DEFINE held == Mine(c) \cap Active
<1>1. Mine(c)' = Mine(c) /\ Prior(c)' = Prior(c)
  BY DEF Mine, Prior
<1>2. \A k \in Mine(c) : k \in Key /\ book'[k] = book[k] /\ book[k].amount \in Nat
  BY MineFinite DEF IInv, RouterTypeOK, Reservation
<1>3. /\ Mine(c) \cap Active' = held
      /\ Prior(c) \cap Active' = Prior(c) \cap Active
  BY <1>2 DEF Active, Prior
<1>4. IsFiniteSet(held)
  BY MineFinite, FS_Subset
<1>5. /\ \A k \in held : Amounts[k] \in Nat /\ Amounts'[k] = Amounts[k]
      /\ Total(held) = SumFunctionOnSet(Amounts, held)
      /\ Total(held)' = SumFunctionOnSet(Amounts', held)
  <2>1. Total(held) = SumFunctionOnSet(Amounts, held)
    BY DEF Total, Amounts
  <2>2. Total(held)' = SumFunctionOnSet(Amounts', held)
    BY <1>1, <1>3 DEF Total, Amounts
  <2>3. \A k \in held : Amounts[k] \in Nat /\ Amounts'[k] = Amounts[k]
    BY <1>2 DEF Amounts
  <2>4. QED
    BY <2>1, <2>2, <2>3
<1>6. Total(held)' = Total(held)
  <2> HIDE DEF held
  <2>1. \A k \in held : Amounts'[k] \in Nat /\ Amounts'[k] <= Amounts[k] /\ Amounts[k] <= Amounts'[k]
    BY <1>5
  <2>2. SumFunctionOnSet(Amounts', held) <= SumFunctionOnSet(Amounts, held)
    BY <1>4, <1>5, <2>1, SumAtMost
  <2>3. SumFunctionOnSet(Amounts, held) <= SumFunctionOnSet(Amounts', held)
    BY <1>4, <1>5, <2>1, SumAtMost
  <2>4. SumFunctionOnSet(Amounts', held) \in Nat /\ SumFunctionOnSet(Amounts, held) \in Nat
    BY <1>4, <1>5, <2>1, SumUnfolds
  <2>5. QED
    BY <1>5, <2>2, <2>3, <2>4
<1>7. TelemetryCost(c) = IF Mine(c) = {} THEN None
                         ELSE IF router[c].report # None /\ Prior(c) \cap Active = {}
                              THEN router[c].report ELSE Total(held)
  BY DEF TelemetryCost, Mine, Prior
<1>8. TelemetryCost(c)' = IF Mine(c)' = {} THEN None
                          ELSE IF router'[c].report # None /\ (Prior(c) \cap Active)' = {}
                               THEN router'[c].report ELSE Total(held)'
  BY DEF TelemetryCost, Mine, Prior
<1>9. QED
  BY <1>1, <1>3, <1>6, <1>7, <1>8

\* A step of a call changes its own last reservation only, and what the
\* others own, their place and their results stay.
LEMMA OthersStay ==
  ASSUME IInv, IInv', TelemetryInv, NEW c \in Caller,
         RouterStep(c) \/ LedgerRaises(c) \/ Stop(c)
  PROVE  /\ telemetry' = [d \in Caller |-> telemetry'[d]]
         /\ \A d \in Caller \ {c} :
               /\ router'[d] = router[d] /\ telemetry'[d] = telemetry[d]
               /\ \A k \in Key : Owns(d, k) => book'[k] = book[k]
<1>1. router \in [Caller -> Router] /\ telemetry = [d \in Caller |-> telemetry[d]]
      /\ book \in [Key -> Reservation]
  BY DEF IInv, RouterTypeOK, TelemetryInv
<1>2. ASSUME NEW kind, Goto(c, kind) \/ Result(c, kind)
      PROVE  /\ telemetry' = [d \in Caller |-> telemetry'[d]]
             /\ \A d \in Caller \ {c} : router'[d] = router[d] /\ telemetry'[d] = telemetry[d]
             /\ router'[c].attempts = router[c].attempts
  <2>1. router' = [router EXCEPT ![c].pc = kind]
    BY <1>2 DEF Goto, Result
  <2>2. telemetry' = telemetry \/ \E x : telemetry' = [telemetry EXCEPT ![c] = x]
    BY <1>2 DEF Goto, Result
  <2>3. /\ telemetry' = [d \in Caller |-> telemetry'[d]]
        /\ \A d \in Caller \ {c} : telemetry'[d] = telemetry[d]
    <3>1. ASSUME NEW x, telemetry' = [telemetry EXCEPT ![c] = x]
          PROVE  /\ telemetry' = [d \in Caller |-> telemetry'[d]]
                 /\ \A d \in Caller \ {c} : telemetry'[d] = telemetry[d]
      BY <1>1, <3>1
    <3>2. QED
      BY <1>1, <2>2, <3>1
  <2>4. /\ \A d \in Caller \ {c} : router'[d] = router[d]
        /\ router'[c].attempts = router[c].attempts
    BY <1>1, <2>1 DEF Router
  <2>5. QED
    BY <2>3, <2>4
<1>3. /\ telemetry' = [d \in Caller |-> telemetry'[d]]
      /\ \A d \in Caller \ {c} : router'[d] = router[d] /\ telemetry'[d] = telemetry[d]
      /\ \/ book' = book
         \/ /\ router'[c].attempts > 0
            /\ \A k \in Key \ {Current(c)'} : book'[k] = book[k]
  <2>1. CASE \E kind : (Goto(c, kind) \/ Result(c, kind)) /\ UNCHANGED book
    BY <1>2, <2>1
  <2>2. CASE MarkDispatched(c) \/ Close(c) \/ (SettleResponse(c) /\ ~ UNCHANGED book)
    <3>1. \E kind : Goto(c, kind)
      BY <2>2 DEF MarkDispatched, Close, SettleResponse, Retry, GiveUp
    <3>2. router[c].attempts > 0 /\ router'[c].attempts = router[c].attempts
      BY <1>2, <2>2, <3>1, CallFacts DEF MarkDispatched, Close, SettleResponse, CallOK
    <3>3. Current(c)' = Current(c)
      BY <3>2 DEF Current
    <3>4. \A k \in Key \ {Current(c)} : book'[k] = book[k]
      BY <1>1, <2>2 DEF MarkDispatched, Close, SettleResponse, Transition, Settle
    <3>5. QED
      BY <1>2, <3>1, <3>2, <3>3, <3>4
  <2>3. CASE Reserve(c) /\ ~ Result(c, "failure")
    <3>1. PICK n : /\ n = router[c].attempts + 1 /\ ReserveIfWithin(InvocationOf[c], n)
                   /\ router' = [router EXCEPT ![c].pc = "mark", ![c].attempts = n]
                   /\ telemetry' = telemetry
      BY <2>3, Zenon DEF Reserve
    <3>2. router[c].attempts \in Nat
      BY CallFacts
    <3>3. router'[c].attempts = n /\ \A d \in Caller \ {c} : router'[d] = router[d]
      BY <1>1, <3>1 DEF Router
    <3>4. Current(c)' = <<InvocationOf[c], n>>
      BY <3>3 DEF Current
    <3>5. \A k \in Key \ {<<InvocationOf[c], n>>} : book'[k] = book[k]
      BY <1>1, <3>1 DEF ReserveIfWithin
    <3>6. QED
      BY <1>1, <3>1, <3>2, <3>3, <3>4, <3>5
  <2>4. CASE Invoke(c) \/ Respond(c) \/ ProviderFails(c)
    <3>1. CASE \E kind : Goto(c, kind)
      BY <1>2, <2>4, <3>1 DEF Invoke, Respond, ProviderFails
    <3>2. CASE Invoke(c) /\ router' = [router EXCEPT ![c].pc = "close", ![c].dispatched = FALSE]
      BY <1>1, <3>2 DEF Invoke, Goto, Router
    <3>3. CASE Respond(c)
      BY <1>1, <3>3 DEF Respond, Router
    <3>4. CASE ProviderFails(c)
      BY <1>1, <3>4 DEF ProviderFails, Router
    <3>5. QED
      BY <2>4, <3>1, <3>2, <3>3, <3>4 DEF Invoke
  <2>5. CASE \/ Preflight(c) \/ Parse(c) \/ Report(c) \/ LedgerRaises(c) \/ Stop(c)
             \/ SettleResponse(c) /\ UNCHANGED book
    <3>1. UNCHANGED book
      BY <2>5 DEF Preflight, Parse, Report, LedgerRaises, Stop
    <3>2. \E kind : Goto(c, kind) \/ Result(c, kind)
      BY <2>5 DEF Preflight, Parse, Report, LedgerRaises, Stop, SettleResponse
    <3>3. QED
      BY <2>1, <3>1, <3>2
  <2>6. CASE Reserve(c) /\ Result(c, "failure")
    <3>1. CASE UNCHANGED book
      BY <2>1, <2>6, <3>1
    <3>2. CASE router' = [router EXCEPT ![c].pc = "mark", ![c].attempts = router[c].attempts + 1]
      <4>1. router'[c].pc = "mark" /\ router'[c].pc = "failure"
        BY <1>1, <2>6, <3>2 DEF Result, Router
      <4>2. QED
        BY <4>1
    <3>3. QED
      BY <2>6, <3>1, <3>2, Zenon DEF Reserve
  <2>7. QED
    BY <2>1, <2>2, <2>3, <2>4, <2>5, <2>6 DEF RouterStep
<1>4. ASSUME NEW d \in Caller \ {c}, NEW k \in Key, Owns(d, k) PROVE book'[k] = book[k]
  <2>1. CASE router'[c].attempts > 0 /\ k = Current(c)'
    <3>1. router'[d] = router[d] /\ router[d].attempts \in Nat
      BY <1>3, CallFacts
    <3>2. router'[d].attempts > 0 /\ InvocationOf[d] = k[1]
      BY <1>4, <3>1, KeyParts DEF Owns
    <3>3. InvocationOf[c] = k[1]
      BY <2>1 DEF Current
    <3>4. QED
      BY <2>1, <3>2, <3>3 DEF IInv, OneOwner
  <2>2. QED
    BY <1>3, <2>1
<1>5. QED
  BY <1>3, <1>4

\* A call that only moves on keeps its report, and a result it returns has the
\* cost of its reservations.
LEMMA MovesOn ==
  ASSUME IInv, IInv', TelemetryInv, NEW c \in Caller, NEW x,
         Goto(c, x) \/ Result(c, x), UNCHANGED book,
         \/ x \in {"raised", "gone"}
         \/ router[c].report = None /\ (x \in {"output", "failure"} => Result(c, x))
         \/ router[c].pc = "parse" /\ x \in {"output", "failure"} /\ Result(c, x)
  PROVE  Reported(c)' /\ Answered(c)'
<1>1. /\ router'[c].pc = x /\ router'[c].attempts = router[c].attempts
      /\ router'[c].report = router[c].report
  BY DEF Goto, Result, IInv, RouterTypeOK, Router
<1>2. Current(c)' = Current(c) /\ Last(c)' = Last(c)
  BY <1>1 DEF Current, Last
<1>3. Reported(c) /\ Answered(c)
  BY DEF TelemetryInv
<1>4. Reported(c)'
  BY <1>1, <1>2, <1>3 DEF Reported
<1>5. Answered(c)'
  <2>1. CASE x \in {"raised", "gone"}
    BY <1>1, <2>1 DEF Answered
  <2>2. CASE Result(c, x)
    <3>1. TelemetryCost(c)' = TelemetryCost(c)
      BY <1>1, CostStays
    <3>2. telemetry'[c] = TelemetryCost(c)
      BY <2>2 DEF Result, TelemetryInv
    <3>3. QED
      BY <3>1, <3>2 DEF Answered
  <2>3. CASE x \notin {"output", "failure"}
    BY <1>1, <2>3 DEF Answered
  <2>4. QED
    BY <2>1, <2>2, <2>3
<1>6. QED
  BY <1>4, <1>5

LEMMA OwnCost ==
  ASSUME IInv, IInv', TelemetryInv, NEW c \in Caller,
         RouterStep(c) \/ LedgerRaises(c) \/ Stop(c)
  PROVE  Reported(c)' /\ Answered(c)'
<1>1. router \in [Caller -> Router] /\ book \in [Key -> Reservation] /\ Reported(c) /\ CallOK(c)
  BY CallFacts DEF IInv, RouterTypeOK, TelemetryInv
<1>2. CASE LedgerRaises(c) \/ Stop(c)
  BY <1>2, MovesOn DEF LedgerRaises, Stop
<1>3. CASE Preflight(c)
  <2>1. router[c].report = None
    BY <1>1, <1>3 DEF Reported, Preflight
  <2>2. QED
    BY <1>3, <2>1, MovesOn DEF Preflight
<1>4. CASE Parse(c)
  BY <1>4, MovesOn DEF Parse
<1>5. CASE Report(c)
  <2>1. router[c].report = None
    BY <1>1, <1>5 DEF Reported, Report
  <2>2. QED
    BY <1>5, <2>1, MovesOn DEF Report
<1>6. CASE Reserve(c)
  <2>1. router[c].report = None
    BY <1>1, <1>6 DEF Reported, Reserve
  <2>2. CASE Result(c, "failure") /\ UNCHANGED book
    BY <2>1, <2>2, MovesOn
  <2>3. CASE router' = [router EXCEPT ![c].pc = "mark", ![c].attempts = router[c].attempts + 1]
    <3>1. router'[c].pc = "mark" /\ router'[c].report = None
      BY <1>1, <2>1, <2>3 DEF Router
    <3>2. QED
      BY <3>1 DEF Reported, Answered
  <2>4. QED
    BY <1>6, <2>2, <2>3, Zenon DEF Reserve
<1>7. CASE MarkDispatched(c) \/ Invoke(c) \/ ProviderFails(c) \/ Close(c)
  <2>1. router[c].report = None
    BY <1>1, <1>7 DEF Reported, MarkDispatched, Invoke, ProviderFails, Close
  <2>2. router'[c].report = None /\ router'[c].pc \in {"call", "wait", "close", "attempt", "report"}
    <3>1. CASE \E x \in {"call", "wait", "attempt", "report"} : Goto(c, x)
      BY <1>1, <2>1, <3>1 DEF Goto, Router
    <3>2. CASE \E b : router' = [router EXCEPT ![c].pc = "close", ![c].dispatched = b]
      BY <1>1, <2>1, <3>2 DEF Router
    <3>3. QED
      BY <1>7, <3>1, <3>2 DEF MarkDispatched, Invoke, ProviderFails, Close, Retry, GiveUp
  <2>3. QED
    BY <2>2 DEF Reported, Answered
<1>8. CASE Respond(c)
  <2>1. PICK r : router' = [router EXCEPT ![c].pc = "settle", ![c].report = r]
    BY <1>8 DEF Respond
  <2>2. router'[c].pc = "settle" /\ router'[c].attempts = router[c].attempts
    BY <1>1, <2>1 DEF Router
  <2>3. router[c].attempts > 0
    BY <1>1, <1>8 DEF Respond, CallOK
  <2>4. QED
    BY <2>2, <2>3 DEF Reported, Answered
<1>9. CASE SettleResponse(c)
  <2>1. PICK x \in {"parse", "raised"} : Goto(c, x)
    BY <1>9 DEF SettleResponse
  <2>2. /\ router'[c].pc = x /\ router'[c].attempts = router[c].attempts
        /\ router'[c].report = router[c].report
    BY <1>1, <2>1 DEF Goto, Router
  <2>3. router[c].attempts > 0 /\ Current(c) \in Key
    BY <1>1, <1>9, CallFacts DEF SettleResponse, CallOK
  <2>4. Current(c)' = Current(c)
    BY <2>2 DEF Current
  <2>5. CASE router[c].report = None \/ x = "raised"
    BY <2>2, <2>3, <2>5 DEF Reported, Answered
  <2>6. CASE router[c].report # None /\ x = "parse"
    <3>1. CASE Settle(Current(c), router[c].report)
      <4>1. book'[Current(c)].state = "SETTLED" /\ book'[Current(c)].amount = router[c].report
        BY <1>1, <2>3, <3>1 DEF Settle, Reservation
      <4>2. QED
        BY <2>2, <2>3, <2>4, <2>6, <4>1 DEF Reported, Answered, Last
    <3>2. CASE Goto(c, "raised")
      <4>1. router'[c].pc = "raised"
        BY <1>1, <3>2 DEF Goto, Router
      <4>2. QED
        BY <2>2, <2>6, <4>1
    <3>3. QED
      BY <1>9, <2>6, <3>1, <3>2 DEF SettleResponse
  <2>7. QED
    BY <2>1, <2>5, <2>6
<1>10. QED
  BY <1>2, <1>3, <1>4, <1>5, <1>6, <1>7, <1>8, <1>9 DEF RouterStep

LEMMA NextTelemetry == IInv /\ IInv' /\ TelemetryInv /\ [RouterNext]_vars => TelemetryInv'
<1> SUFFICES ASSUME IInv, IInv', TelemetryInv, [RouterNext]_vars PROVE TelemetryInv'
  OBVIOUS
<1>1. ASSUME NEW d \in Caller, router'[d] = router[d], telemetry'[d] = telemetry[d],
             \A k \in Key : Owns(d, k) => book'[k] = book[k]
      PROVE  Reported(d)' /\ Answered(d)'
  <2>1. Reported(d) /\ Answered(d)
    BY DEF TelemetryInv
  <2>2. Current(d)' = Current(d)
    BY <1>1 DEF Current
  <2>3. router[d].attempts > 0 => Current(d) \in Key /\ Owns(d, Current(d))
    BY CurrentParts DEF Owns, IInv
  <2>4. Reported(d)'
    BY <1>1, <2>1, <2>2, <2>3 DEF Reported, Last
  <2>5. TelemetryCost(d)' = TelemetryCost(d)
    BY <1>1, CostStays
  <2>6. QED
    BY <1>1, <2>1, <2>4, <2>5 DEF Answered
<1>2. ASSUME NEW c \in Caller, RouterStep(c) \/ LedgerRaises(c) \/ Stop(c)
      PROVE  TelemetryInv'
  <2>1. telemetry' = [d \in Caller |-> telemetry'[d]]
    BY <1>2, OthersStay
  <2>2. \A d \in Caller \ {c} : Reported(d)' /\ Answered(d)'
    BY <1>1, <1>2, OthersStay
  <2>3. Reported(c)' /\ Answered(c)'
    BY <1>2, OwnCost
  <2>4. QED
    BY <2>1, <2>2, <2>3 DEF TelemetryInv
<1>3. ASSUME UNCHANGED <<book, router, telemetry>> PROVE TelemetryInv'
  BY <1>1, <1>3 DEF TelemetryInv
<1>4. QED
  BY <1>2, <1>3 DEF RouterNext, Serve, Midnight, vars

LEMMA InitTelemetry == RouterInit => TelemetryInv
  BY DEF RouterInit, TelemetryInv, Reported, Answered, Start

\* What the requests of a call may be charged is in its reservations, so the
\* reported cost covers it.
LEMMA CostCovers == IInv /\ TelemetryInv => TelemetryCoversCharges
<1> SUFFICES ASSUME IInv, TelemetryInv, NEW c \in Caller, router[c].pc \in {"output", "failure"},
                    NEW mine, mine = {k \in Key : c \in sender[k]}
             PROVE  IF telemetry[c] = None THEN mine = {}
                    ELSE (\A k \in mine : charge[k] <= Cost[k[1]]) =>
                            SumFunctionOnSet(charge, mine) <= telemetry[c]
  BY DEF TelemetryCoversCharges
<1> DEFINE held == Mine(c) \cap Active
<1>1. mine \subseteq Mine(c) /\ IsFiniteSet(Mine(c)) /\ IsFiniteSet(mine)
  <2>1. mine \subseteq Mine(c)
    BY DEF IInv, SentByOwner, Owns, Mine
  <2>2. QED
    BY <2>1, MineFinite, FS_Subset
<1>2. \A k \in mine : k \in Key /\ charge[k] \in Nat /\ RequestOK(k)
  BY DEF IInv, RouterTypeOK
<1>3. telemetry[c] = TelemetryCost(c) /\ Reported(c) /\ CallOK(c)
  BY CallFacts DEF TelemetryInv, Answered
<1>4. TelemetryCost(c) = IF Mine(c) = {} THEN None
                         ELSE IF router[c].report # None /\ Prior(c) \cap Active = {}
                              THEN router[c].report ELSE Total(held)
  BY DEF TelemetryCost, Mine, Prior
<1>5. held \in SUBSET Active /\ IsFiniteSet(held)
  BY <1>1, FS_Subset
<1>6. /\ Total(held) = SumFunctionOnSet(Amounts, held) /\ Total(held) \in Nat
      /\ \A k \in held : k \in Key /\ Amounts[k] = book[k].amount /\ Amounts[k] \in Nat
  <2>1. Total(held) = SumFunctionOnSet(Amounts, held)
    BY DEF Total, Amounts
  <2>2. \A k \in held : k \in Key /\ Amounts[k] = book[k].amount /\ Amounts[k] \in Nat
    BY DEF Active, Amounts, IInv, RouterTypeOK, Reservation
  <2>3. QED
    BY <1>5, <2>1, <2>2, SumUnfolds
<1>7. CASE Mine(c) = {}
  BY <1>1, <1>3, <1>4, <1>7
<1>8. ASSUME Mine(c) # {}, router[c].report # None, Prior(c) \cap Active = {}
      PROVE  /\ telemetry[c] # None
             /\ SumFunctionOnSet(charge, mine) <= telemetry[c]
  <2>1. telemetry[c] = router[c].report /\ router[c].report \in Nat
    BY <1>3, <1>4, <1>8, CallFacts DEF Router
  <2>2. PICK q \in Key : q = Current(c)
    BY <1>3, <1>8, CallFacts DEF Reported
  <2>3. charge[q] <= router[c].report /\ charge[q] \in Nat
    BY <1>3, <1>8, <2>2 DEF Reported, Last, IInv, RouterTypeOK, RequestOK
  <2>4. \A k \in mine : k # q => charge[k] = 0
    <3> SUFFICES ASSUME NEW k \in mine, k # q PROVE charge[k] = 0
      OBVIOUS
    <3>1. k \in Prior(c)
      <4>1. k[2] # router[c].attempts
        BY <1>1, <2>2, KeyParts DEF Mine, Current
      <4>2. k \in Mine(c) /\ k[2] <= router[c].attempts /\ k[2] \in Nat /\ router[c].attempts \in Nat
        BY <1>1, KeyParts, CallFacts DEF Mine
      <4>3. QED
        BY <4>1, <4>2 DEF Prior
    <3>2. book[k].state \in {"NONE", "RELEASED"}
      BY <1>2, <1>8, <3>1 DEF Active
    <3>3. QED
      BY <1>2, <3>2 DEF RequestOK
  <2>5. PICK only : only = [k \in {q} |-> router[c].report]
    OBVIOUS
  <2>6. IsFiniteSet({q}) /\ \A k \in {q} : only[k] \in Nat
    BY <2>1, <2>5, FS_Singleton
  <2>7. SumFunctionOnSet(only, {q}) = router[c].report
    <3>1. SumFunctionOnSet(only, {q}) = only[q] + SumFunctionOnSet(only, {q} \ {q})
      BY <2>6, SumWithout
    <3>2. PICK e : e = {q} \ {q} /\ e = {}
      OBVIOUS
    <3>3. IsFiniteSet(e) /\ \A k \in e : only[k] \in Nat
      BY <2>6, <3>2, FS_Subset
    <3>4. SumFunctionOnSet(only, e) = 0
      BY <3>2, <3>3, SumUnfolds
    <3>5. QED
      BY <2>1, <2>5, <3>1, <3>2, <3>4
  <2>8. \A k \in mine : charge[k] = 0 \/ (k \in {q} /\ charge[k] <= only[k])
    BY <2>3, <2>4, <2>5
  <2>9. SumFunctionOnSet(charge, mine) <= SumFunctionOnSet(only, {q})
    BY <1>1, <1>2, <2>6, <2>8, SumAtMost
  <2>10. QED
    BY <2>1, <2>7, <2>9, RouterAssumption
<1>9. ASSUME Mine(c) # {}, telemetry[c] = Total(held), \A k \in mine : charge[k] <= Cost[k[1]]
      PROVE  SumFunctionOnSet(charge, mine) <= telemetry[c]
  <2>1. \A k \in mine : charge[k] = 0 \/ (k \in held /\ charge[k] <= Amounts[k])
    <3> SUFFICES ASSUME NEW k \in mine, charge[k] # 0
                 PROVE  k \in held /\ charge[k] <= Amounts[k]
      OBVIOUS
    <3>1. k \in Active /\ charge[k] <= book[k].amount
      BY <1>2, <1>9, HeldCharge
    <3>2. QED
      BY <1>1, <1>6, <3>1
  <2>2. QED
    BY <1>1, <1>2, <1>5, <1>6, <1>9, <2>1, SumAtMost
<1>10. telemetry[c] = Total(held) => telemetry[c] # None
  BY <1>6, RouterAssumption
<1>11. QED
  BY <1>3, <1>4, <1>7, <1>8, <1>9, <1>10

\* The cost a result reports covers what the requests of its call are charged,
\* now and later: for any number of calls and attempts, timeouts, missing
\* usage and any other state of the ledger.
THEOREM TelemetryIsEnough == RouterSpec => []TelemetryCoversCharges
  BY InitTelemetry, InitIInv, NextIInv, NextTelemetry, CostCovers, PTL DEF RouterSpec
=============================================================================
