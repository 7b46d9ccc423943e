----------------------------- MODULE ModelRouter -----------------------------
(***************************************************************************)
(* RuntimeRouter.invoke over the budget ledger and a provider: the attempts *)
(* of one agent call, their reservations, timeouts, retries and costs.      *)
(*                                                                         *)
(* A caller is one call of invoke.  Callers run side by side, as the first  *)
(* stage of a cycle and several processes on one ledger file make them;     *)
(* two of them may bear the same invocation identity.  The provider is      *)
(* external: it may charge for a request long after the router gave it up.  *)
(***************************************************************************)
EXTENDS AiBudget

CONSTANTS
    Caller,         \* calls of invoke
    InvocationOf,   \* the invocation identity of each call
    Excess,         \* how far reported usage may exceed the estimate
    None            \* no value

ASSUME RouterAssumption ==
    /\ InvocationOf \in [Caller -> Invocation]
    /\ Excess \in Nat
    /\ None \notin Nat

VARIABLES
    router,         \* router[c]: the state of call c
    telemetry,      \* telemetry[c]: the cost its result reports
    wire,           \* wire[k]: what became of the request of attempt k
    charge,         \* charge[k]: what the provider charged for it
    sender          \* sender[k]: the calls that sent it

vars == <<book, today, router, telemetry, wire, charge, sender>>

\* "start", "attempt", "mark", "call", "wait", "close", "settle", "parse" and
\* "report" name what the call does next.  "output" and "failure" are the two kinds of
\* result, "raised" an exception that leaves invoke, "gone" a call whose task
\* was cancelled or whose process ended.
RouterPC == {"start", "attempt", "mark", "call", "wait", "close", "settle", "parse",
             "report", "output", "failure", "raised", "gone"}

\* attempts: how many were reserved; dispatched: the last error says that the
\* request left; report: the cost of the reported usage.
Router == [pc : RouterPC, attempts : 0..MaxAttempts, dispatched : BOOLEAN,
           report : Nat \cup {None}]
Start == [pc |-> "start", attempts |-> 0, dispatched |-> FALSE, report |-> None]

RouterInit ==
    /\ BudgetInit
    /\ router = [c \in Caller |-> Start]
    /\ telemetry = [c \in Caller |-> None]
    /\ wire = [k \in Key |-> "unsent"]
    /\ charge = [k \in Key |-> 0]
    /\ sender = [k \in Key |-> {}]

\* The reservation of the attempt that call c is at.
Current(c) == <<InvocationOf[c], router[c].attempts>>

provider == <<wire, charge, sender>>

\* As TelemetryCost, but a reported cost stands for all attempts.
TelemetryCostReported(c) ==
    LET mine == {k \in Key : k[1] = InvocationOf[c] /\ k[2] <= router[c].attempts}
    IN  IF mine = {} THEN None
        ELSE IF router[c].report # None THEN router[c].report
        ELSE Total(mine \cap Active)

\* _telemetry: the reported cost if every attempt before the last was
\* released, else what the attempts hold, and nothing without an attempt.
TelemetryCost(c) ==
    LET mine == {k \in Key : k[1] = InvocationOf[c] /\ k[2] <= router[c].attempts}
        prior == {k \in mine : k[2] < router[c].attempts}
    IN  IF mine = {} THEN None
        ELSE IF router[c].report # None /\ prior \cap Active = {} THEN router[c].report
        ELSE Total(mine \cap Active)

\* invoke returns an output or a failure, with its telemetry.
Result(c, kind) ==
    /\ router' = [router EXCEPT ![c].pc = kind]
    /\ telemetry' = [telemetry EXCEPT ![c] = TelemetryCost(c)]

Goto(c, pc) ==
    /\ router' = [router EXCEPT ![c].pc = pc]
    /\ UNCHANGED telemetry

\* The ledger file is locked or full: the exception is none of the router's own.
LedgerRaises(c) ==
    /\ router[c].pc \in {"attempt", "mark", "close", "settle"}
    /\ Goto(c, "raised")
    /\ UNCHANGED <<book, today, provider>>

\* Prompt, provider, estimate and compatibility are checked before anything
\* is reserved.
Preflight(c) ==
    /\ router[c].pc = "start"
    /\ Goto(c, "attempt") \/ Result(c, "failure")
    /\ UNCHANGED <<book, today, provider>>

\* The next attempt is reserved.  The call fails if its time is up, or if the
\* guard or the ledger refuses.
Reserve(c) ==
    LET n == router[c].attempts + 1
    IN  /\ router[c].pc = "attempt"
        /\ \/ /\ ReserveIfWithin(InvocationOf[c], n)
              /\ router' = [router EXCEPT ![c].pc = "mark", ![c].attempts = n]
              /\ UNCHANGED telemetry
           \/ /\ Result(c, "failure")
              /\ UNCHANGED book
        /\ UNCHANGED <<today, provider>>

MarkDispatched(c) ==
    /\ router[c].pc = "mark"
    /\ Transition(Current(c), "RESERVED", "DISPATCHED")
    /\ Goto(c, "call")
    /\ UNCHANGED <<today, provider>>

\* adapter.invoke sends the request, or finds before it that it cannot.
Invoke(c) ==
    /\ router[c].pc = "call"
    /\ \/ /\ wire' = [wire EXCEPT ![Current(c)] = "sent"]
          /\ sender' = [sender EXCEPT ![Current(c)] = @ \cup {c}]
          /\ Goto(c, "wait")
       \/ /\ router' = [router EXCEPT ![c].pc = "close", ![c].dispatched = FALSE]
          /\ UNCHANGED <<telemetry, wire, sender>>
    /\ UNCHANGED <<book, today, charge>>

\* The provider serves a request and charges for it, or drops it.
Serve(k) ==
    /\ wire[k] = "sent"
    /\ \/ /\ wire' = [wire EXCEPT ![k] = "served"]
          /\ \E amount \in 0..(Cost[k[1]] + Excess) : charge' = [charge EXCEPT ![k] = amount]
       \/ /\ wire' = [wire EXCEPT ![k] = "dropped"]
          /\ UNCHANGED charge
    /\ UNCHANGED <<book, today, router, telemetry, sender>>

\* The response arrives.  Its usage may be missing; the cost of a reported one
\* assumes no cache discount, so it is at least what was charged.
Respond(c) ==
    /\ router[c].pc = "wait"
    /\ wire[Current(c)] = "served"
    /\ \E report \in {None} \cup (charge[Current(c)]..(Cost[InvocationOf[c]] + Excess)) :
          router' = [router EXCEPT ![c].pc = "settle", ![c].report = report]
    /\ UNCHANGED <<book, today, telemetry, provider>>

\* A timeout or an error of the provider, which may have served the request.
ProviderFails(c) ==
    /\ router[c].pc = "wait"
    /\ router' = [router EXCEPT ![c].pc = "close", ![c].dispatched = TRUE]
    /\ UNCHANGED <<book, today, telemetry, provider>>

\* What follows a failed attempt: another one if the error and the policy allow
\* it and attempts are left, or the failure.  The cost is that of the new book.
Retry(c) ==
    /\ router[c].attempts < MaxAttempts
    /\ Goto(c, "attempt")

GiveUp(c) == Goto(c, "report")

\* As Close, but an attempt that timed out is released.
CloseReleasing(c) ==
    /\ router[c].pc = "close"
    /\ Transition(Current(c), "DISPATCHED", "RELEASED")
    /\ Retry(c) \/ GiveUp(c)
    /\ UNCHANGED <<today, provider>>

\* The failed attempt is kept as UNCERTAIN if the request may have left, and
\* released if it did not.
Close(c) ==
    /\ router[c].pc = "close"
    /\ Transition(Current(c), "DISPATCHED",
                  IF router[c].dispatched THEN "UNCERTAIN" ELSE "RELEASED")
    /\ Retry(c) \/ GiveUp(c)
    /\ UNCHANGED <<today, provider>>

\* The response is settled at its reported cost, or kept as UNCERTAIN without
\* one.  The ledger raises ValueError for more than was reserved.
SettleResponse(c) ==
    /\ router[c].pc = "settle"
    /\ IF router[c].report = None
       THEN Transition(Current(c), "DISPATCHED", "UNCERTAIN") /\ Goto(c, "parse")
       ELSE \/ Settle(Current(c), router[c].report) /\ Goto(c, "parse")
            \/ /\ router[c].report > book[Current(c)].amount
               /\ Goto(c, "raised")
               /\ UNCHANGED book
    /\ UNCHANGED <<today, provider>>

\* The response is parsed and the output sealed, or it is refused.
Parse(c) ==
    /\ router[c].pc = "parse"
    /\ Result(c, "output") \/ Result(c, "failure")
    /\ UNCHANGED <<book, today, provider>>

\* The failure of the last attempt is returned.
Report(c) ==
    /\ router[c].pc = "report"
    /\ Result(c, "failure")
    /\ UNCHANGED <<book, today, provider>>

Ended == {"output", "failure", "raised", "gone"}

\* The task is cancelled or its process ends, at any moment.
Stop(c) ==
    /\ router[c].pc \notin Ended
    /\ Goto(c, "gone")
    /\ UNCHANGED <<book, today, provider>>

\* The steps a running call takes by itself.
RouterStep(c) ==
    \/ Preflight(c) \/ Reserve(c) \/ MarkDispatched(c) \/ Invoke(c) \/ Respond(c)
    \/ ProviderFails(c) \/ Close(c) \/ SettleResponse(c) \/ Parse(c) \/ Report(c)

RouterNext ==
    \/ \E c \in Caller : RouterStep(c) \/ LedgerRaises(c) \/ Stop(c)
    \/ \E k \in Key : Serve(k)
    \/ Midnight /\ UNCHANGED <<router, telemetry, provider>>

RouterSpec == RouterInit /\ [][RouterNext]_vars

-----------------------------------------------------------------------------

\* Every variable but telemetry, which sums costs, has its type.
RouterTypeOK ==
    /\ book \in [Key -> Reservation]
    /\ today \in Day
    /\ router \in [Caller -> Router]
    /\ wire \in [Key -> {"unsent", "sent", "served", "dropped"}]
    /\ charge \in [Key -> Nat]
    /\ sender \in [Key -> SUBSET Caller]

\* "a timeout after dispatch never assumes the provider did not charge": what
\* the provider charged for an attempt, even after the router gave it up or
\* stopped, is still held in the ledger, if it charges no more than reserved.
ChargesAreHeld ==
    \A k \in Key : charge[k] > 0 /\ charge[k] <= Cost[k[1]] =>
        k \in Active /\ charge[k] <= book[k].amount

\* "prevents the same logical invocation from being dispatched twice outside
\* its bounded retry sequence": all requests of an invocation come from one
\* call, and it sends the next only after it has closed the one before.
OneSender ==
    \A i \in Invocation :
        /\ Cardinality(UNION {sender[<<i, n>>] : n \in Attempt}) <= 1
        /\ \A n \in Attempt : n > 1 /\ Exists(<<i, n>>) =>
              book[<<i, n - 1>>].state \in {"UNCERTAIN", "RELEASED"}

\* A call that returns leaves none of its reservations open.
AnsweredMeansClosed ==
    \A c \in Caller : router[c].pc \in {"output", "failure"} =>
        \A n \in 1..router[c].attempts :
            book[<<InvocationOf[c], n>>].state \in {"SETTLED", "RELEASED", "UNCERTAIN"}

\* The cost a result reports is never less than what its attempts will have
\* been charged, retries that timed out included, if no charge exceeds its
\* estimate.
TelemetryCoversCharges ==
    \A c \in Caller : router[c].pc \in {"output", "failure"} =>
        LET mine == {k \in Key : c \in sender[k]}
        IN  IF telemetry[c] = None THEN mine = {}
            ELSE (\A k \in mine : charge[k] <= Cost[k[1]]) =>
                    SumFunctionOnSet(charge, mine) <= telemetry[c]

=============================================================================
