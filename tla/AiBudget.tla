------------------------------- MODULE AiBudget -------------------------------
(***************************************************************************)
(* The M5 budget ledger: InMemoryBudgetLedger and SQLiteBudgetLedger, which *)
(* follow the same rules, behind BudgetGuard.  Every operation is one       *)
(* atomic step: the first holds its lock, the second reserves in one        *)
(* BEGIN IMMEDIATE transaction and changes a reservation by its owner only. *)
(*                                                                         *)
(* Amounts are whole units.  One policy is in force; its reference selects  *)
(* the reservations that count, so others never meet these.                 *)
(***************************************************************************)
EXTENDS Naturals, FiniteSets, Functions

CONSTANTS
    Invocation,     \* logical invocation identities
    CycleOf,        \* the decision cycle of each invocation
    Cost,           \* estimate_maximum_cost of one attempt of an invocation
    MaxAttempts,    \* max_attempts of the retry policy
    LastDay,        \* bound: days that pass
    MonthOf,        \* the month of each day
    CallsPerCycle, CallsPerDay, DailyBudget, MonthlyBudget  \* AIBudgetPolicy

ASSUME BudgetAssumption ==
    /\ Cost \in [Invocation -> Nat]
    /\ MaxAttempts \in 1..3
    /\ LastDay \in Nat
    /\ {CallsPerCycle, CallsPerDay, DailyBudget, MonthlyBudget} \subseteq Nat

VARIABLES
    book,           \* reservations, by invocation and attempt number
    today           \* the date of the clock

Day == 0..LastDay
Attempt == 1..MaxAttempts
Key == Invocation \X Attempt

\* BudgetReservationState; "NONE" stands for a key without a reservation.
ReservationState == {"NONE", "RESERVED", "DISPATCHED", "SETTLED", "RELEASED", "UNCERTAIN"}

\* amount is what _total counts: the settled amount once there is one.
Reservation == [state : ReservationState, amount : Nat, day : Day]
NoReservation == [state |-> "NONE", amount |-> 0, day |-> 0]

BudgetInit ==
    /\ book = [k \in Key |-> NoReservation]
    /\ today = 0

Exists(k) == book[k].state # "NONE"
Active == {k \in Key : book[k].state \notin {"NONE", "RELEASED"}}

SameCycle(i) == {k \in Active : CycleOf[k[1]] = CycleOf[i]}
SameDay(d) == {k \in Active : book[k].day = d}
SameMonth(d) == {k \in Active : MonthOf[book[k].day] = MonthOf[d]}

Total(keys) == SumFunctionOnSet([k \in Key |-> book[k].amount], keys)

\* As Within, but what earlier calls hold is not added.
WithinAlone(i) ==
    /\ Cardinality(SameCycle(i)) < CallsPerCycle
    /\ Cardinality(SameDay(today)) < CallsPerDay
    /\ Cost[i] <= DailyBudget
    /\ Cost[i] <= MonthlyBudget

\* The four limits, with what the new attempt would add.
Within(i) ==
    /\ Cardinality(SameCycle(i)) < CallsPerCycle
    /\ Cardinality(SameDay(today)) < CallsPerDay
    /\ Total(SameDay(today)) + Cost[i] <= DailyBudget
    /\ Total(SameMonth(today)) + Cost[i] <= MonthlyBudget

\* As Fresh, but a first attempt replaces what is there.
FreshAlways(i, n) == n > 1 => ~ Exists(<<i, n>>) /\ Exists(<<i, n - 1>>)

\* The identity is new, and attempts are consecutive.
Fresh(i, n) ==
    /\ ~ Exists(<<i, n>>)
    /\ IF n = 1 THEN \A m \in Attempt : ~ Exists(<<i, m>>)
       ELSE Exists(<<i, n - 1>>)

\* reserve_if_within
ReserveIfWithin(i, n) ==
    /\ Fresh(i, n)
    /\ Within(i)
    /\ book' = [book EXCEPT ![<<i, n>>] =
                   [state |-> "RESERVED", amount |-> Cost[i], day |-> today]]

\* _transition: mark_dispatched, mark_uncertain, release_undispatched_attempt.
Transition(k, expected, state) ==
    /\ book[k].state = expected
    /\ book' = [book EXCEPT ![k].state = state]

\* settle: of a dispatched reservation, within what it reserved.
Settle(k, amount) ==
    /\ book[k].state = "DISPATCHED"
    /\ amount <= book[k].amount
    /\ book' = [book EXCEPT ![k].state = "SETTLED", ![k].amount = amount]

Midnight ==
    /\ today < LastDay
    /\ today' = today + 1
    /\ UNCHANGED book

\* The reservations of the policy keep within each of its limits at every
\* moment, however many callers reserve, settle and release at once.
WithinPolicy ==
    /\ \A i \in Invocation : Cardinality(SameCycle(i)) <= CallsPerCycle
    /\ \A d \in Day :
          /\ Cardinality(SameDay(d)) <= CallsPerDay
          /\ Total(SameDay(d)) <= DailyBudget
          /\ Total(SameMonth(d)) <= MonthlyBudget
=============================================================================
