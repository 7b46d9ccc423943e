# TLA+ models of AI_TRADING_TEAM

This directory holds a formal model of the program in `src/ai_trading_team/`:
TLA+ modules, TLC configurations that check them on small instances, and proofs
that TLAPS checks for every value of the constants. `PROJECT.json` maps each
definition to the source lines it stands for. Paths below are relative to
`src/ai_trading_team/` unless they begin with `docs/` or `tests/`.

## 1. The system

The program watches a MetaTrader 5 account, lets a team of language-model agents
argue about a trade, records their decision as a *shadow* intent, qualifies a
strategy on the evidence of many such decisions, and may, after a human approval,
send one protected order to a DEMO account. Everything it decides is recorded in
append-only SQLite files; each repository class has an in-memory base that holds
the rules and a SQLite subclass that adds the file.

| Component | State it keeps | Operations | Interacts with | What is hard, what makes it correct |
|---|---|---|---|---|
| M11 execution service `execution/service.py` | the call in progress; last guard observation | `execute`, `reconcile_unknown` | repository, MT5 DEMO adapter, operator | claim, guard, durable DISPATCHING, one `order_send`, reconcile; crashes and other processes between any two of them. At most one send per shadow decision; a rejection leaves nothing at the broker; a confirmation is true |
| M11 execution repository `storage/execution.py` | approvals, revocations, control events, intents, record revisions: in memory and in the file | `add_approval`, `revoke_approval`, `append_control_event`, `claim`, `save`, `recover_incomplete`, `_load` | every process that opens the file | memory is read, the file only written; a refused write must be undone. One gapless history per intent; memory never ahead of the file |
| MT5 DEMO adapter `execution/mt5_demo/` | final observations, vendor audits | `order_check`, `observe_final_dispatch`, `submit_demo_market_intent`, `find_broker_evidence` | the terminal | answers may be lost, late or ambiguous |
| M11 acceptance command `execution/real_demo_acceptance.py`, `storage/execution_acceptance.py` | readiness, consumptions, results (a second file) | `readiness_only`, `execute_once` | execution service, execution repository | one readiness lets one order out; results tell the truth; the control is closed afterwards |
| M5 AI budget `runtime/budget.py`, `storage/ai_budget.py` | reservations and their state | `reserve_if_within`, `mark_dispatched`, `settle`, `release`, `mark_uncertain` | model router, parallel agents, other processes | check and reserve must be one step; money that may have been spent stays counted |
| M5 model router `runtime/router.py` | the attempt in progress | `invoke` | budget guard, provider adapters | timeouts and retries; a charge after dispatch is never assumed away |
| M6 SHADOW cycle `orchestration/shadow.py` | the cycle in progress, its stages and invocations | `run_shadow_cycle` | router (three agents in parallel), risk engine, audit repository | failures at any stage end in exactly one terminal disposition |
| M6 audit repository `storage/shadow_audit.py` | cycle claims and audits | `claim_cycle`, `finalize`, `abandon` | observation runtime | one claim per market view; finalize and abandon race |
| M9 observation runtime `observation/runtime.py` | runtime status, candle candidates | `start`, `poll_once`, `shutdown`, `health` | market service, SHADOW cycle, observation repository | re-entry, shutdown during a cycle, restart with half-done claims |
| M9 observation repository `storage/observation.py` | candle claims, decisions, baselines, outcomes | `discover`, `claim`, `mark_processing`, `mark_terminal`, `recover_incomplete`, `append_decision` | runtime, outcome tracker | a candle is processed at most once; a decision and its claim are written apart |
| M10 qualification `qualification/` and `storage/qualification.py` | evidence revisions, runs, evaluations, validity, current status | `append_*`, `finalize_evaluation`, `current_qualification_status` | observation repository, M11 | a run is evaluated once; a rolled-back finalization must leave memory as it was; what is unknown must not pass a gate |
| M9 risk context `observation/risk_context.py`, baselines of the repository | risk baselines | `append_baseline`, `supersede_baseline`, `invalidate_baseline`, `build` | market service, risk engine | the account is read after the snapshot; exactly one baseline may be in force |
| M3 risk engine `risk/` | none (pure) | `evaluate`, account state, sizing | SHADOW cycle, M11 revalidation | boundaries of the drawdown and loss limits; rounding to the broker's volume grid |
| M8 replay and evaluation `replay/`, `evaluation/`; M9 outcome tracking `observation/outcomes.py` | frames, frozen decisions, outcomes, summaries; tracked outcomes | `build_frame`, `freeze_replay_decision`, `evaluate`, `summarize_performance`, `register_decision`, `attach_outcome` | historical source | no look-ahead; which level is touched first; summaries of sequences |
| M2 market service, M1 MT5 client `market/`, `mt5/` | the connection | `initialize`, `shutdown`, `build_snapshot` | terminal | one snapshot out of separate reads, over three clocks; a failed start closes what it opened |
| M7 features, M4 agents and prompts, configuration, shared schemas | none that changes | | | decimal arithmetic, static contracts, field validation |

## 2. Modules

| Module | Models |
|---|---|
| `OneShotDispatch` | what M11 promises about the broker, without records, caches or processes |
| `DemoExecution` | the execution service over the SQLite repository and the adapter, in several processes |
| `RealDemoAcceptance` | the acceptance command, composed with `DemoExecution` (which it extends) |
| `AiBudget` | the budget ledger: reservations and the limits of the policy |
| `ModelRouter` | calls of the model router and the provider, composed with `AiBudget` (which it extends) |
| `ShadowCycle` | calls of `run_shadow_cycle` over the SQLite audit repository |
| `ShadowObservation` | the M9 runtimes of one process over the SQLite observation repository |
| `RiskEngine` | the M3 engine as operators: account state, proposal checks, sizing, decision |
| `RiskContext` | baselines, the account risk context built from them, and the decision (extends `RiskEngine`) |
| `PerformanceMetrics` | `summarize_performance` as operators, used by the replay and by M10 |
| `OutcomeEvaluation` | the views of the historical source and the walk of `OutcomeEvaluator`, as operators |
| `HistoricalReplay` | frames, frozen decisions, outcomes, summaries and tracked outcomes (extends `OutcomeEvaluation`) |
| `GraduationGates` | the summaries and gates of M10 as operators (extends `PerformanceMetrics`) |
| `Qualification` | sessions of `QualificationService` over the SQLite repository (extends `GraduationGates`) |
| `MarketData` | the connection of the MT5 client and a snapshot put together read by read |
| `X_proofs` | theorems about `X`; those about `DemoExecution` and `AiBudget` stand with those of the module that composes them |
| `MCX` | instances of `X` for TLC |

A component that is composed with another extends its module and leaves the other's
variables to the other's actions. Operators that only a mutant of `PROJECT.json` uses stand
before the definition they replace and say "As X, but".

### DemoExecution

*State.* `rows`, `control`, `granted`, `revoked` are the file: the revisions of
`m11_record_revision`, the state of the control event that stands last, the
approvals and revocations. `mem[p]` is the repository object of process `p`, which
reads the file when it is opened and never again. `call[p]` is the service call the
process is in, `call[p].pc` the next outside call it makes. `sends`, `fills` and
`open` are the broker. `late` names the processes whose halt event already has its
time stamp although a later-stamped event has been written: `_load` orders events by
`occurred_at`, so such a halt does not become the last event of the file.

*Actions.* Each is one stretch of code between two points at which another process or
the broker can act:

| Action | Code |
|---|---|
| `Open`, `Crash` | `SQLiteDemoExecutionRepository.__init__` with `_load`; the end of a process anywhere |
| `Begin`, `BeginRefused` | `execute` up to `_validate_authority` |
| `Capture` | observation, preflight, fresh risk revalidation, sealing |
| `ClaimIntent` | `claim`: memory checks, then one INSERT under PRIMARY KEY and UNIQUE |
| `OrderCheck`, `ObserveFinal`, `Guard` | the three checks before dispatch, each with `_reject_before_dispatch` |
| `PersistDispatching`, `Submit`, `Settle` | DISPATCHING saved; `order_send`; the receipt saved |
| `Reconcile`, `Halt` | `_reconcile_record`; `_halt` |
| `ReconcileUnknown`, `Recover` | `reconcile_unknown`; `recover_incomplete` |
| `OperatorControl`, `Grant`, `Revoke` | `append_control_event`, `add_approval`, `revoke_approval` |
| `CloseControl` | `_finish_control` of the acceptance command |
| `LateFill`, `ClosePosition` | the broker executes or drops a pending order; a position is closed |

Every write may also raise (`SaveOrRaise`): the file is locked or full, or has the
revision already. A write that the file refuses is undone in memory, as the code
does; `MemoryIsDurable` checks that no path forgets it.

*Abstractions.* A record is its intent, the length of its history, its last state
and its receipt's disposition. Digests, prices, volumes and times are gone; a check
of them is a choice between passing and failing. A claim writes CREATED and CLAIMED
together, so records start at revision 2. What an order may have become at the broker
is `none`, `pending`, `match` or `other`.

*Switches.* `Exclusive` restricts the instance to one process at a time, with no
command between guard and halt; it is the deployment the runbook describes, and some
properties need it. `TimeoutsFinal` says that an order whose return code is neither
DONE, PLACED nor DONE_PARTIAL was not executed: `map_submission_receipt` takes it
for granted, and `TimeoutRejected` shows what it hides.

*Refinement.* `OneShotDispatch` knows only intents, what a log says of each and what happened
at the broker. `ImplementsOneShot` maps the last row of an intent and the broker's variables
to it; one step of the code may give up several intents, since recovery goes over all of them.

### RealDemoAcceptance

`file` is the acceptance database, `note[p]` what process `p` holds of it, `run[p]`
its `execute_once`. Control events get a number (`stamp`); `last` is the one that
stands last in the file, `seen[p]` the one `p` takes for current. Every action is a
step of `DemoExecution` or leaves its variables alone (theorem
`CommandImplementsService`), so all invariants of the service hold here too.
`CloseFails` covers a control event that cannot be written and every exception
between the service's return and the saved result.

### AiBudget and ModelRouter

`book` is the ledger, `router[c]` one call of `RuntimeRouter.invoke`, `telemetry[c]` the
cost its result reports. `wire`, `charge` and `sender` are the provider: the request of
each attempt, what was charged for it, and who sent it.

| Action | Code |
|---|---|
| `Preflight` | `invoke` up to the retry loop |
| `Reserve` | the remaining time; `BudgetGuard.reserve`, `reserve_if_within` |
| `MarkDispatched`, `Invoke` | `mark_dispatched`; `adapter.invoke` |
| `Respond`, `ProviderFails` | a response; a timeout or an error after the request left |
| `Close` | `mark_uncertain` or `release_undispatched_attempt`, and the choice to retry |
| `SettleResponse`, `Parse`, `Report` | `settle` or `mark_uncertain`; the output; the failure |
| `LedgerRaises`, `Stop` | the ledger file raises; the task is cancelled or the process ends |
| `Serve`, `Midnight` | the provider serves late; the day changes |

Calls are the agents of one stage or of several processes, so any two of their steps
interleave; a ledger operation is one step, as its lock and its `BEGIN IMMEDIATE` make
it. After `mark_dispatched` only the owner changes a reservation, which is why the
separate read and update of `settle` are one step too. Amounts are whole units; the guard's other
checks (tokens, currency, validity of prices) are part of `Reserve`'s choice to fail.
`Excess` lets the provider charge and report more than the estimate.

### ShadowCycle

`claim` and `record` are the audit file, `run[r]` the `_CycleState` of one call with its
place, `callers[y]` the calls that asked agents for cycle `y`. Calls of one cycle are
repetitions of it. An output or failure is its role and debate round, and for a failure
its category and disposition; the content of outputs is the action of the Chief only.

| Action | Code |
|---|---|
| `Claim`, `Inputs` | `claim_cycle`; the market view, `validate_shadow_inputs`, the stale snapshot |
| `Answer`, `StageOne` | one answer of the parallel agents; what follows `asyncio.gather` |
| `Entry`, `Research`, `Developer` | the entry analyst; the two Quant roles of `_run_quant_stage` |
| `Skeptic`, `ChiefFails`, `ChiefDecides` | a round of the debate |
| `Risk`, `Finish` | the Risk engine's verdict; `_finish`, `validate_cycle` and `finalize` |
| `FileRaises`, `Stop` | the audit file raises; the call is cancelled or its process ends |
| `AbandonCheck`, `Abandon` | `abandon`, which reads the claim before its transaction begins |

The last is a race: a call that finalizes between the two steps leaves an ABANDONED claim
with a record. `ClosedStaysClosed` and `RecordsMatchClaims` state what survives it.
A Chief that fails is recorded with stage 5 SKIPPED ("not reached"), since only stage 4 is
set on that path, and a Skeptic that aborts leaves stage 4 at HOLD; `RecordIsTrue` therefore
speaks of what COMPLETED and DEGRADED mean, and of what a directional disposition needs.
`FailuresDecide` compares the dispositions the cycle computes (by category, then rewritten
after the first stage) with `AgentFailurePolicy.resolve`, which the cycle itself does not call.

### ShadowObservation

`claims` and `decisions` are the file; the repository object of the process always agrees
with it, since a write that raises is undone. `runtime[r]` holds the fields of one
`ContinuousShadowRuntime` (`state`, `processing`, `shutdown`) and the local variables of its
call. `dispatched` counts the SHADOW cycles asked for. A runtime gives way to another only
between two calls and while it awaits a cycle (`Turn`), as the event loop does.

| Action | Code |
|---|---|
| `StartIneligible`, `Start`, `Recover`, `Started` | `start`, `recover_incomplete` |
| `Poll`, `MissedDiscover`, `MissedTerminal`, `MissedDone` | `poll_once`: discovery, the candles that are too old |
| `DiscoverCandle`, `ClaimCandle`, `Snapshot`, `BindSnapshot` | `_process` up to the bound snapshot |
| `Preflight`, `MarkProcessing`, `CycleEnds`, `CycleCancelled` | risk context to eligibility; `mark_processing`; the awaited cycle |
| `Append`, `MarkTerminal`, `Finally` | `_hold`, `_fail_claim`, the record and the terminal claim; the `finally` of `poll_once` |
| `Shutdown`, `WriteFails`, `Crash`, `Tick` | `shutdown`; a write that raises; the process ends; time |

`guarded` says whether an exception is still caught by `_process`; whatever is raised in a
handler leaves the poll. The cycle is abstracted to what the runtime sees of it: a record, an
exception, a cancellation. Its own promise (one caller per cycle, every claimed cycle ends) is
that of `ShadowCycle`.

### RiskEngine and RiskContext

`RiskEngine` evaluates over integers: prices in ticks, money in cents, percentages in
hundredths, quotients compared after multiplication. `RiskContext` has the rows of
`m9_risk_baselines` and one decision at a time with its `snapshot`, its `context` or the reason
it is `held`, and its `decision`. `AppendBaseline`, `SupersedeBaseline` and `InvalidateBaseline`
are what an operator may do at any moment, `BuildContext` is `AccountRiskContextProvider.build`
with account and positions as they are by then, `Decide` is `RiskEngine.evaluate`.

### PerformanceMetrics, OutcomeEvaluation and HistoricalReplay

`data` is the dataset; `frames`, `decisions`, `outcomes` and `summaries` are the replay repository,
`tracked` the rows of `m9_outcomes`. Identities are content digests in the code, so a record
is here its content. `BuildFrame`, `Freeze`, `Evaluate`, `Summarize` are the engine, the freezing,
the evaluator and the metrics, each with the append that follows; `Register` and `Attach` are
`ShadowOutcomeTracker`. In the program the cycle identities that M8 makes ("cycle-v1:") differ from M9's
("cycle-m9-"), so an outcome fits a tracked decision only if its maker used the M9 identity;
the model identifies the two records.

### GraduationGates and Qualification

`disk` is the tables of one dataset and its run, `memory[s]` the repository a session loaded
when it started, `pending[s]` the status `reassess_current` has yet to append after the
assessment. `m9` is the observation repository the evidence is collected from, `manifest` the
current dependencies.

| Action | Code |
|---|---|
| `Open`, `Collect`, `Supplement`, `Seal` | `append_evidence_revision`, `collect_m9_evidence`, `append_evidence`, `seal` |
| `CreateRun` | `create_run` |
| `Evaluate` | `evaluate` with `finalize_evaluation`: one transaction, or the rollback of memory |
| `Reassess`, `AppendStatus` | `reassess_current`: two writes |
| `Start`, `Stop` | the repository's `_load`; the end of a session |
| `Settle`, `ChangeManifest`, `Tick` | M9 goes on; a dependency or an acceptance changes; time |

Revisions carry the digest of the one before; a digest is the tuple of what it covers. What the
cycle of a decision adds to a summary (invocations, costs, failures) is its `Profile`.

### MarketData

`initialized` and `connections` are the client; `build` is the `build_snapshot` under way, with the
step it has reached and what it has read; `snapshot` the first one completed. The service keeps
nothing between builds, so one snapshot is followed. Three clocks: `now` is UTC, `Clock` is `utc_now`
of the host, whose correction may change during a build, and `Label` the server's time, which the client
takes for UTC. A candle is the set of trades in it, so that a candle still being made is one
that can change. Every read of `build_snapshot` is an action (`ReadSymbolInfo` ... `ReadTick`), as the
client holds its lock for one method; `CompleteSnapshot` makes the checks, `Refuse` is every failure.

## 3. What the runs check

| Run | Instance | Shows |
|---|---|---|
| `Shared` | 2 processes, 2 intents of one decision, 1 crash, 1 command | `AtMostOneSend`, `RejectedMeansNoExposure`, `LogIsLifecycle`, `MemoryIsDurable` |
| `Exclusive` | 1 process with a restart, 2 intents, 2 commands | `SendUnderAuthority`, `HaltIsDurable`, `NoOrderBesideConfirmed`; records and broker refine `OneShotDispatch` (`ImplementsOneShot`) |
| `Acceptance` | 2 processes, 2 intents of two decisions, 1 readiness generation, 1 crash, 1 command | `ResultIsTrue`, `OneSendPerConsumption`, `AuthorityIsSpent` |
| `Router` | 3 calls, two of them of one invocation, 2 attempts, 2 days, charges up to 1 above the estimate | `WithinPolicy`, `ChargesAreHeld`, `OneSender`, `TelemetryCoversCharges` |
| `Shadow` | 2 calls of one cycle, 2 rounds, both Quant roles, fairness | `OneCallerPerCycle`, `RecordsMatchClaims`, `RecordIsTrue`, `FailuresDecide`; every claimed cycle ends (`RunsEnd`) |
| `Observation` | 2 runtimes of one symbol, 2 candles, 1 failing write, 1 crash, fairness | `NeverRedispatched`, `ClaimsMatchRecords`, `IdentityChain`, `SettledStays`; polls and shutdowns end (`PollsEnd`) |
| `Risk` | 2 baselines, 2 accounts, 2 days, 7 equities, 3 symbols, 4 proposals | `ContextIsUnambiguous`, `BestVolume`, `ApprovedIsSafe`, `LessEquityNoMoreRisk` |
| `Replay` | 20 price paths of 4 candles, 2 partitions, both kinds of horizon, a long, a short and an invalid proposal | `NoLookAhead`, `FirstTouch`, `SummaryIsRight`, `TrackedAgrees` |
| `Qualification` | 2 sessions, 2 decisions, 2 manifests, 3 revisions, 2 assessments | `EvidenceChain`, `OneVerdict`, `EligibleIsEarned`, `GatesFailSafe` |
| `Market` | 2 timeframes, a server that is right, behind or ahead, 1 correction of the clock | `OneConnection`, `CandlesAreFinal`, `FreshIsRecent` |
| `TimeoutRejected`, `SecondRound` | | see section 4 |

*Bounds.* The hazards of M11 are races between two processes over one row, so two processes
suffice: a third can only repeat what the second does, and the proofs below cover any
number. With one process at a time the name of the process does not matter, so `Exclusive`
has one that restarts. Two intents compete for one shadow decision (`Shared`) or for one
readiness (`Acceptance`). A crash stops a process anywhere in a call, and the other process, or the same
one after it opened the file again, recovers what it left; recovery itself can be run
at any moment by either process.
In `Router` two calls compete for one identity and a third for the same budget; two attempts
are one retry; the limits are such that a day's budget, the month's, the calls of the day
and of the cycle each refuse a reservation in some state. `Cost` 2 leaves room to settle below, at and above the reservation.
In `Shadow` cycles share nothing but the file, so one cycle with two calls has every conflict
over a claim; two rounds have a first and a last; both Quant roles include the runs of one,
and skipping the stage leaves out steps without adding any.
In `Observation` two runtimes of one symbol find each other's candles; two candles are one
that is timely and one that becomes too old; a runtime that restarts, another one that starts
while the first awaits its cycle, and a write that fails at any place are all within the bounds.
`Risk` has equities at and on both sides of each limit of the default constitution, and grids of
volumes that start off a multiple of their step, end below the risk allowed, or are too coarse.
In `Replay` the second and third candles of a path take every way of touching one level, both or none,
the second may be missing, and the partition ends inside the dataset.
`Qualification` allows three revisions, the least in which evidence can be sealed
and evaluated, and two of a kind compete for each number.
`Market` has a candle of the shorter timeframe roll over inside a build, and one of the longer at every second such boundary.

*Fairness.* `FairSpec` of `ShadowCycle` asks only that a running cycle takes its next step (`WF` of `RunStep`): the router bounds the time of each
agent, and nothing else is waited for. In `ShadowObservation` it is `SF` of a runtime's `Step`: runtimes share
one event loop, so a step is disabled while another has its turn, and the loop comes
back to every task that can go on; that a cycle ends is what `RunsEnd` shows. Opening, beginning,
starting, polling, recovering and reconciling are up to a person or a scheduler, and no fairness is asked of them.

## 4. Where the code and its documents disagree

Two have a run that TLC must find violated; PROJECT.json quotes both sides.

| Run | What happens |
|---|---|
| `TimeoutRejected` | a timeout reported as a return code is recorded as REJECTED and never reconciled |
| `SecondRound` | a Skeptic or Chief that fails in round 2 or 3 leaves `chief_decisions` without a final `chief_decision`; `validate_cycle` refuses the record, the call raises and the claim stays INCOMPLETE |

Others were met while modelling and follow from the modules, without a run of their own.

- *Recovery without a halt.* `recover_incomplete` (`storage/execution.py:206`) makes records UNKNOWN and leaves the control ENABLED.
- *A lost answer is never confirmed.* A receipt made up by recovery has no evidence, and
  `find_broker_evidence` (`execution/mt5_demo/adapter.py:173`) then never looks: the record stays UNKNOWN.
- *Another candidate.* `execute_once` (`execution/real_demo_acceptance.py:181`) does not compare its
  candidate with the consumed readiness.
- *Crash before the control is closed.* A crash between saving the acceptance result and
  `_finish_control` leaves the control ENABLED for a finished run; `AuthorityIsSpent` speaks only of runs that return.
- *Authority read from memory.* The final guard reads control and approval from memory, so with two processes
  (`Exclusive` FALSE) `SendUnderAuthority` fails: another process's revocation or halt is not seen, and
  PAUSED can be appended after it. In one process, `_halt` stamps its event before it is written; a
  command filed in between stands after the halt when the file is read again, and `HaltIsDurable` fails.
- *A look at the positions that is old.* M11 "requires zero account positions before dispatch" (`execution/preflight.py:101`),
  and looks at them before DISPATCHING is saved (`execution/service.py:144`). An earlier order with an uncertain result may be
  executed after the look, and the new order then stands beside it; `NoOrderBesideConfirmed` says that nothing
  worse happens in one process. With two it fails: the other process may send and confirm its order in between.
- *A cost above the reservation.* Reported usage above the reservation makes `settle` raise ValueError, which
  leaves `invoke` (`runtime/router.py:214`); its docstring promises an output or a failure.
- *Shifted server time.* `docs/milestones/M2_REPORT.md` saw a server about three hours ahead, whose ticks
  `_validate_tick_time` (`market/service.py:479`) refuses. Once the symbol has not traded for that long the tick passes,
  and counts as fresh; hence the condition on `offset` in `FreshIsRecent`.
- *Unfinished claims that stay.* `recover_incomplete` of M9 (`storage/observation.py:191`) abandons CLAIMED and
  PROCESSING claims. One that is only DISCOVERED stays so for good: no poll takes up a candle that has a claim.
  The repository's README says unfinished claims become ABANDONED.
- *A status that is left standing.* `reassess_current` (`qualification/service.py:172`) writes the assessment and the
  status one after the other. When the second fails, the last status on record still says eligible of an
  evaluation that is no longer valid.
- *What no gate counts.* A RUNTIME_FAILURE incident is counted by no gate (`GatesFailSafe` leaves it out), a FAILED
  claim with its FAILED decision counts twice in the runtime failure rate, an unbounded profit factor (wins
  and no loss) fails the gate on the profit factor, and SOURCE_CANDLE_REVISED, which the zero-tolerance gate on
  revisions looks for, is only raised by `discover` for a candle that has a claim; the runtime never calls it for one.
- *A claim collected while it is open.* Evidence may be collected while a claim is PROCESSING; a later collection may
  not bring that key again, so the sealed evidence keeps the open state.
- *Market settings of the engine.* A replay's configuration names a candle count, and the snapshot
  builder (`replay/snapshot.py:42`) uses that of its own market settings; with one engine the
  difference cannot be seen, and `NoLookAhead` holds for whichever count was used.
- *A horizon of another configuration.* `_validate_links` (`evaluation/outcomes.py:227`) compares the dataset and the timeframe of
  the configuration and not its identity, so one decision may get outcomes over several horizons, and a summary may
  mix them. The tracker compares horizons (`TrackedAgrees`).

## 5. What is proved

Each theorem holds for every value of the constants that satisfies the named assumptions of its module.

| Module | Proved | For any |
|---|---|---|
| `RealDemoAcceptance_proofs`, of the service | `TypeOK`, `AtMostOneSend`, `SentIsDurable`, `RejectedMeansNoExposure`, `ConfirmedMeansFilled`, `LogIsLifecycle`, `MemoryIsDurable`, `ReturnsSettled`; `ImplementsOneShot` if `TimeoutsFinal`; `SendUnderAuthority`, `HaltIsDurable` and `NoOrderBesideConfirmed` if `Exclusive` | processes, intents, sources, approvals, bounds |
| the same, of the command | it implements the service and sends once; `RTypeOK`, `ResultIsTrue`, `OneSendPerConsumption`, `AuthorityIsSpent` | and readiness generations |
| `ModelRouter_proofs` | `RouterTypeOK`, `ChargesAreHeld`, `OneSender`, `AnsweredMeansClosed`, `WithinPolicy`, `TelemetryCoversCharges` | calls, invocations, costs and limits; one to three attempts |
| `ShadowCycle_proofs` | `ShadowTypeOK`, `OneCallerPerCycle`, `RecordsMatchClaims`, `ClosedStaysClosed`, `RecordIsTrue`, `FailuresDecide` | calls and cycles, one to three rounds, every choice of Quant roles |
| `ShadowObservation_proofs` | `ObservationTypeOK`, `NeverRedispatched`, `ClaimsMatchRecords`, `IdentityChain`, `SettledStays` | runtimes, symbols and candles, failing writes and crashes; a candle stays timely for at most the duration of one, which the settings enforce |
| `RiskContext_proofs` | `RiskTypeOK`, `ContextIsUnambiguous`, `BestVolume`, `ApprovedIsSafe`, `LessEquityNoMoreRisk` | baselines, equities, grids and prices; limits ordered as the settings of the constitution demand |
| `Qualification_proofs` | `EvidenceChain`, `OneVerdict`, `EligibleIsEarned`, `GatesFailSafe` | sessions, manifests, decisions, incidents and thresholds; minimums of at least one and a provider rate of at most 100%, as the fields of the policy are declared |
| `HistoricalReplay_proofs` | `NoLookAhead`, `FirstTouch`, `SummaryIsRight`, `TrackedAgrees` | datasets over a finite set of opening times, schedules, proposals and configurations |
| `MarketData_proofs` | `MarketTypeOK`, `OneConnection`, `CandlesAreFinal`, `FreshIsRecent` | timeframes, ages, shifts of the server and corrections of the host clock |

The two switches are hypotheses because the properties are false without them: section 4 says what happens
then. `ImplementsOneShot` is the refinement with its initial states and each of its steps; liveness is not part of it.
The type invariants are proved and not repeated in the runs.

The argument. None of the properties is inductive: `AtMostOneSend` says nothing of a
process that stands before `order_send`. The inductive invariant `IInv` makes the file the
arbiter. A revision number exists once per intent, and DISPATCHING is always
revision 3, so at most one process ever writes it. A process at `send` or `settle` is
the one that did (its row is that revision); before it has called the broker,
`sends` is 0. No other process can be at `send` for the intent or for another intent of
the same source, since both would need a claim, and claims of one source exclude each
other in the file. Recovery cannot reject what DISPATCHING follows: a REJECTED
revision 3 takes the number the other process would need. The rest of `IInv` says
that rows form one history and that memory and call rows are rows of the file.

For the refinement each action is mapped to what it does to the last row of an intent and to the broker; that a step
that the service takes is allowed by `OneShotDispatch` needs `IInv` again (who may write DISPATCHING, and what
a receipt says of the broker). The hypothesis is used where a receipt without execution rejects an intent.
With one process at a time the memory of that process is the file, and its current event the last of it, until a
halt leaves it behind on purpose (`ExclusiveInv`); so what the final guard reads in memory stands in the file, and nobody
can change it before `order_send`. For `NoOrderBesideConfirmed` it is what the look at the positions leaves behind (`LookInv`): no open position
belongs to a confirmed record. A late execution after the look was pending, so its record is not confirmed
(`ConfirmedMeansFilled`), and no other call is there to confirm one before the send. `OneSendPerConsumption` needs an injection, from the intents that were sent or may still be
to the consumed generations (`SpendInv`): a run holds its generation until it ends, and the service sends once in a run.
`AuthorityIsSpent` needs that the events of the file are numbered in the order they are stored in, and that a run
remembers a number no larger than its consumption's (`EventInv`).

For the router the argument is ownership. A call owns its invocation from its first
reservation on; the ledger gives attempt 1 to one call only, so no two owners share a
reservation. The invariant `IInv` of `ModelRouter_proofs` ties the state of the owner's last reservation to
the place of the call (`CallOK`), says that earlier attempts have failed, and bounds what
can be at the provider by the state of the reservation (`RequestOK`): nothing that is
absent, reserved or released was ever sent. Hence a charge always meets a reservation that counts.
The limits are sums over the set of reservations. A sum over a finite set is defined by recursion; lemmas about
it (one element more, amounts that agree or shrink) follow from a smallest counterexample, which exists because
sizes of finite sets are well ordered. With them each step of the ledger either adds one reservation that was checked
against the limits or makes counted amounts smaller. What a result reports is the sum over the attempts of its own
call, and each of them still holds at least its charge.

For the SHADOW cycle it is ownership again. A call owns its cycle from its claim until it
ends; a claim is given once, so no two owners share a cycle, and an owner that has not asked
an agent yet finds that no call has (`Ownership`). That outlives the call: the claim never becomes NONE again.
The type invariant needs that a round never exceeds `Rounds` and that a call at `finish` has a disposition.
For the contents of a record `Told` says, for each place in the cycle, which stages are already settled, which
outputs and failures they rest on, and that the disposition so far is the one the failures ask for; it holds of what a
call has gathered, and a record is that of a call that has finished.

For the observation runtime a claim only goes forward, and everything between a claim and the awaited
cycle happens in one turn of the event loop. So a call that still has to process its candle finds the
claim CLAIMED and nothing recorded, and a call that awaits its cycle finds that others have at most abandoned
its claim (`CallOK`). A poll misses the oldest candle first and processes the newest timely one; that there
are such candles follows from the well-founded order of the naturals.

For the risk engine the invariant only ties a decision to the snapshot and the context that it was made of, until
the next snapshot replaces all three; what is to be shown of it is shown of the operator `Evaluate`. The
selected volume is a minimum plus a number of steps, where the number is a quotient rounded down; lemmas about
quotients and products say that it is affordable and that one more step is not. The permitted risk falls with
equity because both drawdown and daily loss grow, measured against a baseline that stays.

For qualification (`QInv`) the tables are the arbiter. A session whose revision they accept must remember the whole chain,
because the number of the revision is free in the tables and follows its memory; so its checks were made of all the
evidence there is. A store has an evaluation exactly if its last revision is EVALUATED, and a rollback can only take
back an evaluation that was never stored, because a session that has one also has the EVALUATED revision and cannot pass
`mark_evaluated` again. A status that is stored or pending and says eligible carries what made it so (`Earned`): the run's content was sealed, its
gates passed, and the assessment is among the stored ones. For the gates it is arithmetic: an empty count fails its
gate, and each category of incidents enters a sum that some gate bounds.

For the replay, `NoLookAhead` compares a frame with one of a dataset that differs after its cutoff: two datasets that agree
on the candles closed by then give the same view. For `FirstTouch` the walk over the candles, a recursive function, is
shown to be a closed form: the extremes over the candles up to the first that touches a level. Finite sets of
times can be put in order, the closed form satisfies the equations of the recursion, and two solutions cannot
differ, since there would be a first candle where they do.

For `SummaryIsRight` a summary is that of some order of its outcomes, which the repository never loses (`SummaryInv`), and
the rest is shown of the operator `PerformanceSummary`. A sum may start with any element and be taken in parts, by a smallest
counterexample. The loop of the drawdown is followed as the walk is: after some values its peak is the largest height the
running total has had, its maximum the largest change from one height to a later one. An order in which the values never fall
exists, which puts half of the positions on each side of the median. That a won multiple is positive is where the assumption on the
scale is used: a target that is not a whole number of units of the scale would be rounded.

For the snapshot, a candle that is not the newest ended, by the server's time, at or before the opening of a newer
one, and that one holds a trade that has happened. No later trade belongs to the candle (`Final`), whatever the host clock says.
A tick is the label of a trade, so its age by the host clock differs from its true age by the shift and the correction.

Only model-checked is liveness (`RunsEnd`, `PollsEnd`), which the prover cannot treat; each safety property
that a passing run checks is also proved. `DispositionIsRecorded` and `RejectedIsFinal` are false of the code (section 4).

## 6. Not modelled

- A foreign position with the intent's symbol, side, volume and levels, opened while
  the own order is absent: the program takes the account for its own.
- A race between two threads of one process inside one repository call (memory
  first, file second): the base class holds its lock only for the memory part.
- The environment acceptance registry (`m11_environment_acceptance`), which is
  written and not consulted.
- Two processes over one observation file: `SQLiteObservationRepository` is opened by one
  runtime process in the runbook, and its memory is not compared with another writer's.
- `health` and the counters it reports; warnings of a snapshot; serialization, digests as bit strings.
- The rounding of decimals to 28 digits: the instances have quotients that it represents, or
  compare after multiplication.
- A market that moves between the read of the account and that of the positions in one risk context is a choice of
  both; that the two are not of one moment is inherent in the terminal's interface.
- A broker that revises a finished candle: in `MarketData` what a candle of the terminal holds is the trades made in it, so
  `CandlesAreFinal` is about candles read too early. `discover` of M9 does look for a revised source candle (section 4).
- The components marked `not_modelled` in PROJECT.json, with the reason for each.

## 7. Plan

1. (done) M11: `OneShotDispatch`, `DemoExecution`, `RealDemoAcceptance` and their proofs.
2. (done) M5: `AiBudget`, `ModelRouter` and their proofs.
3. (done) M6: `ShadowCycle`, with the audit repository, and the proofs about claims.
4. (done) M9: `ShadowObservation`, and the baselines and risk context in `RiskContext`.
5. (done) M10: `GraduationGates` and `Qualification`.
6. (done) M3, M8 and M2 as `RiskEngine`, `OutcomeEvaluation`, `HistoricalReplay`, `MarketData`.
7. (done) Proofs about `ShadowObservation`, `RiskContext`, `MarketData`, `Qualification` and `HistoricalReplay`, of the
   refinement, of the sums of the ledger and of the summaries.
8. Left: two processes over one observation file.
