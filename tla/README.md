# salient-core in TLA+

salient-core runs a team of language-model agents as coroutines of one asyncio
program. Each agent is a long-lived task with a queue of prompts; agents call each
other through a bus of tools, an operator steers, stops and answers them, token
budgets brake them, and a killswitch must leave nothing running. This project
keeps TLA+ models of that coordination beside the code: TLC checks them on small
instances, and TLAPS proves the results that matter for every instance.

Paths below are relative to `src/src/salient_core/` unless they start with
`docs/`.

## 1. How the system works, and what each part must get right

One event loop runs everything, so a step of a model is the code between two
awaits: no two coroutines interleave inside it, and any others may run at its
ends. What is hard is what happens at the awaits.

| Part | Code | State | Operations | Hard behaviour | What makes it correct |
|---|---|---|---|---|---|
| Agent runner | `daemon/runner.py` | queue, steer lane, current job, status, stop flag, budget park, nudge and interrupt marks | `_run`, `_process`, `submit`, `steer`, `stop`, `cancel_job`, `budget_resume`, idle watchdog | requests that arrive at every await; an exit by stop, idle timeout, crash, cancellation | every caller is answered once; FIFO order; a stop drains; no lost wake-up |
| Token budget | `daemon/_budget.py`, charge and verdict in `daemon/_runner_factory.py` | spend per agent, in the context store | charge, verdict, arm at start, resume | a brake in memory over a ledger on disk; a restart; a replayed turn | an exhausted ledger is never unbraked by a restart; a turn is charged once |
| Delegation | `bus/_delegation.py`, `coord/delegation_graph.py` | one coroutine per call; its phase | cycle check, admission, gates, submit, wait, reap | checks before awaits and acts after them; gates racing answers and timeouts | no cycle of agents waiting for each other; no job left running for a caller that is gone |
| Bus-call registry and operator questions | `daemon/_questions.py`, `coord/questions.py` | pending calls, their futures, the inbox of questions | register, resolve, cancel, answer, expire, reaper | cancel racing an answer; two answers; an answer to a parked agent | a call is in the registry exactly while it is outstanding; a question is consumed once |
| Runner factory | `daemon/_runner_factory.py` | the table of runners, epochs, swarms | start, restart, drain, swarm teardown, epoch allocation | a restart while the old incarnation tears down; failing reads of the epoch counter | one live incarnation per name; epochs never repeat |
| Killswitch | `quiesce` in `daemon/runner.py`, `daemon/proc_registry.py`, `daemon/cgroups.py` | subprocess ids per runner | register, reap, clear, report | the report is made after the evidence was dropped | quiescence is reported only when it was seen |
| Worker protocol | `worker_protocol/session.py` | calls in flight, terminate flag | serve, call, terminate | two terminations; a handler that swallows its cancellation | an acknowledgement of a stop is honest |
| Event hub | `daemon/_event_hub.py` | ring buffer, subscriber queues | publish, subscribe with replay, evict | overflow, replay against live events | a subscriber sees no gap without a notice |
| Consensus | `bus/_consensus.py` | the legs of one panel, their replies | dispatch, compare, judge | legs that fail or are cancelled, a judge that is skipped | a shortfall is told to the caller |
| Policy | `policy/` | generations of scope snapshots, one-shot rules, strikes, a replay cache, rows of denials | evaluate, authorize, publish, roll back, halt | several stores on one database; a hook delivered twice or cut off; two databases for one audit | a call that runs is on record; a one-shot admits one call; a tool call is decided once |
| Codex backend | `codex.py`, `codex_mcp.py` | a child process and its pid, credentials of the tool gateway, approval requests | connect, turn, approvals, interrupt, disconnect, revoke | threads that a cancellation does not reach; a close that fails | no CLI lives unaccounted; no tool runs after a revocation |
| Other backends | `runtime.py`, `daemon/_backend.py`, `polybrain/` | vendor sessions; the gates around their tools | connect, stream, interrupt, gate a call | an operator who answers late or edits | what runs is what was consented to |
| Context store | `bus/_context_store.py`, `bus/_context.py` | SQLite tables, a cache of keys, a count of insertions | write, delete, record, prune, search | a transaction that fails, and then its roll back | cache and disk agree; pruning takes the oldest |
| Memory | `memory/` | facts with confidences and expiry, the ledger of actions, lessons | assert, review, embed, compact, search | selection, archive and deletion with other writers between | what is removed was archived; one row per fact |
| Reconstruction | `coord/reconstruct.py` | none | a report over rows of two databases | copies written best effort | a chain is called complete when its denials are all there |
| Tool surface, prompts, display, providers, tutor | `bus/__init__.py`, `daemon/_prompts.py`, `display.py`, `alias.py`, `providers.py`, `tutor/` | tables and text | rendering | | |

Interactions. `ask_agent` (a tool that runs inside the turn of the calling agent)
registers a bus call, may wait at three gates for the operator, submits a job to
the callee's runner and awaits the job's future. The registry is read by the cycle
check of every other call, by the operator's cancel and by the reaper. The
runner's completion hook charges budgets and drives swarm teardown; the killswitch
calls `quiesce` on every runner. Questions are answered through the inbox: either
a gate future is resolved, or the answer is submitted to the agent's runner as a
new job.

`PROJECT.json` lists each component with its status, and each hazard at the line
where it bites with the properties that would catch it.

## 2. Plan

Modules, the most important behaviour first. Each component has a module with its
CONSTANTS and their named assumption, one action per operation; a `...Props`
module with what it promises; an `MC...` module with the values TLC uses; and,
where something is proved, a `...Proofs` module. Recursion is avoided (closure
operators quantify over subsets), so that every module can be proved about.

| Order | Module | Models | State |
|---|---|---|---|
| 1 | `JobService` | what a caller may rely on when it hands a job to an agent: the abstract specification of 2 | done |
| 2 | `AgentRunner` | the run loop, one turn, its requests and its budget brake | done, proved |
| 3 | `Delegation` | `ask_agent`, the registry, gates, `bus cancel`; composes runners as `JobService` describes them | done, proved |
| 4 | `Epochs`, `Incarnations` | epochs and the spend ledger over crashes; start, restart, drain and teardown under one name, with the killswitch | done, proved |
| 5 | `Inbox`, `Fanout` | questions, answers and stall marks over a restart; `ask_agents` and `ask_consensus` | done, proved |
| 6 | `ScopeStore`, `PolicyHooks`, `AuditTrail`, `ApprovalGates` | what a tool call passes before it runs, and what is recorded of it | done, proved |
| 7 | `CodexSession`, `McpGateway`, `WorkerSession` | processes and connections outside the loop | done, proved |
| 8 | `EventHub`, `ContextStore`, `KnowledgeGraph`, `ToolCalls` | what is streamed, stored, remembered and counted | done, proved |
| 9 | `...Proofs` of the service modules | the invariants and action properties of section 5, for every instance | done |

`JobService` is the contract between modules: `AgentRunner` is shown to implement
it, and `Delegation` uses runners through it. The modules of rows 4 to 8 share no
state with each other; what one takes of another is named in its header.

Every invariant and every action property that a passing run checks is a theorem
too, as is the refinement; section 7 says what is not. Where a run refutes a claim
(section 6), a theorem says how much of it is true, as far as something is:
`StopsStrandNobody` for finding 1, `ParkAdmits` for 2, `NoCircleUncancelled` for 4,
`CancelSparesUnshared` for 5, and for 6 `ToolCallsAreTrue`, which covers the loops
within a process. There is none for the others: no setting of a runner rules out
that a cancelled or a steered turn is nudged, and a swarm's child waits for its
task to be scheduled even where no cap makes it wait for a slot.

## 3. `AgentRunner`: one incarnation of a runner

The variables carry the field names of `daemon/runner.py`. `pc` names the await at
which `_run` is suspended, and an action is the code from one await to the next.
The ones that are not fields: `future` (the asyncio future of each job's caller),
`cut` (the two flags `cap_fired` and `budget_fired` of one `_process`), `attempt`,
`timed` (the pending `get()` runs under the idle timer), `stopping` and `steering`
(coroutines of `stop(kill)` and `steer(interrupt)` awaiting
`backend.interrupt()`), `spent` (the persisted ledger), and the two history
variables `released` and `exited_by`.

- The loop: `Connected`, `ArmBudgetFromLedger`, `StopSeen`, `TakeSteer`,
  `AwaitWork`, `TakeJob`, `TakeWake`, `TakeShutdown`, `IdleTimerFires`,
  `LeaveIdle`, `JobDone`, `Disconnected`. `StartJob` includes the hard refusal of
  a prompt by the safeguards, which runs no turn.
- One turn: `TurnCompletes`, `ProviderError`, `StreamEnds`, `PhaseEnds` (with the
  nudge), `TurnFails`, `WatchdogEndsStoppingRunner`, `TurnOver`, then
  `AuthRecovery` and `Reconnected` or `ReconnectFails`.
- Requests of others: `Submit`, `CallerGivesUp`, `Steer`, `Stop` and the returns
  of their interrupts, `CancelCurrent`, `CancelQueued`, `BudgetResume`.
- Failures: connect, gateway attach, store, a cancelled task, a cancel during the
  disconnect.

Abstractions. A prompt, a reply and an event are nothing; a turn costs 0 or 1
against a ceiling of 1, and `spent` saturates at the ceiling, because the code
compares with the ceiling only. Reading and charging the ledger is assumed to
succeed. `warn` and `monitor` verdicts, which only publish events, are left out.
Pool budgets are not modelled. `start()` is called once per incarnation; a restart
is another `Init` with the ledger at the ceiling.

### Runs

| Run | Properties | Shows |
|---|---|---|
| `runner_safety` | `TypeOK`, `NoStrandedCaller`, `FifoOrder`, `NeverSleepsOnWork`, `GateTracksLedger`, `ParkKept`, `SettledOnce`, `StopDrains` | with every failure switched on, futures, order, wake-ups, stop, brake and park stay right |
| `runner_liveness` | `EveryCallerAnswered`, `StopTerminates`, `SteerIsServed`, `ServesCallers` | callers are answered, stops end the runner, steers are served; the runner implements `JobService` |
| `runner_idle_strands` | `NoStrandedCallerEver` (violated) | finding 1 |
| `runner_overshoot` | `OvershootIsOneTurn` (violated) | finding 2 |
| `runner_cancel_nudged` | `NoTurnAfterCancel` (violated) | finding 3 |

Bounds. Three jobs are enough for one in service, one queued and one dropped from
between them or steered past them; a fourth meets no new combination of guards,
which look at the current job, the head of the queue and one job id. One `stop()`
is enough because `_stop_requested` is never reset; one steer interrupt under way
can already race every other action. Liveness runs with two jobs and without the
exits that are no stop, in which finding 1 refutes `EveryCallerAnswered`.

Fairness. `WF(RunLoop)`: asyncio resumes `_run` once its await is over, and the
backend ends what it was asked (connect, stream, reconnect, disconnect). Where
`prompt_timeout` is set the watchdog enforces this for a stream with no call in
flight; a call whose result never comes keeps its entry in `_inflight_actions` and
the watchdog quiet (section 6). For the others it is an assumption. No caller,
operator or failure is obliged to act, and the idle timer is among the failures.

### Proofs (`AgentRunnerProofs`)

From `RunnerAssumption` alone (bounds are naturals, sentinels are no job ids, the
ledger starts at most at the ceiling), for any number of jobs, stops and
interrupts, any ceiling and action, every failure possible: `TypeCorrect`,
`NoCallerStranded`, `NoLostWakeup`, `BrakeHolds`, `ParkIsKept`,
`FuturesSettleOnce`, `StopIsHeeded`, `ServedInOrder`, and `ParkAdmits`: a parked
runner admits no new job (`ParkAdmitsNothing`, which no run states). Without idle
timeout and without failing store or connect (`Dependable`) there are two more:
`RunnerServes`, the runner implements `JobService` with `outcome <- future` and
`closed <- exited_by # "none"`; and `StopsStrandNobody`, the property that finding 1
refutes (`NoStrandedCallerEver`) holds. Both rest on `StopOnly`: every exit is a
stop, since a shutdown sentinel is in the queue only after a stop request.

None of these is inductive by itself. `RunnerInv` is `TypeOK` with
- `ControlInv`: a loop that was left says why, a job is current exactly while one
  is served, only a runner with an idle timeout has a timer, and nothing is parked
  before the brake was looked at. Without it `NoStrandedCaller` breaks at the
  steps that leave the loop, since it does not know what was current;
- `QueueInv`: a blocked loop has its sentinel in the queue, a shutdown sentinel is
  there only after a stop request, an unminted id is nobody's. Without it
  `NeverSleepsOnWork` breaks where `TakeShutdown` takes a sentinel away, and
  `Submit` could hand out an id that is awaited.

`ServedInOrder` (`FifoOrder`) has an invariant of its own beside it, `OrderInv`:
the queue and the steer lane both ascend, and the ids in them and in the turn are
below `next_job_id`. `FifoOrder` alone lets a step break it: `Submit` appends an
id that is larger only because all that were minted are smaller, and `TakeSteer`
moves the head of the lane to the turn, which is apart from the rest only because
the lane has no id twice. The lemmas say which elements `Tail`, `Append` and
`Without` leave in a queue, and that they keep it ascending. `ParkAdmits` needs
them too: what a runner owes is in the queue or the lane, and each step leaves
there what it found, or less, or a sentinel more. `RunnerServes` maps
every step to a step or a stutter of the service.

## 4. `Delegation`: agents that ask each other

`phase` of a call is the await its `ask_agent` coroutine is at; `registered` is
the key set of `_bus_calls`, with `caller`, `target` and `depth` of `BusCall`.
`fut` is the future a cancel would settle: the gate's, then the reply's; at the
moments where the registry still holds a settled future, so does the model.
`questions` are the gate questions that the inbox still shows, `count` is
`_redispatch_counts`. `stale` marks calls whose local `runner` variable holds a
stopped runner. `by` says which job the caller was serving, so that a call ends
with its turn and `DepthCountsNesting` can speak of nesting; `swept` remembers
what `bus cancel` dropped.

- `Ask` is everything from the cycle check to the first await, with the
  registration; that no await lies between the two is what `RegistryAcyclic` rests
  on. `RedispatchStage`, `StartStage`, `ApprovalStage` and `DispatchStage` are the
  chain of gates; each names the next await, so a step of the coroutine runs
  through as many of them as the code does.
- `RedispatchApproved`, `StartTarget`, `DelegationApproved` and `GateRefused`
  resume a gate (a time-out of a gate is `GateRefused` with the future still
  pending; an answer that is on its way then finds a settled future).
- `Submit`, `Replied`, `GiveUp`, `ReapEnds` and `CallerCancelled` are the rest of
  the coroutine and its `finally`.
- `BusCancel` with `Cascade` is `bus_call_cancel`.
- Runners are abstract: what `JobService` and the theorem `RunnerServes` promise
  of one (`TakeJob`, `TurnEnds`, `RunnerCloses`), with `cancel_job` and `stop`. An
  agent may make any number of calls in a turn, as parallel tool calls do.

`FindCycle` is the reachability that the breadth-first walk computes. The walk
gives up beyond 64 levels, which is why `DelegationAssumption` has at most 64
agents.

### Runs

| Run | Properties | Shows |
|---|---|---|
| `delegation_safety` | `TypeOK`, `RegistryIsExact`, `DepthCountsNesting`, `AwaitedJobIsHeld`, `NoOrphanJobs`, `CancelTakesSpawned` | two calls with every gate, answer, time-out, cancel and interrupted caller, and a target that is stopped and restarted |
| `delegation_liveness` | `RegistryAcyclic`, `EveryCallReturns` | three calls among three busy agents, none of which times out: the waits end by themselves |
| `delegation_untracked` | `NoCircularWait` (violated) | finding 4 |
| `delegation_cascade` | `CancelSparesOthers` (violated) | finding 5 |

Bounds. Of the pairs of three agents one is gated and trusted, one gated, the
others free, so each chain of gates occurs. The safety run has two calls, which
can be nested, parallel, or a second dispatch of the same pair (threshold 2, the
floor of the code); the liveness run has three, the shortest ring that is not a
direct call back, and leaves out the interventions that end waits from outside,
which would hide a circular wait. `Prompted` and `Stoppable` bound who the
operator prompts and stops; a2 is both called and calling. `MAX_DELEGATION_DEPTH`
and `MAX_INFLIGHT_BUS_CALLS` have the values of the code and are not reached in
these instances: admission is checked in the model, its refusals are not
exercised.

Fairness. Weak fairness of every step of a coroutine whose await is over: asyncio
runs what is ready, and gates have a time-out by themselves (600 s when the
profile disables it). Weak fairness of `TurnEnds`: a turn that waits for no call
ends. Strong fairness of `TakeJob`: a prompt of the operator can take the idle
runner first, but the queue is FIFO and prompts are finite, so a queued job is
reached. Nothing obliges the operator to answer.

### Proofs (`DelegationProofs`)

`NoCycles` (`RegistryAcyclic`), `ExactRegistry` (`RegistryIsExact`),
`NestingCounted` (`DepthCountsNesting`), `NoJobLost` (`AwaitedJobIsHeld`),
`OrphansAreEnded` (`NoOrphanJobs`) and `DelegationTypes`, for any agents within
`DelegationAssumption`, any number of calls, any trust and approval policy, all
interventions allowed. `NoCircleUncancelled` bounds finding 4: while `bus cancel`
has dropped no outstanding call, no agents wait for each other in a circle.

Two theorems say what `bus cancel` takes. `CancelTakesTheSpawned`: with a call go
all calls that its job made, although the cascade knows agents only; for a job is
served by the target of its call (`HoldInv`), so what the job asks for has that
agent as caller, which `NestInv` remembers. `CancelSparesUnshared` bounds finding
5: where the agents at work for a call and for what it led to (`Descendants`) ask
for nothing else (`Unshared`), it takes nothing else. The registered descendants
are then closed under the cascade, and `Cascade` is the least such set.

`GraphInv` is the inductive invariant: the two properties with the range of
`phase`, `caller`, `target`, `registered` and `swept`. `RegistryAcyclic` alone is
not inductive, since an unused call in the registry would change its edge when it
is asked; `RegistryIsExact` excludes that. The argument: acyclic means that every
nonempty set of agents has one that no edge leaves within the set. Taking edges
away preserves this (`Subgraph`), and only `Ask` adds one. A refused cycle check
leaves a set `R` that holds the target, not the caller, and is closed under the
edges. For a set `S` with the target in it, an agent of `S \cap R` without an edge
within `S \cap R` has none within `S`, for `R` is closed, and is not the caller;
for any other `S` the new edge does not lie within `S` (`NewEdge`).

`JobsInv` is the other one, and uses `GraphInv`:
- `TypeInv`: the types, and that a call in use is between two agents;
- `NestInv`: the call that a call was made for has been used, so that `Ask`, which
  takes an unused one, becomes nobody's parent and changes no depth under another;
  and it was a call to the one who asks;
- `HoldInv`: a runner holds a job once; what it holds is addressed to it, has been
  submitted and has no reply yet; a job whose caller gave up is being ended.
  `AwaitedJobIsHeld` needs the first at the end of a turn and at a cancellation,
  where one of two equal entries would stay or go; `NoOrphanJobs` needs the second,
  since a stale entry could else be taken for a job that was submitted anew.

`cancel_job` empties the queue and fills it again without the job. `Without(s, k)`
says so by the place of the job, since no job is queued twice (`HoldInv`): a filter
over a sequence is recursive, and what it leaves could not be proved.

## 5. The services around them

Fifteen modules, one per service. No two of them share the name of a variable or a
constant, so that `MCServices` can extend all of them. It explores each from its
own initial state: `part` names the service that a behaviour is of, and the
variables of the others stay as they were made. They share no state in the code
either, but for what the headers name, so nothing is lost by this; one run asks of
all of them what each module promises.

History variables are marked so where they are declared; no guard reads one. A
cancellation, a crash, a failed write and a time-out are actions or disjuncts,
never left out; the bounds count them.

### What spends, and what runs under a name

`Epochs`. `MakeRunner` is `_allocate_runner_epoch` with the arming at start,
`RecordUsage` the row of a completed turn, `Charge` and `CancelledUncharged` the
two ways its charge goes, `Crash` the loss of everything but the store, after
which the ledger is loaded from the last snapshot. `Verdict` is `budget_verdict`
for the agent's and the pool's ceiling. `LedgerIsWhole`: no charge is dropped as a
duplicate while no write of an epoch has failed, over damaged rows and crashes
between allocation and persistence; and a turn that no ceiling saw shows as a
negative reconciliation. `EnforcementSurvives`: no verdict softens while every
snapshot was written, least of all over a restart.

`Incarnations`. `start_agent`, `spawn_template` (reserve, start, roll back, with
its awaits between), restart (stop, drain with its bound, make), the end of `_run`
in the three pieces that awaits leave of it, and `quiesce` in its four. A wedged
runner ignores its cancellation; a subprocess may be immune to the signal.
`NoOrphanRunner`: a live runner is in the table, but for one that a restart
replaced; `RegistryKeepsApart`: an ending runner signals only its own
subprocesses, and a report other than unverified is right about all that the
registry had not forgotten. The two exceptions are what the code does: section 6.

### The operator's inbox, fan-outs

`Inbox`. Ids, kinds and answers of `QuestionInbox`, the futures of `_pending`
beside them, the rows of the questions table, and the stall mark of each agent's
bus call. `AnswerBegin` and `AnswerEnd` are the two ends of the awaits in which an
operator's answer is prepared; `ClearSome`, `Dismiss`, `GateTimeout`, `AnswerGate`
and `AnswerStall` the other ways a question ends; `Restart` is `hydrate`.
`InboxHolds`: whoever waits at a gate has an open question with a future in reach,
whatever is cleared or pruned; no stall question outlives its call; and a restart
brings back what is open. `IdsNotReissued`: a persisted id never comes to mean
another question.

`Fanout`. `ask_agents` from its gate to its `finally`, with both semaphores, and
`ask_consensus` with its judge. What a child does inside `ask_agent` is
`Delegation`; here it has a row while it does. `FanoutHolds`: what a policy, the
governor or the trust limit asks about runs only under an answer that names it; a
loser of any and race is cancelled with or without a slot; all returns all; the
semaphores hold; a judge that was asked for and did not judge is told.

### A tool call on its way

`ScopeStore`. Immutable snapshots in `scope.db` with one head, a live snapshot in
each of two stores, publication as prepare, publish, roll back or settle, and
calls judged in the strict lane (one transaction) or the research lane
(`StartResearch`, `Judge`, `EndResearch`, with a thread between).
`AllowedOnRecord`: no call runs without its row, and the strict lane's row names a
snapshot that allows it. `RulesAreSerial`: a one-shot rule admits one call over
both stores and a roll back, and no generation loses another writer's rule. The
research lane consumes no one-shot (`policy/scope_evaluation.py`), so the property
is about the strict one.

`PolicyHooks`. Deliveries of tool calls to one hook with its replay cache: a
second delivery waits, replays, or is refused; a hook may be cancelled at either
await (`Recorded`, `Probed`). `DecidedOnce`: at most one strike and one
authorization for an id, and one answer.

`AuditTrail`. The two hooks that judge each call of a turn, the rows of denials in
`scope.db`, their copies in the store, the job row, and `build_reconstruction` as
the operators `Strong`, `Under` and `ChainComplete`. `ChainIsTrue`: a chain is
called complete only when every denial has its copy and every copy its denial, and
always when all was written. The 500 rows that a reconstruction reads at most are
not reached.

`ApprovalGates`. A call that waits for the operator on each of three paths, while
its request is cancelled, the backend disconnects, the budget brake is set and the
question times out. `GateHolds`: what runs is what was consented to or the
operator's own edit; what a policy refuses is neither run nor asked about; and no
question is left over.

### Processes and connections

`CodexSession`. connect in its steps, retries with a new backend, disconnect, the
late ends of calls in threads, and the killswitch's report. `AbsenceIsAccounted`:
once a CLI's pid was registered, it is in the registry while it lives, and dead
when a report says proven.

`McpGateway`. Requests in HTTP threads against the loop that issues and revokes
(`Disconnect`, `AttachFails`, then `RevokeCancels`). `CredentialBoundary`: after a
revocation has returned nothing of that agent is queued or runs uncancelled; a
credential leads to a listening server, and an owner has one.

`WorkerSession`. Frames of one feed, calls as tasks, `Terminate` with its grace,
handlers that swallow a cancellation. `StopGuarantee`: a stop has cancelled
whatever runs after it, and says that all ended only when it did.

### Stored, streamed, counted

`EventHub`. publish, subscribe, read and time. `NoSilentLoss`: of all since the
replay began a subscriber has seen or queued each event, or a whole queue of newer
ones; an eviction is the next thing it reads. `EvictsOnlyIdle`: one that reads is
not evicted.

`ContextStore`. A transaction is a step with its ways to fail (statement, commit,
roll back); the count of insertions is read and written by many threads outside
the lock. `StoreIsTrue`: cache and disk agree while the store is connected and
neither holds a refused write; pruning takes only what `Cap` newer events have
displaced.

`KnowledgeGraph`. Assertions with corroboration, reviews, time, the backfill of
embeddings, and three compactions as select, archive, delete. `MemoryIsKept`: one
row per fact with its own vector; what is removed is in an archive and, by
`apply`, expired still; credentials stay; corroboration alone gives no certainty.

`ToolCalls`. The ring that tells a loop, the map of calls in flight, the ledger's
rows, the watchdog. `ToolCallsHold`: no false question and no missed loop within a
process, no cut through a recorded tool, and rows that tell the outcome of their
own call.

### Runs

| Run | Properties | Shows |
|---|---|---|
| `services` | the twenty above | the fifteen services, in 2.8 million states |
| `tools_loop_unseen` | `CrossRunLoopIsTold` (violated) | finding 6 |
| `fanout_cancel` | `CancelledSwarmStays` (violated) | finding 7 |

Bounds (`services.cfg`). Two of whatever can race: two calls or tasks, two stores
and two calls judged by them, two threads that record, two spenders of one pool,
three deliveries of two ids, three children of which two share an endpoint; one
where only its own history matters (an observer, an agent's inbox and console, a
gated call, a subprocess). A third incarnation lets a start meet a restart's
successor; two crashes let an epoch be lost twice. Queue, ring, replay cache,
ledger map and event cap are set to one, two or three, so that each overflows. One
failed write at a time: what two at once may do is in section 6. A behaviour ends
when its bounds are used up, hence no deadlock check. The modules state safety
only; what the loop must eventually do is in sections 3 and 4.

### Proofs

Six modules. A theorem is named for what it shows; each is about `Spec` of its
module, for every value of the constants within the assumption named there. Unless
said otherwise the property is a part of the inductive invariant, and the rest is
what the property does not say and the next step needs.

`CountingLemmas`. The least and the greatest of a set of naturals, counting by
parts, by an injection and by one more, queues that increase, removal by place.
They replace induction: a bounded set of naturals has a greatest element because
`<` on `Nat` is well founded, which the library proves.

`ConnectionProofs`
- `CodexAbsence`: a backend past its registration has had a CLI, one that is to
  start it is not past it, and a report `proven` was made of an ended runner. So a
  late `start` of an abandoned thread cannot give a registered backend a new CLI.
- `GatewayBoundary`: no catalog is both offered and revoked, a handler that may
  begin or go on belongs to a scheduled request, an offered catalog has a server.
- `WorkerStops`: a running call that no terminate has cancelled is the one
  `_inflight` holds for its id; a cancelled one that runs is awaited.

`PolicyProofs`
- `HooksDecideOnce`: an open cache entry has one owner, with its effect exactly
  when it is past the first await; the cache only fills.
- `GatesHold`: for each call and stage, what the checks before it have found
  (`Untouched`, `Judged`, `Consented`); a stage is reached on the paths that have
  it.
- `ChainHolds`: without a failed write, a denied call has row and copy when its
  hooks are over, unless another refusal took the copy's place.
- `AllowedIsOnRecord`, `StoresAreOne`: one table row per generation with the head
  on top; rules carry the times at which they were added (`since`) and armed
  (`at`); what an operator's publication has in hand differs by one generation from
  what it replaces and arms nothing; and `UsedUp`: the arming that admitted a
  strict call is not armed in the head, unless a restored checkpoint armed it again
  (`srearmed`). A snapshot's rules are a set in which `since` is the place of a
  rule in the list; the first match is the least `since`.

`LifecycleProofs`
- `SpendIsWhole`: an epoch to come is above all that were issued or charged, while
  no write of an epoch failed; and each recorded token is charged, about to be, or
  known as lost, counted per agent.
- `BrakeHolds` (`EnforcementSurvives`, an action property): the ledger grows and
  the snapshot is the ledger; sums of a ledger are bounded by those of a larger
  one.
- `RunnersAreInReach`, `RegistryIsKept` (the second an action property): an
  unfinished incarnation is in the table or was replaced, a registered subprocess
  belongs to one that has still to reap, a live one is registered or forgotten.
- `ToolCallsAreTrue`. `ToolInv` relates what the runner counts to the calls that
  were made, which the four properties do not. `RingInv`: the ring holds no more
  calls of a key than count (made, and not refused, or refused and not taken out
  yet), so a full ring proves a loop; and fewer than the threshold. `ToldInv`: a
  run of calls that is not asked about is in the ring. At a full ring the oldest
  entry goes; were it of the run, so would be all entries, and the ring would have
  told it. `RecentInv` counts the row that the call at hand is about to get.
  `StagesInv` and `RowsInv` say which call is between which two messages, and that
  each has one row. Calls are numbered as they come, so the deque and the dicts,
  which keep that order, are sets of numbers, and their oldest entry is the least
  (`Entered`).

`StorageProofs`
- `StoreHolds`: no transaction stays open whatever failed, a value in a copy was
  written and not refused, shed events are older than `Cap` of those there.
- `HubLosesOpenly`: an observer's queue increases, and each promised event that is
  neither queued nor seen is older than the whole queue and a queue's worth of newer
  ones (`Covered`); an evicted one has its notice. `ReadersStay`
  (`EvictsOnlyIdle`, an action property) rests on the same invariant.
- `MemoryHolds`: ids are below the counter and not reused; a vector or a job at work
  that names a row names that row or one that is gone; what a job has archived is
  what it deletes.

`OperatorProofs`
- `FanoutKeepsFaith`: whatever began is in the batch, nothing began before the gate,
  and a batch that had to be asked about was; a panel has two and no parent.
- `InboxStays`, `IdsStay` (an action property): ids in use are behind the counter,
  in memory and in the table; whatever waits names a question of its own kind that
  was filed.

Assumptions beyond types and bounds. `Kids` and `AuditCalls` are finite, as any
batch and turn is. Bounds of the models are naturals. `ToolCallsAssumption` says of
names that no `server.tool` is the bare name of another tool, and that a tool whose
ledger name is its bare name (no server) does not refuse for a pending question,
but for native actions: the only refusal that carries the marker is `ask_agent`'s,
which the backends see as `mcp__...`. Without it the ledger counts refused calls,
and a question may be asked without a loop. `Smaller` (`KnowledgeGraph`) is written
so that its bound by `TopConfidence` does not need the value of `Doubt`, a fold.

## 6. Findings

Each is a run that TLC refutes; `PROJECT.json` has the lines.

1. `runner_idle_strands`. An idle timeout leaves the loop without setting
   `_stop_requested`. While the backend disconnects, `submit` accepts a job that
   nobody will take and whose future is never settled. The comment in `submit`
   calls the check race-free.
2. `runner_overshoot`. A parked runner goes on starting what was queued before the
   park, and each job is charged a turn; `_budget.py` bounds the overshoot by one.
   What it says of new jobs is true (`ParkAdmits`).
3. `runner_cancel_nudged`. A cancelled turn that ends silently is nudged into a
   second turn, which a second cancel does not interrupt.
4. `delegation_untracked`. `bus cancel` that meets a call between two awaited
   futures (a gate answered but not resumed, a bypass being audited) drops its
   entry without ending it. The call goes on unseen by the cycle check, and two
   agents can wait for each other until their time-outs.
5. `delegation_cascade`. The ladder of `bus cancel` takes all calls of the callee,
   also those it makes for other callers, whose chains the comment says are
   untouched.
6. `tools_loop_unseen`. The loop detector counts rows of the ledger under the bare
   name of a tool, but rows of MCP tools are written under `server.tool`: repeated
   over a restart, such a call is never asked about.
7. `fanout_cancel`. A swarm's children that wait for a semaphore have no row, so
   the operator's cancel of the swarm does not reach them, and they begin
   afterwards.

Seen while modelling, and in the models where a definition is named. No run states
these; a property named here is defined in its module and does not hold:
- `steer` sets its interrupt mark after awaiting `interrupt()`, and the interrupted
  turn may be judged before (`SteerInterruptReturns` against `PhaseEnds`). The
  polybrain backend always resumes the turn first: its loop closes the stream when
  it is cancelled, and `interrupt()` waits for the loop. A steered turn that
  produced nothing is then nudged into another turn before the steer, against the
  comment on the mark, which is left for a later phase.
- A cancel during the disconnect leaves the status other than `stopped`, so that
  `start_agent` takes the dead runner for a live one (in `DisconnectCancelled`).
- A cancel during an authentication back-off is lost, because no turn is active
  (in `CancelCurrent`).
- Two overlapping calls of a pair both pass the redispatch check before either is
  counted; a credit `yes N` yields N dispatches only with threshold 2 (in
  `RedispatchStage` and `RedispatchApproved`).
- Inbox. `submit` may refuse an operator's reply (stopping or parked agent): the
  question is marked answered and the reply is lost (`AnswerIsQueued`, which
  `AnswerEnd` breaks). Two consoles may both submit an answer. A gate that is
  cancelled leaves its question. Clearing a stall question leaves the call
  flagged, so that it is not filed again. The ids of advisory entries, which have
  no row, are given out again after a restart.
- Swarm teardown. A member's question that is answered completes a job of the
  member, and only the orchestrator's entry is looked up. One that is filed
  between the decision and the teardown is orphaned.
- Incarnations. A comment in `spawn_template` says that `_make_runner` refuses
  while the daemon stops; it does not. An ending `_run` forgets subprocesses that
  survived its reap, and so does an unverified report, after which a second one
  may say proven. A restart that an overlapping `start_agent` overtakes leaves a
  live runner outside the table.
- Scope. A research row may name a snapshot other than the judged one.
  `restore_checkpoint` compares the head's content, so a generation that came back
  is taken for the one it left. The strike count is reset by nothing but a new
  runner.
- MCP gateway. Pending calls of a catalog that a new credential supersedes are not
  cancelled; `close` does not set `revoked`; the ceiling of `ask_*` leaves the
  gates' waits out.
- Worker. A second terminate that overlaps the first finds nothing in flight; one
  whose call swallows the cancellation hangs beyond its grace; messages decoded
  before a bad frame of the same feed are lost.
- Audit. There is one copy per tool call, so a budget park or a refused replay
  takes the place of its scope denial, which is then reported missing. In shadow
  mode a call whose audit row failed goes through. When both stores fail, a denial
  leaves no trace. A cancelled turn has no job row to join its stop with, against
  `coord/reconstruct.py:132-149` (`StopIsShown`).
- Approvals. The budget gate is checked before a wait of up to ten minutes. A
  command that the operator edited is judged by the scope but not by the
  safeguards.
- Context store. After a failed roll back the connection is dropped, and `health`
  does not tell (`HealthTellsLoss`). The doc of `gc_stale_job_keys` says
  `job_<digits>`, the pattern is `job_*`. Racing recorders lose counts, which
  delays pruning.
- Codex. `_usage` is not reset per turn, so a turn without an update reports the
  last one's (`UsageIsOwn`). A CLI started by a cancelled connect is not
  registered. A close that raises skips the registry and the credential. Two
  abandoned reads use up the executor. An approval that is registered after the
  snapshot of disconnect is not cancelled.
- Fan-out. any is documented to return the first success and returns the first
  that completes, errors included. A caller that is cancelled in any or race
  leaves its children running. A panelist whose own leg failed may judge.
- Knowledge graph. Corroboration lowers a confidence above the cap
  (`CorroborationRaises`). A plan with two groups that name each other's survivors
  deletes both. An expired survivor is accepted. Updates between archive and
  deletion are lost, though the row is archived. `compact_study` does not exempt
  credentials.
- Tool calls. A call whose result never comes stays in flight for the runner's
  life and switches the watchdog off; one whose start row failed is not in flight,
  and its turn can be cut. A native action that a gate refused stays in the ring.
  A failed filing of a loop question is not tried again.

## 7. Only model-checked, and not modelled

Liveness and its fairness stay with TLC: the provers used here do not reach
`ENABLED`. These are `EveryCallerAnswered`, `StopTerminates`, `SteerIsServed` and
`EveryCallReturns`. So does what a fold computes: `Doubt` of `KnowledgeGraph` enters
the proofs only through the cap put on it. The refutations of section 6 are runs,
not theorems.

Not modelled, for the reasons in `PROJECT.json`: what text means (resources in
shell commands, what a safeguard matches, atoms of a reply, ranking and recall,
lessons), rendering, prompts, static tables, vendor adapters and their clients; of
delegation detached calls, substitutes, teams and the conflict check, and the idle
expiry of redispatch counts; of a turn refusal detection and the calls that are
written as text. The services are not composed with one another: what one assumes
of its neighbour (that a gate's future is settled once, that a runner answers) is
what sections 3 and 4 show.

## 8. Running it

`tlc -config runner_safety.cfg MCAgentRunner.tla`, and so for the other
configurations (`delegation_*.cfg` with `MCDelegation.tla`, `services.cfg` with
`MCServices.tla`, `tools_loop_unseen.cfg` with `MCToolCalls.tla`,
`fanout_cancel.cfg` with `Fanout.tla`); `tlapm M.tla` for the proofs, with `M` one
of `AgentRunnerProofs`, `DelegationProofs`, `CountingLemmas`, `ConnectionProofs`,
`PolicyProofs`, `LifecycleProofs`, `StorageProofs`, `OperatorProofs` (some minutes
for all). The operators named `..._Something` after another one are its mutants:
each breaks a property, as a bug in that code would.
