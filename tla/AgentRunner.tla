------------------------------ MODULE AgentRunner ------------------------------
(***************************************************************************)
(* One incarnation of daemon/runner.py's AgentRunner: the `_run` task that *)
(* serves a FIFO queue and a priority steer lane, the turn it streams from *)
(* the backend, and the coroutines of other tasks that act on it: submit,  *)
(* steer, stop, cancel_job, budget_resume, the idle watchdog, and the      *)
(* task.cancel() of quiesce and of a restart's drain.                      *)
(*                                                                         *)
(* asyncio runs one coroutine until it awaits, so an action is the code    *)
(* between two awaits that matter, and pc names the await at which _run is *)
(* suspended:                                                              *)
(*   connecting  backend.connect() and its gateway-attach retries          *)
(*   arming      the start line, before the budget brake is re-armed       *)
(*   loop        top of the while loop (no other task need run before it)  *)
(*   wait        queue.get(), under an idle timer when timed               *)
(*   leaving     the idle timer fired, its log line is being written       *)
(*   turn        _process is streaming one model turn                      *)
(*   phase       the stream has ended, _process has not decided to nudge   *)
(*   unwind      _process is over, _run_job's handlers have not finished   *)
(*   reconnect   back-off and reconnect after an authentication failure    *)
(*   final       context usage, completion hook and job row of the job     *)
(*   teardown    the loop is left and drained; backend.disconnect()        *)
(*   done        the task has finished                                     *)
(*                                                                         *)
(* Prompts, replies, events and log lines are abstracted away. Job ids are *)
(* the program's own counter; MaxJobs, MaxStops and MaxSteerInterrupts     *)
(* bound what the environment asks for.                                    *)
(***************************************************************************)
EXTENDS Integers, Sequences

CONSTANTS
  MaxJobs,            \* bound: job ids minted by submit and steer
  MaxStops,           \* bound: calls of stop()
  MaxSteerInterrupts, \* bound: steer interrupts awaited at the same time
  STEER_WAKE,         \* the _STEER_WAKE sentinel of the queue
  SHUTDOWN,           \* the None sentinel of the queue
  IdleTimeout,        \* cfg idle_timeout > 0
  PromptTimeout,      \* cfg prompt_timeout > 0: turns run under a watchdog
  StoreMayFail,       \* context.write / record_job may raise
  ConnectMayFail,     \* backend.connect() may raise
  Ceiling,            \* token ceiling, 0 when no budget is configured
  OnExhaustion,       \* "warn", "pause" or "stop"
  TurnCosts,          \* tokens one completed turn may report
  InitialSpend        \* spend the persisted ledger may hold at start

Jobs == 1..MaxJobs
NoJob == 0
Entries == Jobs \cup {STEER_WAKE, SHUTDOWN}

ASSUME RunnerAssumption ==
  /\ MaxJobs \in Nat /\ MaxStops \in Nat /\ MaxSteerInterrupts \in Nat
  /\ STEER_WAKE \notin Nat /\ SHUTDOWN \notin Nat /\ STEER_WAKE # SHUTDOWN
  /\ {IdleTimeout, PromptTimeout, StoreMayFail, ConnectMayFail} \subseteq BOOLEAN
  /\ Ceiling \in Nat
  /\ OnExhaustion \in {"warn", "pause", "stop"}
  /\ TurnCosts \subseteq Nat /\ InitialSpend \subseteq 0..Ceiling

MAX_AUTH_RECOVERIES == 1
MAX_GATEWAY_ATTACH_RETRIES == 2

VARIABLES
  pc, status, stop_requested,
  queue, steer_lane, current, next_job_id,
  future,                  \* of each job: its caller's asyncio future
  job_error,               \* job.error of the current job is set
  turn_active, steer_interrupt_pending, nudge_fired,
  cut,                     \* cap_fired or budget_fired of this _process
  attempt,                 \* attach retries, then auth recoveries, used
  timed,                   \* the pending queue.get() has an idle timer
  interrupted_job_id,
  stops,                   \* calls of stop() so far
  stopping,                \* stop(kill) calls awaiting backend.interrupt()
  steering,                \* steer calls awaiting backend.interrupt()
  spent,                   \* tokens of the agent in the persisted ledger
  budget_gate_armed, budget_parked,
  released,                \* history: budget_resume since the last verdict
  exited_by                \* history: why the loop was left

control  == <<pc, status, stop_requested, exited_by>>
work     == <<queue, steer_lane, current, next_job_id>>
replies  == <<future, job_error>>
turnVars == <<turn_active, steer_interrupt_pending, nudge_fired, cut,
              attempt, timed>>
calls    == <<interrupted_job_id, stops, stopping, steering>>
budget   == <<spent, budget_gate_armed, budget_parked, released>>
vars     == <<control, work, replies, turnVars, calls, budget>>

-----------------------------------------------------------------------------
(* Helpers *)

Elements(s) == {s[i] : i \in 1..Len(s)}

\* Mutant: cancel_job puts the rest back in another order.
Without_Rotated(s, k) == SubSeq(s, k + 1, Len(s)) \o SubSeq(s, 1, k - 1)

\* cancel_job's drain: the queue less its k-th item, all else in order.
Without(s, k) == SubSeq(s, 1, k - 1) \o SubSeq(s, k + 1, Len(s))

\* Mutant: no nudge, the loop is expected to look by itself.
Nudged_Not(sentinel) == queue

\* queue.put_nowait(sentinel)
Nudged(sentinel) == Append(queue, sentinel)

\* Mutant: the futures are settled without asking whether they are done.
Fail_Unguarded(S) == [j \in Jobs |-> IF j \in S /\ future[j] # "none"
                                     THEN "error" ELSE future[j]]

\* set_exception on the futures of S, each guarded by `not future.done()`.
Fail(S) == [j \in Jobs |-> IF j \in S /\ future[j] = "pending" THEN "error"
                           ELSE future[j]]

\* The verdict of budget_verdict is OVER and its action is enforced.
Exhausted == /\ Ceiling > 0
             /\ spent >= Ceiling
             /\ OnExhaustion # "warn"

\* The ledger after a charge; tokens beyond the ceiling are not told apart.
Charged(cost) == IF spent + cost < Ceiling THEN spent + cost ELSE Ceiling

\* Mutant: the refusal goes by the status, which teardown sets last.
Refusing_ByStatus == status = "stopped" \/ budget_parked

\* submit and steer refuse a runner that is stopped, stopping or parked.
Refusing == status = "stopped" \/ stop_requested \/ budget_parked

\* Mutant: the post-job reset papers over the park.
RestStatus_Idle == "idle"

RestStatus == IF budget_parked THEN "budget_parked" ELSE "idle"

\* Mutant: the idle timer does not know of the park.
IdleTimer_Always == IdleTimeout

IdleTimer == IdleTimeout /\ ~budget_parked

LoopAlive == pc \notin {"teardown", "done"}

InProcess == pc \in {"turn", "phase"}

Init ==
  /\ pc = "connecting" /\ status = "starting" /\ stop_requested = FALSE
  /\ exited_by = "none"
  /\ queue = <<>> /\ steer_lane = <<>> /\ current = NoJob /\ next_job_id = 1
  /\ future = [j \in Jobs |-> "none"] /\ job_error = FALSE
  /\ turn_active = FALSE /\ steer_interrupt_pending = FALSE
  /\ nudge_fired = FALSE /\ cut = FALSE /\ attempt = 0 /\ timed = FALSE
  /\ interrupted_job_id = NoJob /\ stops = 0 /\ stopping = 0 /\ steering = 0
  /\ spent \in InitialSpend
  /\ budget_gate_armed = FALSE /\ budget_parked = FALSE /\ released = FALSE

-----------------------------------------------------------------------------
(* Leaving the loop. Everything up to the first await of _run's finally is *)
(* synchronous with the exit: _fail_pending_futures settles the current    *)
(* job's future and those of the queued jobs, skipping the sentinels.      *)

\* Mutant: the drain ends at the first sentinel that is not None.
FailPendingFutures_EndsAtWake ==
  /\ future' = Fail({current} \cup
                    {queue[i] : i \in {k \in 1..Len(queue) :
                       \A l \in 1..k : queue[l] # STEER_WAKE}})
  /\ queue' = <<>>

FailPendingFutures ==
  /\ future' = Fail({current} \cup Elements(queue))
  /\ queue' = <<>>

\* The local variables of _process go with it; a next one starts afresh.
ProcessEnds == nudge_fired' = FALSE /\ cut' = FALSE

ExitLoop ==
  /\ pc' = "teardown"
  /\ exited_by' = IF stop_requested THEN "stop" ELSE "other"
  /\ turn_active' = FALSE /\ timed' = FALSE /\ attempt' = 0
  /\ job_error' = FALSE
  /\ ProcessEnds
  /\ FailPendingFutures
  /\ UNCHANGED <<status, stop_requested, steer_lane, current, next_job_id,
                 steer_interrupt_pending, calls, budget>>

-----------------------------------------------------------------------------
(* Start: connect, then re-arm the budget brake from the persisted ledger. *)

Connected ==
  /\ pc = "connecting"
  /\ pc' = "arming" /\ status' = "idle" /\ attempt' = 0
  /\ UNCHANGED <<stop_requested, exited_by, work, replies, turn_active,
                 steer_interrupt_pending, nudge_fired, cut, timed, calls,
                 budget>>

\* Mutant: the retries are not counted against their bound.
AttachRetry_Unbounded ==
  /\ pc = "connecting" /\ ConnectMayFail
  /\ attempt' = attempt + 1
  /\ UNCHANGED <<control, work, replies, turn_active, steer_interrupt_pending,
                 nudge_fired, cut, timed, calls, budget>>

AttachRetry ==
  /\ pc = "connecting" /\ ConnectMayFail
  /\ attempt < MAX_GATEWAY_ATTACH_RETRIES
  /\ attempt' = attempt + 1
  /\ UNCHANGED <<control, work, replies, turn_active, steer_interrupt_pending,
                 nudge_fired, cut, timed, calls, budget>>

\* The retries are used up (status "faulted"), or another error left connect.
ConnectFails ==
  /\ pc = "connecting" /\ ConnectMayFail
  /\ pc' = "teardown"
  /\ exited_by' = IF stop_requested THEN "stop" ELSE "other"
  /\ \/ attempt = MAX_GATEWAY_ATTACH_RETRIES /\ status' = "faulted"
     \/ UNCHANGED status
  /\ FailPendingFutures
  /\ UNCHANGED <<stop_requested, steer_lane, current, next_job_id, job_error,
                 turnVars, calls, budget>>

\* Mutant: only a charged turn arms the brake.
ArmBudgetFromLedger_Skipped ==
  /\ pc = "arming"
  /\ pc' = "loop"
  /\ UNCHANGED <<status, stop_requested, exited_by, work, replies, turnVars,
                 calls, budget>>

ArmBudgetFromLedger ==
  /\ pc = "arming"
  /\ pc' = "loop"
  /\ \/ ~Exhausted
        /\ UNCHANGED <<status, stop_requested, budget_gate_armed,
                       budget_parked, released>>
     \/ /\ Exhausted
        /\ budget_gate_armed' = TRUE /\ released' = FALSE
        /\ \/ /\ OnExhaustion = "stop"
              /\ stop_requested' = TRUE
              /\ UNCHANGED <<status, budget_parked>>
           \/ /\ OnExhaustion = "pause"
              /\ budget_parked' = TRUE /\ status' = "budget_parked"
              /\ UNCHANGED stop_requested
  /\ UNCHANGED <<exited_by, work, replies, turnVars, calls, spent>>

-----------------------------------------------------------------------------
(* The while loop of _run *)

\* A job becomes current. _hard_refuse_operator_prompt may refuse it, else
\* _run_job starts its turn; no await lies between.
StartJob(j) ==
  /\ current' = j /\ status' = "busy"
  /\ timed' = FALSE
  /\ \/ pc' = "turn" /\ turn_active' = TRUE /\ UNCHANGED job_error
     \/ pc' = "final" /\ job_error' = TRUE /\ UNCHANGED turn_active

StopSeen ==
  /\ pc = "loop" /\ stop_requested
  /\ ExitLoop

TakeSteer ==
  /\ pc = "loop" /\ ~stop_requested /\ steer_lane # <<>>
  /\ StartJob(Head(steer_lane))
  /\ steer_lane' = Tail(steer_lane)
  /\ UNCHANGED <<stop_requested, exited_by, queue, next_job_id, future,
                 steer_interrupt_pending, nudge_fired, cut, attempt, calls,
                 budget>>

\* queue.get() suspends on an empty queue; the idle timer is not armed for a
\* parked runner.
AwaitWork ==
  /\ pc = "loop" /\ ~stop_requested /\ steer_lane = <<>> /\ queue = <<>>
  /\ pc' = "wait"
  /\ timed' = IdleTimer
  /\ UNCHANGED <<status, stop_requested, exited_by, work, replies, turn_active,
                 steer_interrupt_pending, nudge_fired, cut, attempt, calls,
                 budget>>

\* Mutant: the loop takes what is queued before it looks at the stop flag.
GetReturns_BeforeStop ==
  /\ queue # <<>>
  /\ pc = "wait" \/ (pc = "loop" /\ steer_lane = <<>>)

\* queue.get() returns: at once when the queue holds an item, or some time
\* after an item woke it. The stop flag and the lane are not looked at again.
GetReturns ==
  /\ queue # <<>>
  /\ \/ pc = "wait"
     \/ pc = "loop" /\ ~stop_requested /\ steer_lane = <<>>

TakeJob ==
  /\ GetReturns /\ Head(queue) \in Jobs
  /\ StartJob(Head(queue))
  /\ queue' = Tail(queue)
  /\ UNCHANGED <<stop_requested, exited_by, steer_lane, next_job_id, future,
                 steer_interrupt_pending, nudge_fired, cut, attempt, calls,
                 budget>>

TakeWake ==
  /\ GetReturns /\ Head(queue) = STEER_WAKE
  /\ pc' = "loop" /\ timed' = FALSE
  /\ queue' = Tail(queue)
  /\ UNCHANGED <<status, stop_requested, exited_by, steer_lane, current,
                 next_job_id, replies, turn_active, steer_interrupt_pending,
                 nudge_fired, cut, attempt, calls, budget>>

TakeShutdown ==
  /\ GetReturns /\ Head(queue) = SHUTDOWN
  /\ ExitLoop

\* wait_for may time out although an item has just been put.
IdleTimerFires ==
  /\ pc = "wait" /\ timed
  /\ pc' = "leaving"
  /\ UNCHANGED <<status, stop_requested, exited_by, work, replies, turnVars,
                 calls, budget>>

LeaveIdle ==
  /\ pc = "leaving"
  /\ ExitLoop

-----------------------------------------------------------------------------
(* The turn: _process, and the watchdog beside it *)

\* TurnCompletedEvent: the turn is charged and the verdict acted upon before
\* the next await. A first enforced OVER parks or stops the runner; every
\* enforced OVER cuts the dispatch.
TurnCompletes(cost) ==
  /\ pc = "turn"
  /\ pc' = "phase"
  /\ spent' = Charged(cost)
  /\ released' = FALSE
  /\ \/ /\ ~Exhausted'
        /\ UNCHANGED <<status, stop_requested, cut, budget_gate_armed,
                       budget_parked>>
     \/ /\ Exhausted'
        /\ cut' = TRUE /\ budget_gate_armed' = TRUE
        /\ \/ /\ budget_gate_armed
              /\ UNCHANGED <<status, stop_requested, budget_parked>>
           \/ /\ ~budget_gate_armed /\ OnExhaustion = "stop"
              /\ stop_requested' = TRUE
              /\ UNCHANGED <<status, budget_parked>>
           \/ /\ ~budget_gate_armed /\ OnExhaustion = "pause"
              /\ budget_parked' = TRUE /\ status' = "budget_parked"
              /\ UNCHANGED stop_requested
  /\ UNCHANGED <<exited_by, work, replies, turn_active,
                 steer_interrupt_pending, nudge_fired, attempt, timed, calls>>

\* ProviderErrorEvent: recorded, and the stream goes on.
ProviderError ==
  /\ pc = "turn" /\ ~job_error
  /\ job_error' = TRUE
  /\ UNCHANGED <<control, work, future, turnVars, calls, budget>>

\* The stream ends without a TurnCompletedEvent: the backend was interrupted
\* or failed, or the hard cap interrupts it and breaks off.
StreamEnds ==
  /\ pc = "turn"
  /\ pc' = "phase"
  /\ \/ cut' = TRUE
     \/ UNCHANGED cut
  /\ UNCHANGED <<status, stop_requested, exited_by, work, replies, turn_active,
                 steer_interrupt_pending, nudge_fired, attempt, timed, calls,
                 budget>>

\* A phase that produced nothing is re-prompted once when a caller waits.
Nudges(silent) ==
  /\ silent /\ ~nudge_fired /\ ~cut /\ ~steer_interrupt_pending
  /\ future[current] # "none"

PhaseEnds(silent) ==
  /\ pc = "phase"
  /\ \/ /\ job_error
        /\ pc' = "unwind"
        /\ UNCHANGED <<steer_interrupt_pending, nudge_fired>>
     \/ /\ ~job_error
        /\ steer_interrupt_pending' = FALSE
        /\ pc' = IF Nudges(silent) THEN "turn" ELSE "unwind"
        /\ nudge_fired' = (nudge_fired \/ Nudges(silent))
  /\ UNCHANGED <<status, stop_requested, exited_by, work, replies, turn_active,
                 cut, attempt, timed, calls, budget>>

\* An exception leaves _process, or the watchdog cancels it while nobody
\* stops the runner: job.error is set and the runner carries on.
TurnFails ==
  /\ InProcess
  /\ pc' = "unwind"
  /\ job_error' = TRUE
  /\ UNCHANGED <<status, stop_requested, exited_by, work, future, turnVars,
                 calls, budget>>

\* The watchdog's cancel reaches a stopping runner: attributed to the stop,
\* re-raised, and _run unwinds.
WatchdogEndsStoppingRunner ==
  /\ InProcess /\ PromptTimeout /\ stop_requested
  /\ ExitLoop

TurnOver ==
  /\ pc = "unwind"
  /\ pc' = "final" /\ turn_active' = FALSE /\ ProcessEnds
  /\ UNCHANGED <<status, stop_requested, exited_by, work, replies,
                 steer_interrupt_pending, attempt, timed, calls, budget>>

\* The turn was refused with authentication_failed: one recovery per job.
AuthRecovery ==
  /\ pc = "unwind" /\ attempt < MAX_AUTH_RECOVERIES /\ ~stop_requested
  /\ pc' = "reconnect" /\ turn_active' = FALSE /\ ProcessEnds
  /\ attempt' = attempt + 1
  /\ UNCHANGED <<status, stop_requested, exited_by, work, replies,
                 steer_interrupt_pending, timed, calls, budget>>

\* The job is run again from its beginning; its job.error is not cleared.
Reconnected ==
  /\ pc = "reconnect"
  /\ pc' = "turn" /\ turn_active' = TRUE
  /\ UNCHANGED <<status, stop_requested, exited_by, work, replies,
                 steer_interrupt_pending, nudge_fired, cut, attempt, timed,
                 calls, budget>>

ReconnectFails ==
  /\ pc = "reconnect"
  /\ pc' = "final"
  /\ UNCHANGED <<status, stop_requested, exited_by, work, replies, turnVars,
                 calls, budget>>

\* The job row is written: the caller gets the job, the runner is free again.
JobDone ==
  /\ pc = "final"
  /\ pc' = "loop"
  /\ future' = [future EXCEPT ![current] =
                  IF @ = "pending" THEN "result" ELSE @]
  /\ current' = NoJob /\ attempt' = 0 /\ job_error' = FALSE
  /\ status' = RestStatus
  /\ UNCHANGED <<stop_requested, exited_by, queue, steer_lane, next_job_id,
                 turn_active, steer_interrupt_pending, nudge_fired, cut, timed,
                 calls, budget>>

\* context.write or record_job raises out of the loop.
StoreFails ==
  /\ pc = "final" /\ StoreMayFail
  /\ ExitLoop

-----------------------------------------------------------------------------
(* Teardown *)

Disconnected ==
  /\ pc = "teardown"
  /\ pc' = "done" /\ status' = "stopped"
  /\ UNCHANGED <<stop_requested, exited_by, work, replies, turnVars, calls,
                 budget>>

\* task.cancel() by quiesce or by a restart's drain, both after stop().
TaskCancelled ==
  /\ LoopAlive /\ stop_requested
  /\ ExitLoop

\* The same during backend.disconnect(): CancelledError is not an Exception,
\* so it leaves the finally before the reap and before status = "stopped".
DisconnectCancelled ==
  /\ pc = "teardown" /\ stop_requested
  /\ pc' = "done"
  /\ UNCHANGED <<status, stop_requested, exited_by, work, replies, turnVars,
                 calls, budget>>

-----------------------------------------------------------------------------
(* Calls from other tasks *)

Submit(awaited) ==
  /\ next_job_id \in Jobs
  /\ next_job_id' = next_job_id + 1
  /\ \/ /\ Refusing
        /\ future' = [future EXCEPT ![next_job_id] =
                        IF awaited THEN "error" ELSE "none"]
        /\ UNCHANGED queue
     \/ /\ ~Refusing
        /\ queue' = Append(queue, next_job_id)
        /\ future' = [future EXCEPT ![next_job_id] =
                        IF awaited THEN "pending" ELSE "none"]
  /\ UNCHANGED <<control, steer_lane, current, job_error, turnVars, calls, budget>>

\* The caller's wait_for expires, or the caller is itself cancelled.
CallerGivesUp(j) ==
  /\ future[j] = "pending"
  /\ future' = [future EXCEPT ![j] = "cancelled"]
  /\ UNCHANGED <<control, work, job_error, turnVars, calls, budget>>

Steer(interrupt) ==
  /\ next_job_id \in Jobs /\ ~Refusing
  /\ next_job_id' = next_job_id + 1
  /\ steer_lane' = Append(steer_lane, next_job_id)
  /\ queue' = Nudged(STEER_WAKE)
  /\ \/ /\ interrupt /\ turn_active
        /\ steering < MaxSteerInterrupts
        /\ steering' = steering + 1
     \/ /\ ~(interrupt /\ turn_active)
        /\ UNCHANGED steering
  /\ UNCHANGED <<control, current, replies, turnVars, interrupted_job_id, stops,
                 stopping, budget>>

\* backend.interrupt() returns to the steer that awaited it.
SteerInterruptReturns ==
  /\ steering > 0
  /\ steering' = steering - 1
  /\ steer_interrupt_pending' = TRUE
  /\ UNCHANGED <<control, work, replies, turn_active, nudge_fired, cut, attempt,
                 timed, interrupted_job_id, stops, stopping, budget>>

Stop(kill) ==
  /\ stops < MaxStops
  /\ stops' = stops + 1
  /\ stop_requested' = TRUE
  /\ \/ /\ kill /\ current # NoJob
        /\ stopping' = stopping + 1
        /\ UNCHANGED queue
     \/ /\ ~(kill /\ current # NoJob)
        /\ queue' = Nudged(SHUTDOWN)
        /\ UNCHANGED stopping
  /\ UNCHANGED <<pc, status, exited_by, steer_lane, current, next_job_id,
                 replies, turnVars, interrupted_job_id, steering, budget>>

\* backend.interrupt() returns to the stop(kill) that awaited it.
StopInterruptReturns ==
  /\ stopping > 0
  /\ stopping' = stopping - 1
  /\ queue' = Nudged(SHUTDOWN)
  /\ UNCHANGED <<control, steer_lane, current, next_job_id, replies, turnVars,
                 interrupted_job_id, stops, steering, budget>>

\* The job in flight is interrupted once, and only while its turn streams.
CancelCurrent(j) ==
  /\ current = j
  /\ turn_active /\ interrupted_job_id # j
  /\ interrupted_job_id' = j
  /\ UNCHANGED <<control, work, replies, turnVars, stops, stopping, steering,
                 budget>>

\* A queued job is dropped, its caller told; all else keeps its order.
CancelQueued(j) ==
  /\ current # j
  /\ \E k \in 1..Len(queue) : queue[k] = j /\ queue' = Without(queue, k)
  /\ future' = Fail({j})
  /\ UNCHANGED <<control, steer_lane, current, next_job_id, job_error, turnVars,
                 calls, budget>>

BudgetResume ==
  /\ budget_gate_armed' = FALSE /\ budget_parked' = FALSE
  /\ released' = TRUE
  /\ status' = IF status = "budget_parked" THEN "idle" ELSE status
  /\ queue' = IF budget_parked THEN Nudged(STEER_WAKE) ELSE queue
  /\ UNCHANGED <<pc, stop_requested, exited_by, steer_lane, current,
                 next_job_id, replies, turnVars, calls, spent>>

-----------------------------------------------------------------------------

\* The steps _run takes by itself when nothing goes wrong.
RunLoop ==
  \/ Connected \/ ArmBudgetFromLedger
  \/ StopSeen \/ TakeSteer \/ AwaitWork \/ TakeJob \/ TakeWake \/ TakeShutdown
  \/ LeaveIdle
  \/ \E cost \in TurnCosts : TurnCompletes(cost)
  \/ StreamEnds
  \/ \E silent \in BOOLEAN : PhaseEnds(silent)
  \/ TurnOver \/ Reconnected \/ JobDone \/ Disconnected

Failures ==
  \/ AttachRetry \/ ConnectFails \/ IdleTimerFires
  \/ ProviderError \/ TurnFails \/ WatchdogEndsStoppingRunner
  \/ AuthRecovery \/ ReconnectFails \/ StoreFails
  \/ TaskCancelled \/ DisconnectCancelled

Requests ==
  \/ \E awaited \in BOOLEAN : Submit(awaited)
  \/ \E interrupt \in BOOLEAN : Steer(interrupt)
  \/ \E kill \in BOOLEAN : Stop(kill)
  \/ \E j \in Jobs : CallerGivesUp(j) \/ CancelCurrent(j) \/ CancelQueued(j)
  \/ SteerInterruptReturns \/ StopInterruptReturns
  \/ BudgetResume

Next == RunLoop \/ Failures \/ Requests

Spec == Init /\ [][Next]_vars

\* asyncio runs _run whenever its await is over, and backends answer: a
\* connect, a stream, a reconnect and a disconnect end. Nothing obliges a
\* caller or the operator to act, and no failure has to happen.
FairSpec == Spec /\ WF_vars(RunLoop)

=============================================================================
