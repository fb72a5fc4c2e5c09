--------------------------- MODULE AgentRunnerProps ---------------------------
(***************************************************************************)
(* What AgentRunner promises: to the callers that await its jobs, to the   *)
(* operator who stops, steers and cancels, and to the token budget.        *)
(***************************************************************************)
EXTENDS AgentRunner

(* What a caller sees of the runner: see JobService. *)
Service == INSTANCE JobService WITH
             outcome <- future, closed <- exited_by # "none"

Pcs == {"connecting", "arming", "loop", "wait", "leaving", "turn", "phase",
        "unwind", "reconnect", "final", "teardown", "done"}

(* Every variable keeps to its values (the dataclass fields of runner.py,  *)
(* 226-409, and the local state of _run and _process).                     *)
TypeOK ==
  /\ pc \in Pcs
  /\ status \in {"starting", "idle", "busy", "budget_parked", "faulted",
                 "stopped"}
  /\ exited_by \in {"none", "stop", "other"}
  /\ queue \in Seq(Entries) /\ steer_lane \in Seq(Jobs)
  /\ current \in Jobs \cup {NoJob} /\ next_job_id \in 1..(MaxJobs + 1)
  /\ future \in [Jobs -> {"none", "pending", "result", "error", "cancelled"}]
  /\ stop_requested \in BOOLEAN /\ job_error \in BOOLEAN
  /\ turn_active \in BOOLEAN /\ steer_interrupt_pending \in BOOLEAN
  /\ nudge_fired \in BOOLEAN /\ cut \in BOOLEAN /\ timed \in BOOLEAN
  /\ attempt \in 0..2
  /\ interrupted_job_id \in Jobs \cup {NoJob}
  /\ stops \in 0..MaxStops /\ stopping \in Nat /\ steering \in Nat
  /\ spent \in 0..Ceiling
  /\ budget_gate_armed \in BOOLEAN /\ budget_parked \in BOOLEAN
  /\ released \in BOOLEAN

-----------------------------------------------------------------------------
(* Callers *)

(* A caller that awaits a job is never left without an owner for it: as    *)
(* long as its future is pending the job is queued or current in a live    *)
(* loop, and a runner that was stopped leaves no pending future behind     *)
(* (submit's refusal, runner.py 2730-2758, against the teardown's drain).  *)
NoStrandedCaller ==
  exited_by # "other" =>
    \A j \in Jobs : future[j] = "pending" =>
      LoopAlive /\ (j = current \/ j \in Elements(queue))

(* The same for every way out of the loop. submit's comment claims it for  *)
(* the whole teardown; an idle timeout or a crash leaves with              *)
(* _stop_requested unset, and the drained queue accepts jobs.              *)
NoStrandedCallerEver ==
  \A j \in Jobs : future[j] = "pending" =>
    LoopAlive /\ (j = current \/ j \in Elements(queue))

(* Jobs are served in the order they were submitted, each at most once: no *)
(* cancel_job, sentinel or steer ever reorders, duplicates or revives one. *)
FifoOrder ==
  /\ \A i, k \in 1..Len(queue) :
       i < k /\ queue[i] \in Jobs /\ queue[k] \in Jobs => queue[i] < queue[k]
  /\ LoopAlive => current \notin Elements(queue) \cup Elements(steer_lane)
  /\ Elements(queue) \cap Elements(steer_lane) = {}

(* A future that is settled stays as it is: _run, the drain, cancel_job    *)
(* and the caller's own timeout never settle one twice (asyncio would      *)
(* raise InvalidStateError into the run loop).                             *)
SettledOnce ==
  [][\A j \in Jobs : future[j] \in {"result", "error", "cancelled"} =>
        future'[j] = future[j]]_vars

(* Every caller is answered: with a job, or with an error (FairSpec).      *)
EveryCallerAnswered ==
  \A j \in Jobs : (future[j] = "pending") ~> (future[j] # "pending")

(* To its callers the runner is a JobService that closes when the loop is  *)
(* left: it holds where every exit is a stop (no idle timeout, no failing  *)
(* store or connect).                                                      *)
ServesCallers == Service!Spec

-----------------------------------------------------------------------------
(* Stopping and steering *)

(* A loop blocked in queue.get() has been woken for everything it must     *)
(* look at again: a stop request, and a steer in the priority lane.        *)
NeverSleepsOnWork ==
  pc = "wait" => /\ stop_requested => SHUTDOWN \in Elements(queue)
                 /\ steer_lane # <<>> => STEER_WAKE \in Elements(queue)

(* Once a stop is requested the runner never blocks for work again, and    *)
(* starts at most the one job a blocked get() was already woken for.       *)
StopDrains ==
  [][stop_requested =>
       /\ pc' = "wait" => pc = "wait"
       /\ current = NoJob /\ current' # NoJob => pc = "wait"]_vars

(* A stop request ends the runner (FairSpec).                              *)
StopTerminates == stop_requested ~> (pc = "done")

(* A steer accepted into the lane is taken up, or the runner ends.         *)
SteerIsServed == (steer_lane # <<>>) ~> (steer_lane = <<>> \/ pc = "done")

(* A cancelled delegation "also stops the child burning tokens"            *)
(* (cancel_job's docstring): the interrupted job gets no further turn.     *)
NoTurnAfterCancel ==
  [][(current # NoJob /\ interrupted_job_id = current) =>
        ~(pc # "turn" /\ pc' = "turn")]_vars

-----------------------------------------------------------------------------
(* Budget *)

(* The brake follows the ledger: from the moment the loop can dequeue, an  *)
(* exhausted budget means the tool-deny gate is armed, unless the operator *)
(* resumed the runner and no turn was charged since. A restart on an       *)
(* exhausted ledger is no way around it.                                   *)
GateTracksLedger ==
  pc \notin {"connecting", "arming"} /\ exited_by = "none" /\ Exhausted
    => budget_gate_armed \/ released

(* A parked runner never reports itself ready for prompts, and one that    *)
(* reports the park is parked.                                             *)
ParkIsReported ==
  LoopAlive => /\ budget_parked => status \in {"budget_parked", "busy"}
               /\ status = "budget_parked" => budget_parked

(* A parked runner does not idle-die: a blocked get() has its idle timer   *)
(* exactly when the runner is not parked, or an item is there to make it   *)
(* block anew with the right timer.                                        *)
IdleTimerMatchesPark ==
  pc = "wait" => /\ timed => IdleTimeout /\ ~budget_parked
                 /\ IdleTimeout /\ ~timed /\ ~budget_parked => queue # <<>>

(* The park, seen by the operator and by the idle timer: submit, the       *)
(* post-job reset, a resume and a blocked get() each go by their own copy  *)
(* of it.                                                                  *)
ParkKept == ParkIsReported /\ IdleTimerMatchesPark

(* "Up to one completed turn of overshoot past the ceiling is unavoidable" *)
(* (_budget.py 22-25), and no more: a runner parked for its ledger charges *)
(* no further turn to it, the retry of a job's own turn aside.             *)
OvershootIsOneTurn ==
  [][budget_parked /\ attempt = 0 =>
       \A cost \in TurnCosts \ {0} : ~TurnCompletes(cost)]_vars

(* "Admits no new jobs until budget_resume()" (runner.py 319-322): neither *)
(* a caller nor the operator's steer gets a job into a parked runner, so   *)
(* that what it owes can only shrink until it is resumed.                  *)
Owed == {j \in Jobs : j \in Elements(queue) \cup Elements(steer_lane)}

ParkAdmitsNothing == [][budget_parked /\ budget_parked' => Owed' \subseteq Owed]_vars

-----------------------------------------------------------------------------
(* The inductive strengthening of the safety properties *)

Serving == pc \in {"turn", "phase", "unwind", "reconnect", "final"}

(* Who holds the control: a loop that is left says why; a job is current   *)
(* exactly while one is served; only a runner with an idle timeout has an  *)
(* idle timer; nothing is parked before the brake was looked at.           *)
ControlInv ==
  /\ LoopAlive <=> exited_by = "none"
  /\ exited_by = "stop" => stop_requested
  /\ LoopAlive => (current # NoJob <=> Serving)
  /\ timed \/ pc = "leaving" => IdleTimeout
  /\ pc \in {"connecting", "arming"} => ~budget_parked
  /\ pc = "wait" /\ timed => ~budget_parked
  /\ GateTracksLedger
  /\ ParkIsReported

(* What the queue carries: the jobs somebody awaits, the nudges of a       *)
(* blocked loop, and a shutdown only when a stop was requested. Ids that   *)
(* are still to be minted belong to nobody.                                *)
QueueInv ==
  /\ NoStrandedCaller
  /\ NeverSleepsOnWork
  /\ pc = "wait" /\ IdleTimeout /\ ~timed /\ ~budget_parked
       => STEER_WAKE \in Elements(queue)
  /\ SHUTDOWN \in Elements(queue) \/ stopping > 0 => stop_requested
  /\ \A j \in Jobs : j >= next_job_id => future[j] = "none"

RunnerInv == TypeOK /\ ControlInv /\ QueueInv

=============================================================================
