------------------------------- MODULE Delegation -------------------------------
(***************************************************************************)
(* Agents that ask each other: the coroutine of every ask_agent call       *)
(* (bus/_delegation.py), the registry of calls in flight that the cycle    *)
(* check, the admission check and the operator's `bus cancel` read         *)
(* (daemon/_questions.py), and the runners that serve the jobs.            *)
(*                                                                         *)
(* An action is the code between two awaits. phase names the await of a    *)
(* call:                                                                   *)
(*   redispatch_gate, start_gate, delegation_gate                          *)
(*                     the operator is asked; fut is the gate's future     *)
(*   bypass_start, bypass_delegation                                       *)
(*                     a trusted caller skips a gate, the skip is audited  *)
(*   dispatch          the target is told, its runner not yet given a job  *)
(*   reply             the job was submitted, fut is its future            *)
(*   reap              given up: the stop of the child is awaited, bounded *)
(*   returned          over                                                *)
(*                                                                         *)
(* A runner is what JobService and AgentRunner make of it: a FIFO of jobs, *)
(* one served at a time, drained in the step that closes it. A job is the  *)
(* call it was submitted for, or Root for a prompt of the operator. An     *)
(* agent makes any number of calls at a time. Prompts, envelopes, echoes   *)
(* and audit rows are abstracted away; so are substitutes, teams and the   *)
(* other refusals that look at names only.                                 *)
(***************************************************************************)
EXTENDS Integers, Sequences, FiniteSets

CONSTANTS
  Agents,
  MaxCalls,                 \* bound: ids of bus calls
  MAX_DELEGATION_DEPTH,
  MAX_INFLIGHT_BUS_CALLS,
  Trusted,                  \* pairs <<caller, target>> that bus_trusted covers
  Gated,                    \* pairs under approve_before_delegate
  RedispatchThreshold,
  Credits,                  \* the N of a "yes N" the operator may give
  CallsTimeOut,             \* a reply may exceed its wait window
  OperatorCancels,          \* `bus cancel` is used
  Prompted,                 \* bound: the agents the operator prompts
  Stoppable,                \* bound: the agents the operator stops and starts
  Idle, Root, Gone          \* no job; a prompt of the operator; a turn that ended

Calls == 1..MaxCalls

\* find_cycle walks at most 64 levels, so fewer agents never meet its bound.
ASSUME DelegationAssumption ==
  /\ IsFiniteSet(Agents) /\ Cardinality(Agents) <= 64
  /\ MaxCalls \in Nat /\ MAX_DELEGATION_DEPTH \in Nat
  /\ MAX_INFLIGHT_BUS_CALLS \in Nat
  /\ Trusted \subseteq Agents \X Agents /\ Gated \subseteq Agents \X Agents
  /\ RedispatchThreshold \in Nat /\ RedispatchThreshold >= 2
  /\ Credits \subseteq Nat \ {0}
  /\ {CallsTimeOut, OperatorCancels} \subseteq BOOLEAN
  /\ Prompted \subseteq Agents /\ Stoppable \subseteq Agents
  /\ {Idle, Root, Gone} \cap Nat = {}
  /\ Idle # Root /\ Idle # Gone /\ Root # Gone

Gates == {"redispatch_gate", "start_gate", "delegation_gate"}
Bypasses == {"bypass_start", "bypass_delegation"}
Outstanding == Gates \cup Bypasses \cup {"dispatch", "reply", "reap"}

VARIABLES
  phase, caller, target,
  by,           \* of each call: the job its caller was serving
  depth,        \* BusCall.depth
  registered,   \* the keys of _bus_calls
  fut,          \* of each call: the future a cancel would settle
  stale,        \* calls whose `runner` variable holds a stopped runner
  questions,    \* calls whose gate question is unanswered in the inbox
  count,        \* _redispatch_counts
  runner,       \* of each agent: status of the runner in daemon.runners
  serving, queue,
  cut,          \* agents whose current turn was interrupted
  stopping,     \* calls with a cancel_job task that has not run
  swept         \* history: calls dropped from the registry by `bus cancel`

callVars   == <<phase, caller, target, by, depth>>
registry   == <<registered, swept>>
waits      == <<fut, stale, questions, count>>
runnerVars == <<runner, serving, queue, cut, stopping>>
vars       == <<callVars, registry, waits, runnerVars>>

Live(c) == phase[c] \in Outstanding

Submitted(c) == phase[c] \in {"reply", "reap"}

Items(s) == {s[i] : i \in 1..Len(s)}

Init ==
  /\ phase = [c \in Calls |-> "unused"]
  /\ caller = [c \in Calls |-> Gone] /\ target = [c \in Calls |-> Gone]
  /\ by = [c \in Calls |-> Gone] /\ depth = [c \in Calls |-> 0]
  /\ registered = {} /\ swept = {}
  /\ fut = [c \in Calls |-> "pending"]
  /\ stale = {} /\ questions = {}
  /\ count = [p \in Agents \X Agents |-> 0]
  /\ runner \in {r \in [Agents -> {"running", "stopped"}] :
                    \A a \in Agents \ Stoppable : r[a] = "running"}
  /\ serving = [a \in Agents |-> Idle] /\ queue = [a \in Agents |-> <<>>]
  /\ cut = {} /\ stopping = {}

-----------------------------------------------------------------------------
(* The delegation graph, and the checks before a call is registered *)

Edges(C) == {<<caller[c], target[c]>> : c \in C}

\* Mutant: only a direct call back is taken for a cycle.
FindCycle_Direct(a, b) == <<b, a>> \in Edges(registered)

\* find_cycle's walk from b reaches a: a is in every set that holds b and is
\* closed under the edges of the registry.
FindCycle(a, b) ==
  \A R \in SUBSET Agents :
    (b \in R /\ \A e \in Edges(registered) : e[1] \in R => e[2] \in R) => a \in R

\* Mutant: the depth is counted from the calls the caller made.
DepthFor_Outgoing(a) ==
  LET above == {depth[c] : c \in {d \in registered : caller[d] = a}}
  IN  IF above = {} THEN 0 ELSE 1 + CHOOSE d \in above : \A e \in above : e <= d

\* One more than the deepest registered call that put the caller to work.
DepthFor(a) ==
  LET above == {depth[c] : c \in {d \in registered : target[d] = a}}
  IN  IF above = {} THEN 0 ELSE 1 + CHOOSE d \in above : \A e \in above : e <= d

Admitted(a) ==
  /\ Cardinality(registered) < MAX_INFLIGHT_BUS_CALLS
  /\ DepthFor(a) <= MAX_DELEGATION_DEPTH

-----------------------------------------------------------------------------
(* The stages of ask_agent. No await lies between two of them unless a     *)
(* stage awaits, so a step runs on to the next await: the operators below  *)
(* name it, given the caller, the target and whether the runner variable   *)
(* holds a stopped runner.                                                 *)

\* The runner is fetched anew, a stopped one is an error.
DispatchStage(b) == IF runner'[b] = "stopped" THEN "returned" ELSE "dispatch"

ApprovalStage(a, b) ==
  IF <<a, b>> \notin Gated THEN DispatchStage(b)
  ELSE IF <<a, b>> \in Trusted THEN "bypass_delegation" ELSE "delegation_gate"

StartStage(a, b, isStale) ==
  IF ~isStale THEN ApprovalStage(a, b)
  ELSE IF <<a, b>> \in Trusted THEN "bypass_start" ELSE "start_gate"

RedispatchStage(a, b, isStale) ==
  IF count[<<a, b>>] >= RedispatchThreshold - 1 THEN "redispatch_gate"
  ELSE StartStage(a, b, isStale)

\* Mutant: an early return leaves the registry entry behind.
Leave_Registered(c, stage) == registered

\* The finally of ask_agent resolves the call.
Leave(c, stage) == IF stage = "returned" THEN registered \ {c} ELSE registered

\* What the coroutine knew of its call is gone with it.
Frame(c, stage) ==
  /\ by' = [by EXCEPT ![c] = IF stage = "returned" THEN Gone ELSE @]
  /\ depth' = [depth EXCEPT ![c] = IF stage = "returned" THEN 0 ELSE @]
  /\ swept' = IF stage = "returned" THEN swept \ {c} ELSE swept
  /\ UNCHANGED <<caller, target>>

\* A registered call goes on to its next await. A gate files a question and
\* a future for it; the dispatch tracks the future of the reply.
Enter(c, stage) ==
  /\ phase' = [phase EXCEPT ![c] = stage]
  /\ registered' = Leave(c, stage)
  /\ fut' = [fut EXCEPT ![c] = IF stage \in Gates \cup {"dispatch"}
                               THEN "pending" ELSE @]
  /\ questions' = IF stage \in Gates THEN questions \cup {c}
                  ELSE questions \ {c}
  /\ Frame(c, stage)

\* From the check of the graph to the first await.
Ask(c, a, b) ==
  /\ phase[c] = "unused" /\ \A d \in Calls : d < c => phase[d] # "unused"
  /\ serving[a] # Idle /\ a \notin cut /\ a # b
  /\ ~FindCycle(a, b) /\ Admitted(a)
  /\ caller' = [caller EXCEPT ![c] = a] /\ target' = [target EXCEPT ![c] = b]
  /\ by' = [by EXCEPT ![c] = serving[a]]
  /\ depth' = [depth EXCEPT ![c] = DepthFor(a)]
  /\ registered' = registered \cup {c}
  /\ UNCHANGED runnerVars
  /\ LET isStale == runner[b] = "stopped"
         stage == RedispatchStage(a, b, isStale)
     IN  /\ phase' = [phase EXCEPT ![c] = stage]
         /\ stale' = IF isStale THEN stale \cup {c} ELSE stale
         /\ questions' = IF stage \in Gates THEN questions \cup {c}
                         ELSE questions
  /\ UNCHANGED <<fut, count, swept>>

\* The operator answers the question of a gate; a clear is a denial. A gate
\* whose future is already settled only loses its question.
AnswerGate(c, answer) ==
  /\ c \in questions
  /\ questions' = questions \ {c}
  /\ fut' = IF phase[c] \in Gates /\ fut[c] = "pending"
            THEN [fut EXCEPT ![c] = answer] ELSE fut
  /\ UNCHANGED <<callVars, registry, stale, count, runnerVars>>

\* The answer to a redispatch question: one more dispatch, or a credit.
RedispatchApproved(c) ==
  /\ phase[c] = "redispatch_gate" /\ fut[c] = "approved"
  /\ LET p == <<caller[c], target[c]>>
     IN  \E n \in Credits :
           count' = [count EXCEPT ![p] = IF n > 1 THEN -(n - 1)
                                         ELSE RedispatchThreshold - 1]
  /\ UNCHANGED runnerVars
  /\ LET stage == StartStage(caller[c], target[c], c \in stale)
     IN  /\ Enter(c, stage)
         /\ stale' = IF stage \in {"dispatch", "returned"} THEN stale \ {c}
                     ELSE stale

\* The target is started, by an approved or by a trusted caller, unless its
\* start is refused; the runner is fetched anew.
StartTarget(c) ==
  /\ phase[c] = "bypass_start" \/ (phase[c] = "start_gate" /\ fut[c] = "approved")
  /\ UNCHANGED <<serving, queue, cut, stopping, count>>
  /\ stale' = stale \ {c}
  /\ \/ /\ runner' = [runner EXCEPT ![target[c]] =
                        IF @ = "stopped" THEN "running" ELSE @]
        /\ Enter(c, ApprovalStage(caller[c], target[c]))
     \/ /\ UNCHANGED runner
        /\ Enter(c, "returned")

DelegationApproved(c) ==
  /\ \/ phase[c] = "bypass_delegation"
     \/ phase[c] = "delegation_gate" /\ fut[c] = "approved"
  /\ UNCHANGED <<runnerVars, count>>
  /\ stale' = stale \ {c}
  /\ Enter(c, DispatchStage(target[c]))

\* Denied, cancelled by the operator, or not answered in time.
GateRefused(c) ==
  /\ phase[c] \in Gates /\ fut[c] # "approved"
  /\ stale' = stale \ {c}
  /\ UNCHANGED <<runnerVars, count>>
  /\ Enter(c, "returned")

-----------------------------------------------------------------------------
(* The job, and the answer to its caller *)

\* Mutant: the runner that was fetched is taken to be up.
Submit_Unguarded(c) ==
  /\ phase[c] = "dispatch"
  /\ phase' = [phase EXCEPT ![c] = "reply"]
  /\ count' = [count EXCEPT ![<<caller[c], target[c]>>] = @ + 1]
  /\ IF c \in stale THEN UNCHANGED queue
     ELSE queue' = [queue EXCEPT ![target[c]] = Append(@, c)]
  /\ UNCHANGED <<caller, target, by, depth, registry, fut, stale, questions,
                 runner, serving, cut, stopping>>

\* A runner that is stopping, or was stopped since it was fetched, refuses.
\* The future may have been settled already, by a cancel.
Submit(c) ==
  /\ phase[c] = "dispatch"
  /\ phase' = [phase EXCEPT ![c] = "reply"]
  /\ LET b == target[c]
     IN  /\ count' = [count EXCEPT ![<<caller[c], b>>] = @ + 1]
         /\ \/ /\ runner[b] = "running" /\ c \notin stale
               /\ queue' = [queue EXCEPT ![b] = Append(@, c)]
               /\ UNCHANGED fut
            \/ /\ ~(runner[b] = "running" /\ c \notin stale)
               /\ fut' = [fut EXCEPT ![c] = IF @ = "pending" THEN "error" ELSE @]
               /\ UNCHANGED queue
  /\ UNCHANGED <<caller, target, by, depth, registry, stale, questions, runner,
                 serving, cut, stopping>>

Replied(c) ==
  /\ phase[c] = "reply" /\ fut[c] = "replied"
  /\ stale' = stale \ {c}
  /\ UNCHANGED <<runnerVars, count>>
  /\ Enter(c, "returned")

\* Mutant: a caller that gives up forgets the child.
GiveUp_ChildForgotten(c) ==
  /\ phase[c] = "reply"
  /\ fut[c] \in {"cancelled", "error"} \/ (fut[c] = "pending" /\ CallsTimeOut)
  /\ phase' = [phase EXCEPT ![c] = "reap"]
  /\ fut' = [fut EXCEPT ![c] = IF @ = "pending" THEN "cancelled" ELSE @]
  /\ UNCHANGED <<caller, target, by, depth, registry, stale, questions, count,
                 runnerVars>>

\* The call was cancelled, the runner failed it, or the wait window is over:
\* the finally has the child stopped.
GiveUp(c) ==
  /\ phase[c] = "reply"
  /\ fut[c] \in {"cancelled", "error"} \/ (fut[c] = "pending" /\ CallsTimeOut)
  /\ phase' = [phase EXCEPT ![c] = "reap"]
  /\ fut' = [fut EXCEPT ![c] = IF @ = "pending" THEN "cancelled" ELSE @]
  /\ stopping' = stopping \cup {c}
  /\ UNCHANGED <<caller, target, by, depth, registry, stale, questions, count,
                 runner, serving, queue, cut>>

\* The stop is over, or took too long and is left to itself.
ReapEnds(c) ==
  /\ phase[c] = "reap"
  /\ stale' = stale \ {c}
  /\ UNCHANGED <<runnerVars, count>>
  /\ Enter(c, "returned")

\* The task of the call is itself cancelled, with the turn that made it: the
\* child's stop is started and not awaited, a gate's question stays.
CallerCancelled(c) ==
  /\ Live(c)
  /\ by[c] = Gone \/ caller[c] \in cut
  /\ phase' = [phase EXCEPT ![c] = "returned"]
  /\ registered' = registered \ {c}
  /\ fut' = [fut EXCEPT ![c] = IF @ = "pending" THEN "cancelled" ELSE @]
  /\ stopping' = IF phase[c] = "reply" THEN stopping \cup {c} ELSE stopping
  /\ stale' = stale \ {c}
  /\ Frame(c, "returned")
  /\ UNCHANGED <<questions, count, runner, serving, queue, cut>>

-----------------------------------------------------------------------------
(* `bus cancel` *)

\* Mutant: only what matches is swept.
Cascade_Matched(M) == M

\* The matched calls and, again and again, the calls of their targets.
Cascade(M) ==
  {c \in registered :
     \A S \in SUBSET registered :
       (M \subseteq S /\ \A d \in S : \A e \in registered :
                           caller[e] = target[d] => e \in S) => c \in S}

Matches ==
  {{c} : c \in registered} \cup {registered}
  \cup {{c \in registered : caller[c] = a} : a \in Agents}
  \cup {{c \in registered : target[c] = a} : a \in Agents}

\* Mutant: the child of a cancelled call is left to run.
BusCancel_ChildLeft(M) ==
  /\ M # {}
  /\ registered' = registered \ Cascade(M)
  /\ swept' = swept \cup Cascade(M)
  /\ fut' = [c \in Calls |-> IF c \in Cascade(M) /\ fut[c] = "pending"
                             THEN "cancelled" ELSE fut[c]]
  /\ UNCHANGED <<callVars, stale, questions, count, runnerVars>>

\* A call whose future is settled is dropped and no more.
BusCancel(M) ==
  /\ M # {}
  /\ registered' = registered \ Cascade(M)
  /\ swept' = swept \cup Cascade(M)
  /\ fut' = [c \in Calls |-> IF c \in Cascade(M) /\ fut[c] = "pending"
                             THEN "cancelled" ELSE fut[c]]
  /\ stopping' = stopping \cup
       {c \in Cascade(M) : fut[c] = "pending" /\ Submitted(c)}
  /\ UNCHANGED <<callVars, stale, questions, count, runner, serving, queue, cut>>

-----------------------------------------------------------------------------
(* The runners *)

Prompt(a) ==
  /\ a \in Prompted
  /\ runner[a] = "running" /\ serving[a] = Idle
  /\ serving' = [serving EXCEPT ![a] = Root]
  /\ UNCHANGED <<callVars, registry, waits, runner, queue, cut, stopping>>

TakeJob(a) ==
  /\ runner[a] = "running" /\ serving[a] = Idle /\ queue[a] # <<>>
  /\ serving' = [serving EXCEPT ![a] = Head(queue[a])]
  /\ queue' = [queue EXCEPT ![a] = Tail(@)]
  /\ UNCHANGED <<callVars, registry, waits, runner, cut, stopping>>

\* The turn waits for the calls it made, unless it was interrupted; what it
\* leaves behind belongs to no turn.
TurnEnds(a) ==
  /\ serving[a] # Idle
  /\ LET mine == {c \in Calls : Live(c) /\ caller[c] = a /\ by[c] # Gone}
     IN  /\ a \in cut \/ mine = {}
         /\ by' = [c \in Calls |-> IF c \in mine THEN Gone ELSE by[c]]
  /\ fut' = [c \in Calls |-> IF c = serving[a] /\ fut[c] = "pending"
                             THEN "replied" ELSE fut[c]]
  /\ serving' = [serving EXCEPT ![a] = Idle]
  /\ cut' = cut \ {a}
  /\ UNCHANGED <<phase, caller, target, depth, registry, stale, questions, count,
                 runner, queue, stopping>>

\* What is left of a queue without its k-th job; no job is queued twice.
Without(s, k) == SubSeq(s, 1, k - 1) \o SubSeq(s, k + 1, Len(s))

\* AgentRunner.cancel_job: the job in flight is interrupted, a queued one is
\* dropped and its caller told, another one is not there any more.
CancelJob(c) ==
  /\ c \in stopping
  /\ stopping' = stopping \ {c}
  /\ LET b == target[c]
     IN  \/ /\ serving[b] = c
            /\ cut' = cut \cup {b}
            /\ UNCHANGED <<queue, fut>>
         \/ /\ serving[b] # c
            /\ \E k \in 1..Len(queue[b]) :
                 queue[b][k] = c /\ queue' = [queue EXCEPT ![b] = Without(@, k)]
            /\ fut' = [fut EXCEPT ![c] = IF @ = "pending" THEN "error" ELSE @]
            /\ UNCHANGED cut
         \/ /\ serving[b] # c /\ c \notin Items(queue[b])
            /\ UNCHANGED <<queue, fut, cut>>
  /\ UNCHANGED <<callVars, registry, stale, questions, count, runner, serving>>

\* stop() of a runner, or stop(kill) that also interrupts its turn.
StopAgent(a, kill) ==
  /\ runner[a] = "running"
  /\ runner' = [runner EXCEPT ![a] = "stopping"]
  /\ cut' = IF kill /\ serving[a] # Idle THEN cut \cup {a} ELSE cut
  /\ UNCHANGED <<callVars, registry, waits, serving, queue, stopping>>

\* The loop of a stopping runner is left, its queue drained.
RunnerCloses(a) ==
  /\ runner[a] = "stopping" /\ serving[a] = Idle
  /\ runner' = [runner EXCEPT ![a] = "stopped"]
  /\ fut' = [c \in Calls |-> IF c \in Items(queue[a]) /\ fut[c] = "pending"
                             THEN "error" ELSE fut[c]]
  /\ queue' = [queue EXCEPT ![a] = <<>>]
  /\ stale' = stale \cup {c \in Calls : Live(c) /\ ~Submitted(c) /\ target[c] = a}
  /\ UNCHANGED <<callVars, registry, questions, count, serving, cut, stopping>>

\* Mutant: the runner is left as it was made, before its loop is ready.
StartAgent_Starting(a) ==
  /\ runner[a] = "stopped"
  /\ runner' = [runner EXCEPT ![a] = "starting"]
  /\ UNCHANGED <<callVars, registry, waits, serving, queue, cut, stopping>>

\* start_agent by the operator: a new runner takes the name.
StartAgent(a) ==
  /\ runner[a] = "stopped"
  /\ runner' = [runner EXCEPT ![a] = "running"]
  /\ UNCHANGED <<callVars, registry, waits, serving, queue, cut, stopping>>

-----------------------------------------------------------------------------

\* A coroutine or a runner goes on by itself.
Progress ==
  \/ \E c \in Calls : \/ RedispatchApproved(c) \/ StartTarget(c)
                      \/ DelegationApproved(c) \/ GateRefused(c)
                      \/ Submit(c) \/ Replied(c) \/ GiveUp(c) \/ ReapEnds(c)
                      \/ CancelJob(c)
  \/ \E a \in Agents : TakeJob(a) \/ TurnEnds(a) \/ RunnerCloses(a)

Requests ==
  \/ \E c \in Calls : \E a, b \in Agents : Ask(c, a, b)
  \/ \E a \in Agents : Prompt(a)
  \/ \E c \in Calls : \E answer \in {"approved", "denied"} : AnswerGate(c, answer)
  \/ \E c \in Calls : CallerCancelled(c)

Interventions ==
  \/ OperatorCancels /\ \E M \in Matches : BusCancel(M)
  \/ \E a \in Stoppable :
       StartAgent(a) \/ \E kill \in BOOLEAN : StopAgent(a, kill)

Next == Progress \/ Requests \/ Interventions

Spec == Init /\ [][Next]_vars

\* Every coroutine whose await is over goes on, every runner serves its queue,
\* and a turn that waits for nothing comes to its end.
FairSpec ==
  /\ Spec
  /\ \A c \in Calls :
       /\ WF_vars(RedispatchApproved(c)) /\ WF_vars(StartTarget(c))
       /\ WF_vars(DelegationApproved(c)) /\ WF_vars(GateRefused(c))
       /\ WF_vars(Submit(c)) /\ WF_vars(Replied(c))
       /\ WF_vars(GiveUp(c)) /\ WF_vars(ReapEnds(c)) /\ WF_vars(CancelJob(c))
  /\ \A a \in Agents : /\ SF_vars(TakeJob(a))
                       /\ WF_vars(TurnEnds(a)) /\ WF_vars(RunnerCloses(a))

=============================================================================
