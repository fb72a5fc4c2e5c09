--------------------------- MODULE DelegationProofs ---------------------------
(***************************************************************************)
(* Proofs that the calls in the registry never form a cycle, that the      *)
(* registry holds what is outstanding, that depth counts the nesting, and  *)
(* that no job is lost or left to run for nobody: for any set of agents    *)
(* that the walk of find_cycle covers (DelegationAssumption), any number   *)
(* of calls, and any trust and approval policy.                            *)
(***************************************************************************)
EXTENDS DelegationProps, CountingLemmas

-----------------------------------------------------------------------------
(* Graphs *)

(* Fewer edges make no cycle.                                              *)
LEMMA Subgraph ==
  ASSUME NEW E, NEW D, D \subseteq E, Acyclic(E)
  PROVE  Acyclic(D)
BY DEF Acyclic

(* An edge whose end reaches a closed set that its beginning is not in     *)
(* closes no cycle: what find_cycle's walk has visited is such a set.      *)
LEMMA NewEdge ==
  ASSUME NEW E, Acyclic(E), NEW a, NEW b,
         NEW R \in SUBSET Agents, b \in R, a \notin R,
         \A e \in E : e[1] \in R => e[2] \in R
  PROVE  Acyclic(E \cup {<<a, b>>})
<1> SUFFICES ASSUME NEW S \in SUBSET Agents, S # {}
             PROVE  \E x \in S : \A y \in S : <<x, y>> \notin E \cup {<<a, b>>}
  BY DEF Acyclic
<1>1. CASE b \in S
  <2> DEFINE T == S \cap R
  <2>1. T \in SUBSET Agents /\ T # {}
    BY <1>1
  <2>2. PICK x \in T : \A y \in T : <<x, y>> \notin E
    BY <2>1 DEF Acyclic
  <2>3. \A y \in S : <<x, y>> \in E => y \in R
    <3> SUFFICES ASSUME NEW y \in S, <<x, y>> \in E PROVE y \in R
      OBVIOUS
    <3>1. <<x, y>>[1] = x /\ <<x, y>>[2] = y
      OBVIOUS
    <3> QED BY <3>1
  <2>4. \A y \in S : <<x, y>> \notin E
    BY <2>2, <2>3
  <2>5. x # a
    OBVIOUS
  <2>6. \A y \in S : <<x, y>> # <<a, b>>
    BY <2>5
  <2> QED BY <2>4, <2>6
<1>2. CASE b \notin S
  <2>1. PICK x \in S : \A y \in S : <<x, y>> \notin E
    BY DEF Acyclic
  <2>2. \A y \in S : <<x, y>> # <<a, b>>
    BY <1>2
  <2> QED BY <2>1, <2>2
<1> QED BY <1>1, <1>2

-----------------------------------------------------------------------------
(* The inductive invariant: the two properties, and where the registry and *)
(* the graph take their values.                                            *)

GraphInv ==
  /\ phase \in [Calls -> Outstanding \cup {"unused", "returned"}]
  /\ caller \in [Calls -> Agents \cup {Gone}]
  /\ target \in [Calls -> Agents \cup {Gone}]
  /\ registered \subseteq Calls /\ swept \subseteq Calls
  /\ RegistryIsExact
  /\ RegistryAcyclic

graphVars == <<phase, caller, target, registered, swept>>

(* What a step does not touch, it keeps.                                   *)
LEMMA GraphUntouched ==
  ASSUME GraphInv, UNCHANGED graphVars
  PROVE  GraphInv'
BY DEF GraphInv, graphVars, RegistryIsExact, RegistryAcyclic, Acyclic, Edges, Live,
       Calls

(* A registry that only loses calls keeps its graph free of cycles.        *)
LEMMA RegistryShrinks ==
  ASSUME RegistryAcyclic, UNCHANGED <<caller, target>>, registered' \subseteq registered
  PROVE  RegistryAcyclic'
<1>1. Edges(registered)' \subseteq Edges(registered)
  BY DEF Edges
<1>2. Acyclic(Edges(registered)')
  <2>1. Acyclic(Edges(registered))
    BY DEF RegistryAcyclic
  <2> QED BY <1>1, <2>1, Subgraph
<1> QED BY <1>2 DEF RegistryAcyclic, Acyclic, Edges

(* A call that goes on to another await, or returns.                       *)
LEMMA EnterKeeps ==
  ASSUME GraphInv, NEW c \in Calls, Live(c), NEW stage,
         stage \in Outstanding \cup {"returned"}, Enter(c, stage)
  PROVE  GraphInv'
<1> USE DEF Enter, Leave, Frame
<1>1. phase' = [phase EXCEPT ![c] = stage]
  OBVIOUS
<1>2. /\ phase' \in [Calls -> Outstanding \cup {"unused", "returned"}]
      /\ \A d \in Calls : phase'[d] = IF d = c THEN stage ELSE phase[d]
  BY <1>1 DEF GraphInv
<1>3. /\ caller' \in [Calls -> Agents \cup {Gone}]
      /\ target' \in [Calls -> Agents \cup {Gone}]
      /\ registered' \subseteq Calls /\ swept' \subseteq Calls
  BY DEF GraphInv
<1>4. RegistryIsExact'
  <2>1. CASE stage = "returned"
    BY <1>2, <1>3, <2>1 DEF GraphInv, RegistryIsExact, Live, Outstanding, Gates, Bypasses
  <2>2. CASE stage # "returned"
    <3>1. registered' = registered /\ swept' = swept /\ stage \in Outstanding
      BY <2>2
    <3> QED BY <1>2, <3>1 DEF GraphInv, RegistryIsExact, Live
  <2> QED BY <2>1, <2>2
<1>5. RegistryAcyclic'
  BY RegistryShrinks DEF GraphInv
<1> QED BY <1>2, <1>3, <1>4, <1>5 DEF GraphInv

(* Where the stages of a call lead.                                        *)
LEMMA StageTypes ==
  ASSUME NEW a, NEW b, NEW isStale
  PROVE  /\ DispatchStage(b) \in Outstanding \cup {"returned"}
         /\ ApprovalStage(a, b) \in Outstanding \cup {"returned"}
         /\ StartStage(a, b, isStale) \in Outstanding \cup {"returned"}
BY DEF DispatchStage, ApprovalStage, StartStage, Outstanding, Gates, Bypasses

-----------------------------------------------------------------------------
(* A new call *)

(* The edge of an admitted call closes no cycle: find_cycle's walk has     *)
(* visited a closed set with the target in it and the caller not.          *)
LEMMA AskKeepsAcyclic ==
  ASSUME GraphInv, NEW c \in Calls, NEW a \in Agents, NEW b \in Agents, Ask(c, a, b)
  PROVE  RegistryAcyclic'
<1>1. Acyclic(Edges(registered))
  BY DEF GraphInv, RegistryAcyclic
<1>2. PICK R \in SUBSET Agents :
        b \in R /\ (\A e \in Edges(registered) : e[1] \in R => e[2] \in R) /\ a \notin R
  BY DEF Ask, FindCycle
<1>3. Acyclic(Edges(registered) \cup {<<a, b>>})
  BY <1>1, <1>2, NewEdge
<1>4. /\ c \notin registered
      /\ caller'[c] = a /\ target'[c] = b
      /\ \A d \in registered : caller'[d] = caller[d] /\ target'[d] = target[d]
      /\ registered' = registered \cup {c}
  <2>1. phase[c] = "unused"
    BY DEF Ask
  <2>2. c \notin registered
    BY <2>1 DEF GraphInv, RegistryIsExact, Live, Outstanding, Gates, Bypasses
  <2> QED BY <2>2 DEF Ask, GraphInv
<1>5. Edges(registered)' = Edges(registered) \cup {<<a, b>>}
  <2>1. Edges(registered)' = {<<caller'[d], target'[d]>> : d \in registered'}
    BY DEF Edges
  <2>2. {<<caller'[d], target'[d]>> : d \in registered'}
          = {<<caller[d], target[d]>> : d \in registered} \cup {<<a, b>>}
    BY <1>4
  <2> QED BY <2>1, <2>2 DEF Edges
<1>6. Acyclic(Edges(registered)')
  BY <1>3, <1>5
<1> QED BY <1>6 DEF RegistryAcyclic, Acyclic, Edges

(* A call that is asked is outstanding and in the registry.                *)
LEMMA AskKeeps ==
  ASSUME GraphInv, NEW c \in Calls, NEW a \in Agents, NEW b \in Agents, Ask(c, a, b)
  PROVE  GraphInv'
<1> DEFINE stage == RedispatchStage(a, b, runner[b] = "stopped")
<1>1. stage \in Outstanding
  <2>1. runner' = runner
    BY DEF Ask, runnerVars
  <2> QED BY <2>1 DEF RedispatchStage, StartStage, ApprovalStage, DispatchStage,
                      Outstanding, Gates, Bypasses
<1>2. /\ phase' = [phase EXCEPT ![c] = stage]
      /\ caller' = [caller EXCEPT ![c] = a] /\ target' = [target EXCEPT ![c] = b]
      /\ registered' = registered \cup {c} /\ swept' = swept
  BY DEF Ask
<1> HIDE DEF stage
<1>3. /\ phase' \in [Calls -> Outstanding \cup {"unused", "returned"}]
      /\ \A d \in Calls : phase'[d] = IF d = c THEN stage ELSE phase[d]
  BY <1>1, <1>2 DEF GraphInv
<1>4. /\ caller' \in [Calls -> Agents \cup {Gone}]
      /\ target' \in [Calls -> Agents \cup {Gone}]
      /\ registered' \subseteq Calls /\ swept' \subseteq Calls
  BY <1>2 DEF GraphInv
<1>5. RegistryIsExact'
  BY <1>1, <1>2, <1>3 DEF GraphInv, RegistryIsExact, Live
<1>6. RegistryAcyclic'
  BY AskKeepsAcyclic
<1> QED BY <1>3, <1>4, <1>5, <1>6 DEF GraphInv

-----------------------------------------------------------------------------
(* The other steps *)

(* The coroutine of a call goes on.                                        *)
LEMMA CallStepKeeps ==
  ASSUME GraphInv, NEW c \in Calls,
         \/ RedispatchApproved(c) \/ StartTarget(c) \/ DelegationApproved(c)
         \/ GateRefused(c) \/ Submit(c) \/ Replied(c) \/ GiveUp(c) \/ ReapEnds(c)
         \/ CancelJob(c)
  PROVE  GraphInv'
<1> USE DEF Live, Outstanding, Gates, Bypasses
<1>1. CASE RedispatchApproved(c)
  <2> DEFINE stage == StartStage(caller[c], target[c], c \in stale)
  <2>1. Enter(c, stage) /\ Live(c)
    BY <1>1 DEF RedispatchApproved
  <2>2. stage \in Outstanding \cup {"returned"}
    BY StageTypes
  <2> HIDE DEF stage
  <2> QED BY <2>1, <2>2, EnterKeeps
<1>2. CASE StartTarget(c)
  <2> DEFINE stage == ApprovalStage(caller[c], target[c])
  <2>1. (Enter(c, stage) \/ Enter(c, "returned")) /\ Live(c)
    BY <1>2 DEF StartTarget
  <2>2. stage \in Outstanding \cup {"returned"}
    BY StageTypes
  <2> HIDE DEF stage
  <2> QED BY <2>1, <2>2, EnterKeeps
<1>3. CASE DelegationApproved(c)
  <2> DEFINE stage == DispatchStage(target[c])
  <2>1. Enter(c, stage) /\ Live(c)
    BY <1>3 DEF DelegationApproved
  <2>2. stage \in Outstanding \cup {"returned"}
    BY StageTypes
  <2> HIDE DEF stage
  <2> QED BY <2>1, <2>2, EnterKeeps
<1>4. CASE GateRefused(c) \/ Replied(c) \/ ReapEnds(c)
  <2>1. Enter(c, "returned") /\ Live(c)
    BY <1>4 DEF GateRefused, Replied, ReapEnds
  <2> QED BY <2>1, EnterKeeps
<1>5. CASE Submit(c) \/ GiveUp(c)
  <2>1. \E stage \in {"reply", "reap"} : phase' = [phase EXCEPT ![c] = stage]
    BY <1>5 DEF Submit, GiveUp
  <2>2. Live(c) /\ UNCHANGED <<caller, target, registered, swept>>
    BY <1>5 DEF Submit, GiveUp, registry
  <2>3. phase' \in [Calls -> Outstanding \cup {"unused", "returned"}]
    BY <2>1 DEF GraphInv
  <2>4. \A d \in Calls : Live(d)' <=> Live(d)
    BY <2>1, <2>2 DEF GraphInv
  <2>5. RegistryIsExact'
    BY <2>2, <2>4 DEF GraphInv, RegistryIsExact, Calls
  <2>6. RegistryAcyclic'
    BY <2>2, RegistryShrinks DEF GraphInv
  <2> QED BY <2>2, <2>3, <2>5, <2>6 DEF GraphInv
<1>6. CASE CancelJob(c)
  BY <1>6, GraphUntouched DEF CancelJob, callVars, registry, graphVars
<1> QED BY <1>1, <1>2, <1>3, <1>4, <1>5, <1>6

(* A call goes with the turn that made it.                                 *)
LEMMA CallerCancelledKeeps ==
  ASSUME GraphInv, NEW c \in Calls, CallerCancelled(c)
  PROVE  GraphInv'
<1>1. phase' = [phase EXCEPT ![c] = "returned"] /\ registered' = registered \ {c}
      /\ swept' = swept \ {c} /\ caller' = caller /\ target' = target
  BY DEF CallerCancelled, Frame
<1>2. /\ phase' \in [Calls -> Outstanding \cup {"unused", "returned"}]
      /\ \A d \in Calls : phase'[d] = IF d = c THEN "returned" ELSE phase[d]
  BY <1>1 DEF GraphInv
<1>3. RegistryIsExact'
  BY <1>1, <1>2 DEF GraphInv, RegistryIsExact, Live, Outstanding, Gates, Bypasses
<1>4. RegistryAcyclic'
  BY <1>1, RegistryShrinks DEF GraphInv
<1> QED BY <1>1, <1>2, <1>3, <1>4 DEF GraphInv

(* `bus cancel` drops what it cancels.                                     *)
LEMMA BusCancelKeeps ==
  ASSUME GraphInv, NEW M, BusCancel(M)
  PROVE  GraphInv'
<1>1. /\ registered' = registered \ Cascade(M) /\ swept' = swept \cup Cascade(M)
      /\ UNCHANGED <<phase, caller, target>>
  BY DEF BusCancel, callVars
<1>2. Cascade(M) \subseteq registered
  BY DEF Cascade
<1>3. RegistryIsExact'
  BY <1>1, <1>2 DEF GraphInv, RegistryIsExact, Live, Calls
<1>4. RegistryAcyclic'
  BY <1>1, RegistryShrinks DEF GraphInv
<1> QED BY <1>1, <1>2, <1>3, <1>4 DEF GraphInv

(* The first state has an empty registry.                                  *)
LEMMA InitGraphInv == Init => GraphInv
<1> SUFFICES ASSUME Init PROVE GraphInv
  OBVIOUS
<1>1. Edges(registered) = {}
  BY DEF Init, Edges
<1>2. RegistryAcyclic
  BY <1>1 DEF RegistryAcyclic, Acyclic
<1>3. RegistryIsExact
  BY DEF Init, RegistryIsExact, Live, Outstanding, Gates, Bypasses
<1> QED BY <1>2, <1>3 DEF Init, GraphInv

(* Every step keeps the invariant.                                         *)
LEMMA NextGraphInv == GraphInv /\ [Next]_vars => GraphInv'
<1> SUFFICES ASSUME GraphInv, [Next]_vars PROVE GraphInv'
  OBVIOUS
<1> USE DEF callVars, registry, graphVars
<1>1. CASE Progress
  <2>1. CASE \E a \in Agents : TakeJob(a) \/ TurnEnds(a) \/ RunnerCloses(a)
    <3>1. UNCHANGED graphVars
      BY <2>1 DEF TakeJob, TurnEnds, RunnerCloses
    <3> QED BY <3>1, GraphUntouched
  <2> QED BY <1>1, <2>1, CallStepKeeps DEF Progress
<1>2. CASE Requests
  <2>1. CASE \E c \in Calls : \E a, b \in Agents : Ask(c, a, b)
    BY <2>1, AskKeeps
  <2>2. CASE \E a \in Agents : Prompt(a)
    <3>1. UNCHANGED graphVars
      BY <2>2 DEF Prompt
    <3> QED BY <3>1, GraphUntouched
  <2>3. CASE \E c \in Calls : \E answer \in {"approved", "denied"} : AnswerGate(c, answer)
    <3>1. UNCHANGED graphVars
      BY <2>3 DEF AnswerGate
    <3> QED BY <3>1, GraphUntouched
  <2>4. CASE \E c \in Calls : CallerCancelled(c)
    BY <2>4, CallerCancelledKeeps
  <2> QED BY <1>2, <2>1, <2>2, <2>3, <2>4 DEF Requests
<1>3. CASE Interventions
  <2>1. CASE \E M \in Matches : BusCancel(M)
    BY <2>1, BusCancelKeeps
  <2>2. CASE \E a \in Stoppable :
               StartAgent(a) \/ \E kill \in BOOLEAN : StopAgent(a, kill)
    <3>1. UNCHANGED graphVars
      BY <2>2 DEF StartAgent, StopAgent
    <3> QED BY <3>1, GraphUntouched
  <2> QED BY <1>3, <2>1, <2>2 DEF Interventions
<1>4. CASE UNCHANGED vars
  BY <1>4, GraphUntouched DEF vars
<1> QED BY <1>1, <1>2, <1>3, <1>4 DEF Next

-----------------------------------------------------------------------------
(* The jobs: where a call's job is while somebody waits for it, and what   *)
(* becomes of it when nobody does any more.                                *)

\* What holds a value in every state, and who a call is between.
TypeInv ==
  /\ TypeOK
  /\ \A c \in Calls : phase[c] # "unused" => caller[c] \in Agents /\ target[c] \in Agents
  /\ \A c \in stopping : phase[c] # "unused"

\* A call was made for a job that was submitted for an earlier call, if for any,
\* by the agent that call was made to.
NestInv ==
  /\ \A c \in Calls : by[c] \in Calls =>
       phase[by[c]] # "unused" /\ target[by[c]] = caller[c]
  /\ DepthCountsNesting

HeldAt(a, c) == serving[a] = c \/ c \in Items(queue[a])
Served == {"reply", "reap", "returned"}
Ending(c) == c \in stopping \/ \E a \in cut : serving[a] = c

\* A runner holds a job once.
HeldOnce(a) ==
  /\ \A i, j \in 1..Len(queue[a]) : queue[a][i] = queue[a][j] => i = j
  /\ \A i \in 1..Len(queue[a]) : queue[a][i] # serving[a]

\* A job is with the runner of its target, from the submit on and until it is
\* answered; one whose caller gave up is being ended.
HoldInv ==
  /\ \A a \in Agents : HeldOnce(a)
  /\ \A a \in Agents, c \in Calls : HeldAt(a, c) =>
       target[c] = a /\ phase[c] \in Served /\ fut[c] # "replied"
  /\ \A c \in Calls : fut[c] = "replied" => phase[c] \in Served
  /\ AwaitedJobIsHeld
  /\ \A c \in Calls : phase[c] \in {"reap", "returned"} /\ Held(c) => Ending(c)

JobsInv == TypeInv /\ NestInv /\ HoldInv

(* A step of the coroutines leaves the runners' work alone: it may end a   *)
(* wait, and who gives up a job that is held has it ended.                 *)
CallMoves(c) ==
  /\ Held(c) => target'[c] = target[c] /\ phase'[c] \in Served /\ fut'[c] # "replied"
  /\ fut'[c] = "replied" => phase'[c] \in Served
  /\ phase'[c] = "reply" /\ fut'[c] = "pending" => phase[c] = "reply" /\ fut[c] = "pending"
  /\ phase'[c] \in {"reap", "returned"} /\ Held(c) =>
       phase[c] \in {"reap", "returned"} \/ c \in stopping'

LEMMA CallsMoveHold ==
  ASSUME HoldInv, UNCHANGED <<serving, queue>>, stopping \subseteq stopping', cut \subseteq cut',
         \A c \in Calls : CallMoves(c)
  PROVE  HoldInv'
<1>1. \A a, c : HeldAt(a, c)' = HeldAt(a, c)
  BY DEF HeldAt
<1>2. \A c : Held(c)' = Held(c)
  BY DEF Held
<1>3. \A a, c : HeldAt(a, c) /\ a \in Agents => Held(c)
  BY DEF HeldAt, Held
<1>4. \A a \in Agents : HeldOnce(a)'
  BY DEF HoldInv, HeldOnce
<1>5. \A a \in Agents, c \in Calls : HeldAt(a, c)' =>
        target'[c] = a /\ phase'[c] \in Served /\ fut'[c] # "replied"
  BY <1>1, <1>3 DEF HoldInv, CallMoves
<1>6. \A c \in Calls : fut'[c] = "replied" => phase'[c] \in Served
  BY DEF CallMoves
<1>7. AwaitedJobIsHeld'
  BY <1>2 DEF HoldInv, AwaitedJobIsHeld, CallMoves
<1>8. ASSUME NEW c \in Calls, phase'[c] \in {"reap", "returned"}, Held(c)' PROVE Ending(c)'
  <2>1. CASE phase[c] \in {"reap", "returned"}
    BY <1>2, <1>8, <2>1 DEF HoldInv, Ending
  <2>2. CASE c \in stopping'
    BY <2>2 DEF Ending
  <2> QED
    BY <1>2, <1>8, <2>1, <2>2 DEF CallMoves
<1> QED
  BY <1>4, <1>5, <1>6, <1>7, <1>8 DEF HoldInv

(* A call that a step does not touch.                                      *)
LEMMA CallStays ==
  ASSUME HoldInv, NEW c \in Calls,
         phase'[c] = phase[c], target'[c] = target[c],
         fut'[c] = fut[c] \/ fut'[c] \notin {"pending", "replied"}
  PROVE  CallMoves(c)
<1>1. Held(c) => phase[c] \in Served /\ fut[c] # "replied"
  BY DEF HoldInv, Held, HeldAt
<1> QED
  BY <1>1 DEF CallMoves, HoldInv

(* A call whose coroutine goes on holds no job yet, or has given it up.    *)
LEMMA EnterMoves ==
  ASSUME TypeInv, HoldInv, NEW c \in Calls, NEW stage, Enter(c, stage),
         UNCHANGED <<serving, queue, cut, stopping>>,
         \/ phase[c] \notin Served /\ stage \notin {"reply", "reap"}
         \/ stage = "returned" /\ phase[c] = "reap"
         \/ stage = "returned" /\ ~Held(c)
  PROVE  HoldInv'
<1>1. /\ phase' = [phase EXCEPT ![c] = stage] /\ target' = target
      /\ fut' = [fut EXCEPT ![c] = IF stage \in Gates \cup {"dispatch"} THEN "pending" ELSE @]
  BY DEF Enter, Frame
<1>2. phase = [d \in Calls |-> phase[d]] /\ fut = [d \in Calls |-> fut[d]]
  BY DEF TypeInv, TypeOK
<1>3. \A d \in Calls : d # c => CallMoves(d)
  BY <1>1, <1>2, CallStays
<1>4. phase'[c] = stage /\ fut'[c] \in {"pending", fut[c]}
  BY <1>1, <1>2
<1>5. Held(c) => phase[c] \in Served /\ fut[c] # "replied"
  BY DEF HoldInv, Held, HeldAt
<1>6. fut[c] = "replied" => phase[c] \in Served
  BY DEF HoldInv
<1>7. CallMoves(c)
  BY <1>1, <1>4, <1>5, <1>6 DEF CallMoves, Served
<1>8. stopping \subseteq stopping' /\ cut \subseteq cut'
  OBVIOUS
<1> QED
  BY <1>3, <1>7, <1>8, CallsMoveHold

(* The stages before the submit.                                           *)
LEMMA StageIsEarly ==
  ASSUME NEW a, NEW b, NEW isStale
  PROVE  /\ DispatchStage(b) \notin {"reply", "reap"}
         /\ ApprovalStage(a, b) \notin {"reply", "reap"}
         /\ StartStage(a, b, isStale) \notin {"reply", "reap"}
         /\ RedispatchStage(a, b, isStale) \notin {"reply", "reap"}
BY DEF DispatchStage, ApprovalStage, StartStage, RedispatchStage

LEMMA StepsHold ==
  ASSUME TypeInv, HoldInv, NEW c \in Calls,
         \/ RedispatchApproved(c) \/ StartTarget(c) \/ DelegationApproved(c)
         \/ GateRefused(c) \/ Replied(c) \/ ReapEnds(c)
  PROVE  HoldInv'
<1>1. UNCHANGED <<serving, queue, cut, stopping>>
  BY DEF RedispatchApproved, StartTarget, DelegationApproved, GateRefused, Replied, ReapEnds,
         runnerVars
<1>2. ASSUME RedispatchApproved(c) \/ StartTarget(c) \/ DelegationApproved(c) \/ GateRefused(c)
      PROVE  HoldInv'
  <2>1. phase[c] \notin Served
    BY <1>2 DEF RedispatchApproved, StartTarget, DelegationApproved, GateRefused, Served, Gates
  <2>2. \E stage : Enter(c, stage) /\ stage \notin {"reply", "reap"}
    BY <1>2, StageIsEarly DEF RedispatchApproved, StartTarget, DelegationApproved, GateRefused
  <2> QED
    BY <1>1, <2>1, <2>2, EnterMoves
<1>3. CASE Replied(c)
  <2>1. Enter(c, "returned") /\ fut[c] = "replied"
    BY <1>3 DEF Replied
  <2>2. ~Held(c)
    BY <2>1 DEF HoldInv, Held, HeldAt
  <2> QED
    BY <1>1, <2>1, <2>2, EnterMoves
<1>4. CASE ReapEnds(c)
  <2>1. Enter(c, "returned") /\ phase[c] = "reap"
    BY <1>4 DEF ReapEnds
  <2> QED
    BY <1>1, <2>1, EnterMoves
<1> QED
  BY <1>2, <1>3, <1>4

(* A call that is asked, answered at a gate, given up or cancelled.        *)
LEMMA RequestsHold ==
  ASSUME TypeInv, HoldInv, NEW c \in Calls,
         \/ \E a, b \in Agents : Ask(c, a, b)
         \/ \E answer \in {"approved", "denied"} : AnswerGate(c, answer)
         \/ GiveUp(c) \/ CallerCancelled(c)
  PROVE  HoldInv'
<1>1. /\ UNCHANGED <<serving, queue, cut>> /\ stopping \subseteq stopping'
      /\ cut \subseteq cut'
  BY DEF Ask, AnswerGate, GiveUp, CallerCancelled, runnerVars
<1>2. phase = [d \in Calls |-> phase[d]] /\ fut = [d \in Calls |-> fut[d]]
      /\ target = [d \in Calls |-> target[d]]
  BY DEF TypeInv, TypeOK
<1>3. Held(c) => phase[c] \in Served /\ fut[c] # "replied"
  BY DEF HoldInv, Held, HeldAt
<1>4. fut[c] = "replied" => phase[c] \in Served
  BY DEF HoldInv
<1>5. ASSUME NEW d \in Calls, d # c
      PROVE  phase'[d] = phase[d] /\ target'[d] = target[d] /\ fut'[d] = fut[d]
  BY <1>2, <1>5 DEF Ask, AnswerGate, GiveUp, CallerCancelled, Frame, callVars
<1>6. CallMoves(c)
  <2>1. ASSUME NEW a \in Agents, NEW b \in Agents, Ask(c, a, b) PROVE CallMoves(c)
    <3> DEFINE stage == RedispatchStage(a, b, runner[b] = "stopped")
    <3>1. phase[c] = "unused" /\ phase' = [phase EXCEPT ![c] = stage] /\ fut' = fut
      BY <2>1 DEF Ask
    <3>2. stage \notin {"reply", "reap", "returned"}
      <4>1. runner' = runner
        BY <2>1 DEF Ask, runnerVars
      <4> QED
        BY <4>1 DEF RedispatchStage, StartStage, ApprovalStage, DispatchStage
    <3> HIDE DEF stage
    <3> QED
      BY <1>2, <1>3, <1>4, <3>1, <3>2 DEF CallMoves, Served
  <2>2. ASSUME NEW answer \in {"approved", "denied"}, AnswerGate(c, answer) PROVE CallMoves(c)
    <3>1. phase'[c] = phase[c] /\ target'[c] = target[c]
          /\ (fut'[c] = fut[c] \/ fut'[c] \notin {"pending", "replied"})
      BY <1>2, <2>2 DEF AnswerGate, callVars
    <3> QED
      BY <3>1, CallStays
  <2>3. CASE GiveUp(c)
    <3>1. /\ phase[c] = "reply" /\ phase'[c] = "reap" /\ target'[c] = target[c]
          /\ fut'[c] \in {"cancelled", fut[c]} /\ fut[c] # "replied" /\ c \in stopping'
      BY <1>2, <2>3 DEF GiveUp
    <3> QED
      BY <3>1 DEF CallMoves, Served
  <2>4. CASE CallerCancelled(c)
    <3>1. /\ phase'[c] = "returned" /\ target'[c] = target[c]
          /\ fut'[c] \in {"cancelled", fut[c]}
          /\ phase[c] = "reply" => c \in stopping'
      BY <1>2, <2>4 DEF CallerCancelled, Frame
    <3> QED
      BY <1>3, <1>4, <3>1 DEF CallMoves, Served
  <2> QED
    BY <2>1, <2>2, <2>3, <2>4
<1> QED
  BY <1>1, <1>5, <1>6, CallStays, CallsMoveHold

LEMMA BusCancelHolds ==
  ASSUME TypeInv, HoldInv, NEW M, BusCancel(M) PROVE HoldInv'
<1>1. \A c \in Calls : /\ phase'[c] = phase[c] /\ target'[c] = target[c]
                       /\ fut'[c] = fut[c] \/ fut'[c] = "cancelled"
  BY DEF BusCancel, callVars
<1>2. \A c \in Calls : CallMoves(c)
  BY <1>1, CallStays
<1> QED
  BY <1>2, CallsMoveHold DEF BusCancel

LEMMA AgentHolds ==
  ASSUME TypeInv, HoldInv, NEW a \in Agents,
         StartAgent(a) \/ \E kill \in BOOLEAN : StopAgent(a, kill)
  PROVE  HoldInv'
<1>1. \A c \in Calls : CallMoves(c)
  BY CallStays DEF StartAgent, StopAgent, callVars, waits
<1> QED
  BY <1>1, CallsMoveHold DEF StartAgent, StopAgent

(* A step of a runner takes up jobs or lets go of them, and answers those  *)
(* whose caller waits.                                                     *)
LEMMA RunnerMovesHold ==
  ASSUME HoldInv, UNCHANGED <<phase, target>>,
         \A a \in Agents : HeldOnce(a)',
         \A a \in Agents, c \in Calls : HeldAt(a, c)' => HeldAt(a, c),
         \A c \in Calls :
           /\ fut'[c] = fut[c] \/ fut'[c] # "pending"
           /\ fut'[c] = "replied" => fut[c] = "replied" \/ (phase[c] \in Served /\ ~Held(c)')
           /\ Held(c) /\ ~Held(c)' => fut'[c] # "pending"
           /\ Held(c)' /\ Ending(c) => Ending(c)'
  PROVE  HoldInv'
<1>1. \A a \in Agents, c \in Calls : HeldAt(a, c)' => Held(c)'
  BY DEF HeldAt, Held
<1>2. \A a \in Agents, c \in Calls : HeldAt(a, c) => Held(c)
  BY DEF HeldAt, Held
<1>3. \A c \in Calls : Held(c)' => Held(c)
  <2> SUFFICES ASSUME NEW c \in Calls, Held(c)' PROVE Held(c)
    OBVIOUS
  <2>1. PICK a \in Agents : HeldAt(a, c)'
    BY DEF Held, HeldAt
  <2> QED
    BY <1>2, <2>1
<1>4. \A a \in Agents, c \in Calls : HeldAt(a, c)' =>
        target'[c] = a /\ phase'[c] \in Served /\ fut'[c] # "replied"
  BY <1>1 DEF HoldInv
<1>5. \A c \in Calls : fut'[c] = "replied" => phase'[c] \in Served
  BY DEF HoldInv
<1>6. AwaitedJobIsHeld'
  BY DEF HoldInv, AwaitedJobIsHeld
<1>7. \A c \in Calls : phase'[c] \in {"reap", "returned"} /\ Held(c)' => Ending(c)'
  BY <1>3 DEF HoldInv
<1> QED
  BY <1>4, <1>5, <1>6, <1>7 DEF HoldInv

(* For the provers: a queue's items are the calls in it.                   *)
LEMMA QueueItems ==
  ASSUME TypeInv, NEW a \in Agents
  PROVE  /\ queue[a] \in Seq(Calls) /\ Len(queue[a]) \in Nat
         /\ \A c : c \in Items(queue[a]) <=> \E i \in 1..Len(queue[a]) : queue[a][i] = c
         /\ serving[a] \in Calls \cup {Root, Idle}
<1>1. queue[a] \in Seq(Calls) /\ serving[a] \in Calls \cup {Root, Idle}
  BY DEF TypeInv, TypeOK
<1> QED
  BY <1>1 DEF Items

(* No call is a prompt of the operator, or no job.                         *)
LEMMA CallsAreCalls == \A c \in Calls : c # Idle /\ c # Root /\ c # Gone
BY DelegationAssumption DEF Calls

LEMMA TakeHolds ==
  ASSUME TypeInv, HoldInv, NEW a \in Agents, Prompt(a) \/ TakeJob(a) PROVE HoldInv'
<1>1. /\ UNCHANGED <<phase, target, fut, cut, stopping>> /\ serving[a] = Idle
      /\ \A x \in Agents : x # a => serving'[x] = serving[x] /\ queue'[x] = queue[x]
  BY DEF Prompt, TakeJob, callVars, waits, TypeInv, TypeOK
<1>2. /\ queue[a] \in Seq(Calls) /\ Len(queue[a]) \in Nat
      /\ \A i, j \in 1..Len(queue[a]) : queue[a][i] = queue[a][j] => i = j
  BY QueueItems DEF HoldInv, HeldOnce
<1>3. /\ HeldOnce(a)'
      /\ \A c \in Calls : HeldAt(a, c)' <=> HeldAt(a, c)
  <2>1. CASE Prompt(a)
    <3>1. serving'[a] = Root /\ queue'[a] = queue[a]
      BY <2>1 DEF Prompt, TypeInv, TypeOK
    <3>2. \A i \in 1..Len(queue[a]) : queue[a][i] # Root
      BY <1>2, CallsAreCalls
    <3> QED
      BY <1>1, <1>2, <3>1, <3>2, CallsAreCalls DEF HeldOnce, HeldAt, Items
  <2>2. CASE TakeJob(a)
    <3> DEFINE q == queue[a]
               t == queue'[a]
    <3>1. q # <<>> /\ serving'[a] = Head(q) /\ t = Tail(q)
      BY <2>2 DEF TakeJob, TypeInv, TypeOK
    <3>2. /\ Head(q) = q[1] /\ 1 \in 1..Len(q)
          /\ Len(t) = Len(q) - 1 /\ \A i \in 1..Len(t) : t[i] = q[i + 1] /\ i + 1 \in 1..Len(q)
      BY <1>2, <3>1
    <3>3. \A i \in 1..Len(q) : i = 1 \/ (i - 1 \in 1..Len(t) /\ t[i - 1] = q[i])
      BY <1>2, <3>2
    <3> HIDE DEF q, t
    <3>4. HeldOnce(a)'
      <4>1. \A i, j \in 1..Len(t) : t[i] = t[j] => i = j
        BY <1>2, <3>2 DEF q
      <4>2. \A i \in 1..Len(t) : t[i] # q[1]
        BY <1>2, <3>2 DEF q
      <4> QED
        BY <3>1, <3>2, <4>1, <4>2 DEF HeldOnce, t
    <3>5. \A c \in Calls : HeldAt(a, c)' <=> HeldAt(a, c)
      <4>1. \A c : c \in Items(q) <=> \E i \in 1..Len(q) : q[i] = c
        BY DEF Items
      <4>2. \A c : c \in Items(t) <=> \E i \in 1..Len(t) : t[i] = c
        BY DEF Items
      <4>3. \A c : c \in Items(q) <=> c = Head(q) \/ c \in Items(t)
        BY <3>2, <3>3, <4>1, <4>2
      <4> QED
        BY <1>1, <3>1, <4>3, CallsAreCalls DEF HeldAt, q, t
    <3> QED
      BY <3>4, <3>5
  <2> QED
    BY <2>1, <2>2
<1>4. \A x \in Agents, c \in Calls : HeldAt(x, c)' <=> HeldAt(x, c)
  BY <1>1, <1>3 DEF HeldAt
<1>5. \A c \in Calls : Held(c)' <=> Held(c)
  BY <1>4 DEF Held, HeldAt
<1>6. \A c \in Calls : Ending(c) => Ending(c)'
  <2> SUFFICES ASSUME NEW c \in Calls, NEW x \in cut, serving[x] = c PROVE serving'[x] = c
    BY <1>1 DEF Ending
  <2>1. x \in Agents /\ x # a
    BY <1>1, CallsAreCalls DEF TypeInv, TypeOK
  <2> QED
    BY <1>1, <2>1
<1>7. \A x \in Agents : HeldOnce(x)'
  BY <1>1, <1>3 DEF HoldInv, HeldOnce
<1> QED
  BY <1>1, <1>4, <1>5, <1>6, <1>7, RunnerMovesHold

LEMMA TurnEndsHolds ==
  ASSUME TypeInv, HoldInv, NEW a \in Agents, TurnEnds(a) PROVE HoldInv'
<1>1. /\ UNCHANGED <<phase, target, queue, stopping>>
      /\ fut' = [c \in Calls |-> IF c = serving[a] /\ fut[c] = "pending" THEN "replied" ELSE fut[c]]
      /\ serving' = [serving EXCEPT ![a] = Idle] /\ cut' = cut \ {a}
  BY DEF TurnEnds
<1>2. serving'[a] = Idle /\ \A x \in Agents : x # a => serving'[x] = serving[x]
  BY <1>1 DEF TypeInv, TypeOK
<1>3. \A x \in Agents, c \in Calls : HeldAt(x, c)' => HeldAt(x, c)
  BY <1>1, <1>2, CallsAreCalls DEF HeldAt
<1>4. \A x \in Agents : HeldOnce(x)'
  <2> SUFFICES ASSUME NEW x \in Agents PROVE HeldOnce(x)'
    OBVIOUS
  <2>1. \A i \in 1..Len(queue[x]) : queue[x][i] # Idle
    BY QueueItems, CallsAreCalls
  <2> QED
    BY <1>1, <1>2, <2>1 DEF HoldInv, HeldOnce
<1>5. ASSUME NEW c \in Calls, c = serving[a] PROVE ~Held(c)' /\ phase[c] \in Served
  <2>1. HeldAt(a, c)
    BY <1>5 DEF HeldAt
  <2>2. target[c] = a /\ phase[c] \in Served
    BY <2>1 DEF HoldInv
  <2>3. \A x \in Agents : x # a => ~HeldAt(x, c)
    BY <2>2 DEF HoldInv
  <2>4. c \notin Items(queue[a])
    <3>1. \A i \in 1..Len(queue[a]) : queue[a][i] # serving[a]
      BY DEF HoldInv, HeldOnce
    <3>2. c \in Items(queue[a]) => \E i \in 1..Len(queue[a]) : queue[a][i] = c
      BY DEF Items
    <3> QED
      BY <1>5, <3>1, <3>2
  <2>5. ~HeldAt(a, c)'
    BY <1>1, <1>2, <2>4, CallsAreCalls DEF HeldAt
  <2>6. \A x \in Agents : ~HeldAt(x, c)'
    BY <1>3, <2>3, <2>5
  <2> QED
    BY <2>2, <2>6 DEF Held, HeldAt
<1>6. \A c \in Calls : c # serving[a] => Held(c)' = Held(c)
  BY <1>1, <1>2, CallsAreCalls DEF Held
<1>7. ASSUME NEW c \in Calls, Held(c)', Ending(c) PROVE Ending(c)'
  <2>1. CASE c \in stopping
    BY <1>1, <2>1 DEF Ending
  <2>2. ASSUME NEW x \in cut, serving[x] = c PROVE Ending(c)'
    <3>1. x # a
      BY <1>5, <1>7, <2>2
    <3>2. x \in Agents
      BY DEF TypeInv, TypeOK
    <3> QED
      BY <1>1, <1>2, <2>2, <3>1, <3>2 DEF Ending
  <2> QED
    BY <1>7, <2>1, <2>2 DEF Ending
<1>8. ASSUME NEW c \in Calls
      PROVE  /\ fut'[c] = fut[c] \/ fut'[c] # "pending"
             /\ fut'[c] = "replied" => fut[c] = "replied" \/ (phase[c] \in Served /\ ~Held(c)')
             /\ Held(c) /\ ~Held(c)' => fut'[c] # "pending"
             /\ Held(c)' /\ Ending(c) => Ending(c)'
  <2>1. fut'[c] = IF c = serving[a] /\ fut[c] = "pending" THEN "replied" ELSE fut[c]
    BY <1>1
  <2> QED
    BY <1>5, <1>6, <1>7, <2>1
<1>9. UNCHANGED <<phase, target>>
  BY <1>1
<1> QED
  BY <1>3, <1>4, <1>8, <1>9, RunnerMovesHold

LEMMA ClosesHolds ==
  ASSUME TypeInv, HoldInv, NEW a \in Agents, RunnerCloses(a) PROVE HoldInv'
<1>1. /\ UNCHANGED <<phase, target, serving, cut, stopping>> /\ serving[a] = Idle
      /\ fut' = [c \in Calls |-> IF c \in Items(queue[a]) /\ fut[c] = "pending"
                                 THEN "error" ELSE fut[c]]
      /\ queue' = [queue EXCEPT ![a] = <<>>]
  BY DEF RunnerCloses, callVars
<1>2. queue'[a] = <<>> /\ \A x \in Agents : x # a => queue'[x] = queue[x]
  BY <1>1 DEF TypeInv, TypeOK
<1>3. Items(queue'[a]) = {}
  BY <1>2 DEF Items
<1>4. \A x \in Agents, c \in Calls : HeldAt(x, c)' => HeldAt(x, c)
  BY <1>1, <1>2, <1>3 DEF HeldAt
<1>5. \A x \in Agents : HeldOnce(x)'
  BY <1>1, <1>2 DEF HoldInv, HeldOnce
<1>6. ASSUME NEW c \in Calls
      PROVE  /\ fut'[c] = fut[c] \/ fut'[c] # "pending"
             /\ fut'[c] = "replied" => fut[c] = "replied"
             /\ Held(c) /\ ~Held(c)' => fut'[c] # "pending"
             /\ Held(c)' /\ Ending(c) => Ending(c)'
  <2>1. fut'[c] = IF c \in Items(queue[a]) /\ fut[c] = "pending" THEN "error" ELSE fut[c]
    BY <1>1
  <2>2. Held(c) /\ ~Held(c)' => c \in Items(queue[a])
    BY <1>1, <1>2 DEF Held
  <2>3. Ending(c) => Ending(c)'
    BY <1>1 DEF Ending
  <2> QED
    BY <2>1, <2>2, <2>3
<1>7. UNCHANGED <<phase, target>>
  BY <1>1
<1> QED
  BY <1>4, <1>5, <1>6, <1>7, RunnerMovesHold

(* A queue without its k-th job.                                           *)
LEMMA WithoutJob ==
  ASSUME NEW s \in Seq(Calls), NEW k \in 1..Len(s),
         \A i, j \in 1..Len(s) : s[i] = s[j] => i = j
  PROVE  /\ Without(s, k) \in Seq(Calls)
         /\ \A i, j \in 1..Len(Without(s, k)) : Without(s, k)[i] = Without(s, k)[j] => i = j
         /\ Items(Without(s, k)) = Items(s) \ {s[k]}
<1> DEFINE t == Without(s, k)
           from(i) == IF i < k THEN i ELSE i + 1
<1>1. Len(s) \in Nat /\ k \in Nat /\ 1 <= k /\ k <= Len(s)
  OBVIOUS
<1>2. /\ t \in Seq(Calls) /\ Len(t) = Len(s) - 1
      /\ \A i \in 1..(k - 1) : t[i] = s[i]
      /\ \A i \in k..(Len(s) - 1) : t[i] = s[i + 1]
  BY Removal DEF Without, Removed
<1> HIDE DEF t
<1>3. \A i \in 1..Len(t) : from(i) \in 1..Len(s) /\ from(i) # k /\ t[i] = s[from(i)]
  BY <1>1, <1>2
<1>4. \A i, j \in 1..Len(t) : from(i) = from(j) => i = j
  BY <1>1, <1>2
<1>5. \A j \in 1..Len(s) : j # k => \E i \in 1..Len(t) : from(i) = j
  <2> SUFFICES ASSUME NEW j \in 1..Len(s), j # k PROVE \E i \in 1..Len(t) : from(i) = j
    OBVIOUS
  <2>1. CASE j < k
    BY <1>1, <1>2, <2>1
  <2>2. CASE j > k
    <3>1. j - 1 \in 1..Len(t) /\ from(j - 1) = j
      BY <1>1, <1>2, <2>2
    <3> QED
      BY <3>1
  <2> QED
    BY <1>1, <2>1, <2>2
<1> HIDE DEF from
<1>6. \A i, j \in 1..Len(t) : t[i] = t[j] => i = j
  BY <1>3, <1>4
<1>7. Items(t) = Items(s) \ {s[k]}
  <2>1. ASSUME NEW i \in 1..Len(t) PROVE t[i] \in Items(s) /\ t[i] # s[k]
    <3>1. from(i) \in 1..Len(s) /\ t[i] = s[from(i)] /\ s[from(i)] # s[k]
      BY <1>3
    <3> QED
      BY <3>1 DEF Items
  <2>2. ASSUME NEW j \in 1..Len(s), s[j] # s[k] PROVE s[j] \in Items(t)
    <3>1. PICK i \in 1..Len(t) : from(i) = j
      BY <1>5, <2>2
    <3>2. t[i] = s[j]
      BY <1>3, <3>1
    <3> QED
      BY <3>2 DEF Items
  <2>3. \A c \in Items(t) : c \in Items(s) \ {s[k]}
    BY <2>1 DEF Items
  <2>4. \A c \in Items(s) \ {s[k]} : c \in Items(t)
    BY <2>2 DEF Items
  <2> QED
    BY <2>3, <2>4
<1> QED
  BY <1>2, <1>6, <1>7 DEF t

LEMMA CancelJobHolds ==
  ASSUME TypeInv, HoldInv, NEW c \in Calls, CancelJob(c) PROVE HoldInv'
<1>1. c \in stopping /\ stopping' = stopping \ {c} /\ UNCHANGED <<phase, target, serving>>
  BY DEF CancelJob, callVars
<1>2. PICK b \in Agents : b = target[c]
  BY <1>1 DEF TypeInv
<1>3. fut = [d \in Calls |-> fut[d]] /\ queue = [a \in Agents |-> queue[a]]
  BY DEF TypeInv, TypeOK
<1>4. \/ serving[b] = c /\ cut' = cut \cup {b} /\ UNCHANGED <<queue, fut>>
      \/ /\ serving[b] # c /\ cut' = cut
         /\ \E k \in 1..Len(queue[b]) :
              queue[b][k] = c /\ queue' = [queue EXCEPT ![b] = Without(@, k)]
         /\ fut' = [fut EXCEPT ![c] = IF @ = "pending" THEN "error" ELSE @]
      \/ serving[b] # c /\ c \notin Items(queue[b]) /\ UNCHANGED <<queue, fut, cut>>
  BY <1>2 DEF CancelJob
<1>5. \A x \in Agents : x # b => ~HeldAt(x, c)
  BY <1>2 DEF HoldInv
<1>6. \A d \in Calls : d # c => (Ending(d) => Ending(d)')
  BY <1>1, <1>4 DEF Ending
<1>7. CASE serving[b] = c /\ cut' = cut \cup {b} /\ UNCHANGED <<queue, fut>>
  <2>1. Ending(c)'
    BY <1>1, <1>2, <1>7 DEF Ending
  <2>2. \A x \in Agents, d \in Calls : HeldAt(x, d)' = HeldAt(x, d)
    BY <1>1, <1>7 DEF HeldAt
  <2>3. \A d \in Calls : Held(d)' = Held(d)
    BY <1>1, <1>7 DEF Held
  <2>4. \A x \in Agents : HeldOnce(x)'
    BY <1>1, <1>7 DEF HoldInv, HeldOnce
  <2> QED
    BY <1>1, <1>6, <1>7, <2>1, <2>2, <2>3, <2>4, RunnerMovesHold
<1>8. CASE serving[b] # c /\ c \notin Items(queue[b]) /\ UNCHANGED <<queue, fut, cut>>
  <2>1. \A x \in Agents, d \in Calls : HeldAt(x, d)' = HeldAt(x, d)
    BY <1>1, <1>8 DEF HeldAt
  <2>2. \A d \in Calls : Held(d)' = Held(d)
    BY <1>1, <1>8 DEF Held
  <2>3. ~Held(c)
    BY <1>5, <1>8 DEF Held, HeldAt
  <2>4. \A x \in Agents : HeldOnce(x)'
    BY <1>1, <1>8 DEF HoldInv, HeldOnce
  <2> QED
    BY <1>1, <1>6, <1>8, <2>1, <2>2, <2>3, <2>4, RunnerMovesHold
<1>9. ASSUME serving[b] # c, cut' = cut,
             fut' = [fut EXCEPT ![c] = IF @ = "pending" THEN "error" ELSE @],
             NEW k \in 1..Len(queue[b]), queue[b][k] = c,
             queue' = [queue EXCEPT ![b] = Without(@, k)]
      PROVE  HoldInv'
  <2>1. /\ queue[b] \in Seq(Calls)
        /\ \A i, j \in 1..Len(queue[b]) : queue[b][i] = queue[b][j] => i = j
        /\ \A i \in 1..Len(queue[b]) : queue[b][i] # serving[b]
    BY <1>2, QueueItems DEF HoldInv, HeldOnce
  <2>2. /\ queue'[b] = Without(queue[b], k)
        /\ \A x \in Agents : x # b => queue'[x] = queue[x]
    BY <1>2, <1>3, <1>9
  <2>3. /\ queue'[b] \in Seq(Calls)
        /\ \A i, j \in 1..Len(queue'[b]) : queue'[b][i] = queue'[b][j] => i = j
        /\ Items(queue'[b]) = Items(queue[b]) \ {c}
    BY <1>9, <2>1, <2>2, WithoutJob
  <2>4. HeldOnce(b)'
    <3>1. \A i \in 1..Len(queue'[b]) : queue'[b][i] \in Items(queue'[b])
      BY DEF Items
    <3>2. serving[b] \notin Items(queue[b])
      BY <2>1 DEF Items
    <3> QED
      BY <1>1, <2>3, <3>1, <3>2 DEF HeldOnce
  <2>5. \A x \in Agents : HeldOnce(x)'
    BY <1>1, <2>2, <2>4 DEF HoldInv, HeldOnce
  <2>6. \A x \in Agents, d \in Calls : HeldAt(x, d)' => HeldAt(x, d)
    BY <1>1, <2>2, <2>3 DEF HeldAt
  <2>7. ~Held(c)'
    <3>1. ~HeldAt(b, c)'
      BY <1>1, <1>9, <2>3 DEF HeldAt
    <3>2. \A x \in Agents : ~HeldAt(x, c)'
      BY <1>5, <2>6, <3>1
    <3> QED
      BY <3>2 DEF Held, HeldAt
  <2>8. \A d \in Calls : d # c => Held(d)' = Held(d)
    <3>1. \A x \in Agents, d \in Calls : d # c => HeldAt(x, d)' = HeldAt(x, d)
      BY <1>1, <2>2, <2>3 DEF HeldAt
    <3> QED
      BY <3>1 DEF Held, HeldAt
  <2>9. /\ \A d \in Calls : d # c => fut'[d] = fut[d]
        /\ fut'[c] = IF fut[c] = "pending" THEN "error" ELSE fut[c]
    BY <1>3, <1>9
  <2>10. \A d \in Calls :
           /\ fut'[d] = fut[d] \/ fut'[d] # "pending"
           /\ fut'[d] = "replied" => fut[d] = "replied"
           /\ Held(d) /\ ~Held(d)' => fut'[d] # "pending"
           /\ Held(d)' /\ Ending(d) => Ending(d)'
    BY <1>6, <2>7, <2>8, <2>9
  <2>11. UNCHANGED <<phase, target>>
    BY <1>1
  <2> QED
    BY <2>5, <2>6, <2>10, <2>11, RunnerMovesHold
<1> QED
  BY <1>4, <1>7, <1>8, <1>9

LEMMA SubmitHolds ==
  ASSUME TypeInv, HoldInv, NEW c \in Calls, Submit(c) PROVE HoldInv'
<1>1. PICK b \in Agents : b = target[c]
  BY DEF Submit, TypeInv
<1>2. /\ phase[c] = "dispatch" /\ phase' = [phase EXCEPT ![c] = "reply"]
      /\ UNCHANGED <<target, serving, cut, stopping>>
      /\ \/ queue' = [queue EXCEPT ![b] = Append(@, c)] /\ fut' = fut
         \/ /\ fut' = [fut EXCEPT ![c] = IF @ = "pending" THEN "error" ELSE @]
            /\ queue' = queue
  BY <1>1 DEF Submit
<1>3. phase = [d \in Calls |-> phase[d]] /\ fut = [d \in Calls |-> fut[d]]
      /\ queue = [a \in Agents |-> queue[a]]
  BY DEF TypeInv, TypeOK
<1>4. ~Held(c) /\ fut[c] # "replied"
  BY <1>2 DEF HoldInv, Held, HeldAt, Served
<1>5. phase'[c] = "reply" /\ \A d \in Calls : d # c => phase'[d] = phase[d]
  BY <1>2, <1>3
<1>6. CASE /\ fut' = [fut EXCEPT ![c] = IF @ = "pending" THEN "error" ELSE @]
           /\ queue' = queue
  <2>1. /\ fut'[c] \notin {"pending", "replied"}
        /\ \A d \in Calls : d # c => fut'[d] = fut[d]
    BY <1>3, <1>4, <1>6
  <2>2. CallMoves(c)
    BY <1>4, <1>5, <2>1 DEF CallMoves
  <2>3. \A d \in Calls : d # c => CallMoves(d)
    BY <1>2, <1>5, <2>1, CallStays
  <2> QED
    BY <1>2, <1>6, <2>2, <2>3, CallsMoveHold
<1>7. CASE queue' = [queue EXCEPT ![b] = Append(@, c)] /\ fut' = fut
  <2>1. /\ queue[b] \in Seq(Calls) /\ Len(queue[b]) \in Nat
        /\ queue'[b] = Append(queue[b], c)
        /\ \A x \in Agents : x # b => queue'[x] = queue[x]
    BY <1>3, <1>1, <1>7, QueueItems
  <2>2. /\ Len(queue'[b]) = Len(queue[b]) + 1 /\ queue'[b][Len(queue[b]) + 1] = c
        /\ \A i \in 1..Len(queue[b]) : queue'[b][i] = queue[b][i]
    BY <2>1
  <2>3. Items(queue'[b]) = Items(queue[b]) \cup {c}
    <3> DEFINE q == queue[b]
               t == queue'[b]
    <3> HIDE DEF q, t
    <3>1. /\ Len(q) \in Nat /\ Len(t) = Len(q) + 1 /\ t[Len(q) + 1] = c
          /\ \A i \in 1..Len(q) : t[i] = q[i]
      BY <2>1, <2>2 DEF q, t
    <3>2. \A i \in 1..Len(t) : i \in 1..Len(q) \/ i = Len(q) + 1
      BY <3>1
    <3>3. Len(q) + 1 \in 1..Len(t) /\ \A i \in 1..Len(q) : i \in 1..Len(t)
      BY <3>1
    <3>4. Items(t) = Items(q) \cup {c}
      BY <3>1, <3>2, <3>3 DEF Items
    <3> QED
      BY <3>4 DEF q, t
  <2>4. c \notin Items(queue[b]) /\ serving[b] # c
    BY <1>1, <1>4 DEF Held
  <2>5. HeldOnce(b)'
    <3>1. \A i \in 1..Len(queue[b]) : queue[b][i] # c
      BY <2>4 DEF Items
    <3>2. /\ \A i, j \in 1..Len(queue[b]) : queue[b][i] = queue[b][j] => i = j
          /\ \A i \in 1..Len(queue[b]) : queue[b][i] # serving[b]
      BY <1>1 DEF HoldInv, HeldOnce
    <3>3. \A i \in 1..Len(queue'[b]) : i \in 1..Len(queue[b]) \/ i = Len(queue[b]) + 1
      BY <2>1, <2>2
    <3> QED
      BY <1>2, <2>1, <2>2, <2>4, <3>1, <3>2, <3>3 DEF HeldOnce
  <2>6. \A x \in Agents : HeldOnce(x)'
    <3>1. ASSUME NEW x \in Agents, x # b PROVE HeldOnce(x)'
      <4>1. HeldOnce(x) /\ queue'[x] = queue[x] /\ serving'[x] = serving[x]
        BY <1>2, <2>1, <3>1 DEF HoldInv
      <4> QED
        BY <4>1 DEF HeldOnce
    <3> QED
      BY <2>5, <3>1
  <2>7. \A x \in Agents, d \in Calls : HeldAt(x, d)' => HeldAt(x, d) \/ (x = b /\ d = c)
    BY <1>2, <2>1, <2>3 DEF HeldAt
  <2>8. \A x \in Agents, d \in Calls : HeldAt(x, d) => HeldAt(x, d)'
    BY <1>2, <2>1, <2>3 DEF HeldAt
  <2>9. Held(c)'
    BY <1>1, <2>3 DEF Held
  <2>10. \A d \in Calls : d # c => Held(d)' = Held(d)
    BY <2>7, <2>8 DEF Held, HeldAt
  <2>11. \A x \in Agents, d \in Calls : HeldAt(x, d)' =>
           target'[d] = x /\ phase'[d] \in Served /\ fut'[d] # "replied"
    BY <1>2, <1>1, <1>4, <1>5, <1>7, <2>7 DEF HoldInv, Served
  <2>12. \A d \in Calls : fut'[d] = "replied" => phase'[d] \in Served
    BY <1>4, <1>5, <1>7 DEF HoldInv
  <2>13. AwaitedJobIsHeld'
    BY <1>5, <1>7, <2>9, <2>10 DEF HoldInv, AwaitedJobIsHeld
  <2>14. \A d \in Calls : phase'[d] \in {"reap", "returned"} /\ Held(d)' => Ending(d)'
    BY <1>2, <1>5, <2>10 DEF HoldInv, Ending
  <2> QED
    BY <2>6, <2>11, <2>12, <2>13, <2>14 DEF HoldInv
<1> QED
  BY <1>2, <1>6, <1>7

-----------------------------------------------------------------------------
(* Types, and the nesting of calls                                         *)

(* An agent's next call is deeper than every registered call to it.        *)
LEMMA DepthForIs ==
  ASSUME TypeInv, NEW a
  PROVE  /\ DepthFor(a) \in Nat
         /\ \A c \in registered : target[c] = a => depth[c] < DepthFor(a)
<1> DEFINE above == {depth[c] : c \in {d \in registered : target[d] = a}}
           top == CHOOSE d \in above : \A e \in above : e <= d
<1>1. /\ MAX_DELEGATION_DEPTH \in Nat
      /\ \A c \in registered : depth[c] \in Nat /\ depth[c] <= MAX_DELEGATION_DEPTH
  BY DelegationAssumption DEF TypeInv, TypeOK
<1>2. DepthFor(a) = IF above = {} THEN 0 ELSE 1 + top
  BY DEF DepthFor
<1>3. \A c \in registered : target[c] = a => depth[c] \in above
  OBVIOUS
<1>4. above \in SUBSET Nat /\ \A e \in above : e <= MAX_DELEGATION_DEPTH
  BY <1>1
<1> HIDE DEF above
<1>5. CASE above = {}
  BY <1>2, <1>3, <1>5
<1>6. CASE above # {}
  <2>1. \E d \in above : \A e \in above : e <= d
    BY <1>1, <1>4, <1>6, Greatest
  <2>2. top \in above /\ \A e \in above : e <= top
    BY <2>1
  <2> HIDE DEF top
  <2> QED
    BY <1>1, <1>2, <1>3, <1>4, <1>6, <2>2
<1> QED
  BY <1>5, <1>6

LEMMA InitJobsInv == Init => JobsInv
<1> SUFFICES ASSUME Init PROVE JobsInv
  OBVIOUS
<1>1. TypeInv
  <2>1. /\ MAX_DELEGATION_DEPTH \in Nat /\ 0 \in 0..MAX_DELEGATION_DEPTH /\ <<>> \in Seq(Calls)
    BY DelegationAssumption
  <2> QED
    BY <2>1 DEF Init, TypeInv, TypeOK
<1>2. NestInv
  BY CallsAreCalls DEF Init, NestInv, DepthCountsNesting
<1>3. HoldInv
  <2>1. \A a \in Agents : queue[a] = <<>> /\ Items(queue[a]) = {} /\ serving[a] = Idle
    BY DEF Init, Items
  <2>2. \A c \in Calls : phase[c] = "unused" /\ fut[c] = "pending"
    BY DEF Init
  <2>3. \A a \in Agents, c \in Calls : ~HeldAt(a, c)
    BY <2>1, CallsAreCalls DEF HeldAt
  <2>4. \A a \in Agents : HeldOnce(a)
    BY <2>1 DEF HeldOnce
  <2> QED
    BY <2>2, <2>3, <2>4 DEF HoldInv, AwaitedJobIsHeld
<1> QED
  BY <1>1, <1>2, <1>3 DEF JobsInv

(* What entering a stage leaves of the types.                              *)
LEMMA EnterTypes ==
  ASSUME TypeInv, NEW c \in Calls, phase[c] # "unused", NEW stage,
         stage \in Outstanding \cup {"returned"}, Enter(c, stage)
  PROVE  /\ phase' \in [Calls -> Outstanding \cup {"unused", "returned"}]
         /\ UNCHANGED <<caller, target>>
         /\ by' \in [Calls -> Calls \cup {Root, Gone}]
         /\ depth' \in [Calls -> 0..MAX_DELEGATION_DEPTH]
         /\ registered' \subseteq Calls /\ swept' \subseteq Calls
         /\ fut' \in [Calls -> {"pending", "approved", "denied", "cancelled",
                                "replied", "error"}]
         /\ questions' \subseteq Calls
         /\ \A d \in Calls : phase[d] = "unused" <=> phase'[d] = "unused"
<1>1. MAX_DELEGATION_DEPTH \in Nat /\ 0 \in 0..MAX_DELEGATION_DEPTH
  BY DelegationAssumption
<1>2. /\ phase' = [phase EXCEPT ![c] = stage] /\ stage # "unused"
      /\ by' = [by EXCEPT ![c] = IF stage = "returned" THEN Gone ELSE @]
      /\ depth' = [depth EXCEPT ![c] = IF stage = "returned" THEN 0 ELSE @]
      /\ UNCHANGED <<caller, target>>
      /\ swept' \subseteq swept /\ registered' \subseteq registered
      /\ fut' = [fut EXCEPT ![c] = IF stage \in Gates \cup {"dispatch"} THEN "pending" ELSE @]
      /\ questions' \subseteq questions \cup {c}
  BY DEF Enter, Frame, Leave, Outstanding, Gates, Bypasses
<1> QED
  BY <1>1, <1>2 DEF TypeInv, TypeOK

LEMMA StepTypes ==
  ASSUME TypeInv, NEW c \in Calls,
         \/ RedispatchApproved(c) \/ StartTarget(c) \/ DelegationApproved(c)
         \/ GateRefused(c) \/ Replied(c) \/ ReapEnds(c)
  PROVE  TypeInv'
<1>1. phase[c] # "unused"
  BY DEF RedispatchApproved, StartTarget, DelegationApproved, GateRefused, Replied, ReapEnds, Gates
<1>2. \E stage \in Outstanding \cup {"returned"} : Enter(c, stage)
  BY StageTypes DEF RedispatchApproved, StartTarget, DelegationApproved, GateRefused,
                    Replied, ReapEnds
<1>3. /\ stale' \subseteq stale /\ UNCHANGED <<serving, queue, cut, stopping>>
      /\ runner' \in [Agents -> {"running", "stopping", "stopped"}]
      /\ count' \in [Agents \X Agents -> Int]
  <2>1. CASE RedispatchApproved(c)
    <3>1. PICK n \in Credits :
            count' = [count EXCEPT ![<<caller[c], target[c]>>] =
                        IF n > 1 THEN -(n - 1) ELSE RedispatchThreshold - 1]
      BY <2>1 DEF RedispatchApproved
    <3>2. (IF n > 1 THEN -(n - 1) ELSE RedispatchThreshold - 1) \in Int
      BY DelegationAssumption
    <3> QED
      BY <2>1, <3>1, <3>2 DEF RedispatchApproved, runnerVars, TypeInv, TypeOK
  <2>2. CASE StartTarget(c)
    BY <2>2 DEF StartTarget, TypeInv, TypeOK
  <2>3. CASE DelegationApproved(c) \/ GateRefused(c) \/ Replied(c) \/ ReapEnds(c)
    BY <2>3 DEF DelegationApproved, GateRefused, Replied, ReapEnds, runnerVars, TypeInv, TypeOK
  <2> QED
    BY <2>1, <2>2, <2>3
<1>4. PICK stage \in Outstanding \cup {"returned"} : Enter(c, stage)
  BY <1>2
<1>5. TypeOK'
  BY <1>1, <1>3, <1>4, EnterTypes DEF TypeInv, TypeOK
<1>6. /\ \A d \in Calls : phase'[d] # "unused" => caller'[d] \in Agents /\ target'[d] \in Agents
      /\ \A d \in stopping' : phase'[d] # "unused"
  BY <1>1, <1>3, <1>4, EnterTypes DEF TypeInv, TypeOK
<1> QED
  BY <1>5, <1>6 DEF TypeInv

LEMMA AskTypes ==
  ASSUME TypeInv, HoldInv, NEW c \in Calls, NEW a \in Agents, NEW b \in Agents, Ask(c, a, b)
  PROVE  TypeInv'
<1> DEFINE stage == RedispatchStage(a, b, runner[b] = "stopped")
<1>1. /\ phase' = [phase EXCEPT ![c] = stage] /\ serving[a] # Idle
      /\ caller' = [caller EXCEPT ![c] = a] /\ target' = [target EXCEPT ![c] = b]
      /\ by' = [by EXCEPT ![c] = serving[a]]
      /\ depth' = [depth EXCEPT ![c] = DepthFor(a)]
      /\ registered' = registered \cup {c}
      /\ UNCHANGED <<runner, serving, queue, cut, stopping, fut, count, swept>>
      /\ stale' \subseteq stale \cup {c} /\ questions' \subseteq questions \cup {c}
  BY DEF Ask, runnerVars
<1>2. stage \in Outstanding
  <2>1. runner' = runner
    BY <1>1
  <2> QED
    BY <2>1 DEF RedispatchStage, StartStage, ApprovalStage, DispatchStage, Outstanding,
                Gates, Bypasses
<1>3. DepthFor(a) \in 0..MAX_DELEGATION_DEPTH
  <2>1. DepthFor(a) <= MAX_DELEGATION_DEPTH
    BY DEF Ask, Admitted
  <2> QED
    BY <2>1, DepthForIs, DelegationAssumption
<1>4. serving[a] \in Calls \cup {Root}
  BY <1>1 DEF TypeInv, TypeOK
<1>5. "unused" \notin Outstanding
  BY DEF Outstanding, Gates, Bypasses
<1> HIDE DEF stage
<1>6. TypeOK'
  BY <1>1, <1>2, <1>3, <1>4 DEF TypeInv, TypeOK
<1>7. /\ \A d \in Calls : phase'[d] # "unused" => caller'[d] \in Agents /\ target'[d] \in Agents
      /\ \A d \in stopping' : phase'[d] # "unused"
  BY <1>1, <1>2, <1>5 DEF TypeInv, TypeOK
<1> QED
  BY <1>6, <1>7 DEF TypeInv

LEMMA WaitTypes ==
  ASSUME TypeInv, NEW c \in Calls,
         \/ \E answer \in {"approved", "denied"} : AnswerGate(c, answer)
         \/ GiveUp(c) \/ CallerCancelled(c) \/ Submit(c)
  PROVE  TypeInv'
<1>1. CASE \E answer \in {"approved", "denied"} : AnswerGate(c, answer)
  BY <1>1 DEF AnswerGate, callVars, registry, runnerVars, TypeInv, TypeOK
<1>2. CASE GiveUp(c)
  BY <1>2 DEF GiveUp, registry, TypeInv, TypeOK, Outstanding
<1>3. CASE CallerCancelled(c)
  <2>1. MAX_DELEGATION_DEPTH \in Nat /\ 0 \in 0..MAX_DELEGATION_DEPTH
    BY DelegationAssumption
  <2>2. /\ phase' = [phase EXCEPT ![c] = "returned"] /\ phase[c] # "unused"
        /\ fut' = [fut EXCEPT ![c] = IF @ = "pending" THEN "cancelled" ELSE @]
        /\ by' = [by EXCEPT ![c] = Gone] /\ depth' = [depth EXCEPT ![c] = 0]
        /\ UNCHANGED <<caller, target, questions, count, runner, serving, queue, cut>>
        /\ registered' \subseteq registered /\ stale' \subseteq stale /\ swept' \subseteq swept
        /\ stopping' \subseteq stopping \cup {c}
    BY <1>3 DEF CallerCancelled, Frame, Live, Outstanding, Gates, Bypasses
  <2> QED
    BY <2>1, <2>2 DEF TypeInv, TypeOK
<1>4. CASE Submit(c)
  <2>1. PICK b \in Agents : b = target[c]
    BY <1>4 DEF Submit, TypeInv
  <2>2. /\ phase' = [phase EXCEPT ![c] = "reply"] /\ phase[c] # "unused"
        /\ count' = [count EXCEPT ![<<caller[c], b>>] = @ + 1]
        /\ fut' \in {fut, [fut EXCEPT ![c] = IF @ = "pending" THEN "error" ELSE @]}
        /\ queue' \in {queue, [queue EXCEPT ![b] = Append(@, c)]}
        /\ UNCHANGED <<caller, target, by, depth, registered, swept, stale, questions,
                       runner, serving, cut, stopping>>
    BY <1>4, <2>1 DEF Submit, registry
  <2>3. queue' \in [Agents -> Seq(Calls)]
    <3>1. queue \in [Agents -> Seq(Calls)] /\ queue[b] \in Seq(Calls)
      BY DEF TypeInv, TypeOK
    <3>2. Append(queue[b], c) \in Seq(Calls)
      BY <3>1
    <3> QED
      BY <2>2, <3>1, <3>2
  <2>4. count' \in [Agents \X Agents -> Int] /\ "reply" \in Outstanding
    BY <2>2 DEF TypeInv, TypeOK, Outstanding
  <2> QED
    BY <2>2, <2>3, <2>4 DEF TypeInv, TypeOK
<1> QED
  BY <1>1, <1>2, <1>3, <1>4

LEMMA RunnerTypes ==
  ASSUME TypeInv, HoldInv, NEW a \in Agents,
         \/ TakeJob(a) \/ Prompt(a) \/ TurnEnds(a) \/ RunnerCloses(a) \/ StartAgent(a)
         \/ \E kill \in BOOLEAN : StopAgent(a, kill)
  PROVE  TypeInv'
<1>1. CASE TakeJob(a)
  <2>1. queue[a] \in Seq(Calls) /\ queue[a] # <<>>
    BY <1>1 DEF TakeJob, TypeInv, TypeOK
  <2>2. Head(queue[a]) \in Calls /\ Tail(queue[a]) \in Seq(Calls)
    BY <2>1
  <2> QED
    BY <1>1, <2>2 DEF TakeJob, callVars, registry, waits, TypeInv, TypeOK
<1>2. CASE Prompt(a)
  BY <1>2 DEF Prompt, callVars, registry, waits, TypeInv, TypeOK
<1>3. CASE TurnEnds(a)
  BY <1>3 DEF TurnEnds, registry, TypeInv, TypeOK
<1>4. CASE RunnerCloses(a)
  <2>1. <<>> \in Seq(Calls)
    OBVIOUS
  <2>2. queue' \in [Agents -> Seq(Calls)]
    BY <1>4, <2>1 DEF RunnerCloses, TypeInv, TypeOK
  <2> QED
    BY <1>4, <2>2 DEF RunnerCloses, callVars, registry, TypeInv, TypeOK
<1>5. CASE StartAgent(a) \/ \E kill \in BOOLEAN : StopAgent(a, kill)
  <2>1. /\ runner' \in [Agents -> {"running", "stopping", "stopped"}]
        /\ cut' \subseteq Agents
        /\ UNCHANGED <<callVars, registry, waits, serving, queue, stopping>>
    BY <1>5 DEF StartAgent, StopAgent, TypeInv, TypeOK
  <2> QED
    BY <2>1 DEF callVars, registry, waits, TypeInv, TypeOK
<1> QED
  BY <1>1, <1>2, <1>3, <1>4, <1>5

LEMMA CancelTypes ==
  ASSUME TypeInv, HoldInv,
         (\E c \in Calls : CancelJob(c)) \/ (\E M : BusCancel(M))
  PROVE  TypeInv'
<1>1. ASSUME NEW c \in Calls, CancelJob(c) PROVE TypeInv'
  <2>1. PICK b \in Agents : b = target[c]
    BY <1>1 DEF CancelJob, TypeInv
  <2>2. /\ stopping' \subseteq stopping /\ cut' \subseteq cut \cup {b}
        /\ fut' \in {fut, [fut EXCEPT ![c] = IF @ = "pending" THEN "error" ELSE @]}
        /\ \/ queue' = queue
           \/ \E k \in 1..Len(queue[b]) : queue' = [queue EXCEPT ![b] = Without(@, k)]
        /\ UNCHANGED <<phase, caller, target, by, depth, registered, swept, stale, questions,
                       count, runner, serving>>
    BY <1>1, <2>1 DEF CancelJob, callVars, registry
  <2>3. queue' \in [Agents -> Seq(Calls)]
    <3>1. queue \in [Agents -> Seq(Calls)] /\ queue[b] \in Seq(Calls)
      BY DEF TypeInv, TypeOK
    <3>2. \A k \in 1..Len(queue[b]) : Without(queue[b], k) \in Seq(Calls)
      BY <3>1, Removal DEF Without, Removed
    <3>3. CASE queue' = queue
      BY <3>1, <3>3
    <3>4. ASSUME NEW k \in 1..Len(queue[b]), queue' = [queue EXCEPT ![b] = Without(@, k)]
          PROVE  queue' \in [Agents -> Seq(Calls)]
      <4>1. Without(queue[b], k) \in Seq(Calls)
        BY <3>2
      <4> QED
        BY <3>1, <3>4, <4>1
    <3> QED
      BY <2>2, <3>3, <3>4
  <2> QED
    BY <2>2, <2>3 DEF TypeInv, TypeOK
<1>2. ASSUME NEW M, BusCancel(M) PROVE TypeInv'
  <2>1. /\ registered' \subseteq registered /\ swept' \subseteq swept \cup registered
        /\ stopping' \subseteq stopping \cup {c \in registered : Submitted(c)}
    BY <1>2 DEF BusCancel, Cascade
  <2>2. \A c \in Calls : Submitted(c) => phase[c] # "unused"
    BY DEF Submitted
  <2> QED
    BY <1>2, <2>1, <2>2 DEF BusCancel, callVars, TypeInv, TypeOK
<1> QED
  BY <1>1, <1>2

(* A step in which calls return and turns end nests nothing anew.          *)
LEMMA NestShrinks ==
  ASSUME TypeInv, NestInv, registered' \subseteq registered,
         UNCHANGED <<caller, target>>,
         \A c \in Calls : /\ by'[c] = by[c] \/ by'[c] = Gone
                          /\ phase[c] # "unused" => phase'[c] # "unused"
                          /\ c \in registered' => depth'[c] = depth[c]
  PROVE  NestInv'
<1>1. registered \subseteq Calls
  BY DEF TypeInv, TypeOK
<1>2. \A c \in Calls : by'[c] \in Calls => by'[c] = by[c]
  BY CallsAreCalls
<1>3. \A c \in Calls : by'[c] \in Calls =>
        phase'[by'[c]] # "unused" /\ target'[by'[c]] = caller'[c]
  BY <1>2 DEF NestInv
<1>4. DepthCountsNesting'
  <2> SUFFICES ASSUME NEW c \in registered', NEW d \in registered', by'[c] = d
               PROVE  depth'[c] > depth'[d]
    BY DEF DepthCountsNesting
  <2>1. c \in registered /\ d \in registered /\ c \in Calls /\ d \in Calls
    BY <1>1
  <2>2. by[c] = d /\ depth'[c] = depth[c] /\ depth'[d] = depth[d]
    BY <1>2, <2>1
  <2> QED
    BY <2>1, <2>2 DEF NestInv, DepthCountsNesting
<1> QED
  BY <1>3, <1>4 DEF NestInv

(* A call asked in the turn of a job is deeper than the call of that job.  *)
LEMMA AskNests ==
  ASSUME GraphInv, TypeInv, NestInv, HoldInv,
         NEW c \in Calls, NEW a \in Agents, NEW b \in Agents, Ask(c, a, b)
  PROVE  NestInv'
<1>1. /\ phase[c] = "unused" /\ registered' = registered \cup {c}
      /\ \A d \in Calls : d # c => phase'[d] = phase[d] /\ by'[d] = by[d] /\ depth'[d] = depth[d]
      /\ \A d \in Calls : d # c => target'[d] = target[d] /\ caller'[d] = caller[d]
      /\ by'[c] = serving[a] /\ depth'[c] = DepthFor(a) /\ caller'[c] = a
  BY DEF Ask, TypeInv, TypeOK
<1>2. registered \subseteq Calls /\ c \notin registered
  BY <1>1 DEF GraphInv, RegistryIsExact, Live, Outstanding, Gates, Bypasses
<1>3. \A d \in Calls : by[d] # c
  BY <1>1 DEF NestInv
<1>4. serving[a] \in Calls => target[serving[a]] = a /\ phase[serving[a]] \in Served
  BY DEF HoldInv, HeldAt
<1>5. serving[a] # c
  BY <1>1, <1>4 DEF Served
<1>6. ASSUME NEW d \in Calls, by'[d] \in Calls
      PROVE  phase'[by'[d]] # "unused" /\ target'[by'[d]] = caller'[d]
  <2>1. CASE d = c
    BY <1>1, <1>4, <1>5, <1>6, <2>1 DEF Served
  <2>2. CASE d # c
    <3>1. by'[d] = by[d] /\ by[d] # c
      BY <1>1, <1>3, <2>2
    <3> QED
      BY <1>1, <1>6, <2>2, <3>1 DEF NestInv
  <2> QED
    BY <2>1, <2>2
<1>7. DepthCountsNesting'
  <2> SUFFICES ASSUME NEW d \in registered', NEW e \in registered', by'[d] = e
               PROVE  depth'[d] > depth'[e]
    BY DEF DepthCountsNesting
  <2>1. CASE d = c
    <3>1. e = serving[a] /\ e # c /\ e \in registered /\ e \in Calls
      BY <1>1, <1>2, <1>5, <2>1
    <3>2. depth[e] < DepthFor(a) /\ depth[e] \in Nat /\ DepthFor(a) \in Nat
      BY <1>4, <3>1, DepthForIs DEF TypeInv, TypeOK
    <3> QED
      BY <1>1, <2>1, <3>1, <3>2
  <2>2. CASE d # c
    <3>1. d \in registered /\ d \in Calls /\ by[d] = e
      BY <1>1, <1>2, <2>2
    <3>2. e # c /\ e \in registered /\ e \in Calls
      BY <1>1, <1>2, <1>3, <3>1
    <3> QED
      BY <1>1, <2>2, <3>1, <3>2 DEF NestInv, DepthCountsNesting
  <2> QED
    BY <2>1, <2>2
<1> QED
  BY <1>6, <1>7 DEF NestInv

LEMMA StepNests ==
  ASSUME TypeInv, NestInv, NEW c \in Calls,
         \/ RedispatchApproved(c) \/ StartTarget(c) \/ DelegationApproved(c)
         \/ GateRefused(c) \/ Replied(c) \/ ReapEnds(c)
  PROVE  NestInv'
<1>1. phase[c] # "unused"
  BY DEF RedispatchApproved, StartTarget, DelegationApproved, GateRefused, Replied, ReapEnds, Gates
<1>2. PICK stage \in Outstanding \cup {"returned"} : Enter(c, stage)
  BY StageTypes DEF RedispatchApproved, StartTarget, DelegationApproved, GateRefused,
                    Replied, ReapEnds
<1>3. \A d \in Calls : phase[d] = "unused" <=> phase'[d] = "unused"
  BY <1>1, <1>2, EnterTypes
<1>4. /\ registered' = IF stage = "returned" THEN registered \ {c} ELSE registered
      /\ by' = [by EXCEPT ![c] = IF stage = "returned" THEN Gone ELSE @]
      /\ depth' = [depth EXCEPT ![c] = IF stage = "returned" THEN 0 ELSE @]
      /\ UNCHANGED <<caller, target>>
  BY <1>2 DEF Enter, Leave, Frame
<1>5. \A d \in Calls : /\ by'[d] = by[d] \/ by'[d] = Gone
                       /\ d \in registered' => depth'[d] = depth[d]
  BY <1>4 DEF TypeInv, TypeOK
<1> QED
  BY <1>3, <1>4, <1>5, NestShrinks

LEMMA WaitNests ==
  ASSUME TypeInv, NestInv, NEW c \in Calls,
         \/ \E answer \in {"approved", "denied"} : AnswerGate(c, answer)
         \/ GiveUp(c) \/ CallerCancelled(c) \/ Submit(c) \/ CancelJob(c)
  PROVE  NestInv'
<1>1. /\ registered' \subseteq registered /\ UNCHANGED <<caller, target>>
      /\ \A d \in Calls : by'[d] = by[d] \/ by'[d] = Gone
  BY DEF AnswerGate, GiveUp, CallerCancelled, Submit, CancelJob, Frame, callVars, registry,
         TypeInv, TypeOK
<1>2. \A d \in Calls : phase[d] # "unused" => phase'[d] # "unused"
  BY DEF AnswerGate, GiveUp, CallerCancelled, Submit, CancelJob, callVars, TypeInv, TypeOK
<1>3. \A d \in Calls : d \in registered' => depth'[d] = depth[d]
  BY DEF AnswerGate, GiveUp, CallerCancelled, Submit, CancelJob, Frame, callVars, registry,
         TypeInv, TypeOK
<1> QED
  BY <1>1, <1>2, <1>3, NestShrinks

LEMMA RunnerNests ==
  ASSUME TypeInv, NestInv,
         \/ \E a \in Agents : \/ TakeJob(a) \/ Prompt(a) \/ TurnEnds(a) \/ RunnerCloses(a)
                              \/ StartAgent(a) \/ \E kill \in BOOLEAN : StopAgent(a, kill)
         \/ \E M : BusCancel(M)
  PROVE  NestInv'
<1>1. registered' \subseteq registered /\ UNCHANGED <<phase, depth, caller, target>>
  BY DEF TakeJob, Prompt, TurnEnds, RunnerCloses, StartAgent, StopAgent, BusCancel, callVars,
         registry
<1>2. \A d \in Calls : by'[d] = by[d] \/ by'[d] = Gone
  BY DEF TakeJob, Prompt, TurnEnds, RunnerCloses, StartAgent, StopAgent, BusCancel, callVars
<1> QED
  BY <1>1, <1>2, NestShrinks

(* Every step keeps the invariant, given the registry's.                   *)
LEMMA NextJobsInv == GraphInv /\ JobsInv /\ [Next]_vars => JobsInv'
<1> SUFFICES ASSUME GraphInv, TypeInv, NestInv, HoldInv, [Next]_vars
             PROVE  TypeInv' /\ NestInv' /\ HoldInv'
  BY DEF JobsInv
<1>1. ASSUME NEW c \in Calls,
             \/ RedispatchApproved(c) \/ StartTarget(c) \/ DelegationApproved(c)
             \/ GateRefused(c) \/ Replied(c) \/ ReapEnds(c)
      PROVE  TypeInv' /\ NestInv' /\ HoldInv'
  BY <1>1, StepTypes, StepNests, StepsHold
<1>2. ASSUME NEW c \in Calls,
             \/ \E answer \in {"approved", "denied"} : AnswerGate(c, answer)
             \/ GiveUp(c) \/ CallerCancelled(c)
      PROVE  TypeInv' /\ NestInv' /\ HoldInv'
  BY <1>2, WaitTypes, WaitNests, RequestsHold
<1>3. ASSUME NEW c \in Calls, Submit(c) PROVE TypeInv' /\ NestInv' /\ HoldInv'
  BY <1>3, WaitTypes, WaitNests, SubmitHolds
<1>4. ASSUME NEW c \in Calls, CancelJob(c) PROVE TypeInv' /\ NestInv' /\ HoldInv'
  BY <1>4, CancelTypes, WaitNests, CancelJobHolds
<1>5. ASSUME NEW c \in Calls, NEW a \in Agents, NEW b \in Agents, Ask(c, a, b)
      PROVE  TypeInv' /\ NestInv' /\ HoldInv'
  BY <1>5, AskTypes, AskNests, RequestsHold
<1>6. ASSUME NEW a \in Agents, TakeJob(a) \/ Prompt(a)
      PROVE  TypeInv' /\ NestInv' /\ HoldInv'
  BY <1>6, RunnerTypes, RunnerNests, TakeHolds
<1>7. ASSUME NEW a \in Agents, TurnEnds(a) \/ RunnerCloses(a)
      PROVE  TypeInv' /\ NestInv' /\ HoldInv'
  BY <1>7, RunnerTypes, RunnerNests, TurnEndsHolds, ClosesHolds
<1>8. ASSUME NEW a \in Agents, StartAgent(a) \/ \E kill \in BOOLEAN : StopAgent(a, kill)
      PROVE  TypeInv' /\ NestInv' /\ HoldInv'
  BY <1>8, RunnerTypes, RunnerNests, AgentHolds
<1>9. ASSUME NEW M, BusCancel(M) PROVE TypeInv' /\ NestInv' /\ HoldInv'
  BY <1>9, CancelTypes, RunnerNests, BusCancelHolds
<1>10. CASE UNCHANGED vars
  <2>1. TypeInv'
    BY <1>10 DEF vars, callVars, registry, waits, runnerVars, TypeInv, TypeOK
  <2>2. NestInv'
    BY <1>10 DEF vars, callVars, registry, NestInv, DepthCountsNesting
  <2>3. HoldInv'
    BY <1>10, CallStays, CallsMoveHold DEF vars, callVars, registry, waits, runnerVars
  <2> QED
    BY <2>1, <2>2, <2>3
<1>11. CASE Progress
  BY <1>1, <1>2, <1>3, <1>4, <1>6, <1>7, <1>11 DEF Progress
<1>12. CASE Requests
  BY <1>2, <1>5, <1>6, <1>12 DEF Requests
<1>13. CASE Interventions
  <2>1. Stoppable \subseteq Agents
    BY DelegationAssumption
  <2> QED
    BY <1>8, <1>9, <1>13, <2>1 DEF Interventions
<1> QED
  BY <1>10, <1>11, <1>12, <1>13 DEF Next

-----------------------------------------------------------------------------
(* Theorems *)

(* The inductive invariant holds in every reachable state.                 *)
THEOREM GraphInvariant == Spec => []GraphInv
<1> QED BY InitGraphInv, NextGraphInv, PTL DEF Spec

(* "Cycles are refused at submit": the calls in the registry never form a  *)
(* cycle, whatever gates, cancels and restarts come between the checks.    *)
THEOREM NoCycles == Spec => []RegistryAcyclic
<1>1. GraphInv => RegistryAcyclic
  BY DEF GraphInv
<1> QED BY <1>1, GraphInvariant, PTL

(* Hence no agents wait for each other in a circle, as long as the         *)
(* operator's cancel has dropped no call that is still outstanding: the    *)
(* registry is the only thing between them and the wait windows.           *)
THEOREM NoCircleUncancelled == Spec => [](swept = {} => NoCircularWait)
<1>1. ASSUME GraphInv, swept = {} PROVE NoCircularWait
  <2>1. \A c \in Calls : Waiting(c) => c \in registered
    BY <1>1 DEF GraphInv, RegistryIsExact, Waiting, Live, Outstanding
  <2>2. Edges({c \in Calls : Waiting(c)}) \subseteq Edges(registered)
    BY <2>1 DEF Edges
  <2>3. Acyclic(Edges({c \in Calls : Waiting(c)}))
    <3>1. Acyclic(Edges(registered))
      BY <1>1 DEF GraphInv, RegistryAcyclic
    <3> QED BY <2>2, <3>1, Subgraph
  <2> QED BY <2>3 DEF NoCircularWait
<1>2. GraphInv => (swept = {} => NoCircularWait)
  BY <1>1
<1> QED BY <1>2, GraphInvariant, PTL

(* A call is in the registry exactly while it is outstanding, on every way *)
(* ask_agent can return, but for the calls `bus cancel` dropped.           *)
THEOREM ExactRegistry == Spec => []RegistryIsExact
<1>1. GraphInv => RegistryIsExact
  BY DEF GraphInv
<1> QED BY <1>1, GraphInvariant, PTL

(* The jobs' invariant holds in every reachable state.                     *)
THEOREM JobsInvariant == Spec => []JobsInv
<1> QED BY InitJobsInv, NextJobsInv, GraphInvariant, PTL DEF Spec

(* Every variable of the delegation keeps to its values.                   *)
THEOREM DelegationTypes == Spec => []TypeOK
<1>1. JobsInv => TypeOK
  BY DEF JobsInv, TypeInv
<1> QED BY <1>1, JobsInvariant, PTL

(* A call made for a job is deeper than the call of that job, while both   *)
(* are in the registry: the depth admission bounds is that of the nesting. *)
THEOREM NestingCounted == Spec => []DepthCountsNesting
<1>1. JobsInv => DepthCountsNesting
  BY DEF JobsInv, NestInv
<1> QED BY <1>1, JobsInvariant, PTL

(* No stop, restart or cancel loses a job whose caller awaits its reply.   *)
THEOREM NoJobLost == Spec => []AwaitedJobIsHeld
<1>1. JobsInv => AwaitedJobIsHeld
  BY DEF JobsInv, HoldInv
<1> QED BY <1>1, JobsInvariant, PTL

(* A job goes on for no caller that is gone: it is interrupted, or its     *)
(* cancel_job is under way (_delegation.py, the finally of ask_agent).     *)
THEOREM OrphansAreEnded == Spec => []NoOrphanJobs
<1>1. JobsInv => NoOrphanJobs
  <2> SUFFICES ASSUME JobsInv, NEW c \in Calls, phase[c] = "returned", Held(c)
               PROVE  c \in stopping \/ \E a \in cut : serving[a] = c
    BY DEF NoOrphanJobs
  <2> QED
    BY DEF JobsInv, HoldInv, Ending
<1> QED BY <1>1, JobsInvariant, PTL

-----------------------------------------------------------------------------
(* `bus cancel` *)

(* Only the operator's cancel drops a call that is outstanding.            *)
LEMMA OnlyCancelSweeps ==
  ASSUME [Next]_vars, swept' \ swept # {}
  PROVE  \E M : BusCancel(M)
<1> SUFFICES ASSUME ~\E M : BusCancel(M) PROVE swept' \subseteq swept
  OBVIOUS
<1>1. ASSUME NEW c, NEW stage, Enter(c, stage) PROVE swept' \subseteq swept
  BY <1>1 DEF Enter, Frame
<1>2. CASE Progress
  <2>1. ASSUME NEW c \in Calls,
               \/ RedispatchApproved(c) \/ StartTarget(c) \/ DelegationApproved(c)
               \/ GateRefused(c) \/ Replied(c) \/ ReapEnds(c)
        PROVE  swept' \subseteq swept
    <3>1. \E stage : Enter(c, stage)
      BY <2>1 DEF RedispatchApproved, StartTarget, DelegationApproved, GateRefused, Replied,
                  ReapEnds
    <3> QED
      BY <3>1, <1>1
  <2>2. ASSUME NEW c \in Calls, Submit(c) \/ GiveUp(c) \/ CancelJob(c)
        PROVE  swept' \subseteq swept
    BY <2>2 DEF Submit, GiveUp, CancelJob, registry
  <2>3. ASSUME NEW a \in Agents, TakeJob(a) \/ TurnEnds(a) \/ RunnerCloses(a)
        PROVE  swept' \subseteq swept
    BY <2>3 DEF TakeJob, TurnEnds, RunnerCloses, registry
  <2> QED
    BY <1>2, <2>1, <2>2, <2>3 DEF Progress
<1>3. CASE Requests
  <2>1. ASSUME NEW c \in Calls, NEW a \in Agents, NEW b \in Agents, Ask(c, a, b)
        PROVE  swept' \subseteq swept
    BY <2>1 DEF Ask
  <2>2. ASSUME NEW a \in Agents, Prompt(a) PROVE swept' \subseteq swept
    BY <2>2 DEF Prompt, registry
  <2>3. ASSUME NEW c \in Calls, NEW answer, AnswerGate(c, answer) PROVE swept' \subseteq swept
    BY <2>3 DEF AnswerGate, registry
  <2>4. ASSUME NEW c \in Calls, CallerCancelled(c) PROVE swept' \subseteq swept
    BY <2>4 DEF CallerCancelled, Frame
  <2> QED
    BY <1>3, <2>1, <2>2, <2>3, <2>4 DEF Requests
<1>4. CASE Interventions
  <2>1. PICK a \in Stoppable : StartAgent(a) \/ \E kill \in BOOLEAN : StopAgent(a, kill)
    BY <1>4 DEF Interventions
  <2> QED
    BY <2>1 DEF StartAgent, StopAgent, registry
<1>5. CASE UNCHANGED vars
  BY <1>5 DEF vars, registry
<1> QED
  BY <1>2, <1>3, <1>4, <1>5 DEF Next

(* The cascade goes on from a call it takes to the calls of its target.    *)
LEMMA CascadeGoesOn ==
  ASSUME NEW M, NEW c \in Cascade(M), NEW d \in registered, caller[d] = target[c]
  PROVE  d \in Cascade(M)
<1> SUFFICES ASSUME NEW S \in SUBSET registered, M \subseteq S,
                    \A x \in S : \A e \in registered : caller[e] = target[x] => e \in S
             PROVE  d \in S
  BY DEF Cascade
<1>1. c \in S
  BY DEF Cascade
<1> QED
  BY <1>1

(* The cascade stays in every set that holds the matched calls and goes on *)
(* from each of its own to the calls of the target.                        *)
LEMMA CascadeStaysIn ==
  ASSUME NEW M, NEW S \in SUBSET registered, M \subseteq S,
         \A d \in S : \A e \in registered : caller[e] = target[d] => e \in S
  PROVE  Cascade(M) \subseteq S
BY DEF Cascade

(* A job's descendants hold its call, and the calls made for any of them.  *)
LEMMA DescendantsClosed ==
  ASSUME NEW c \in Calls
  PROVE  /\ c \in Descendants(c)
         /\ \A d \in Descendants(c), e \in Calls : by[e] = d => e \in Descendants(c)
<1>1. c \in Descendants(c)
  BY DEF Descendants
<1>2. ASSUME NEW d \in Descendants(c), NEW e \in Calls, by[e] = d
      PROVE  e \in Descendants(c)
  <2> SUFFICES ASSUME NEW S \in SUBSET Calls, c \in S,
                      \A x \in Calls : by[x] \in S => x \in S
               PROVE  e \in S
    BY DEF Descendants
  <2>1. d \in S
    BY DEF Descendants
  <2> QED
    BY <1>2, <2>1
<1> QED
  BY <1>1, <1>2

(* Cancelling a call tears down what it spawned: a call its job made does  *)
(* not outlive it in the registry, although the cascade goes by agents     *)
(* (_questions.py 644-670). A job is served by the target of its call, so  *)
(* that whatever it asks for has that agent for a caller.                  *)
THEOREM CancelTakesTheSpawned == Spec => CancelTakesSpawned
<1>1. ASSUME JobsInv, [Next]_vars, NEW c \in registered, NEW d \in registered,
             by[d] = c, c \in swept' \ swept
      PROVE  d \in swept'
  <2>1. PICK M : BusCancel(M)
    BY <1>1, OnlyCancelSweeps
  <2>2. swept' = swept \cup Cascade(M)
    BY <2>1 DEF BusCancel
  <2>3. c \in Cascade(M)
    BY <1>1, <2>2
  <2>4. c \in Calls /\ d \in Calls
    BY <1>1 DEF JobsInv, TypeInv, TypeOK
  <2>5. caller[d] = target[c]
    BY <1>1, <2>4 DEF JobsInv, NestInv
  <2> QED
    BY <2>2, <2>3, <2>5, CascadeGoesOn
<1>2. JobsInv /\ [Next]_vars =>
        [\A c, d \in registered : by[d] = c /\ c \in swept' \ swept => d \in swept']_vars
  BY <1>1
<1> QED
  BY <1>2, JobsInvariant, PTL DEF Spec, CancelTakesSpawned

(* The agents that work for a call and for what it led to work for nothing *)
(* else: whatever they ask for, they ask for it.                           *)
Unshared(c) ==
  \A d \in registered \cap Descendants(c), e \in registered :
    caller[e] = target[d] => by[e] = d

(* How far finding 5 reaches: a cancel takes more than the cancelled call  *)
(* led to only where an agent at work for it also asks on behalf of others. *)
THEOREM CancelSparesUnshared ==
  Spec => [][\A c \in registered : Unshared(c) /\ BusCancel({c}) =>
               registered \ registered' \subseteq Descendants(c)]_vars
<1>1. ASSUME JobsInv, NEW c \in registered, Unshared(c), BusCancel({c})
      PROVE  registered \ registered' \subseteq Descendants(c)
  <2> DEFINE S == registered \cap Descendants(c)
  <2>1. registered \subseteq Calls
    BY <1>1 DEF JobsInv, TypeInv, TypeOK
  <2>2. c \in Calls /\ {c} \subseteq S
    BY <2>1, DescendantsClosed
  <2>3. \A d \in S : \A e \in registered : caller[e] = target[d] => e \in S
    BY <1>1, <2>1, <2>2, DescendantsClosed DEF Unshared
  <2>4. Cascade({c}) \subseteq S
    <3> HIDE DEF S
    <3>1. S \in SUBSET registered
      BY DEF S
    <3> QED
      BY <2>2, <2>3, <3>1, CascadeStaysIn
  <2> QED
    BY <1>1, <2>4 DEF BusCancel
<1>2. JobsInv =>
        [\A c \in registered : Unshared(c) /\ BusCancel({c}) =>
           registered \ registered' \subseteq Descendants(c)]_vars
  BY <1>1
<1> QED
  BY <1>2, JobsInvariant, PTL DEF Spec
================================================================================
