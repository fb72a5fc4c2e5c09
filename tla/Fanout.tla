--------------------------------- MODULE Fanout ---------------------------------
(***************************************************************************)
(* One fan-out of an agent: ask_agents (bus/_delegation.py), which puts a  *)
(* batch of children to the operator at once and runs them under two       *)
(* semaphores, for all results or for the first; and ask_consensus         *)
(* (bus/_consensus.py), which gives a panel one task and may have a judge   *)
(* reconcile the replies. What a child does inside ask_agent is the module  *)
(* Delegation; here a child has a row of its own while it does, and ends    *)
(* well or not.                                                             *)
(***************************************************************************)
EXTENDS Integers, FiniteSets

CONSTANTS
  Kids,                   \* the children, distinct agents
  Concurrency,            \* min(concurrency, N)
  SharedHost, HostCap,    \* children behind one endpoint, and its semaphore
  Trusted, SwarmMin,      \* children the caller is trusted for; swarm_min
  PolicyGated,            \* children that approve_before_delegate names
  Facts, Threshold        \* atoms a reply may state; auto-judge below this, in percent

ASSUME FanoutAssumption ==
  /\ IsFiniteSet(Kids) /\ SharedHost \cup Trusted \cup PolicyGated \subseteq Kids
  /\ {Concurrency, HostCap, SwarmMin} \subseteq Nat \ {0} /\ Threshold \in Nat

VARIABLES
  fmode,                  \* all, any, race; panel
  fpc,                    \* of the caller
  fkids,                  \* children to run
  ftripped,               \* pairs whose next dispatch would trip the governor
  fquestion, freply,      \* the batched question: none, open, answered, expired
  fparent,                \* the synthetic parent row is in the registry
  ftask,                  \* of each child: none, queued, slot, calling, ok, failed, cancelled
  frow,                   \* its row: none, open, swept (cancelled and dropped)
  fcancel,                \* its task is cancelled
  fwinner,                \* children whose result is returned
  fstarted,               \* history: children that went into ask_agent
  fswept,                 \* history: the operator cancelled the swarm
  flate,                  \* history: children that went into ask_agent after that
  ffacts,                 \* of each reply of a panel what it states
  fjudge, fjudging,       \* the argument judge; whether one ran: none, ran, skipped
  fwarned                 \* the result of a panel has a warning

fanoutVars == <<fmode, fpc, fkids, ftripped, fquestion, freply, fparent, ftask, frow, fcancel,
                fwinner, fstarted, fswept, flate, ffacts, fjudge, fjudging, fwarned>>

Reply(says, kept) == [says |-> says, kept |-> kept]

FanoutInit ==
  /\ fmode = "none" /\ fpc = "new" /\ fkids = {} /\ ftripped = {}
  /\ fquestion = "none" /\ freply = Reply("none", {}) /\ fparent = FALSE
  /\ ftask = [k \in Kids |-> "none"] /\ frow = [k \in Kids |-> "none"]
  /\ fcancel = [k \in Kids |-> FALSE] /\ fwinner = {}
  /\ fstarted = {} /\ fswept = FALSE /\ flate = {}
  /\ ffacts = [k \in Kids |-> {}] /\ fjudge = "off" /\ fjudging = "none" /\ fwarned = FALSE

In(stages) == {k \in Kids : ftask[k] \in stages}
Finished == In({"ok", "failed", "cancelled"})
Unfinished == fkids \ Finished

PanelSame == UNCHANGED <<ffacts, fjudge, fjudging, fwarned>>
TasksSame == UNCHANGED <<ftask, frow, fcancel, fwinner, fstarted, flate>>

-----------------------------------------------------------------------------
(* The call and its gate *)

\* Mutant: the policy on single delegations is not looked at for a batch.
NeedsGate_TrustOnly(tripped) == Cardinality(Trusted) >= SwarmMin \/ tripped # {}

NeedsGate(tripped) ==
  Cardinality(Trusted) >= SwarmMin \/ PolicyGated # {} \/ tripped # {}

AskAgents ==
  /\ fpc = "new"
  /\ fmode' \in {"all", "any", "race"} /\ ftripped' \in {{}, Kids}
  /\ fkids' = Kids /\ fparent' = TRUE
  /\ IF NeedsGate(ftripped') THEN fpc' = "gate" /\ fquestion' = "open"
                  ELSE fpc' = "dispatch" /\ UNCHANGED fquestion
  /\ UNCHANGED <<freply, fswept>> /\ TasksSame /\ PanelSame

\* The live ones of those asked for, or an agent and its running shadow.
Panels == {panel \in SUBSET Kids : Cardinality(panel) >= 2}

\* No question is put to the operator.
AskConsensus ==
  /\ fpc = "new"
  /\ fmode' = "panel" /\ fpc' = "dispatch"
  /\ fkids' \in Panels
  /\ fjudge' \in {"on", "auto", "off"}
  /\ UNCHANGED <<ftripped, fquestion, freply, fparent, fswept, ffacts, fjudging, fwarned>>
  /\ TasksSame

\* The reply keeps some of the children: all of them (yes, edit), none (no), or
\* those that "only:" names.
ReplyKinds == {Reply("all", Kids), Reply("no", {})} \cup {Reply("only", ks) : ks \in SUBSET Kids}

OperatorAnswers ==
  /\ fquestion = "open"
  /\ fquestion' = "answered"
  /\ freply' \in ReplyKinds
  /\ UNCHANGED <<fmode, fpc, fkids, ftripped, fparent, fswept>> /\ TasksSame /\ PanelSame

\* A return: the parent row is dropped.
Leaves(pc) == fpc' = pc /\ fparent' = FALSE

GateAnswered ==
  /\ fpc = "gate" /\ fquestion = "answered"
  /\ \/ freply.kept = {} /\ Leaves("refused") /\ UNCHANGED fkids
     \/ /\ freply.kept # {}
        /\ fkids' = freply.kept /\ fpc' = "dispatch" /\ UNCHANGED fparent
  /\ UNCHANGED <<fmode, ftripped, fquestion, freply, fswept>> /\ TasksSame /\ PanelSame

\* The wait times out, or the operator cancels the call at its gate.
GateFails ==
  /\ fpc = "gate"
  /\ fquestion' = IF fquestion = "open" THEN "expired" ELSE fquestion
  /\ Leaves("refused")
  /\ UNCHANGED <<fmode, fkids, ftripped, freply, fswept>> /\ TasksSame /\ PanelSame

StartChildren ==
  /\ fpc = "dispatch"
  /\ fpc' = "waiting"
  /\ ftask' = [k \in Kids |-> IF k \in fkids THEN "queued" ELSE "none"]
  /\ UNCHANGED <<fmode, fkids, ftripped, fquestion, freply, fparent, frow, fcancel, fwinner,
                 fstarted, fswept, flate>>
  /\ PanelSame

-----------------------------------------------------------------------------
(* A child *)

CallSame == UNCHANGED <<fmode, fpc, fkids, ftripped, fquestion, freply, fparent, fswept,
                        fcancel, fwinner>>

\* async with swarm_sem; the legs of a panel have none.
TakesSlot(k) ==
  /\ ftask[k] = "queued" /\ ~fcancel[k]
  /\ fmode = "panel" \/ Cardinality(In({"slot", "calling"})) < Concurrency
  /\ ftask' = [ftask EXCEPT ![k] = "slot"]
  /\ UNCHANGED <<frow, fstarted, flate>> /\ CallSame /\ PanelSame

\* async with endpoint_sem, and ask_agent, which registers its row.
EntersAskAgent(k) ==
  /\ ftask[k] = "slot" /\ ~fcancel[k]
  /\ (fmode # "panel" /\ k \in SharedHost) =>
       Cardinality(In({"calling"}) \cap SharedHost) < HostCap
  /\ ftask' = [ftask EXCEPT ![k] = "calling"]
  /\ frow' = [frow EXCEPT ![k] = "open"]
  /\ fstarted' = fstarted \cup {k}
  /\ flate' = IF fswept THEN flate \cup {k} ELSE flate
  /\ CallSame /\ PanelSame

\* ask_agent returns: well, or with an error, as it does when its row was swept.
ChildReturns(k) ==
  /\ ftask[k] = "calling"
  /\ \E out \in IF frow[k] = "swept" THEN {"failed"} ELSE {"ok", "failed"} :
       /\ ftask' = [ftask EXCEPT ![k] = out]
       /\ \E facts \in IF fmode = "panel" /\ out = "ok" THEN SUBSET Facts ELSE {{}} :
            ffacts' = [ffacts EXCEPT ![k] = facts]
  /\ frow' = [frow EXCEPT ![k] = "none"]
  /\ UNCHANGED <<fstarted, flate, fjudge, fjudging, fwarned>> /\ CallSame

\* The cancellation of its task arrives, wherever it waits; ask_agent stops its
\* job and drops its row on the way out.
ChildCancelled(k) ==
  /\ fcancel[k] /\ ftask[k] \in {"queued", "slot", "calling"}
  /\ ftask' = [ftask EXCEPT ![k] = "cancelled"]
  /\ frow' = [frow EXCEPT ![k] = "none"]
  /\ UNCHANGED <<fstarted, flate>> /\ CallSame /\ PanelSame

-----------------------------------------------------------------------------
(* The end *)

Swept(rows) == [k \in Kids |-> IF rows[k] = "open" THEN "swept" ELSE rows[k]]

\* Mutant: the rows of the siblings are cancelled, and the tasks that have none
\* yet are left alone.
CancelTasks_RowsOnly(ks) ==
  fcancel' = [k \in Kids |-> fcancel[k] \/ (k \in ks /\ frow[k] = "open")]

CancelTasks(ks) == fcancel' = [k \in Kids |-> fcancel[k] \/ k \in ks]

AllFinished ==
  /\ fpc = "waiting" /\ fmode = "all" /\ Unfinished = {}
  /\ Leaves("returned") /\ fwinner' = fkids
  /\ UNCHANGED <<fmode, fkids, ftripped, fquestion, freply, fswept, ftask, frow, fcancel,
                 fstarted, flate>>
  /\ PanelSame

\* The first to complete, whatever it completed with, is the result of any and of
\* race alike; what is pending is cancelled, first by its row, then as a task.
FirstFinished ==
  /\ fpc = "waiting" /\ fmode \in {"any", "race"}
  /\ \E k \in fkids \cap Finished : fwinner' = {k}
  /\ frow' = Swept(frow) /\ CancelTasks(Unfinished)
  /\ Leaves("returned")
  /\ UNCHANGED <<fmode, fkids, ftripped, fquestion, freply, fswept, ftask, fstarted, flate>>
  /\ PanelSame

\* bus cancel of the parent row sweeps the rows there are.
OperatorCancels ==
  /\ fparent /\ fpc \in {"waiting", "cancelling"}
  /\ fparent' = FALSE /\ fswept' = TRUE
  /\ frow' = Swept(frow)
  /\ UNCHANGED <<fmode, fpc, fkids, ftripped, fquestion, freply, ftask, fcancel, fwinner,
                 fstarted, flate>>
  /\ PanelSame

\* The caller's own task is cancelled. gather cancels the children and waits for
\* them; wait does neither; at the gate the question stays.
CallerIsCancelled ==
  /\ \/ fpc = "gate" /\ Leaves("cancelled") /\ UNCHANGED fcancel
     \/ /\ fpc = "waiting" /\ fmode \in {"all", "panel"}
        /\ CancelTasks(Unfinished)
        /\ fpc' = "cancelling" /\ UNCHANGED fparent
     \/ /\ fpc = "waiting" /\ fmode \in {"any", "race"}
        /\ Leaves("cancelled") /\ UNCHANGED fcancel
     \/ fpc = "judging" /\ Leaves("cancelled") /\ UNCHANGED fcancel
  /\ UNCHANGED <<fmode, fkids, ftripped, fquestion, freply, fswept, ftask, frow, fwinner,
                 fstarted, flate>>
  /\ PanelSame

GatherCancelled ==
  /\ fpc = "cancelling" /\ Unfinished = {}
  /\ Leaves("cancelled")
  /\ UNCHANGED <<fmode, fkids, ftripped, fquestion, freply, fswept>> /\ TasksSame /\ PanelSame

-----------------------------------------------------------------------------
(* A panel's result *)

Usable == {k \in fkids : ftask[k] = "ok"}
Corroborated == {a \in Facts : Cardinality({k \in Usable : a \in ffacts[k]}) >= 2}
Stated == UNION {ffacts[k] : k \in Usable}

\* By the atoms, or by their likeness when none was stated; the semantic score
\* can only add to it.
Diverges ==
  {Stated # {} /\ Cardinality(Corroborated) * 100 < Threshold * Cardinality(Stated), TRUE}

\* Mutant: a forced judge that is skipped leaves no trace.
Warned_Replies(skipped) == Cardinality(Usable) < Cardinality(fkids)

Warned(skipped) == Cardinality(Usable) < Cardinality(fkids) \/ (skipped /\ fjudge = "on")

\* The judge is asked for by name: it may be the caller, one whose reply is
\* judged, or not be running, and is skipped then; it may fail. A panelist whose
\* own leg failed is not excluded.
ReconcileReplies ==
  /\ fpc = "waiting" /\ fmode = "panel" /\ Unfinished = {}
  /\ \E diverges \in Diverges :
       LET wanted == Cardinality(Usable) >= 2 /\ (fjudge = "on" \/ (fjudge = "auto" /\ diverges))
       IN  \/ wanted /\ fpc' = "judging" /\ UNCHANGED <<fjudging, fwarned>>
           \/ /\ wanted
              /\ fjudging' = "skipped" /\ fwarned' = Warned(TRUE) /\ fpc' = "returned"
           \/ /\ ~wanted
              /\ fwarned' = Warned(FALSE) /\ fpc' = "returned" /\ UNCHANGED fjudging
  /\ fwinner' = IF fpc' = "returned" THEN Usable ELSE fwinner
  /\ UNCHANGED <<fmode, fkids, ftripped, fquestion, freply, fparent, ftask, frow, fcancel,
                 fstarted, fswept, flate, ffacts, fjudge>>

JudgeReplies ==
  /\ fpc = "judging"
  /\ fpc' = "returned" /\ fwinner' = Usable
  /\ \E ok \in BOOLEAN :
       fjudging' = (IF ok THEN "ran" ELSE "skipped") /\ fwarned' = Warned(~ok)
  /\ UNCHANGED <<fmode, fkids, ftripped, fquestion, freply, fparent, ftask, frow, fcancel,
                 fstarted, fswept, flate, ffacts, fjudge>>

FanoutNext ==
  \/ AskAgents \/ AskConsensus \/ OperatorAnswers \/ GateAnswered \/ GateFails \/ StartChildren
  \/ \E k \in Kids : TakesSlot(k) \/ EntersAskAgent(k) \/ ChildReturns(k) \/ ChildCancelled(k)
  \/ AllFinished \/ FirstFinished \/ OperatorCancels \/ CallerIsCancelled \/ GatherCancelled
  \/ ReconcileReplies \/ JudgeReplies

FanoutSpec == FanoutInit /\ [][FanoutNext]_fanoutVars

-----------------------------------------------------------------------------
(* What caller and operator rely on *)

(* "Each child runs through the same gates": what the policy or the governor *)
(* would ask about one by one runs only with a batched answer that covers it.*)
FanoutIsConsented ==
  fmode # "panel" =>
    \A k \in fstarted :
      (k \in PolicyGated \/ ftripped # {} \/ Cardinality(Trusted) >= SwarmMin) =>
         fquestion = "answered" /\ k \in freply.kept

(* The losing siblings are "cancelled rather than left orphaned burning     *)
(* tokens after the parent returns", with a slot or without one; and a call  *)
(* that returned all results has them all. The parent row is gone then, and  *)
(* no semaphore let in more than it has.                                      *)
NothingLeftBehind ==
  /\ fpc = "returned" => \A k \in fkids \ Finished : fcancel[k]
  /\ fpc = "returned" /\ fmode = "all" => fwinner = fkids /\ fkids \subseteq Finished
  /\ fpc \in {"returned", "refused", "cancelled"} => ~fparent
  /\ fmode \in {"all", "any", "race"} =>
       /\ Cardinality(In({"slot", "calling"})) <= Concurrency
       /\ Cardinality(In({"calling"}) \cap SharedHost) <= HostCap

(* A judge that was asked for and did not judge is told to the caller.       *)
ShortfallIsTold ==
  fpc = "returned" /\ fmode = "panel" /\ fjudge = "on" => fjudging = "ran" \/ fwarned

(* The three together.                                                       *)
FanoutHolds == FanoutIsConsented /\ NothingLeftBehind /\ ShortfallIsTold

(* '"cancel the swarm parent" propagate to all children with one operator    *)
(* action': no child begins after the operator has cancelled the swarm.      *)
CancelledSwarmStays == flate = {}
=============================================================================
