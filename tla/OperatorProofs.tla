---------------------------- MODULE OperatorProofs ----------------------------
(***************************************************************************)
(* Proofs about what the operator stands behind: the batched gate and the  *)
(* cancellation of a fan-out, and the inbox of questions with the tool     *)
(* calls and bus calls that wait on it.                                    *)
(***************************************************************************)
EXTENDS Fanout, Inbox, CountingLemmas

(* The fan-out                                                             *)

Stages == {"none", "queued", "slot", "calling", "ok", "failed", "cancelled"}

(* Children that were given a task or went into ask_agent.                 *)
Begun == {k \in Kids : ftask[k] # "none"} \cup fstarted

(* A batch that had to be put to the operator, and covers these children.  *)
Consented(tripped, kids) ==
  NeedsGate(tripped) => fquestion = "answered" /\ kids \subseteq freply.kept

FanoutInv ==
  /\ fkids \subseteq Kids /\ fstarted \subseteq Kids /\ freply.kept \subseteq Kids
  /\ ftask \in [Kids -> Stages] /\ fcancel \in [Kids -> BOOLEAN]
  /\ Begun \subseteq fkids
  /\ fpc \in {"new", "gate", "dispatch", "refused"} => Begun = {}
  /\ fpc = "new" => ~fparent
  /\ fpc = "gate" => fmode # "panel"
  /\ fmode # "panel" /\ (fpc = "dispatch" \/ Begun # {}) => Consented(ftripped, fkids)
  /\ fmode = "panel" => ~fparent /\ Cardinality(fkids) >= 2
  /\ fpc = "judging" => fmode = "panel" /\ Unfinished = {}
  /\ NothingLeftBehind /\ ShortfallIsTold

LEMMA FanoutFollows == FanoutInv => FanoutHolds
<1> SUFFICES ASSUME FanoutInv PROVE FanoutHolds
  OBVIOUS
<1>1. FanoutIsConsented
  <2> SUFFICES ASSUME fmode # "panel", NEW k \in fstarted,
                      k \in PolicyGated \/ ftripped # {} \/ Cardinality(Trusted) >= SwarmMin
               PROVE  fquestion = "answered" /\ k \in freply.kept
    BY DEF FanoutIsConsented
  <2>1. NeedsGate(ftripped)
    BY DEF NeedsGate
  <2>2. k \in Begun /\ k \in fkids
    BY DEF FanoutInv, Begun
  <2> QED
    BY <2>1, <2>2 DEF FanoutInv, Consented
<1> QED
  BY <1>1 DEF FanoutHolds, FanoutInv

LEMMA FanoutInitInv == FanoutInit => FanoutInv
<1> SUFFICES ASSUME FanoutInit PROVE FanoutInv
  OBVIOUS
<1> USE DEF FanoutInit, Reply
<1>1. Begun = {}
  BY DEF Begun
<1>2. NothingLeftBehind /\ ShortfallIsTold
  BY DEF NothingLeftBehind, ShortfallIsTold
<1>3. ftask \in [Kids -> Stages] /\ fcancel \in [Kids -> BOOLEAN]
  BY DEF Stages
<1> QED
  BY <1>1, <1>2, <1>3 DEF FanoutInv

(* The semaphores let in no more than they have, and count as long as the  *)
(* tasks do not change.                                                    *)
Within ==
  fmode \in {"all", "any", "race"} =>
    /\ Cardinality(In({"slot", "calling"})) <= Concurrency
    /\ Cardinality(In({"calling"}) \cap SharedHost) <= HostCap

LEMMA GateStep ==
  ASSUME FanoutInv, \/ AskAgents \/ AskConsensus \/ OperatorAnswers \/ GateAnswered \/ GateFails
                    \/ StartChildren
  PROVE  FanoutInv'
<1>1. UNCHANGED <<fcancel, fstarted, fwinner, fjudging, fwarned>>
  BY DEF AskAgents, AskConsensus, OperatorAnswers, GateAnswered, GateFails, StartChildren,
         TasksSame, PanelSame
<1>5. freply'.kept \subseteq Kids
  <2>1. CASE OperatorAnswers
    BY <2>1 DEF OperatorAnswers, ReplyKinds, Reply
  <2>2. CASE AskAgents \/ AskConsensus \/ GateAnswered \/ GateFails \/ StartChildren
    BY <2>2 DEF AskAgents, AskConsensus, GateAnswered, GateFails, StartChildren, FanoutInv
  <2> QED
    BY <2>1, <2>2
<1>2. CASE OperatorAnswers
  <2>1. UNCHANGED <<fmode, fpc, fkids, ftripped, fparent, ftask, fjudge>> /\ fquestion = "open"
    BY <1>2 DEF OperatorAnswers, TasksSame, PanelSame
  <2>2. Begun' = Begun /\ Unfinished' = Unfinished
    BY <1>1, <2>1 DEF Begun, Unfinished, Finished, In
  <2>3. NothingLeftBehind' /\ ShortfallIsTold'
    BY <1>1, <2>1 DEF FanoutInv, NothingLeftBehind, ShortfallIsTold, Finished, In
  <2>4. fmode # "panel" /\ (fpc = "dispatch" \/ Begun # {}) => ~NeedsGate(ftripped)
    BY <2>1 DEF FanoutInv, Consented
  <2>5. fmode' # "panel" /\ (fpc' = "dispatch" \/ Begun' # {}) => Consented(ftripped, fkids)'
    BY <2>1, <2>2, <2>4 DEF Consented
  <2> QED
    BY <1>5, <1>1, <2>1, <2>2, <2>3, <2>5 DEF FanoutInv
<1>3. CASE AskAgents \/ AskConsensus \/ GateAnswered \/ GateFails
  <2>1. ftask' = ftask /\ Begun = {} /\ fpc \in {"new", "gate"}
        /\ fpc' \in {"gate", "dispatch", "refused"}
    BY <1>3 DEF AskAgents, AskConsensus, GateAnswered, GateFails, TasksSame, FanoutInv, Leaves
  <2>2. Begun' = {}
    BY <1>1, <2>1 DEF Begun
  <2>3. fkids' \subseteq Kids
    BY <1>3 DEF AskAgents, AskConsensus, GateAnswered, GateFails, Panels, FanoutInv
  <2>4. fpc' = "gate" => fmode' # "panel"
    BY <1>3, <2>1 DEF AskAgents, AskConsensus, GateAnswered, GateFails, Leaves
  <2>5. fmode' # "panel" /\ fpc' = "dispatch" => Consented(ftripped, fkids)'
    BY <1>3 DEF AskAgents, AskConsensus, GateAnswered, GateFails, Leaves, Consented, NeedsGate
  <2>6. fmode' = "panel" => ~fparent' /\ Cardinality(fkids') >= 2
    <3>1. CASE AskConsensus
      BY <3>1 DEF AskConsensus, Panels, FanoutInv
    <3>2. CASE AskAgents \/ GateAnswered \/ GateFails
      BY <3>2 DEF AskAgents, GateAnswered, GateFails, FanoutInv
    <3> QED
      BY <1>3, <3>1, <3>2
  <2>7. fpc' = "refused" => ~fparent'
    BY <1>3 DEF AskAgents, AskConsensus, GateAnswered, GateFails, Leaves
  <2>8. Within'
    <3>1. \A k \in Kids : ftask'[k] \in {"none", "queued"}
      BY <2>1, <2>2 DEF Begun
    <3>2. In({"slot", "calling"})' = {} /\ (In({"calling"}) \cap SharedHost)' = {}
      BY <3>1 DEF In
    <3> QED
      BY <3>2, FS_EmptySet, FanoutAssumption DEF Within
  <2>9. NothingLeftBehind' /\ ShortfallIsTold'
    BY <2>1, <2>7, <2>8 DEF NothingLeftBehind, ShortfallIsTold, Within
  <2> QED
    BY <1>5, <1>1, <2>1, <2>2, <2>3, <2>4, <2>5, <2>6, <2>9 DEF FanoutInv
<1>4. CASE StartChildren
  <2>1. UNCHANGED <<fmode, fkids, ftripped, fquestion, freply, fparent, fjudge>>
        /\ fpc = "dispatch" /\ fpc' = "waiting" /\ Begun = {}
    BY <1>4 DEF StartChildren, PanelSame, FanoutInv
  <2>2. ftask' = [k \in Kids |-> IF k \in fkids THEN "queued" ELSE "none"]
    BY <1>4 DEF StartChildren
  <2>3. Begun' \subseteq fkids /\ ftask' \in [Kids -> Stages]
    BY <1>1, <2>1, <2>2 DEF Begun, Stages
  <2>4. Within'
    <3>1. In({"slot", "calling"})' = {} /\ (In({"calling"}) \cap SharedHost)' = {}
      BY <2>2 DEF In
    <3> QED
      BY <3>1, FS_EmptySet, FanoutAssumption DEF Within
  <2>5. NothingLeftBehind' /\ ShortfallIsTold'
    BY <2>1, <2>4 DEF NothingLeftBehind, ShortfallIsTold, Within
  <2>6. fmode' # "panel" => Consented(ftripped, fkids)'
    BY <2>1 DEF FanoutInv, Consented
  <2> QED
    BY <1>5, <1>1, <2>1, <2>3, <2>5, <2>6 DEF FanoutInv
<1> QED
  BY <1>2, <1>3, <1>4

(* One child moves from one place to the next.                             *)
LEMMA ChildStep ==
  ASSUME FanoutInv, NEW k \in Kids,
         TakesSlot(k) \/ EntersAskAgent(k) \/ ChildReturns(k) \/ ChildCancelled(k)
  PROVE  FanoutInv'
<1>1. UNCHANGED <<fmode, fpc, fkids, ftripped, fquestion, freply, fparent, fcancel, fwinner,
                  fjudge, fjudging, fwarned>>
  BY DEF TakesSlot, EntersAskAgent, ChildReturns, ChildCancelled, CallSame, PanelSame
<1>2. ftask[k] \in {"queued", "slot", "calling"} /\ ftask \in [Kids -> Stages]
  BY DEF TakesSlot, EntersAskAgent, ChildReturns, ChildCancelled, FanoutInv
<1>3. PICK stage \in Stages \ {"none", "queued"} :
        /\ ftask' = [ftask EXCEPT ![k] = stage]
        /\ stage = "slot" => TakesSlot(k)
        /\ stage = "calling" => EntersAskAgent(k)
  BY DEF TakesSlot, EntersAskAgent, ChildReturns, ChildCancelled, Stages
<1>4. k \in Begun /\ Begun \subseteq fkids
  BY <1>2 DEF Begun, FanoutInv
<1>5. fstarted' \subseteq fstarted \cup {k}
  BY DEF TakesSlot, EntersAskAgent, ChildReturns, ChildCancelled
<1>6. Begun' \subseteq Begun /\ fstarted' \subseteq Kids
  BY <1>2, <1>3, <1>4, <1>5 DEF Begun, FanoutInv
<1>7. Finished \subseteq Finished' /\ Unfinished' \subseteq Unfinished
  BY <1>1, <1>2, <1>3 DEF Finished, Unfinished, In
<1>8. Within'
  <2> SUFFICES ASSUME fmode \in {"all", "any", "race"}
               PROVE  /\ Cardinality(In({"slot", "calling"})') <= Concurrency
                      /\ Cardinality((In({"calling"}) \cap SharedHost)') <= HostCap
    BY <1>1 DEF Within
  <2> DEFINE held == In({"slot", "calling"})
             calls == In({"calling"}) \cap SharedHost
  <2>1. Cardinality(held) <= Concurrency /\ Cardinality(calls) <= HostCap
    BY DEF FanoutInv, NothingLeftBehind
  <2>2. /\ IsFiniteSet(held) /\ IsFiniteSet(calls)
        /\ Cardinality(held) \in Nat /\ Cardinality(calls) \in Nat
    <3>1. held \in SUBSET Kids /\ calls \in SUBSET Kids /\ IsFiniteSet(Kids)
      BY FanoutAssumption DEF In
    <3> HIDE DEF held, calls
    <3> QED
      BY <3>1, PartCounts
  <2>3. Concurrency \in Nat /\ HostCap \in Nat
    BY FanoutAssumption
  <2>4. CASE stage = "slot"
    <3>1. TakesSlot(k) /\ ftask[k] = "queued"
      BY <1>3, <2>4 DEF TakesSlot
    <3>2. Cardinality(held) < Concurrency
      BY <3>1 DEF TakesSlot
    <3>3. held' = held \cup {k} /\ k \notin held /\ calls' = calls
      BY <1>2, <1>3, <2>4, <3>1 DEF In
    <3> HIDE DEF held, calls
    <3>4. Cardinality(held') = Cardinality(held) + 1
      BY <2>2, <3>3, FS_AddElement
    <3> QED
      BY <2>1, <2>2, <2>3, <3>2, <3>3, <3>4 DEF held, calls
  <2>5. CASE stage = "calling"
    <3>1. EntersAskAgent(k) /\ ftask[k] = "slot"
      BY <1>3, <2>5 DEF EntersAskAgent
    <3>2. held' = held
      BY <1>2, <1>3, <2>5, <3>1 DEF In
    <3>3. k \in SharedHost => Cardinality(calls) < HostCap
      BY <3>1 DEF EntersAskAgent
    <3>4. calls' = (IF k \in SharedHost THEN calls \cup {k} ELSE calls) /\ k \notin calls
      BY <1>2, <1>3, <2>5, <3>1 DEF In
    <3> HIDE DEF held, calls
    <3>5. Cardinality(calls') <= HostCap
      <4>1. CASE k \in SharedHost
        <5>1. Cardinality(calls') = Cardinality(calls) + 1
          BY <2>2, <3>4, <4>1, FS_AddElement
        <5> QED
          BY <2>2, <2>3, <3>3, <4>1, <5>1
      <4> QED
        BY <2>1, <3>4, <4>1
    <3> QED
      BY <2>1, <3>2, <3>5 DEF held, calls
  <2>6. CASE stage \notin {"slot", "calling"}
    <3>1. held' \in SUBSET held /\ calls' \in SUBSET calls
      BY <1>2, <1>3, <2>6 DEF In
    <3> HIDE DEF held, calls
    <3>2. /\ Cardinality(held') <= Cardinality(held) /\ Cardinality(held') \in Nat
          /\ Cardinality(calls') <= Cardinality(calls) /\ Cardinality(calls') \in Nat
      BY <2>2, <3>1, PartCounts
    <3> QED
      BY <2>1, <2>2, <2>3, <3>2 DEF held, calls
  <2> QED
    BY <2>4, <2>5, <2>6
<1>9. NothingLeftBehind'
  BY <1>1, <1>7, <1>8 DEF FanoutInv, NothingLeftBehind, Within
<1>10. ShortfallIsTold'
  BY <1>1 DEF FanoutInv, ShortfallIsTold
<1>11. ftask' \in [Kids -> Stages]
  BY <1>2, <1>3
<1>12. /\ fmode # "panel" => Consented(ftripped, fkids)'
       /\ fpc \notin {"new", "gate", "dispatch", "refused"}
  BY <1>1, <1>4 DEF FanoutInv, Consented
<1>13. fpc = "judging" => Unfinished' = {}
  BY <1>7 DEF FanoutInv
<1> QED
  BY <1>1, <1>4, <1>6, <1>9, <1>10, <1>11, <1>12, <1>13 DEF FanoutInv

(* The ways a fan-out ends, and the operator's cancel.                     *)
LEMMA EndStep ==
  ASSUME FanoutInv, \/ AllFinished \/ FirstFinished \/ OperatorCancels \/ CallerIsCancelled
                    \/ GatherCancelled
  PROVE  FanoutInv'
<1>1. UNCHANGED <<fmode, fkids, ftripped, fquestion, freply, ftask, fstarted, fjudge,
                  fjudging, fwarned>>
  BY DEF AllFinished, FirstFinished, OperatorCancels, CallerIsCancelled, GatherCancelled,
         TasksSame, PanelSame
<1>2. Begun' = Begun /\ Finished' = Finished /\ Unfinished' = Unfinished
  BY <1>1 DEF Begun, Finished, Unfinished, In
<1>3. fcancel' \in [Kids -> BOOLEAN]
  BY DEF AllFinished, FirstFinished, OperatorCancels, CallerIsCancelled, GatherCancelled,
         TasksSame, CancelTasks, FanoutInv
<1>4. /\ fpc' \in {"new", "gate", "dispatch", "refused", "judging"} => fpc' = fpc
      /\ fparent' => fparent
  BY DEF AllFinished, FirstFinished, OperatorCancels, CallerIsCancelled, GatherCancelled,
         Leaves
<1>5. fpc' \in {"returned", "cancelled", "refused"} => ~fparent'
  BY <1>1 DEF AllFinished, FirstFinished, OperatorCancels, CallerIsCancelled, GatherCancelled,
         Leaves, FanoutInv, NothingLeftBehind
<1>6. fpc' = "returned" => \A k \in fkids \ Finished : fcancel'[k]
  BY DEF AllFinished, FirstFinished, OperatorCancels, CallerIsCancelled, GatherCancelled,
         Leaves, CancelTasks, Unfinished, FanoutInv, NothingLeftBehind
<1>7. fpc' = "returned" /\ fmode = "all" => fwinner' = fkids /\ fkids \subseteq Finished
  BY DEF AllFinished, FirstFinished, OperatorCancels, CallerIsCancelled, GatherCancelled,
         Leaves, Unfinished, FanoutInv, NothingLeftBehind
<1>8. Within'
  BY <1>1 DEF Within, FanoutInv, NothingLeftBehind, In
<1>9. NothingLeftBehind'
  BY <1>1, <1>2, <1>5, <1>6, <1>7, <1>8 DEF NothingLeftBehind, Within
<1>10. ShortfallIsTold'
  <2>1. fpc' = "returned" /\ fmode = "panel" => fpc = "returned"
    BY DEF AllFinished, FirstFinished, OperatorCancels, CallerIsCancelled, GatherCancelled,
           Leaves
  <2> QED
    BY <1>1, <2>1 DEF FanoutInv, ShortfallIsTold
<1>11. fmode' # "panel" /\ (fpc' = "dispatch" \/ Begun' # {}) => Consented(ftripped, fkids)'
  BY <1>1, <1>2, <1>4 DEF FanoutInv, Consented
<1> QED
  BY <1>1, <1>2, <1>3, <1>4, <1>9, <1>10, <1>11 DEF FanoutInv

LEMMA PanelStep ==
  ASSUME FanoutInv, ReconcileReplies \/ JudgeReplies
  PROVE  FanoutInv'
<1>1. UNCHANGED <<fmode, fkids, ftripped, fquestion, freply, fparent, ftask, fcancel,
                  fstarted, fjudge, ffacts>>
  BY DEF ReconcileReplies, JudgeReplies
<1>2. fmode = "panel" /\ ~fparent /\ Cardinality(fkids) >= 2 /\ Unfinished = {}
  BY DEF ReconcileReplies, JudgeReplies, FanoutInv
<1>3. Begun' = Begun /\ Finished' = Finished /\ Unfinished' = Unfinished /\ Usable' = Usable
  BY <1>1 DEF Begun, Finished, Unfinished, Usable, In
<1>4. fpc' \in {"judging", "returned"} /\ fpc \notin {"new", "gate", "dispatch", "refused"}
  BY DEF ReconcileReplies, JudgeReplies
<1>5. NothingLeftBehind'
  BY <1>1, <1>2, <1>3, <1>4 DEF NothingLeftBehind, Unfinished
<1>6. ~ (Cardinality(Usable) >= 2) => Cardinality(Usable) < Cardinality(fkids)
  <2>1. Usable \in SUBSET Kids /\ fkids \in SUBSET Kids /\ IsFiniteSet(Kids)
    BY FanoutAssumption DEF Usable, FanoutInv
  <2>2. Cardinality(Usable) \in Nat /\ Cardinality(fkids) \in Nat
    BY <2>1, PartCounts
  <2> QED
    BY <1>2, <2>2
<1>7. ShortfallIsTold'
  <2> SUFFICES ASSUME fpc' = "returned", fjudge = "on" PROVE fjudging' = "ran" \/ fwarned'
    BY <1>1 DEF ShortfallIsTold
  <2>1. CASE ReconcileReplies
    <3>1. PICK diverges \in Diverges :
            LET wanted == /\ Cardinality(Usable) >= 2
                          /\ (fjudge = "on" \/ (fjudge = "auto" /\ diverges))
            IN  \/ wanted /\ fwarned' = Warned(TRUE)
                \/ ~wanted /\ fwarned' = Warned(FALSE)
      BY <2>1 DEF ReconcileReplies
    <3> QED
      BY <1>6, <3>1 DEF Warned
  <2>2. CASE JudgeReplies
    BY <1>1, <2>2 DEF JudgeReplies, Warned
  <2> QED
    BY <2>1, <2>2
<1> QED
  BY <1>1, <1>2, <1>3, <1>4, <1>5, <1>7 DEF FanoutInv

LEMMA FanoutStep == FanoutInv /\ [FanoutNext]_fanoutVars => FanoutInv'
<1> SUFFICES ASSUME FanoutInv, [FanoutNext]_fanoutVars PROVE FanoutInv'
  OBVIOUS
<1>1. CASE UNCHANGED fanoutVars
  <2>1. UNCHANGED <<fmode, fpc, fkids, ftripped, fquestion, freply, fparent, ftask, fcancel,
                    fwinner, fstarted, fjudge, fjudging, fwarned>>
    BY <1>1 DEF fanoutVars
  <2>2. Begun' = Begun /\ Finished' = Finished /\ Unfinished' = Unfinished
    BY <2>1 DEF Begun, Finished, Unfinished, In
  <2>3. NothingLeftBehind' /\ ShortfallIsTold'
    BY <2>1, <2>2 DEF FanoutInv, NothingLeftBehind, ShortfallIsTold, In
  <2> QED
    BY <2>1, <2>2, <2>3 DEF FanoutInv, Consented
<1> QED
  BY <1>1, GateStep, ChildStep, EndStep, PanelStep DEF FanoutNext

(* For every set of children, policy and semaphore: what needed the        *)
(* operator's word ran only with it, a fan-out that returned has left      *)
(* nobody running uncancelled, and a judge's absence is told.              *)
THEOREM FanoutKeepsFaith == FanoutSpec => []FanoutHolds
<1>1. FanoutSpec => []FanoutInv
  BY FanoutInitInv, FanoutStep, PTL DEF FanoutSpec
<1> QED
  BY <1>1, FanoutFollows, PTL

-----------------------------------------------------------------------------
(* The inbox                                                               *)

Kinds == {"operator", "advisory", "delegation", "bus_stall"}
Rows == [serial : Nat, agent : Agents \cup {CHOOSE a \in Agents : TRUE}, kind : Kinds,
         open : BOOLEAN]
Calls == [up : BOOLEAN, flagged : BOOLEAN, stall_qid : Nat, snoozed : BOOLEAN]

(* Numbers in use are behind the counter, in memory and in the table.      *)
Ledger ==
  /\ qnext \in Nat /\ qfiled \in Nat /\ qfailures \in Nat
  /\ qkind \in [Ids -> Kinds] /\ qrows \in [Ids -> Rows]
  /\ \A i \in qlist : i \in Ids /\ i < qnext
  /\ \A i \in Ids : /\ qrows[i].serial # 0 => i < qnext
                    /\ qrows[i].open => qrows[i].serial # 0 /\ qrows[i].kind \in PersistedKinds
  /\ RestartKeepsOpen

(* Question i is one that was filed, and is of this kind.                  *)
IsA(i, kind, next, kinds) == i \in Ids /\ i < next /\ kinds[i] = kind

(* Whatever waits, or is being answered, names a question of its own kind. *)
Waits ==
  /\ DOMAIN qgate = Ids /\ qcall \in [Agents -> Calls] /\ DOMAIN qanswering = Consoles
  /\ qrestarts \in Nat
  /\ \A i \in Ids : qgate[i] = "waiting" =>
       Open(i) /\ i \in qpending /\ IsA(i, "delegation", qnext, qkind)
  /\ \A a \in Agents :
       /\ qcall[a].stall_qid # 0 => IsA(qcall[a].stall_qid, "bus_stall", qnext, qkind)
       /\ ~qcall[a].flagged => qcall[a].stall_qid = 0
  /\ \A c \in Consoles : qanswering[c] # 0 => IsA(qanswering[c], "operator", qnext, qkind)
  /\ StallHasItsCall

InboxInv == Ledger /\ Waits

LEMMA InboxFollows == InboxInv => InboxHolds
BY DEF InboxInv, Ledger, Waits, InboxHolds, WaitsAreAnswerable, GateStaysAnswerable

LEMMA InboxInitInv == InboxInit => InboxInv
<1> SUFFICES ASSUME InboxInit PROVE InboxInv
  OBVIOUS
<1> USE DEF InboxInit
<1>1. NoRow \in Rows /\ NoRow.serial = 0 /\ ~NoRow.open
  BY DEF NoRow, Rows, Kinds
<1>2. qrows \in [Ids -> Rows] /\ \A i \in Ids : qrows[i].serial = 0 /\ ~qrows[i].open
  BY <1>1
<1>3. qkind \in [Ids -> Kinds]
  BY DEF Kinds
<1>4. \A i \in Ids : ~Open(i)
  BY DEF Open
<1>5. RestartKeepsOpen /\ StallHasItsCall
  BY <1>2, <1>4 DEF RestartKeepsOpen, StallHasItsCall
<1>6. Ledger
  BY <1>2, <1>3, <1>5 DEF Ledger
<1>7. NoCall \in Calls /\ NoCall.stall_qid = 0
  BY DEF NoCall, Calls
<1>8. Waits
  BY <1>5, <1>7 DEF Waits
<1> QED
  BY <1>6, <1>8 DEF InboxInv

(* A row that was given a number keeps it.                                 *)
KeepsSerials == \A i \in Ids : qrows[i].serial # 0 => qrows'[i].serial = qrows[i].serial

(* What filing a question does: one more is open, the others are as before.*)
Filed(kind) ==
  /\ Ledger' /\ KeepsSerials
  /\ qnext \in Ids /\ IsA(qnext, kind, qnext', qkind') /\ ~Open(qnext)
  /\ \A i \in Ids : Open(i)' <=> (Open(i) \/ i = qnext)
  /\ \A i \in Ids, k \in Kinds : IsA(i, k, qnext, qkind) => IsA(i, k, qnext', qkind')
  /\ \A i \in Ids : i # qnext => qkind'[i] = qkind[i]

LEMMA AddFiles ==
  ASSUME Ledger, NEW a \in Agents, NEW kind \in Kinds, Add(a, kind)
  PROVE  Filed(kind)
<1>1. /\ qnext \in Ids /\ qnext \in Nat /\ qfiled \in Nat /\ qfailures \in Nat
      /\ qnext' = qnext + 1 /\ qfiled' = qfiled + 1
      /\ qlist' = qlist \cup {qnext} /\ qanswered' = qanswered \ {qnext}
      /\ qkind' = [qkind EXCEPT ![qnext] = kind]
  BY DEF Add, Ledger
<1> DEFINE row == [serial |-> qfiled', agent |-> a, kind |-> kind, open |-> TRUE]
           rows == [qrows EXCEPT ![qnext] = row]
<1>2. \/ kind \in PersistedKinds /\ qrows' = rows /\ UNCHANGED qfailures
      \/ UNCHANGED qrows /\ qfailures' = qfailures + 1
      \/ kind \notin PersistedKinds /\ UNCHANGED <<qrows, qfailures>>
  BY DEF Add, Written
<1>3. /\ qrows \in [Ids -> Rows] /\ qkind \in [Ids -> Kinds]
      /\ qrows[qnext].serial = 0 /\ ~qrows[qnext].open
      /\ \A i \in Ids : /\ qrows[i].serial # 0 => i < qnext
                        /\ qrows[i].open => qrows[i].serial # 0 /\ qrows[i].kind \in PersistedKinds
  BY <1>1 DEF Ledger
<1>4. row \in Rows /\ row.serial # 0 /\ row.open /\ row.kind = kind
  BY <1>1 DEF Rows
<1> HIDE DEF row
<1>5. /\ rows \in [Ids -> Rows] /\ rows[qnext] = row
      /\ \A i \in Ids : i # qnext => rows[i] = qrows[i]
  BY <1>1, <1>3, <1>4
<1> HIDE DEF rows
<1>6. qrows' \in [Ids -> Rows] /\ KeepsSerials
  BY <1>2, <1>3, <1>5 DEF KeepsSerials
<1>7. \A i \in Ids : i < qnext \/ i = qnext => i < qnext'
  BY <1>1 DEF Ids
<1>8. \A i \in Ids :
        /\ qrows'[i].serial # 0 => i < qnext'
        /\ qrows'[i].open => qrows'[i].serial # 0 /\ qrows'[i].kind \in PersistedKinds
  BY <1>2, <1>3, <1>4, <1>5, <1>7
<1>9. \A i \in Ids : Open(i)' <=> (Open(i) \/ i = qnext)
  BY <1>1 DEF Open
<1>10. ~Open(qnext)
  BY <1>1 DEF Ledger, Open
<1>11. qkind' \in [Ids -> Kinds] /\ qkind'[qnext] = kind
       /\ \A i \in Ids : i # qnext => qkind'[i] = qkind[i]
  BY <1>1, <1>3
<1>12. RestartKeepsOpen'
  <2> SUFFICES ASSUME qfailures' = 0, NEW i \in Ids
               PROVE  qrows'[i].open <=> (Open(i)' /\ qkind'[i] \in PersistedKinds)
    BY DEF RestartKeepsOpen
  <2>1. qfailures = 0 /\ UNCHANGED qfailures
    BY <1>1, <1>2
  <2>2. qrows[i].open <=> (Open(i) /\ qkind[i] \in PersistedKinds)
    BY <2>1 DEF Ledger, RestartKeepsOpen
  <2>3. CASE i = qnext
    BY <1>1, <1>2, <1>3, <1>4, <1>5, <1>9, <1>11, <2>1, <2>3
  <2>4. CASE i # qnext
    BY <1>2, <1>5, <1>9, <1>11, <2>2, <2>4
  <2> QED
    BY <2>3, <2>4
<1>13. \A i \in qlist' : i \in Ids /\ i < qnext'
  BY <1>1, <1>7 DEF Ledger
<1>14. qnext' \in Nat /\ qfiled' \in Nat /\ qfailures' \in Nat
  BY <1>1, <1>2
<1>15. Ledger'
  BY <1>6, <1>8, <1>11, <1>12, <1>13, <1>14 DEF Ledger
<1>16. /\ IsA(qnext, kind, qnext', qkind')
       /\ \A i \in Ids, k \in Kinds : IsA(i, k, qnext, qkind) => IsA(i, k, qnext', qkind')
  <2>1. qnext \in Ids /\ qnext < qnext'
    BY <1>1, <1>7
  <2>2. \A i \in Ids : i < qnext => i < qnext' /\ i # qnext
    BY <1>1, <1>7
  <2> QED
    BY <1>11, <2>1, <2>2 DEF IsA
<1> QED
  BY <1>1, <1>6, <1>9, <1>10, <1>11, <1>15, <1>16 DEF Filed

(* What marking does: the marked ones are no longer open.                  *)
Marked(s) ==
  /\ Ledger' /\ KeepsSerials
  /\ \A i \in Ids : Open(i)' <=> (Open(i) /\ i \notin s)

LEMMA MarkMarks ==
  ASSUME Ledger, NEW s \in SUBSET Ids, Mark(s), Static
  PROVE  Marked(s)
<1> DEFINE open == (s \cap qlist) \ qanswered
           answered == qanswered \cup open
           dropped == Pruned(answered)
           kept == {i \in open : qkind[i] \in PersistedKinds}
           rows == [i \in Ids |-> IF i \in kept THEN [qrows[i] EXCEPT !.open = FALSE]
                                  ELSE qrows[i]]
<1>1. /\ qanswered' = answered \ dropped /\ qlist' = qlist \ dropped
      /\ \/ kept = {} /\ UNCHANGED <<qrows, qfailures>>
         \/ qrows' = rows /\ UNCHANGED qfailures
         \/ UNCHANGED qrows /\ qfailures' = qfailures + 1
  BY DEF Mark, Written
<1>2. UNCHANGED <<qkind, qnext, qfiled>>
  BY DEF Static
<1>3. dropped \subseteq answered
  BY DEF Pruned
<1>4. \A i \in Ids : Open(i)' <=> (Open(i) /\ i \notin s)
  BY <1>1, <1>3 DEF Open
<1>5. qrows \in [Ids -> Rows] /\ qfailures \in Nat
  BY DEF Ledger
<1>6. \A i \in kept : Open(i) /\ i \in s /\ qkind[i] \in PersistedKinds
  BY DEF Open
<1>7. \A i \in s : Open(i) /\ qkind[i] \in PersistedKinds => i \in kept
  BY DEF Open
<1> HIDE DEF kept
<1>8. \A i \in Ids : /\ rows[i] \in Rows
                     /\ rows[i].serial = qrows[i].serial /\ rows[i].kind = qrows[i].kind
                     /\ rows[i].open = (qrows[i].open /\ i \notin kept)
  BY <1>5 DEF Rows
<1>9. rows \in [Ids -> Rows]
  BY <1>8
<1> HIDE DEF rows
<1>10. qrows' \in [Ids -> Rows] /\ KeepsSerials
  BY <1>1, <1>5, <1>8, <1>9 DEF KeepsSerials
<1>11. \A i \in Ids :
         /\ qrows'[i].serial # 0 => i < qnext'
         /\ qrows'[i].open => qrows'[i].serial # 0 /\ qrows'[i].kind \in PersistedKinds
  <2>1. ASSUME NEW i \in Ids
        PROVE  /\ qrows'[i].serial = qrows[i].serial /\ qrows'[i].kind = qrows[i].kind
               /\ qrows'[i].open => qrows[i].open
    BY <1>1, <1>8
  <2>2. ASSUME NEW i \in Ids
        PROVE  /\ qrows[i].serial # 0 => i < qnext
               /\ qrows[i].open => qrows[i].serial # 0 /\ qrows[i].kind \in PersistedKinds
    BY DEF Ledger
  <2> QED
    BY <1>2, <2>1, <2>2
<1>12. RestartKeepsOpen'
  <2> SUFFICES ASSUME qfailures' = 0, NEW i \in Ids
               PROVE  qrows'[i].open <=> (Open(i)' /\ qkind'[i] \in PersistedKinds)
    BY DEF RestartKeepsOpen
  <2>1. /\ qfailures = 0
        /\ \/ kept = {} /\ UNCHANGED qrows
           \/ qrows' = rows
    BY <1>1, <1>5
  <2>2. qrows[i].open <=> (Open(i) /\ qkind[i] \in PersistedKinds)
    BY <2>1 DEF Ledger, RestartKeepsOpen
  <2>3. Open(i)' <=> (Open(i) /\ i \notin s)
    BY <1>4
  <2>4. qrows'[i].open <=> (qrows[i].open /\ i \notin kept)
    BY <1>8, <2>1
  <2> QED
    BY <1>2, <1>6, <1>7, <2>2, <2>3, <2>4
<1>13. qnext' \in Nat /\ qfiled' \in Nat /\ qfailures' \in Nat /\ qkind' \in [Ids -> Kinds]
       /\ \A i \in qlist' : i \in Ids /\ i < qnext'
  BY <1>1, <1>2 DEF Ledger
<1> QED
  BY <1>4, <1>10, <1>11, <1>12, <1>13 DEF Marked, Ledger

(* A step that files nothing, and marks what nothing waits for.            *)
LEMMA WaitsOn ==
  ASSUME Waits, NEW s \in SUBSET Ids,
         \A i \in Ids : Open(i)' <=> (Open(i) /\ i \notin s),
         UNCHANGED <<qkind, qnext, qrestarts>>,
         DOMAIN qgate' = Ids, qcall' \in [Agents -> Calls], DOMAIN qanswering' = Consoles,
         \A i \in Ids : qgate'[i] = "waiting" =>
           qgate[i] = "waiting" /\ i \notin s /\ (i \in qpending => i \in qpending'),
         \A a \in Agents : \/ qcall'[a].stall_qid = 0
                           \/ /\ qcall'[a].stall_qid = qcall[a].stall_qid
                              /\ qcall'[a].flagged = qcall[a].flagged,
         \A a \in Agents, i \in Ids \ s : qcall[a].up /\ qcall[a].stall_qid = i =>
           qcall'[a].up /\ qcall'[a].stall_qid = i,
         \A c \in Consoles : \/ qanswering'[c] \in {0, qanswering[c]}
                             \/ IsA(qanswering'[c], "operator", qnext, qkind)
  PROVE  Waits'
<1>1. UNCHANGED <<qnext, qkind>>
  OBVIOUS
<1>2. \A i \in Ids : qgate'[i] = "waiting" =>
        Open(i)' /\ i \in qpending' /\ IsA(i, "delegation", qnext', qkind')
  BY <1>1 DEF Waits
<1>3. \A a \in Agents :
        /\ qcall'[a].stall_qid # 0 => IsA(qcall'[a].stall_qid, "bus_stall", qnext', qkind')
        /\ ~qcall'[a].flagged => qcall'[a].stall_qid = 0
  BY <1>1 DEF Waits
<1>4. \A c \in Consoles : qanswering'[c] # 0 => IsA(qanswering'[c], "operator", qnext', qkind')
  BY <1>1 DEF Waits
<1>5. StallHasItsCall'
  <2> SUFFICES ASSUME NEW i \in Ids, Open(i)', qkind'[i] = "bus_stall", qrestarts' = 0
               PROVE  \E a \in Agents : qcall'[a].up /\ qcall'[a].stall_qid = i
    BY DEF StallHasItsCall
  <2>1. PICK a \in Agents : qcall[a].up /\ qcall[a].stall_qid = i
    BY DEF Waits, StallHasItsCall
  <2> QED
    BY <2>1
<1>6. qrestarts' \in Nat
  BY DEF Waits
<1> QED
  BY <1>2, <1>3, <1>4, <1>5, <1>6 DEF Waits

LEMMA FilingKeeps ==
  ASSUME InboxInv, NEW a \in Agents, FileQuestion(a) \/ FileGate(a) \/ FlagStalled(a)
  PROVE  InboxInv' /\ KeepsSerials
<1>1. PICK kind \in Kinds :
        /\ Add(a, kind)
        /\ \/ kind = "delegation" /\ FileGate(a)
           \/ kind = "bus_stall" /\ FlagStalled(a)
           \/ kind \in {"operator", "advisory"} /\ FileQuestion(a)
  BY DEF FileQuestion, FileGate, FlagStalled, Kinds
<1>2. Filed(kind)
  BY <1>1, AddFiles DEF InboxInv
<1>3. /\ Ledger' /\ KeepsSerials
      /\ qnext \in Ids /\ IsA(qnext, kind, qnext', qkind') /\ ~Open(qnext)
      /\ \A i \in Ids : Open(i)' <=> (Open(i) \/ i = qnext)
      /\ \A i \in Ids, k \in Kinds : IsA(i, k, qnext, qkind) => IsA(i, k, qnext', qkind')
      /\ \A i \in Ids : i # qnext => qkind'[i] = qkind[i]
  BY <1>2 DEF Filed
<1>4. UNCHANGED <<qanswering, qrestarts>>
  BY <1>1 DEF FileQuestion, FileGate, FlagStalled, Rest
<1>5. /\ kind = "delegation" => /\ qgate' = [qgate EXCEPT ![qnext] = "waiting"]
                                /\ qpending' = qpending \cup {qnext}
      /\ kind # "delegation" => UNCHANGED <<qgate, qpending>>
  BY <1>1 DEF FileQuestion, FileGate, FlagStalled
<1>6. /\ kind = "bus_stall" =>
           /\ qcall' = [qcall EXCEPT ![a].flagged = TRUE, ![a].stall_qid = qnext]
           /\ qcall[a].up /\ ~qcall[a].flagged
      /\ kind # "bus_stall" => UNCHANGED qcall
  BY <1>1 DEF FileQuestion, FileGate, FlagStalled
<1>7. Waits /\ {"operator", "delegation", "bus_stall"} \subseteq Kinds
  BY DEF InboxInv, Kinds
<1>8. /\ DOMAIN qgate' = Ids
      /\ \A i \in Ids : qgate'[i] = "waiting" =>
           Open(i)' /\ i \in qpending' /\ IsA(i, "delegation", qnext', qkind')
  <2>1. CASE kind = "delegation"
    BY <1>3, <1>5, <1>7, <2>1 DEF Waits
  <2>2. CASE kind # "delegation"
    BY <1>3, <1>5, <1>7, <2>2 DEF Waits
  <2> QED
    BY <2>1, <2>2
<1>9. /\ qcall' \in [Agents -> Calls]
      /\ \A b \in Agents :
           /\ qcall'[b].stall_qid # 0 => IsA(qcall'[b].stall_qid, "bus_stall", qnext', qkind')
           /\ ~qcall'[b].flagged => qcall'[b].stall_qid = 0
      /\ \A b \in Agents : qcall[b].up /\ qcall[b].stall_qid # 0 =>
           qcall'[b].up /\ qcall'[b].stall_qid = qcall[b].stall_qid
      /\ kind = "bus_stall" => qcall'[a].up /\ qcall'[a].stall_qid = qnext
  <2>1. CASE kind = "bus_stall"
    <3>1. \A b \in Agents : b # a => qcall'[b] = qcall[b]
      BY <1>6, <1>7, <2>1 DEF Waits
    <3>2. /\ qcall'[a] \in Calls /\ qcall'[a].up /\ qcall'[a].flagged
          /\ qcall'[a].stall_qid = qnext
      BY <1>3, <1>6, <1>7, <2>1 DEF Waits, Calls, Ids
    <3>3. qcall' \in [Agents -> Calls]
      BY <1>6, <1>7, <2>1, <3>1, <3>2 DEF Waits
    <3>4. qcall[a].stall_qid = 0
      BY <1>6, <1>7, <2>1 DEF Waits
    <3>5. \A i : IsA(i, "bus_stall", qnext, qkind) => IsA(i, "bus_stall", qnext', qkind')
      BY <1>3, <1>7 DEF IsA
    <3>6. IsA(qnext, "bus_stall", qnext', qkind')
      BY <1>3, <2>1
    <3>7. \A b \in Agents :
            /\ qcall'[b].stall_qid # 0 => IsA(qcall'[b].stall_qid, "bus_stall", qnext', qkind')
            /\ ~qcall'[b].flagged => qcall'[b].stall_qid = 0
      BY <1>7, <3>1, <3>2, <3>5, <3>6 DEF Waits
    <3> QED
      BY <3>1, <3>2, <3>3, <3>4, <3>7
  <2>2. CASE kind # "bus_stall"
    <3>1. /\ qcall' = qcall
          /\ \A i : IsA(i, "bus_stall", qnext, qkind) => IsA(i, "bus_stall", qnext', qkind')
      BY <1>3, <1>6, <1>7, <2>2 DEF IsA
    <3> QED
      BY <1>7, <2>2, <3>1 DEF Waits
  <2> QED
    BY <2>1, <2>2
<1>10. \A c \in Consoles : qanswering'[c] # 0 => IsA(qanswering'[c], "operator", qnext', qkind')
  <2>1. \A i : IsA(i, "operator", qnext, qkind) => IsA(i, "operator", qnext', qkind')
    BY <1>3, <1>7 DEF IsA
  <2> QED
    BY <1>4, <1>7, <2>1 DEF Waits
<1>11. StallHasItsCall'
  <2> SUFFICES ASSUME NEW i \in Ids, Open(i)', qkind'[i] = "bus_stall", qrestarts' = 0
               PROVE  \E b \in Agents : qcall'[b].up /\ qcall'[b].stall_qid = i
    BY DEF StallHasItsCall
  <2>1. CASE i = qnext
    <3>1. kind = "bus_stall"
      BY <1>3, <2>1 DEF IsA
    <3> QED
      BY <1>9, <2>1, <3>1
  <2>2. CASE i # qnext
    <3>1. Open(i) /\ qkind[i] = "bus_stall" /\ qrestarts = 0 /\ i # 0
      BY <1>3, <1>4, <2>2 DEF Ids
    <3>2. PICK b \in Agents : qcall[b].up /\ qcall[b].stall_qid = i
      BY <1>7, <3>1 DEF Waits, StallHasItsCall
    <3> QED
      BY <1>9, <3>1, <3>2
  <2> QED
    BY <2>1, <2>2
<1>12. DOMAIN qanswering' = Consoles /\ qrestarts' \in Nat
  BY <1>4, <1>7 DEF Waits
<1> QED
  BY <1>3, <1>8, <1>9, <1>10, <1>11, <1>12 DEF InboxInv, Waits

(* What leaves the questions as they are.                                  *)
LEMMA NothingMarked ==
  ASSUME Ledger, UNCHANGED <<qlist, qanswered, qrows, qfailures, qkind, qnext, qfiled>>
  PROVE  Marked({})
<1>1. \A i \in Ids : Open(i)' <=> Open(i)
  BY DEF Open
<1>2. RestartKeepsOpen' /\ KeepsSerials
  BY DEF Ledger, RestartKeepsOpen, Open, KeepsSerials
<1> QED
  BY <1>1, <1>2 DEF Ledger, Marked

LEMMA CallKeeps ==
  ASSUME InboxInv, NEW a \in Agents, CallBegins(a) \/ SnoozeOver(a) \/ CallEnds(a)
  PROVE  InboxInv' /\ KeepsSerials
<1>1. Ledger /\ Waits /\ qcall \in [Agents -> Calls] /\ a \in Agents
  BY DEF InboxInv, Waits
<1>2. UNCHANGED <<qgate, qpending, qkind, qnext, qfiled, qanswering, qrestarts>>
  BY DEF CallBegins, SnoozeOver, CallEnds, Static, Rest
<1> DEFINE s == IF CallEnds(a) THEN StallQuestions(a) ELSE {}
<1>3. s \in SUBSET Ids /\ \A i \in s : i = qcall[a].stall_qid /\ IsA(i, "bus_stall", qnext, qkind)
  BY <1>1 DEF StallQuestions, Waits, IsA
<1>4. Marked(s)
  <2>1. CASE CallEnds(a)
    <3>1. Mark(StallQuestions(a)) /\ Static /\ StallQuestions(a) \in SUBSET Ids
      BY <1>3, <2>1 DEF CallEnds
    <3> QED
      BY <1>1, <2>1, <3>1, MarkMarks
  <2>2. CASE ~CallEnds(a)
    BY <1>1, <2>2, NothingMarked DEF CallBegins, SnoozeOver, Static
  <2> QED
    BY <2>1, <2>2
<1>5. Ledger' /\ KeepsSerials /\ \A i \in Ids : Open(i)' <=> (Open(i) /\ i \notin s)
  BY <1>4 DEF Marked
<1>6. NoCall \in Calls /\ NoCall.stall_qid = 0
      /\ [NoCall EXCEPT !.up = TRUE] \in Calls /\ [NoCall EXCEPT !.up = TRUE].stall_qid = 0
  BY DEF NoCall, Calls
<1>7. /\ qcall' \in [Agents -> Calls]
      /\ \A b \in Agents : b # a => qcall'[b] = qcall[b]
      /\ \/ qcall'[a].stall_qid = 0 /\ (qcall[a].up => CallEnds(a))
         \/ /\ qcall'[a].stall_qid = qcall[a].stall_qid
            /\ qcall'[a].flagged = qcall[a].flagged /\ qcall'[a].up = qcall[a].up
  <2>1. CASE CallBegins(a)
    BY <1>1, <1>6, <2>1 DEF CallBegins
  <2>2. CASE CallEnds(a)
    BY <1>1, <1>6, <2>2 DEF CallEnds
  <2>3. CASE SnoozeOver(a)
    BY <1>1, <2>3 DEF SnoozeOver, Calls
  <2> QED
    BY <2>1, <2>2, <2>3
<1>8. \A i \in Ids : qgate[i] = "waiting" => i \notin s
  BY <1>1, <1>3 DEF Waits, IsA
<1>9. \A b \in Agents, i \in Ids \ s : qcall[b].up /\ qcall[b].stall_qid = i =>
        qcall'[b].up /\ qcall'[b].stall_qid = i
  <2> SUFFICES ASSUME NEW i \in Ids \ s, qcall[a].up, qcall[a].stall_qid = i
               PROVE  qcall'[a].up /\ qcall'[a].stall_qid = i
    BY <1>7
  <2>1. i # 0
    BY DEF Ids
  <2>2. ~CallEnds(a)
    BY <2>1 DEF StallQuestions
  <2> QED
    BY <1>7, <2>2
<1> HIDE DEF s
<1>10. /\ DOMAIN qgate' = Ids /\ DOMAIN qanswering' = Consoles
       /\ \A b \in Agents : \/ qcall'[b].stall_qid = 0
                            \/ /\ qcall'[b].stall_qid = qcall[b].stall_qid
                               /\ qcall'[b].flagged = qcall[b].flagged
  BY <1>1, <1>2, <1>7 DEF Waits
<1>11. Waits'
  BY <1>1, <1>2, <1>3, <1>5, <1>7, <1>8, <1>9, <1>10, WaitsOn
<1> QED
  BY <1>5, <1>11 DEF InboxInv

(* The questions that the bus leaves alone: gates, answers and clearing.   *)
LEMMA GateKeeps ==
  ASSUME InboxInv, NEW i \in Ids, AnswerGate(i) \/ GateTimeout(i) \/ GateCancelled(i)
  PROVE  InboxInv' /\ KeepsSerials
<1>1. Ledger /\ Waits
  BY DEF InboxInv
<1>2. UNCHANGED <<qkind, qnext, qfiled, qserial, qagent, qcall, qanswering, qrestarts>>
  BY DEF AnswerGate, GateTimeout, GateCancelled, Static, Rest
<1>3. PICK s \in SUBSET Ids : s \in {{}, {i}} /\ Marked(s)
  <2>1. CASE AnswerGate(i) \/ GateTimeout(i)
    <3>1. Mark({i}) /\ Static /\ {i} \in SUBSET Ids
      BY <2>1 DEF AnswerGate, GateTimeout
    <3> QED
      BY <1>1, <3>1, MarkMarks
  <2>2. CASE GateCancelled(i)
    <3>1. Marked({})
      BY <1>1, <1>2, <2>2, NothingMarked DEF GateCancelled
    <3> QED
      BY <3>1
  <2> QED
    BY <2>1, <2>2
<1>4. Ledger' /\ KeepsSerials /\ \A j \in Ids : Open(j)' <=> (Open(j) /\ j \notin s)
  BY <1>3 DEF Marked
<1>5. /\ DOMAIN qgate' = Ids
      /\ \A j \in Ids : qgate'[j] = "waiting" => qgate[j] = "waiting" /\ j # i
      /\ \A j \in qpending : j # i => j \in qpending'
  <2>1. DOMAIN qgate = Ids /\ (qgate[i] = "waiting" => i \in qpending)
    BY <1>1 DEF Waits
  <2> QED
    BY <2>1 DEF AnswerGate, GateTimeout, GateCancelled
<1>6. \A j \in Ids : qgate'[j] = "waiting" =>
        qgate[j] = "waiting" /\ j \notin s /\ (j \in qpending => j \in qpending')
  BY <1>3, <1>5
<1>7. qcall' \in [Agents -> Calls] /\ DOMAIN qanswering' = Consoles
  BY <1>1, <1>2 DEF Waits
<1>8. Waits'
  BY <1>1, <1>2, <1>4, <1>5, <1>6, <1>7, WaitsOn
<1> QED
  BY <1>4, <1>8 DEF InboxInv

LEMMA ClearKeeps ==
  ASSUME InboxInv, NEW s \in SUBSET Ids, Clear(s)
  PROVE  InboxInv' /\ KeepsSerials
<1>1. Ledger /\ Waits /\ Mark(s) /\ Static
  BY DEF InboxInv, Clear
<1>2. UNCHANGED <<qkind, qnext, qcall, qanswering, qrestarts>>
  BY DEF Clear, Static, Rest
<1>3. Ledger' /\ KeepsSerials /\ \A i \in Ids : Open(i)' <=> (Open(i) /\ i \notin s)
  BY <1>1, MarkMarks DEF Marked
<1>4. /\ DOMAIN qgate' = Ids
      /\ \A i \in Ids : qgate'[i] = "waiting" =>
           qgate[i] = "waiting" /\ i \notin s /\ (i \in qpending => i \in qpending')
  BY <1>1 DEF Clear, Denied, Waits
<1>5. qcall' \in [Agents -> Calls] /\ DOMAIN qanswering' = Consoles
  BY <1>1, <1>2 DEF Waits
<1>6. Waits'
  BY <1>1, <1>2, <1>3, <1>4, <1>5, WaitsOn
<1> QED
  BY <1>3, <1>6 DEF InboxInv

LEMMA StallKeeps ==
  ASSUME InboxInv, NEW i \in Ids, AnswerStall(i)
  PROVE  InboxInv' /\ KeepsSerials
<1>1. Ledger /\ Waits /\ Mark({i}) /\ Static /\ {i} \in SUBSET Ids
  BY DEF InboxInv, AnswerStall
<1>2. UNCHANGED <<qkind, qnext, qgate, qpending, qanswering, qrestarts>> /\ qkind[i] = "bus_stall"
  BY DEF AnswerStall, Static, Rest
<1>3. Ledger' /\ KeepsSerials /\ \A j \in Ids : Open(j)' <=> (Open(j) /\ j \notin {i})
  BY <1>1, MarkMarks DEF Marked
<1>4. PICK after \in Calls :
        /\ after.stall_qid = 0
        /\ qcall' = [a \in Agents |-> IF qcall[a].stall_qid = i THEN after ELSE qcall[a]]
  <2>1. /\ NoCall \in Calls /\ NoCall.stall_qid = 0
        /\ [NoCall EXCEPT !.up = TRUE, !.snoozed = TRUE] \in Calls
        /\ [NoCall EXCEPT !.up = TRUE, !.snoozed = TRUE].stall_qid = 0
    BY DEF NoCall, Calls
  <2> QED
    BY <2>1 DEF AnswerStall
<1>5. qcall \in [Agents -> Calls] /\ DOMAIN qgate = Ids /\ DOMAIN qanswering = Consoles
  BY <1>1 DEF Waits
<1>6. qcall' \in [Agents -> Calls]
  BY <1>4, <1>5
<1>7. \A a \in Agents : \/ qcall'[a].stall_qid = 0
                        \/ /\ qcall'[a].stall_qid = qcall[a].stall_qid
                           /\ qcall'[a].flagged = qcall[a].flagged
  BY <1>4
<1>8. \A a \in Agents, j \in Ids \ {i} : qcall[a].up /\ qcall[a].stall_qid = j =>
        qcall'[a].up /\ qcall'[a].stall_qid = j
  BY <1>4
<1>9. \A j \in Ids : qgate[j] = "waiting" => j \notin {i}
  BY <1>1, <1>2 DEF Waits, IsA
<1>10. Waits'
  BY <1>1, <1>2, <1>3, <1>5, <1>6, <1>7, <1>8, <1>9, WaitsOn
<1> QED
  BY <1>3, <1>10 DEF InboxInv

LEMMA AnswerKeeps ==
  ASSUME InboxInv, NEW i \in Ids,
         Dismiss(i) \/ \E c \in Consoles : AnswerBegin(c, i) \/ (AnswerEnd(c) /\ qanswering[c] = i)
  PROVE  InboxInv' /\ KeepsSerials
<1>1. Ledger /\ Waits
  BY DEF InboxInv
<1>2. UNCHANGED <<qkind, qnext, qfiled, qserial, qagent, qgate, qpending, qcall, qrestarts>>
  BY DEF Dismiss, AnswerBegin, AnswerEnd, Static, Rest
<1>3. qkind[i] \in {"advisory", "operator"}
  BY <1>1 DEF Dismiss, AnswerBegin, AnswerEnd, Waits, IsA, Ids
<1>4. PICK s \in SUBSET Ids : s \in {{}, {i}} /\ Marked(s)
  <2>1. CASE Mark({i}) /\ Static
    <3>1. {i} \in SUBSET Ids
      OBVIOUS
    <3> QED
      BY <1>1, <2>1, <3>1, MarkMarks
  <2>2. CASE \E c \in Consoles : AnswerBegin(c, i)
    <3>1. Marked({})
      BY <1>1, <1>2, <2>2, NothingMarked DEF AnswerBegin
    <3> QED
      BY <3>1
  <2> QED
    BY <2>1, <2>2 DEF Dismiss, AnswerEnd
<1>5. Ledger' /\ KeepsSerials /\ \A j \in Ids : Open(j)' <=> (Open(j) /\ j \notin s)
  BY <1>4 DEF Marked
<1>6. \A j \in Ids : qgate[j] = "waiting" => j \notin s
  BY <1>1, <1>3, <1>4 DEF Waits, IsA
<1>7. /\ DOMAIN qanswering' = Consoles
      /\ \A c \in Consoles : \/ qanswering'[c] \in {0, qanswering[c]}
                             \/ IsA(qanswering'[c], "operator", qnext, qkind)
  <2>1. CASE Dismiss(i)
    BY <1>1, <2>1 DEF Dismiss, Rest, Waits
  <2>2. CASE \E c \in Consoles : AnswerBegin(c, i)
    <3>1. PICK c \in Consoles : AnswerBegin(c, i)
      BY <2>2
    <3>2. IsA(i, "operator", qnext, qkind)
      BY <1>1, <3>1 DEF AnswerBegin, Open, Ledger, IsA
    <3> QED
      BY <1>1, <3>1, <3>2 DEF AnswerBegin, Waits
  <2>3. CASE \E c \in Consoles : AnswerEnd(c)
    BY <1>1, <2>3 DEF AnswerEnd, Waits
  <2> QED
    BY <2>1, <2>2, <2>3
<1>8. qcall' \in [Agents -> Calls] /\ DOMAIN qgate' = Ids
  BY <1>1, <1>2 DEF Waits
<1>9. Waits'
  BY <1>1, <1>2, <1>5, <1>6, <1>7, <1>8, WaitsOn
<1> QED
  BY <1>5, <1>9 DEF InboxInv

LEMMA RestartKeeps ==
  ASSUME InboxInv, Restart
  PROVE  InboxInv' /\ KeepsSerials
<1> DEFINE open == {i \in Ids : qrows[i].open}
           last == IF LastId = {} THEN 0
                   ELSE CHOOSE i \in LastId : \A j \in LastId : j <= i
<1>1. /\ qlist' = open /\ qanswered' = {} /\ qnext' = 1 + last
      /\ qkind' = [i \in Ids |-> qrows[i].kind]
      /\ qgate' = [i \in Ids |-> "none"] /\ qcall' = [a \in Agents |-> NoCall]
      /\ qanswering' = [c \in Consoles |-> 0] /\ qrestarts' = qrestarts + 1
      /\ UNCHANGED <<qfiled, qrows, qfailures>>
  BY DEF Restart
<1>2. /\ qfiled \in Nat /\ qfailures \in Nat /\ qrows \in [Ids -> Rows] /\ qrestarts \in Nat
      /\ \A i \in Ids : qrows[i].open => qrows[i].serial # 0 /\ qrows[i].kind \in PersistedKinds
  BY DEF InboxInv, Ledger, Waits
<1>3. last \in Nat /\ \A i \in LastId : i <= last
  <2>1. CASE LastId = {}
    BY <2>1
  <2>2. CASE LastId # {}
    <3>1. LastId \in SUBSET Nat /\ MaxId \in Nat /\ \A i \in LastId : i <= MaxId
      BY InboxAssumption DEF LastId, Ids
    <3>2. \E i \in LastId : \A j \in LastId : j <= i
      BY <2>2, <3>1, Greatest
    <3> QED
      BY <2>2, <3>1, <3>2
  <2> QED
    BY <2>1, <2>2
<1> HIDE DEF last
<1>4. qnext' \in Nat /\ \A i \in Ids : qrows[i].serial # 0 => i < qnext'
  <2>1. \A i \in Ids : i \in Nat
    BY InboxAssumption DEF Ids
  <2> QED
    BY <1>1, <1>3, <2>1 DEF LastId
<1>5. \A i \in Ids : Open(i)' <=> qrows[i].open
  BY <1>1 DEF Open
<1>6. qkind' \in [Ids -> Kinds]
  BY <1>1, <1>2 DEF Rows
<1>7. RestartKeepsOpen'
  BY <1>1, <1>2, <1>5 DEF RestartKeepsOpen
<1>8. Ledger' /\ KeepsSerials
  BY <1>1, <1>2, <1>4, <1>6, <1>7 DEF Ledger, KeepsSerials
<1>9. StallHasItsCall'
  BY <1>1, <1>2 DEF StallHasItsCall
<1>10. NoCall \in Calls /\ NoCall.stall_qid = 0
  BY DEF NoCall, Calls
<1>11. Waits'
  BY <1>1, <1>2, <1>9, <1>10 DEF Waits
<1> QED
  BY <1>8, <1>11 DEF InboxInv

LEMMA InboxStep == InboxInv /\ [InboxNext]_inboxVars => InboxInv' /\ KeepsSerials
<1> SUFFICES ASSUME InboxInv, [InboxNext]_inboxVars PROVE InboxInv' /\ KeepsSerials
  OBVIOUS
<1>1. CASE UNCHANGED inboxVars
  <2>1. UNCHANGED <<qlist, qanswered, qrows, qfailures, qkind, qnext, qfiled, qgate, qpending,
                    qcall, qanswering, qrestarts>>
    BY <1>1 DEF inboxVars
  <2> QED
    BY <2>1 DEF InboxInv, Ledger, Waits, RestartKeepsOpen, StallHasItsCall, Open, KeepsSerials,
                IsA
<1>2. CASE ClearSome
  <2>1. PICK s : s \subseteq qlist /\ Clear(s)
    BY <1>2 DEF ClearSome
  <2>2. s \in SUBSET Ids
    BY <2>1 DEF InboxInv, Ledger
  <2> QED
    BY <2>1, <2>2, ClearKeeps
<1>3. ASSUME NEW c \in Consoles, AnswerEnd(c) PROVE InboxInv' /\ KeepsSerials
  <2>1. qanswering[c] \in Ids
    BY <1>3 DEF AnswerEnd, InboxInv, Waits, IsA
  <2> QED
    BY <1>3, <2>1, AnswerKeeps
<1>4. ASSUME NEW a \in Agents, \/ FileQuestion(a) \/ FileGate(a) \/ CallBegins(a)
                               \/ FlagStalled(a) \/ SnoozeOver(a) \/ CallEnds(a)
      PROVE  InboxInv' /\ KeepsSerials
  BY <1>4, FilingKeeps, CallKeeps
<1>5. ASSUME NEW i \in Ids, \/ AnswerGate(i) \/ AnswerStall(i) \/ Dismiss(i) \/ GateTimeout(i)
                            \/ GateCancelled(i) \/ \E c \in Consoles : AnswerBegin(c, i)
      PROVE  InboxInv' /\ KeepsSerials
  BY <1>5, GateKeeps, StallKeeps, AnswerKeeps
<1> QED
  BY <1>1, <1>2, <1>3, <1>4, <1>5, RestartKeeps DEF InboxNext

(* For any number of agents, consoles, ids and restarts: whoever waits at  *)
(* a gate can be answered, no stall question outlives its call, and what a *)
(* restart brings back is what was open.                                   *)
THEOREM InboxStays == InboxSpec => []InboxHolds
<1>1. InboxSpec => []InboxInv
  BY InboxInitInv, InboxStep, PTL DEF InboxSpec
<1> QED
  BY <1>1, InboxFollows, PTL

(* An id whose row is in the store names the same question for ever.       *)
THEOREM IdsStay == InboxSpec => IdsNotReissued
<1>1. InboxInv /\ [InboxNext]_inboxVars =>
        [\A i \in Ids : qrows[i].serial # 0 => qrows'[i].serial = qrows[i].serial]_inboxVars
  BY InboxStep DEF KeepsSerials
<1>2. InboxSpec => []InboxInv
  BY InboxInitInv, InboxStep, PTL DEF InboxSpec
<1> QED
  BY <1>1, <1>2, PTL DEF InboxSpec, IdsNotReissued
================================================================================
