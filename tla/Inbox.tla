-------------------------------- MODULE Inbox --------------------------------
(***************************************************************************)
(* The operator's inbox (coord/questions.py) with the commands that answer *)
(* and clear its questions and the watchdog that files stall questions     *)
(* (daemon/_questions.py).                                                 *)
(*                                                                         *)
(* A handler runs alone between two awaits. Only an operator question is   *)
(* answered over an await: two consoles may be between the check of one    *)
(* question and its answer. Persistence is a table of rows that a restart  *)
(* hydrates from; a failed write is logged and tolerated.                  *)
(*                                                                         *)
(* A question's id is reused after a restart when no row holds it, so each *)
(* filing has a serial number here, and a row remembers the serial it is   *)
(* about. Every agent has at most one gate and one bus call open.          *)
(***************************************************************************)
EXTENDS Integers, FiniteSets

CONSTANTS
  Agents,
  Consoles,          \* operators' connections
  MaxId,             \* bound: ids
  MaxSerial,         \* bound: questions filed
  Keep,              \* max_answered
  MaxRestarts, MaxFailures   \* bounds

ASSUME InboxAssumption ==
  /\ {MaxId, MaxSerial, MaxRestarts, MaxFailures} \subseteq Nat
  /\ Keep \in Nat \ {0}

VARIABLES
  qlist,             \* ids in memory
  qserial, qkind, qagent,    \* of each id in memory
  qanswered,         \* ids in memory that are answered
  qnext,             \* _next_id
  qfiled,            \* serials given out
  qgate,             \* of each id, its gate: none, waiting, resolved, left
  qpending,          \* ids with a future in _pending
  qrows,             \* of each id, its row: serial, agent, kind, open
  qcall,             \* of each agent, its bus call: up, flagged, stall_qid, snoozed
  qanswering,        \* of each console, the id it is answering, 0 for none
  qtold,             \* serials whose answer a job was queued for
  qreplied,          \* serials marked answered with an operator's reply
  qrestarts, qfailures

inboxVars == <<qlist, qserial, qkind, qagent, qanswered, qnext, qfiled, qgate, qpending,
               qrows, qcall, qanswering, qtold, qreplied, qrestarts, qfailures>>

Ids == 1..MaxId
NoRow == [serial |-> 0, agent |-> CHOOSE a \in Agents : TRUE, kind |-> "operator",
          open |-> FALSE]
NoCall == [up |-> FALSE, flagged |-> FALSE, stall_qid |-> 0, snoozed |-> FALSE]
PersistedKinds == {"operator", "bus_stall", "delegation"}    \* advisory ones are not

InboxInit ==
  /\ qlist = {} /\ qserial = [i \in Ids |-> 0] /\ qkind = [i \in Ids |-> "operator"]
  /\ qagent = [i \in Ids |-> CHOOSE a \in Agents : TRUE]
  /\ qanswered = {} /\ qnext = 1 /\ qfiled = 0
  /\ qgate = [i \in Ids |-> "none"] /\ qpending = {}
  /\ qrows = [i \in Ids |-> NoRow]
  /\ qcall = [a \in Agents |-> NoCall]
  /\ qanswering = [c \in Consoles |-> 0]
  /\ qtold = {} /\ qreplied = {} /\ qrestarts = 0 /\ qfailures = 0

-----------------------------------------------------------------------------
(* The inbox: add, mark_answered, _prune_answered *)

\* One write of the store: it happens, or it fails and that is logged.
Written(rows) ==
  \/ qrows' = rows /\ UNCHANGED qfailures
  \/ qfailures < MaxFailures /\ qfailures' = qfailures + 1 /\ UNCHANGED qrows

\* Files one question under the next id.
Add(a, kind) ==
  /\ qnext \in Ids /\ qfiled < MaxSerial
  /\ qlist' = qlist \cup {qnext} /\ qanswered' = qanswered \ {qnext}
  /\ qfiled' = qfiled + 1
  /\ qserial' = [qserial EXCEPT ![qnext] = qfiled']
  /\ qkind' = [qkind EXCEPT ![qnext] = kind]
  /\ qagent' = [qagent EXCEPT ![qnext] = a]
  /\ qnext' = qnext + 1
  /\ IF kind \in PersistedKinds
     THEN Written([qrows EXCEPT ![qnext] =
                     [serial |-> qfiled', agent |-> a, kind |-> kind, open |-> TRUE]])
     ELSE UNCHANGED <<qrows, qfailures>>

\* _prune_answered: of the answered, all but the latest Keep are dropped.
\* (In the order of filing, which is the order of the ids.)
Pruned(answered) ==
  {i \in answered : Cardinality({j \in answered : j > i}) >= Keep}

\* Mutant: the mark is made in memory only.
Mark_Unwritten(s) ==
  /\ qanswered' = qanswered \cup (s \cap qlist)
  /\ UNCHANGED <<qlist, qrows, qfailures>>

\* mark_answered of each id in s: only what is open is marked and written.
Mark(s) ==
  LET open     == (s \cap qlist) \ qanswered
      answered == qanswered \cup open
      dropped  == Pruned(answered)
      kept     == {i \in open : qkind[i] \in PersistedKinds}
  IN  /\ qanswered' = answered \ dropped
      /\ qlist' = qlist \ dropped
      /\ IF kept = {} THEN UNCHANGED <<qrows, qfailures>>
         ELSE Written([i \in Ids |-> IF i \in kept THEN [qrows[i] EXCEPT !.open = FALSE]
                                     ELSE qrows[i]])

Open(i) == i \in qlist \ qanswered

Static == UNCHANGED <<qserial, qkind, qagent, qnext, qfiled>>
Rest == UNCHANGED <<qanswering, qtold, qreplied, qrestarts>>

-----------------------------------------------------------------------------
(* Filing *)

\* ask_operator and markers; and what is advisory, an operator's note or a
\* suggestion of the copilot.
FileQuestion(a) ==
  /\ \E kind \in {"operator", "advisory"} : Add(a, kind)
  /\ UNCHANGED <<qgate, qpending, qcall>> /\ Rest

\* _file_gate_question: a tool call waits for the future.
FileGate(a) ==
  /\ \A i \in Ids : qagent[i] = a => qgate[i] # "waiting"
  /\ Add(a, "delegation")
  /\ qgate' = [qgate EXCEPT ![qnext] = "waiting"]
  /\ qpending' = qpending \cup {qnext}
  /\ UNCHANGED qcall /\ Rest

\* A call reaches awaiting_reply.
CallBegins(a) ==
  /\ ~qcall[a].up
  /\ qcall' = [qcall EXCEPT ![a] = [NoCall EXCEPT !.up = TRUE]]
  /\ UNCHANGED <<qlist, qanswered, qgate, qpending, qrows, qfailures>> /\ Static /\ Rest

\* One pass of the reaper over a call past the threshold.
FlagStalled(a) ==
  /\ qcall[a].up /\ ~qcall[a].flagged /\ ~qcall[a].snoozed
  /\ Add(a, "bus_stall")
  /\ qcall' = [qcall EXCEPT ![a].flagged = TRUE, ![a].stall_qid = qnext]
  /\ UNCHANGED <<qgate, qpending>> /\ Rest

SnoozeOver(a) ==
  /\ qcall[a].snoozed
  /\ qcall' = [qcall EXCEPT ![a].snoozed = FALSE]
  /\ UNCHANGED <<qlist, qanswered, qgate, qpending, qrows, qfailures>> /\ Static /\ Rest

\* Mutant: a call that ends leaves its stall question.
StallQuestions_None(a) == {}

\* _clear_stall_question
StallQuestions(a) == {qcall[a].stall_qid} \ {0}

\* bus_call_resolve on any return path, and an explicit bus cancel.
CallEnds(a) ==
  /\ qcall[a].up
  /\ Mark(StallQuestions(a))
  /\ qcall' = [qcall EXCEPT ![a] = NoCall]
  /\ UNCHANGED <<qgate, qpending>> /\ Static /\ Rest

-----------------------------------------------------------------------------
(* Answering *)

\* A gate: its future is resolved if somebody still waits, and in any case
\* the question leaves the inbox.
AnswerGate(i) ==
  /\ Open(i) /\ qkind[i] = "delegation"
  /\ qpending' = qpending \ {i}
  /\ qgate' = IF i \in qpending /\ qgate[i] = "waiting"
              THEN [qgate EXCEPT ![i] = "resolved"] ELSE qgate
  /\ Mark({i})
  /\ UNCHANGED qcall /\ Static /\ Rest

\* A stall: "cancel" ends the call without clearing the question a second time.
AnswerStall(i) ==
  /\ Open(i) /\ qkind[i] = "bus_stall"
  /\ Mark({i})
  /\ \/ qcall' = [a \in Agents |-> IF qcall[a].stall_qid = i THEN NoCall ELSE qcall[a]]
     \/ qcall' = [a \in Agents |-> IF qcall[a].stall_qid = i
                                   THEN [NoCall EXCEPT !.up = TRUE, !.snoozed = TRUE]
                                   ELSE qcall[a]]
  /\ UNCHANGED <<qgate, qpending>> /\ Static /\ Rest

\* An operator question: up to the awaits that announce the answer.
AnswerBegin(c, i) ==
  /\ qanswering[c] = 0
  /\ Open(i) /\ qkind[i] = "operator"
  /\ qanswering' = [qanswering EXCEPT ![c] = i]
  /\ UNCHANGED <<qlist, qanswered, qgate, qpending, qrows, qfailures, qcall,
                 qtold, qreplied, qrestarts>> /\ Static

\* After them: the answer is submitted to the runner, which refuses it when it is
\* parked or stopping, and the question is marked with the job either way.
AnswerEnd(c) ==
  LET i == qanswering[c]
  IN  /\ i # 0
      /\ qanswering' = [qanswering EXCEPT ![c] = 0]
      /\ qtold' \in {qtold, qtold \cup {qserial[i]}}
      /\ Mark({i})
      /\ qreplied' = IF Open(i) THEN qreplied \cup {qserial[i]} ELSE qreplied
      /\ UNCHANGED <<qgate, qpending, qcall, qrestarts>> /\ Static

-----------------------------------------------------------------------------
(* Clearing *)

\* Mutant: futures are resolved for gates that were named, not for a sweep.
Denied_One(s) == IF Cardinality(s) = 1 THEN s ELSE {}

\* The gates whose future a clear resolves with a denial.
Denied(s) == s

\* questions clear: by ids, agent or all; each future is resolved first.
Clear(s) ==
  /\ s # {}
  /\ qpending' = qpending \ Denied(s)
  /\ qgate' = [i \in Ids |-> IF i \in Denied(s) \cap qpending /\ qgate[i] = "waiting"
                             THEN "resolved" ELSE qgate[i]]
  /\ Mark(s)
  /\ UNCHANGED qcall /\ Static /\ Rest

ClearSome ==
  LET open == qlist \ qanswered
  IN  \/ \E i \in open : Clear({i})
      \/ \E a \in Agents : Clear({i \in open : qagent[i] = a})
      \/ Clear(open)

\* suggestion dismiss and note resolve.
Dismiss(i) ==
  /\ Open(i) /\ qkind[i] = "advisory"
  /\ Mark({i})
  /\ UNCHANGED <<qgate, qpending, qcall>> /\ Static /\ Rest

\* The tool call's wait times out: expire().
GateTimeout(i) ==
  /\ qgate[i] = "waiting"
  /\ qgate' = [qgate EXCEPT ![i] = "left"]
  /\ qpending' = qpending \ {i}
  /\ Mark({i})
  /\ UNCHANGED qcall /\ Static /\ Rest

\* The tool call is cancelled: its future is, and nobody expires the question.
GateCancelled(i) ==
  /\ qgate[i] = "waiting"
  /\ qgate' = [qgate EXCEPT ![i] = "left"]
  /\ UNCHANGED <<qlist, qanswered, qpending, qrows, qfailures, qcall>> /\ Static /\ Rest

-----------------------------------------------------------------------------
(* Restart: memory is lost, and hydrate() loads the open rows *)

\* Mutant: numbering goes on from what is pending.
LastId_Open == {i \in Ids : qrows[i].open}

\* max_question_id: of every row there is.
LastId == {i \in Ids : qrows[i].serial # 0}

Restart ==
  LET open == {i \in Ids : qrows[i].open}
  IN  /\ qrestarts < MaxRestarts
      /\ qrestarts' = qrestarts + 1
      /\ qlist' = open /\ qanswered' = {}
      /\ qserial' = [i \in Ids |-> IF i \in open THEN qrows[i].serial ELSE 0]
      /\ qkind' = [i \in Ids |-> qrows[i].kind]
      /\ qagent' = [i \in Ids |-> qrows[i].agent]
      /\ qnext' = 1 + (IF LastId = {} THEN 0
                       ELSE CHOOSE i \in LastId : \A j \in LastId : j <= i)
      /\ qgate' = [i \in Ids |-> "none"] /\ qpending' = {}
      /\ qcall' = [a \in Agents |-> NoCall]
      /\ qanswering' = [c \in Consoles |-> 0]
      /\ UNCHANGED <<qfiled, qrows, qtold, qreplied, qfailures>>

InboxNext ==
  \/ \E a \in Agents :
       \/ FileQuestion(a) \/ FileGate(a)
       \/ CallBegins(a) \/ FlagStalled(a) \/ SnoozeOver(a) \/ CallEnds(a)
  \/ \E i \in Ids :
       \/ AnswerGate(i) \/ AnswerStall(i) \/ Dismiss(i) \/ GateTimeout(i) \/ GateCancelled(i)
       \/ \E c \in Consoles : AnswerBegin(c, i)
  \/ \E c \in Consoles : AnswerEnd(c)
  \/ ClearSome
  \/ Restart

InboxSpec == InboxInit /\ [][InboxNext]_inboxVars

-----------------------------------------------------------------------------
(* What the operator and the agents rely on *)

(* "Awaiting tool calls don't hang": while a tool call waits at a gate, its *)
(* question is open and its future is in reach of an answer, whatever was   *)
(* cleared, pruned or answered meanwhile.                                   *)
GateStaysAnswerable ==
  \A i \in Ids : qgate[i] = "waiting" => Open(i) /\ i \in qpending

(* An id whose row is in the store never comes to mean another question: a *)
(* restart numbers past the answered rows as well, so that an operator's    *)
(* answer and the permanent decision log keep naming what was asked.        *)
IdsNotReissued ==
  [][\A i \in Ids : qrows[i].serial # 0 => qrows'[i].serial = qrows[i].serial]_inboxVars

(* While no write has failed, a restart brings back what is open, and only  *)
(* that: the open rows are the open questions of the persisted kinds.       *)
RestartKeepsOpen ==
  qfailures = 0 =>
    {i \in Ids : qrows[i].open} = {i \in Ids : Open(i) /\ qkind[i] \in PersistedKinds}

(* No stall question outlives its call: one that is open, and was filed by  *)
(* this process, is the stall question of a call that is still up.          *)
StallHasItsCall ==
  \A i \in Ids : Open(i) /\ qkind[i] = "bus_stall" /\ qrestarts = 0 =>
    \E a \in Agents : qcall[a].up /\ qcall[a].stall_qid = i

(* Whoever waits on the operator has an open question, and a question that *)
(* stands for a wait has somebody waiting.                                 *)
WaitsAreAnswerable == GateStaysAnswerable /\ StallHasItsCall

(* The two together.                                                      *)
InboxHolds == WaitsAreAnswerable /\ RestartKeepsOpen

(* runner.submit says of a job it refuses that callers must treat it as not *)
(* queued: a question marked with an operator's reply has reached its agent.*)
(* AnswerEnd does not keep this (README, section 6), and no run checks it.  *)
AnswerIsQueued == qreplied \subseteq qtold
=============================================================================
