----------------------------- MODULE ApprovalGates -----------------------------
(***************************************************************************)
(* Tool calls that wait for the operator (daemon/_runner_factory.py,       *)
(* runtime.py, bus/_common.py). They come on three paths:                  *)
(*   provider  a handler wrapped by gate_tool_bundle: the budget gate, the  *)
(*             safeguards and approve_before in turn, and in the handler    *)
(*             itself the scope                                             *)
(*   codex     an approval request of the codex CLI, resolved by the loop   *)
(*             while a thread polls for the cancellation of the request     *)
(*   spawn     the hook before a subagent is started                        *)
(* A command stands for the whole input of a call: a command line, a patch, *)
(* a permission, a prompt; the constants say how the policies classify it.  *)
(***************************************************************************)
EXTENDS FiniteSets

CONSTANTS
  GateCalls,              \* tool calls
  Commands,               \* their inputs
  Prohibited,             \* refused by check_intent, the root check or the denied permissions
  OffScope,               \* refused by the scope
  Guarded,                \* of a class in approve_before
  Risky,                  \* of these, destructive or sudo: they take a confirmation
  Plain,                  \* read-only for codex
  Fieldless               \* inputs of a tool without a command field

ASSUME GatesAssumption ==
  /\ UNION {Prohibited, OffScope, Guarded, Plain, Fieldless} \subseteq Commands
  /\ Risky \subseteq Guarded \ Fieldless

VARIABLES
  gpath,                  \* of each call its path
  gstage,                 \* where it is
  gask,                   \* the input the agent gave
  ginput,                 \* the input as the checks have left it
  gconfirm,               \* confirm_destructive was injected
  gquestion,              \* its question: none, open, answered, expired
  greply,                 \* what the operator answered
  gcancel,                \* its request is marked cancelled
  gout,                   \* none, ran, denied, cancelled
  gfollowups,             \* instructions queued to the agent
  gbrake,                 \* _budget_gate_armed
  gbackend                \* of codex: open, closing, closed

gatesVars == <<gpath, gstage, gask, ginput, gconfirm, gquestion, greply, gcancel, gout,
               gfollowups, gbrake, gbackend>>

NoCommand == "none"
Plainly == {"yes", "yes, but", "no", "garbage"}
NoReply == [says |-> "nothing", text |-> NoCommand]

GatesInit ==
  /\ gpath = [i \in GateCalls |-> "none"] /\ gstage = [i \in GateCalls |-> "idle"]
  /\ gask = [i \in GateCalls |-> NoCommand] /\ ginput = [i \in GateCalls |-> NoCommand]
  /\ gconfirm = [i \in GateCalls |-> FALSE]
  /\ gquestion = [i \in GateCalls |-> "none"] /\ greply = [i \in GateCalls |-> NoReply]
  /\ gcancel = [i \in GateCalls |-> FALSE] /\ gout = [i \in GateCalls |-> "none"]
  /\ gfollowups = {} /\ gbrake = FALSE /\ gbackend = "open"

-----------------------------------------------------------------------------
(* Replies *)

\* Mutant: a reply that begins with yes approves, whatever comes after it.
ParsedReply_FirstWord(reply) ==
  CASE reply.says \in {"yes", "yes, but"} -> "approve"
    [] reply.says = "edit" -> "edit"
    [] OTHER -> "deny"

\* _parse_delegation_answer, where an edit without a text is not one for the gates.
ParsedReply(reply) ==
  CASE reply.says = "yes" -> "approve"
    [] reply.says = "edit" /\ reply.text # NoCommand -> "edit"
    [] OTHER -> "deny"

Replies == [says : Plainly, text : {NoCommand}]
           \cup [says : {"edit"}, text : Commands \cup {NoCommand}]

-----------------------------------------------------------------------------
(* A call *)

GatesSame == UNCHANGED <<gpath, gask, gfollowups, gbrake, gbackend>>
InputSame == UNCHANGED <<ginput, gconfirm>>

GoesTo(i, stage) == gstage' = [gstage EXCEPT ![i] = stage] /\ UNCHANGED gout

Ends(i, out) ==
  /\ gstage' = [gstage EXCEPT ![i] = "over"]
  /\ gout' = [gout EXCEPT ![i] = out]

\* The answer of a request that a disconnect has cancelled is that, and what is
\* granted to a CLI that is gone runs nothing.
CodexOut(i, out) == IF gcancel[i] \/ gbackend = "closed" THEN "cancelled" ELSE out

\* A call arrives: at the first check of its path. For codex, with the test of
\* _closed in the thread of the request.
Propose(i) ==
  /\ gstage[i] = "idle"
  /\ \E path \in {"provider", "codex", "spawn"}, c \in Commands :
       /\ gpath' = [gpath EXCEPT ![i] = path]
       /\ gask' = [gask EXCEPT ![i] = c] /\ ginput' = [ginput EXCEPT ![i] = c]
       /\ IF path = "codex" /\ gbackend # "open"
          THEN Ends(i, "cancelled")
          ELSE GoesTo(i, [provider |-> "budget", codex |-> "arrived", spawn |-> "consent"][path])
  /\ UNCHANGED <<gconfirm, gquestion, greply, gcancel, gfollowups, gbrake, gbackend>>

\* The request joins _approval_cancellations; a disconnect may have come first.
Register(i) ==
  /\ gstage[i] = "arrived"
  /\ GoesTo(i, "safeguard")
  /\ UNCHANGED <<gquestion, greply, gcancel>> /\ InputSame /\ GatesSame

BudgetCheck(i) ==
  /\ gstage[i] = "budget"
  /\ IF gbrake THEN Ends(i, "denied") ELSE GoesTo(i, "safeguard")
  /\ UNCHANGED <<gquestion, greply, gcancel>> /\ InputSame /\ GatesSame

\* A provider's safeguards; for codex check_intent, or the root check or the
\* denied permissions, and the scope.
SafeguardCheck(i) ==
  /\ gstage[i] = "safeguard"
  /\ LET codex == gpath[i] = "codex"
     IN  IF ginput[i] \in Prohibited \/ (codex /\ ginput[i] \in OffScope)
         THEN Ends(i, IF codex THEN CodexOut(i, "denied") ELSE "denied")
         ELSE GoesTo(i, "consent")
  /\ UNCHANGED <<gquestion, greply, gcancel>> /\ InputSame /\ GatesSame

NeedsConsent(path, c) ==
  CASE path = "provider" -> c \in Guarded
    [] path = "codex" -> c \notin Plain
    [] path = "spawn" -> TRUE

\* The question is filed, or is not needed.
AskOperator(i) ==
  /\ gstage[i] = "consent"
  /\ IF NeedsConsent(gpath[i], ginput[i])
     THEN gquestion' = [gquestion EXCEPT ![i] = "open"] /\ GoesTo(i, "waiting")
     ELSE /\ UNCHANGED gquestion
          /\ IF gpath[i] = "codex" THEN Ends(i, CodexOut(i, "ran")) ELSE GoesTo(i, "handler")
  /\ UNCHANGED <<greply, gcancel>> /\ InputSame /\ GatesSame

\* _cmd_questions_answer: the reply is recorded and the future set.
OperatorReplies(i) ==
  /\ gquestion[i] = "open"
  /\ gquestion' = [gquestion EXCEPT ![i] = "answered"]
  /\ \E reply \in Replies : greply' = [greply EXCEPT ![i] = reply]
  /\ UNCHANGED <<gstage, gout, gcancel>> /\ InputSame /\ GatesSame

\* wait_for gives up, and may do so although the reply has just come.
QuestionTimesOut(i) ==
  /\ gstage[i] = "waiting"
  /\ gquestion' = [gquestion EXCEPT ![i] = IF @ = "open" THEN "expired" ELSE @]
  /\ Ends(i, IF gpath[i] = "codex" THEN CodexOut(i, "denied") ELSE "denied")
  /\ UNCHANGED <<greply, gcancel>> /\ InputSame /\ GatesSame

\* Mutant: the input of the operator is not threaded into the call.
Updated_Dropped(i, c, confirm) == UNCHANGED <<ginput, gconfirm>>

Updated(i, c, confirm) ==
  /\ ginput' = [ginput EXCEPT ![i] = c]
  /\ gconfirm' = [gconfirm EXCEPT ![i] = confirm]

\* The gate has its reply. An edit replaces the input; for codex it declines the
\* request and goes to the agent as its next instruction.
ReplyArrives(i) ==
  /\ gstage[i] = "waiting" /\ gquestion[i] = "answered"
  /\ LET verdict == ParsedReply(greply[i])
         text == greply[i].text
         risky == gask[i] \in Risky /\ gpath[i] = "provider"
         next == IF gpath[i] = "provider" THEN "handler" ELSE "dispatch"
     IN  \/ /\ verdict = "approve" /\ gpath[i] # "codex"
            /\ GoesTo(i, next) /\ Updated(i, gask[i], risky)
            /\ UNCHANGED gfollowups
         \/ /\ verdict = "edit" /\ gpath[i] # "codex"
            /\ IF gpath[i] = "provider" /\ gask[i] \in Fieldless
               THEN Ends(i, "denied") /\ InputSame
               ELSE GoesTo(i, next) /\ Updated(i, text, risky)
            /\ UNCHANGED gfollowups
         \/ /\ verdict = "deny" /\ gpath[i] # "codex"
            /\ Ends(i, "denied")
            /\ InputSame /\ UNCHANGED gfollowups
         \/ /\ gpath[i] = "codex"
            /\ Ends(i, CodexOut(i, IF verdict = "approve" THEN "ran" ELSE "denied"))
            /\ gfollowups' = IF verdict = "edit" /\ ~gcancel[i] THEN gfollowups \cup {text}
                                                                ELSE gfollowups
            /\ InputSame
  /\ UNCHANGED <<gquestion, greply, gcancel, gpath, gask, gbrake, gbackend>>

\* The poll of the thread sees the cancellation: its future is cancelled, and the
\* question stays in the inbox.
PollCancelled(i) ==
  /\ gpath[i] = "codex" /\ gcancel[i] /\ gstage[i] \in {"safeguard", "consent", "waiting"}
  /\ Ends(i, "cancelled")
  /\ UNCHANGED <<gquestion, greply, gcancel>> /\ InputSame /\ GatesSame

\* The wrapped handler judges the scope of what it was given; a spawn has no
\* handler of ours.
Dispatches(i) ==
  /\ gstage[i] \in {"handler", "dispatch"}
  /\ Ends(i, IF gstage[i] = "handler" /\ ginput[i] \in OffScope THEN "denied" ELSE "ran")
  /\ UNCHANGED <<gquestion, greply, gcancel>> /\ InputSame /\ GatesSame

-----------------------------------------------------------------------------
(* Around it *)

\* The budget gate is armed by a charge, and cleared by the operator.
Brake ==
  /\ gbrake' = ~gbrake
  /\ UNCHANGED <<gpath, gstage, gask, gquestion, greply, gcancel, gout, gfollowups, gbackend>>
  /\ InputSame

\* disconnect: the pending requests are cancelled, then the CLI is closed.
BackendDisconnects ==
  /\ gbackend = "open" /\ gbackend' = "closing"
  /\ gcancel' = [i \in GateCalls |-> gpath[i] = "codex"
                                     /\ gstage[i] \in {"safeguard", "consent", "waiting"}]
  /\ UNCHANGED <<gpath, gstage, gask, gquestion, greply, gout, gfollowups, gbrake>> /\ InputSame

CloseClient ==
  /\ gbackend = "closing" /\ gbackend' = "closed"
  /\ UNCHANGED <<gpath, gstage, gask, gquestion, greply, gcancel, gout, gfollowups, gbrake>>
  /\ InputSame

GatesNext ==
  \/ \E i \in GateCalls :
       \/ Propose(i) \/ Register(i) \/ BudgetCheck(i) \/ SafeguardCheck(i) \/ AskOperator(i)
       \/ OperatorReplies(i) \/ QuestionTimesOut(i) \/ ReplyArrives(i) \/ PollCancelled(i)
       \/ Dispatches(i)
  \/ Brake \/ BackendDisconnects \/ CloseClient

GatesSpec == GatesInit /\ [][GatesNext]_gatesVars

-----------------------------------------------------------------------------
(* What the operator relies on *)

RanCommands == {i \in GateCalls : gout[i] = "ran"}

(* What runs is what the operator was asked about and allowed without       *)
(* reserve, or the edit of the operator where a command can be edited: "run *)
(* the ORIGINAL command while the operator was told their edit applied"     *)
(* does not happen, a reply that comes too late or with a caveat runs       *)
(* nothing, and an edit of a codex request never lets the request run. A    *)
(* confirmation is injected for what was consented to only.                 *)
ConsentBinds ==
  \A i \in RanCommands :
    /\ NeedsConsent(gpath[i], gask[i]) =>
         /\ gquestion[i] = "answered"
         /\ \/ greply[i].says = "yes" /\ ginput[i] = gask[i]
            \/ /\ greply[i].says = "edit" /\ greply[i].text = ginput[i]
               /\ gpath[i] # "codex" /\ (gpath[i] = "provider" => gask[i] \notin Fieldless)
    /\ ~NeedsConsent(gpath[i], gask[i]) => ginput[i] = gask[i]
    /\ gconfirm[i] <=> gpath[i] = "provider" /\ gask[i] \in Risky

(* What a policy refuses is neither run nor put to the operator, and an     *)
(* edit cannot lead out of scope. (It is not judged by the safeguards again:*)
(* it is the operator's own.)                                               *)
RefusedNeverRuns ==
  /\ \A i \in GateCalls : gpath[i] \in {"provider", "codex"} =>
       /\ gquestion[i] # "none" => gask[i] \notin Prohibited
       /\ i \in RanCommands => gask[i] \notin Prohibited /\ ginput[i] \notin OffScope

(* A call that is over leaves no question to answer (it would "loiter in the *)
(* operator inbox as an undeletable phantom"), but for a request that codex  *)
(* was made to drop; and a request cancelled by a disconnect is never granted*)
NoPhantomQuestion ==
  \A i \in GateCalls :
    /\ gstage[i] = "over" /\ gquestion[i] = "open" => gcancel[i]
    /\ gcancel[i] => i \notin RanCommands

(* The three together.                                                      *)
GateHolds == ConsentBinds /\ RefusedNeverRuns /\ NoPhantomQuestion
=============================================================================
