------------------------------ MODULE AuditTrail ------------------------------
(***************************************************************************)
(* What is recorded of one turn, and what is reconstructed from it: the    *)
(* hooks that judge its tool calls (daemon/_runner_factory.py), the deny   *)
(* rows of scope.db, which fail closed, their best-effort copies in the    *)
(* audit_mirror table of the context store, the job row and the stop       *)
(* events (bus/_context_store.py), and build_reconstruction                *)
(* (coord/reconstruct.py), which reads both stores at any time.            *)
(*                                                                         *)
(* A call is its tool_use_id. Two hooks judge it in any order, and at the  *)
(* same time: the policy hook (safeguards, then scope) and the budget      *)
(* gate. PolicyHooks has the replays; here only one that is refused shows. *)
(* An id names one turn: of the older ids, which may name several, no      *)
(* chain is ever called complete.                                          *)
(***************************************************************************)
EXTENDS Integers, FiniteSets

CONSTANTS
  AuditCalls,
  ToolOf,             \* of each call, its tool
  MaxReplays          \* bound: refused replays in the turn

ASSUME AuditAssumption == IsFiniteSet(AuditCalls) /\ MaxReplays \in Nat

VARIABLES
  alegacy,            \* rows of before the migration have no decision_id
  aenforce,           \* _enforce_builtin_policy
  aarmed,             \* _budget_gate_armed
  apolicy,            \* of each call, the policy hook: new, safeguard or scope (refused,
                      \* and to be recorded), pass, deny
  abudget,            \* of each call, the budget gate: new, pass, deny
  adenies,            \* scope.db: the calls with a deny row
  amirror,            \* audit_mirror: of each call, the op of its row, or none
  areplayed,          \* calls with a second invocation that was refused
  aturn,              \* running, finished, cancelled; its job row is recorded or lost
  astop,              \* a killswitch STOP: none, dispatched; its row is recorded or lost
  ahitch              \* history: a write failed, or a hook was cancelled

auditVars == <<alegacy, aenforce, aarmed, apolicy, abudget, adenies, amirror, areplayed,
               aturn, astop, ahitch>>

AuditInit ==
  /\ alegacy \in BOOLEAN /\ aenforce \in BOOLEAN /\ aarmed = FALSE
  /\ apolicy = [c \in AuditCalls |-> "new"] /\ abudget = [c \in AuditCalls |-> "new"]
  /\ adenies = {} /\ amirror = [c \in AuditCalls |-> "none"] /\ areplayed = {}
  /\ aturn = "running" /\ astop = "none" /\ ahitch = FALSE

-----------------------------------------------------------------------------
(* Recording *)

\* record_audit_mirror: the first row of a tool call stays its only one. A write
\* that fails is told in the return value, and nothing else changes.
Mirror(c, op) ==
  \/ /\ amirror' = [amirror EXCEPT ![c] = IF @ = "none" THEN op ELSE @]
     /\ UNCHANGED ahitch
  \/ ahitch' = TRUE /\ UNCHANGED amirror

\* Safeguards refuse; the strike is logged across an await.
SafeguardRefuses(c) ==
  /\ aturn = "running" /\ apolicy[c] = "new"
  /\ apolicy' = [apolicy EXCEPT ![c] = "safeguard"]
  /\ UNCHANGED <<alegacy, aenforce, aarmed, abudget, adenies, amirror, areplayed, aturn,
                 astop, ahitch>>

\* evaluate_scope: an allowed call, a denied one with its row in scope.db, or one
\* that is denied since the row could not be written.
ScopeAllows(c) ==
  /\ aturn = "running" /\ apolicy[c] = "new"
  /\ apolicy' = [apolicy EXCEPT ![c] = "pass"]
  /\ UNCHANGED <<alegacy, aenforce, aarmed, abudget, adenies, amirror, areplayed, aturn,
                 astop, ahitch>>

ScopeDenies(c) ==
  /\ aturn = "running" /\ apolicy[c] = "new"
  /\ apolicy' = [apolicy EXCEPT ![c] = "scope"]
  /\ \/ adenies' = adenies \cup {c} /\ UNCHANGED ahitch
     \/ ahitch' = TRUE /\ UNCHANGED adenies
  /\ UNCHANGED <<alegacy, aenforce, aarmed, abudget, amirror, areplayed, aturn, astop>>

\* Mutant: what shadow mode lets through is mirrored as a denial.
ScopeOp_Deny == "scope_deny"

ScopeOp == IF aenforce THEN "scope_deny" ELSE "scope_deny_shadowed"

\* _mirror_deny_to_audit, the last step of the hook.
PolicyEnds(c) ==
  /\ \/ /\ apolicy[c] = "safeguard" /\ Mirror(c, "safeguard_block")
        /\ apolicy' = [apolicy EXCEPT ![c] = "deny"]
     \/ /\ apolicy[c] = "scope" /\ Mirror(c, ScopeOp)
        /\ apolicy' = [apolicy EXCEPT ![c] = IF aenforce THEN "deny" ELSE "pass"]
  /\ UNCHANGED <<alegacy, aenforce, aarmed, abudget, adenies, areplayed, aturn, astop>>

\* A second invocation under the id of a call is refused, and mirrored as such.
ReplayRejected(c) ==
  /\ aturn = "running" /\ apolicy[c] # "new" /\ c \notin areplayed
  /\ Cardinality(areplayed) < MaxReplays
  /\ areplayed' = areplayed \cup {c}
  /\ Mirror(c, "deny")
  /\ UNCHANGED <<alegacy, aenforce, aarmed, apolicy, abudget, adenies, aturn, astop>>

\* The budget gate, with record_block, in one step.
BudgetGate(c) ==
  /\ aturn = "running" /\ abudget[c] = "new"
  /\ IF aarmed THEN abudget' = [abudget EXCEPT ![c] = "deny"] /\ Mirror(c, "budget_park")
     ELSE abudget' = [abudget EXCEPT ![c] = "pass"] /\ UNCHANGED <<amirror, ahitch>>
  /\ UNCHANGED <<alegacy, aenforce, aarmed, apolicy, adenies, areplayed, aturn, astop>>

\* A turn of this agent crosses the ceiling while its calls go on.
GateArms ==
  /\ aturn = "running" /\ ~aarmed /\ aarmed' = TRUE
  /\ UNCHANGED <<alegacy, aenforce, apolicy, abudget, adenies, amirror, areplayed, aturn,
                 astop, ahitch>>

-----------------------------------------------------------------------------
(* The end of the turn *)

UnderWay(c) == apolicy[c] \in {"safeguard", "scope"}

\* The dispatch of the job returns, after a stop as well; then its row is written.
TurnFinishes ==
  /\ aturn = "running" /\ \A c \in AuditCalls : ~UnderWay(c)
  /\ aturn' = "finished"
  /\ UNCHANGED <<alegacy, aenforce, aarmed, apolicy, abudget, adenies, amirror, areplayed,
                 astop, ahitch>>

RecordJob ==
  /\ aturn = "finished"
  /\ \/ aturn' = "recorded" /\ UNCHANGED ahitch
     \/ aturn' = "lost" /\ ahitch' = TRUE
  /\ UNCHANGED <<alegacy, aenforce, aarmed, apolicy, abudget, adenies, amirror, areplayed,
                 astop>>

\* The task of the runner is cancelled in the middle of the turn (quiesce does
\* so when its grace is over), and the hooks with it: no row is written.
TurnCancelled ==
  /\ aturn = "running" /\ astop # "none"
  /\ aturn' = "cancelled"
  /\ apolicy' = [c \in AuditCalls |-> IF UnderWay(c) THEN "deny" ELSE apolicy[c]]
  /\ ahitch' = (ahitch \/ \E c \in AuditCalls : UnderWay(c))
  /\ UNCHANGED <<alegacy, aenforce, aarmed, abudget, adenies, amirror, areplayed, astop>>

\* The killswitch, and its row, which the host writes with the outcome.
StopDispatched ==
  /\ aturn = "running" /\ astop = "none"
  /\ astop' = "dispatched"
  /\ UNCHANGED <<alegacy, aenforce, aarmed, apolicy, abudget, adenies, amirror, areplayed,
                 aturn, ahitch>>

RecordStop ==
  /\ astop = "dispatched" /\ aturn # "running"
  /\ \/ astop' = "recorded" /\ UNCHANGED ahitch
     \/ astop' = "lost" /\ ahitch' = TRUE
  /\ UNCHANGED <<alegacy, aenforce, aarmed, apolicy, abudget, adenies, amirror, areplayed,
                 aturn>>

AuditNext ==
  \/ \E c \in AuditCalls :
       \/ SafeguardRefuses(c) \/ ScopeAllows(c) \/ ScopeDenies(c) \/ PolicyEnds(c)
       \/ ReplayRejected(c) \/ BudgetGate(c)
  \/ GateArms \/ TurnFinishes \/ RecordJob \/ TurnCancelled \/ StopDispatched \/ RecordStop

AuditSpec == AuditInit /\ [][AuditNext]_auditVars

-----------------------------------------------------------------------------
(* build_reconstruction *)

\* Mutant: the copies of calls that ran are not counted.
DenyOps_Enforced == {"scope_deny"}

DenyOps == {"scope_deny", "scope_deny_shadowed"}

Mirrored == {c \in AuditCalls : amirror[c] \in DenyOps}

\* Mutant: rows are only ever counted by their tool.
Strong_Never == FALSE

\* Rows are joined by decision_id when every authoritative row has one.
Strong == adenies # {} /\ ~alegacy

\* The rows of calls that share the join key of c.
Under(calls, c) ==
  Cardinality({d \in calls : IF Strong THEN d = c ELSE ToolOf[d] = ToolOf[c]})

\* missing and orphan are both nil when the counts of every key agree.
HasRows == aturn = "recorded" \/ adenies # {} \/ \E c \in AuditCalls : amirror[c] # "none"
ChainComplete ==
  HasRows /\ \A c \in AuditCalls : Under(adenies, c) = Under(Mirrored, c)

\* The STOP is joined over the time and the agent of the turn's job row.
StopShown == astop = "recorded" /\ aturn = "recorded"

-----------------------------------------------------------------------------
(* Properties *)

Ran(c) == apolicy[c] = "pass" /\ abudget[c] = "pass"

\* Anti-green-paint: in a chain that is called complete, no denial that scope.db
\* holds has lost its copy, and none is in the copies only; neither failed writes
\* nor cancelled hooks nor two of them together cancel out.
NoGreenPaint ==
  ChainComplete /\ ~alegacy =>
    adenies = {c \in AuditCalls : amirror[c] \in {"scope_deny", "scope_deny_shadowed"}}

\* When all was written, a turn is complete between its calls, shadowed ones
\* included. (Not when another refusal of the call, by the
\* budget gate or of a replay, took the one row that the call has.)
CompleteWhenWritten ==
  /\ ~ahitch /\ HasRows
  /\ \A c \in AuditCalls : ~UnderWay(c)
  /\ \A c \in adenies : amirror[c] \notin {"budget_park", "deny"}
  => ChainComplete

\* The chain is not stricter than what happened: a call that ran is not among
\* its enforced denials.
RanIsNotDenied == \A c \in AuditCalls : Ran(c) => amirror[c] # "scope_deny"

\* No false alarm either, of a lost row or of a denial that did not hold.
NoFalseAlarm == CompleteWhenWritten /\ RanIsNotDenied

\* The verdict complete is given when, and only when, the denials are all there.
ChainIsTrue == NoGreenPaint /\ NoFalseAlarm

\* "A STOPped turn no longer reconstructs as a clean chain that just ends." A turn
\* that was cancelled has no job row to join the stop with: see README, section 6.
StopIsShown ==
  astop = "recorded" /\ aturn \in {"recorded", "cancelled"} /\ ChainComplete => StopShown

=============================================================================
