------------------------------ MODULE PolicyHooks ------------------------------
(***************************************************************************)
(* The tool hooks of one agent (daemon/_runner_factory.py,                 *)
(* daemon/_policy_hook_adapter.py): the SDK may deliver a tool call more   *)
(* than once, at the same time or after the hook was cancelled, and every  *)
(* delivery must be answered without repeating the effects of the policy,  *)
(* a safeguard strike or an authorization.                                 *)
(*                                                                         *)
(* One closure with its replay cache. A call id is delivered with an       *)
(* invocation; what the policies say of each invocation is its kind:       *)
(*   prohibited  matches a blocked intent: a strike                        *)
(*   held        refused by the posture gate, no strike                    *)
(*   clean       no scope rule needed, or an MCP tool: no scope check here  *)
(*   scoped      judged against the scope in one step                       *)
(*   probing     judged in the research lane, across an await               *)
(***************************************************************************)
EXTENDS Integers, FiniteSets

CONSTANTS
  ToolIds,            \* tool_use_id values
  Deliveries,         \* invocations of the hook
  Capacity,           \* HookReplayCache: ids it will ever hold
  HaltAt,             \* halt_threshold
  MaxResets           \* bound: times the runner is replaced

ASSUME HooksAssumption == {Capacity, HaltAt, MaxResets} \subseteq Nat

VARIABLES
  kentry,             \* of each id: none, or [kind, out], out "open" until it is set
  kstrikes,           \* total_safeguard_blocks
  kpc,                \* of each delivery: where it is
  kcall,              \* of each delivery: [id, kind, out]
  kenforce,           \* _enforce_builtin_policy: scope denials block, or are only logged
  kresets,
  keffects            \* history: of each id, strikes and authorizations it caused

hooksVars == <<kentry, kstrikes, kpc, kcall, kenforce, kresets, keffects>>

Kinds == {"prohibited", "held", "clean", "scoped", "probing"}
NoEntry == [kind |-> "none", out |-> "none"]
NoDelivery == [id |-> "none", kind |-> "none", out |-> "none"]
Answers == {"allow", "deny"}

HooksInit ==
  /\ kentry = [i \in ToolIds |-> NoEntry] /\ kstrikes = 0
  /\ kpc = [d \in Deliveries |-> "new"] /\ kcall = [d \in Deliveries |-> NoDelivery]
  /\ kenforce \in BOOLEAN /\ kresets = 0
  /\ keffects = [i \in ToolIds |-> 0]

Held == {i \in ToolIds : kentry[i] # NoEntry}
Halted == kstrikes >= HaltAt
Effect(i, n) == keffects' = [keffects EXCEPT ![i] = @ + n]

-----------------------------------------------------------------------------
(* Answers of a delivery *)

\* A delivery ends; an owner's answer is set for every replay of its id.
Answer(d, id, kind, out) ==
  /\ kpc' = [kpc EXCEPT ![d] = "done"]
  /\ kcall' = [kcall EXCEPT ![d] = [id |-> id, kind |-> kind, out |-> out]]

\* complete
Complete(d, id, kind, out) ==
  /\ Answer(d, id, kind, out)
  /\ kentry' = [kentry EXCEPT ![id] = [kind |-> kind, out |-> out]]

\* The owner of an id goes on to an await; pend is what it will answer.
Await(d, id, kind, pend, at) ==
  /\ kpc' = [kpc EXCEPT ![d] = at]
  /\ kcall' = [kcall EXCEPT ![d] = [id |-> id, kind |-> kind, out |-> pend]]
  /\ kentry' = [kentry EXCEPT ![id] = [kind |-> kind, out |-> "open"]]

\* Evaluation of an owned invocation up to its first await: the safeguards, then
\* for a built-in tool the scope. Each kind of refusal is recorded across an await.
Evaluate(d, id, kind) ==
  \/ /\ Halted
     /\ Await(d, id, kind, "deny", "recording")
     /\ UNCHANGED <<kstrikes, keffects>>
  \/ /\ ~Halted /\ kind = "prohibited"
     /\ kstrikes' = kstrikes + 1 /\ Effect(id, 1)
     /\ Await(d, id, kind, "deny", "recording")
  \/ /\ ~Halted /\ kind = "held"
     /\ Await(d, id, kind, "deny", "recording")
     /\ UNCHANGED <<kstrikes, keffects>>
  \/ /\ ~Halted /\ kind = "clean"
     /\ Complete(d, id, kind, "allow")
     /\ UNCHANGED <<kstrikes, keffects>>
  \/ /\ ~Halted /\ kind = "scoped" /\ Effect(id, 1)
     /\ \/ Complete(d, id, kind, "allow")
        \/ Await(d, id, kind, IF kenforce THEN "deny" ELSE "allow", "recording")
     /\ UNCHANGED kstrikes
  \/ /\ ~Halted /\ kind = "scoped"         \* the store raises: fail, in the finally
     /\ kentry' = [kentry EXCEPT ![id] = [kind |-> kind, out |-> "deny"]]
     /\ kpc' = [kpc EXCEPT ![d] = "cancelled"]
     /\ UNCHANGED <<kcall, kstrikes, keffects>>
  \/ /\ ~Halted /\ kind = "probing"
     /\ Await(d, id, kind, "none", "probing")
     /\ UNCHANGED <<kstrikes, keffects>>

\* Mutant: an id whose hook is under way is answered with no decision.
Replay_Eager(d, id, kind) ==
  /\ kentry[id].kind = kind
  /\ Answer(d, id, kind, IF kentry[id].out = "open" THEN "allow" ELSE kentry[id].out)

\* The id is known: the same invocation waits for the owner's answer.
Replay(d, id, kind) ==
  /\ kentry[id].kind = kind
  /\ \/ kentry[id].out # "open" /\ Answer(d, id, kind, kentry[id].out)
     \/ /\ kentry[id].out = "open"
        /\ kpc' = [kpc EXCEPT ![d] = "waiting"]
        /\ kcall' = [kcall EXCEPT ![d] = [id |-> id, kind |-> kind, out |-> "none"]]

\* The hook is called; reserve answers a replay, refuses another invocation
\* under a known id and any new id once the cache is full, or makes an owner.
DeliverHook(d, id, kind) ==
  /\ kpc[d] = "new"
  /\ \/ /\ id \in Held
        /\ \/ Replay(d, id, kind)
           \/ kentry[id].kind # kind /\ Answer(d, id, kind, "deny")
        /\ UNCHANGED <<kentry, kstrikes, keffects>>
     \/ /\ id \notin Held /\ Cardinality(Held) >= Capacity
        /\ Answer(d, id, kind, "deny")
        /\ UNCHANGED <<kentry, kstrikes, keffects>>
     \/ /\ id \notin Held /\ Cardinality(Held) < Capacity
        /\ Evaluate(d, id, kind)
  /\ UNCHANGED <<kenforce, kresets>>

\* The refusal is on the record: the owner answers.
Recorded(d) ==
  /\ kpc[d] = "recording"
  /\ Complete(d, kcall[d].id, kcall[d].kind, kcall[d].out)
  /\ UNCHANGED <<kstrikes, kenforce, kresets, keffects>>

\* The research lane answers; a refusal is then recorded.
Probed(d) ==
  /\ kpc[d] = "probing" /\ Effect(kcall[d].id, 1)
  /\ \/ Complete(d, kcall[d].id, kcall[d].kind, "allow")
     \/ Await(d, kcall[d].id, kcall[d].kind, IF kenforce THEN "deny" ELSE "allow", "recording")
  /\ UNCHANGED <<kstrikes, kenforce, kresets>>

\* The event of the entry is set and its waiters resume.
Resumed(d) ==
  /\ kpc[d] = "waiting" /\ kentry[kcall[d].id].out \in Answers
  /\ Answer(d, kcall[d].id, kcall[d].kind, kentry[kcall[d].id].out)
  /\ UNCHANGED <<kentry, kstrikes, kenforce, kresets, keffects>>

\* Mutant: a hook that did not complete frees its id for the retry.
Fail_Freed(id) == kentry' = [kentry EXCEPT ![id] = NoEntry]

\* fail: an owner that did not complete leaves a refusal behind.
Fail(id) == kentry' = [kentry EXCEPT ![id].out = "deny"]

\* The turn is interrupted at an await of the hook.
HookCancelled(d) ==
  /\ \/ kpc[d] \in {"recording", "probing"} /\ Fail(kcall[d].id)
     \/ kpc[d] = "waiting" /\ UNCHANGED kentry
  /\ kpc' = [kpc EXCEPT ![d] = "cancelled"]
  /\ UNCHANGED <<kstrikes, kcall, kenforce, kresets, keffects>>

\* The agent is started again while hooks of its old runner still run: they look the
\* runner up by name, and the new one has no strikes.
RunnerReplaced ==
  /\ kstrikes > 0 /\ kresets < MaxResets
  /\ kstrikes' = 0 /\ kresets' = kresets + 1
  /\ UNCHANGED <<kentry, kpc, kcall, kenforce, keffects>>

HooksNext ==
  \/ \E d \in Deliveries :
       \/ \E id \in ToolIds, kind \in Kinds : DeliverHook(d, id, kind)
       \/ Recorded(d) \/ Probed(d) \/ Resumed(d) \/ HookCancelled(d)
  \/ RunnerReplaced

HooksSpec == HooksInit /\ [][HooksNext]_hooksVars

-----------------------------------------------------------------------------
(* Properties *)

\* One tool call costs at most one strike and one authorization, however often
\* it is delivered and wherever its hook was cut off.
EffectsOncePerId == \A i \in ToolIds : keffects[i] <= 1

\* Two deliveries of one tool call are never answered differently: neither a
\* retry nor a delivery beside the first gets a call through that was refused.
SameAnswer ==
  \A d, e \in Deliveries :
    /\ kpc[d] = "done" /\ kpc[e] = "done"
    /\ kcall[d].id = kcall[e].id /\ kcall[d].kind = kcall[e].kind
    /\ kentry[kcall[d].id].kind = kcall[d].kind
    => kcall[d].out = kcall[e].out

\* A tool call is decided once, with one set of effects and one answer.
DecidedOnce == EffectsOncePerId /\ SameAnswer

=============================================================================
