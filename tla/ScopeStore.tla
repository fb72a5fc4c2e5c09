------------------------------ MODULE ScopeStore ------------------------------
(***************************************************************************)
(* The authorization store of an engagement (policy/scope.py,              *)
(* policy/scope_evaluation.py): generations of immutable rule snapshots in *)
(* scope.db with one head, a live snapshot in every ScopeStore opened on   *)
(* it, and the tool calls that are judged against them and audited.        *)
(*                                                                         *)
(* Every operation is one SQLite transaction and so one action; a          *)
(* transaction that fails and is rolled back changes nothing. Only the     *)
(* research lane gives up the loop, to judge on an executor thread. A      *)
(* target is the set of addresses it names (one host, or a network) and a  *)
(* rule covers a set of addresses; host names, wifi and repository targets *)
(* match by equality and are singletons here. A snapshot's id is a digest  *)
(* of its content, time stamps and predecessor included: here the content  *)
(* and the store that built it. A snapshot keeps its rules as a list to    *)
(* whose end new ones go: here a set of rules, each with the generation    *)
(* that appended it, which orders the rules of a direction. A profile's    *)
(* patterns of one direction, which nothing consumes, are one rule here.   *)
(***************************************************************************)
EXTENDS Integers, FiniteSets

CONSTANTS
  Stores,             \* ScopeStore objects on one scope.db
  Public,             \* addresses the research lane's floor accepts
  Profiles,           \* engagement profiles: [ins, outs: sets of addresses, research: BOOLEAN]
  Adhoc,              \* what an operator may add: [dir, cover, once]
  Requests,           \* what a call may name: sets of targets
  ScopeCalls,         \* tool calls
  NoSnapshot,
  MaxGeneration, MaxRules      \* bounds

ASSUME ScopeAssumption == MaxGeneration \in Nat /\ MaxRules \in Nat

VARIABLES
  stable,             \* scope_snapshots: the rows
  shead,              \* scope_head: a generation
  live,               \* of each store: _snapshot
  owned,              \* of each store: [back, new], a checkpoint and its publication
  scalls,             \* of each call: what it waits for, or how it ended
  sadded,             \* adhoc rules added so far, for their added_at
  srearmed,           \* history: one-shots an operator or a foreign rollback re-armed
  slost               \* history: a generation was built on another than it replaced

scopeVars == <<stable, shead, live, owned, scalls, sadded, srearmed, slost>>

Bootstrap == [gen |-> 0, by |-> NoSnapshot, rules |-> {}, research |-> TRUE]
NewCall == [st |-> "new"]

\* A call that ended: of one that is allowed, the lane, the audit row's verdict and
\* the one-shots it matched.
Ended(ok, via, row, used) ==
  IF ok THEN [st |-> "allowed", via |-> via, row |-> row, used |-> used]
  ELSE [st |-> "denied"]

ScopeInit ==
  /\ stable = {Bootstrap} /\ shead = 0
  /\ live = [s \in Stores |-> Bootstrap]
  /\ owned = [s \in Stores |-> NoSnapshot]
  /\ scalls = [c \in ScopeCalls |-> NewCall]
  /\ sadded = 0 /\ srearmed = {} /\ slost = FALSE

-----------------------------------------------------------------------------
(* Snapshots and verdicts *)

\* The durable head, and what _current_persisted_snapshot takes for it.
Top == CHOOSE n \in stable : n.gen = shead
Persisted(s) == IF live[s].gen = shead THEN live[s] ELSE Top

\* The generation store s builds on n.
Successor(n, s, rules, research) ==
  [gen |-> n.gen + 1, by |-> s, rules |-> rules, research |-> research]

\* The active rules of a direction that cover a target, and the first of them.
Covering(n, dir, t) ==
  {r \in n.rules : r.dir = dir /\ ~r.spent /\ t \subseteq r.cover}
First(rules) == CHOOSE r \in rules : \A q \in rules : r.since <= q.since

\* _check_snapshot: out rules win, then the first in-rule.
Allows(n, asked) ==
  \A t \in asked : Covering(n, "out", t) = {} /\ Covering(n, "in", t) # {}

\* The one-shot rules a call matched, by their added_at.
OneShots(n, asked) ==
  LET hits == {First(Covering(n, "in", t)) : t \in {u \in asked : Covering(n, "in", u) # {}}}
  IN  {r.at : r \in {h \in hits : h.once}}

\* check_research: the engagement's own rules first, then the public floor.
ResearchAllows(n, asked) ==
  \A t \in asked :
    /\ Covering(n, "out", t) = {}
    /\ \/ Covering(n, "in", t) # {}
       \/ n.research /\ Cardinality(t) = 1 /\ t \subseteq Public

\* The generation in which the one-shots a call matched are consumed.
Spend(s, n, ats) ==
  LET spend(r) == [dir |-> r.dir, origin |-> r.origin, cover |-> r.cover, once |-> r.once,
                   at |-> r.at, spent |-> r.spent \/ r.at \in ats, since |-> r.since]
  IN  Successor(n, s, {spend(r) : r \in n.rules}, n.research)

-----------------------------------------------------------------------------
(* Committing a generation *)

\* The one-shots of a snapshot that still admit a call.
Armed(n) == {r.at : r \in {q \in n.rules : q.once /\ ~q.spent}}

\* Mutant: the update of the head is not a compare-and-swap.
Current_Unchecked(s) == live[s].gen <= shead

\* The head is still the generation the new snapshot was built on.
Current(s) == live[s].gen = shead

\* _commit_snapshot. A failure after COMMIT leaves the live snapshot behind.
Commit(s, n, meant) ==
  /\ Current(s) /\ n.gen <= MaxGeneration
  /\ stable' = stable \cup {n} /\ shead' = n.gen
  /\ live' \in {live, [live EXCEPT ![s] = n]}
  /\ srearmed' = IF meant \/ live[s] \notin stable
                 THEN srearmed \cup {at \in Armed(n) \ Armed(Top) : at <= sadded} ELSE srearmed
  /\ slost' = (slost \/ live[s] \in stable \ {Top})

SameKey(r, a) == r.origin = "adhoc" /\ r.dir = a.dir /\ r.cover = a.cover
Without(rules, a) == {r \in rules : ~SameKey(r, a)}

\* add_adhoc: a rule replaces the adhoc rule with its key.
AddAdhoc(s, a) ==
  /\ sadded < MaxRules /\ sadded' = sadded + 1
  /\ LET rule == [dir |-> a.dir, origin |-> "adhoc", cover |-> a.cover, once |-> a.once,
                  at |-> sadded + 1, spent |-> FALSE, since |-> live[s].gen + 1]
     IN  Commit(s, Successor(live[s], s, Without(live[s].rules, a) \cup {rule},
                             live[s].research), FALSE)
  /\ UNCHANGED <<owned, scalls>>

RemoveAdhoc(s, a) ==
  /\ Without(live[s].rules, a) # live[s].rules
  /\ Commit(s, Successor(live[s], s, Without(live[s].rules, a), live[s].research), FALSE)
  /\ UNCHANGED <<owned, scalls, sadded>>

EngagementRules(p, gen) ==
  LET rule(dir, cover) == [dir |-> dir, origin |-> "engagement", cover |-> cover,
                           once |-> FALSE, at |-> 0, spent |-> FALSE, since |-> gen]
  IN  {r \in {rule("in", p.ins), rule("out", p.outs)} : r.cover # {}}

\* checkpoint, then prepare_engagement_rules: nothing is committed yet.
Prepare(s, p) ==
  /\ owned[s] = NoSnapshot /\ Current(s)
  /\ owned' = [owned EXCEPT ![s] =
       [back |-> live[s],
        new |-> Successor(live[s], s,
                  {r \in live[s].rules : r.origin # "engagement"}
                    \cup EngagementRules(p, live[s].gen + 1), p.research)]]
  /\ UNCHANGED <<stable, shead, live, scalls, sadded, srearmed, slost>>

\* publish_snapshot: only on top of the snapshot it was prepared against.
Publish(s) ==
  /\ owned[s] # NoSnapshot /\ owned[s].back = live[s]
  /\ Commit(s, owned[s].new, FALSE)
  /\ UNCHANGED <<owned, scalls, sadded>>

\* Mutant: whatever the head is, it is moved back to the checkpoint.
RollBack_Unowned(s) ==
  /\ owned[s] # NoSnapshot /\ owned[s].back \in stable
  /\ stable' = {n \in stable : n.gen <= owned[s].back.gen}
  /\ shead' = owned[s].back.gen
  /\ live' = [live EXCEPT ![s] = owned[s].back]
  /\ owned' = [owned EXCEPT ![s] = NoSnapshot]
  /\ UNCHANGED <<scalls, sadded, srearmed, slost>>

\* restore_checkpoint: the owner undoes its own publication, and nobody else's
\* work; on any other head it raises.
RollBack(s) ==
  /\ owned[s] # NoSnapshot
  /\ \/ /\ Top = owned[s].back
        /\ live' = [live EXCEPT ![s] = Top]
        /\ UNCHANGED <<stable, shead>>
     \/ /\ Top = owned[s].new /\ owned[s].back \in stable
        /\ stable' = {n \in stable : n.gen <= owned[s].back.gen}
        /\ shead' = owned[s].back.gen
        /\ live' = [live EXCEPT ![s] = owned[s].back]
     \/ /\ Top \notin {owned[s].back, owned[s].new}
        /\ UNCHANGED <<stable, shead, live>>
  /\ owned' = [owned EXCEPT ![s] = NoSnapshot]
  /\ UNCHANGED <<scalls, sadded, srearmed, slost>>

\* The caller is content with what it published.
Settle(s) ==
  /\ owned[s] # NoSnapshot /\ Top # owned[s].back
  /\ owned' = [owned EXCEPT ![s] = NoSnapshot]
  /\ UNCHANGED <<stable, shead, live, scalls, sadded, srearmed, slost>>

\* restore_snapshot: the rules of an earlier generation, one-shots included.
Restore(s, old) ==
  /\ old \in stable /\ old # live[s]
  /\ Commit(s, Successor(live[s], s, old.rules, old.research), TRUE)
  /\ UNCHANGED <<owned, scalls, sadded>>

\* A process opens the store anew; what its calls awaited is gone.
Reopen(s) ==
  /\ live[s] # Top \/ owned[s] # NoSnapshot
  /\ live' = [live EXCEPT ![s] = Top]
  /\ owned' = [owned EXCEPT ![s] = NoSnapshot]
  /\ scalls' = [c \in ScopeCalls |->
       IF scalls[c].st \in {"judging", "judged"} /\ scalls[c].by = s
       THEN [st |-> "lost"] ELSE scalls[c]]
  /\ UNCHANGED <<stable, shead, sadded, srearmed, slost>>

-----------------------------------------------------------------------------
(* Judging a call *)

\* Mutant: the audit row is best effort.
Unaudited_Allowed(c, ok) == scalls' = [scalls EXCEPT ![c] = Ended(ok, "none", "none", {})]

\* A row that cannot be written denies the call.
Unaudited(c, ok) == scalls' = [scalls EXCEPT ![c] = Ended(FALSE, "none", "none", {})]

Row(ok) == IF ok THEN "allow" ELSE "deny"

\* authorize_and_log: judged against the durable head, audited and its
\* one-shots consumed in one transaction.
Authorize(s, c, asked) ==
  LET pinned == Top
      ok     == Allows(pinned, asked)
      used   == IF ok THEN OneShots(pinned, asked) ELSE {}
      next   == IF used = {} THEN pinned ELSE Spend(s, pinned, used)
  IN  /\ scalls[c].st = "new" /\ next.gen <= MaxGeneration
      /\ \/ /\ stable' = stable \cup {next} /\ shead' = next.gen
            /\ live' = [live EXCEPT ![s] = next]
            /\ scalls' = [scalls EXCEPT ![c] = Ended(ok, "strict", Row(Allows(Top, asked)), used)]
         \/ Unaudited(c, ok) /\ UNCHANGED <<stable, shead, live>>
      /\ UNCHANGED <<owned, sadded, srearmed, slost>>

\* A research tool: the rules are judged on an executor thread.
StartResearch(s, c, asked) ==
  /\ scalls[c].st = "new" /\ live[s].research
  /\ scalls' = [scalls EXCEPT ![c] = [st |-> "judging", by |-> s, asked |-> asked]]
  /\ UNCHANGED <<stable, shead, live, owned, sadded, srearmed, slost>>

\* check_research pins the live snapshot of the moment the thread runs.
Judge(c) ==
  /\ scalls[c].st = "judging"
  /\ LET s == scalls[c].by
         asked == scalls[c].asked
         ok == ResearchAllows(live[s], asked)
     IN  scalls' = [scalls EXCEPT ![c] =
           [st |-> "judged", by |-> s, asked |-> asked, ok |-> ok,
            used |-> IF ok THEN OneShots(live[s], asked) ELSE {}]]
  /\ UNCHANGED <<stable, shead, live, owned, sadded, srearmed, slost>>

\* log_decision: the row names the head of now, which becomes the live snapshot.
Log(s, c, ok, ended) ==
  /\ \/ scalls' = [scalls EXCEPT ![c] = ended] /\ live' = [live EXCEPT ![s] = Persisted(s)]
     \/ Unaudited(c, ok) /\ UNCHANGED live
  /\ UNCHANGED <<stable, shead, owned, sadded, srearmed, slost>>

EndResearch(c) ==
  /\ scalls[c].st = "judged"
  /\ LET call == scalls[c]
     IN  Log(call.by, c, call.ok,
             Ended(call.ok, "research",
                   Row(ResearchAllows(Persisted(call.by), call.asked)), call.used))

\* A verdict that needs no rule: an unclassified tool, a refused extraction, a
\* tool without targets.
LogFixed(s, c) ==
  /\ scalls[c].st = "new"
  /\ \E ok \in BOOLEAN : Log(s, c, ok, Ended(ok, "fixed", Row(ok), {}))

ScopeNext ==
  \/ \E s \in Stores :
       \/ \E a \in Adhoc : AddAdhoc(s, a) \/ RemoveAdhoc(s, a)
       \/ \E p \in Profiles : Prepare(s, p)
       \/ Publish(s) \/ RollBack(s) \/ Settle(s) \/ Reopen(s)
       \/ \E old \in stable : Restore(s, old)
       \/ \E c \in ScopeCalls :
            \/ \E asked \in Requests : Authorize(s, c, asked) \/ StartResearch(s, c, asked)
            \/ LogFixed(s, c)
  \/ \E c \in ScopeCalls : Judge(c) \/ EndResearch(c)

ScopeSpec == ScopeInit /\ [][ScopeNext]_scopeVars

-----------------------------------------------------------------------------
(* Properties *)

Uses(lanes, at) ==
  Cardinality({c \in ScopeCalls : /\ scalls[c].st = "allowed"
                                  /\ scalls[c].via \in lanes /\ at \in scalls[c].used})

\* No call runs without a row of the audit table, and in the strict lane the
\* snapshot the row names is one that allows it, whatever another store commits,
\* rolls back or restores meanwhile.
AllowedOnRecord ==
  \A c \in ScopeCalls : scalls[c].st = "allowed" =>
     scalls[c].row \in (IF scalls[c].via = "research" THEN {"allow", "deny"} ELSE {"allow"})

\* In the strict lane a one-shot rule admits one call: not two stores with the
\* same live snapshot, not a roll back of a publication made around the call.
\* Only an operator's restore of an older generation re-arms it, or a store that
\* still holds a generation another store rolled back.
OneShotOnce ==
  \A at \in 1..MaxRules : at \notin srearmed => Uses({"strict"}, at) <= 1

\* A generation is built on the one it replaces, so no writer's rule is lost to
\* another's; the exception is again a store whose generation was rolled back.
NoLostRule == ~slost

\* The rules of all the stores are as if one store had made them.
RulesAreSerial == OneShotOnce /\ NoLostRule
=============================================================================
