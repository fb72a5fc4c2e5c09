----------------------------- MODULE PolicyProofs -----------------------------
(***************************************************************************)
(* Proofs about the decisions of the policies: one decision for each tool  *)
(* call however often its hook is delivered, a consent that binds what is  *)
(* run, and a record of denials that tells the truth. They hold for any    *)
(* number of calls, ids and deliveries, any cache size and threshold, and  *)
(* any classification of the commands.                                     *)
(***************************************************************************)
EXTENDS PolicyHooks, AuditTrail, ApprovalGates, ScopeStore, CountingLemmas

-----------------------------------------------------------------------------
(* PolicyHooks: DecidedOnce                                                *)

HookEntries == {NoEntry} \cup [kind : Kinds, out : Answers \cup {"open"}]
HookCalls == [id : ToolIds, kind : Kinds, out : Answers \cup {"none"}]

Owner(d) == kpc[d] \in {"recording", "probing"}
Known(d) == Owner(d) \/ kpc[d] \in {"waiting", "done"}

(* The answer of a delivery that is done is the one of its id's entry, if  *)
(* it was delivered with that entry's invocation; an id without an entry   *)
(* has been answered only once the cache was full.                         *)
Consistent(d) ==
  LET c == kcall[d]
  IN  /\ c.out \in Answers
      /\ IF kentry[c.id] = NoEntry THEN Cardinality(Held) >= Capacity
         ELSE kentry[c.id].kind = c.kind => kentry[c.id].out = c.out

(* The inductive invariant. Each open entry has one owner at most, which   *)
(* has had its effect exactly when it does not probe any more; the cache   *)
(* only fills, so that an id refused for want of room never gets an entry. *)
HooksInv ==
  /\ kentry \in [ToolIds -> HookEntries]
  /\ keffects \in [ToolIds -> {0, 1}]
  /\ kpc \in [Deliveries -> {"new", "recording", "probing", "waiting", "done", "cancelled"}]
  /\ kcall \in [Deliveries -> {NoDelivery} \cup HookCalls]
  /\ IsFiniteSet(Held)
  /\ \A d \in Deliveries : Known(d) => kcall[d] \in HookCalls
  /\ \A i \in ToolIds : kentry[i] = NoEntry => keffects[i] = 0
  /\ \A d \in Deliveries : Owner(d) =>
       /\ kentry[kcall[d].id] = [kind |-> kcall[d].kind, out |-> "open"]
       /\ \A e \in Deliveries : Owner(e) /\ kcall[e].id = kcall[d].id => e = d
  /\ \A d \in Deliveries : kpc[d] = "recording" => kcall[d].out \in Answers
  /\ \A d \in Deliveries : kpc[d] = "probing" => keffects[kcall[d].id] = 0
  /\ \A d \in Deliveries : kpc[d] = "done" => Consistent(d)

LEMMA DecidedFollows == HooksInv => DecidedOnce
<1> SUFFICES ASSUME HooksInv PROVE DecidedOnce
  OBVIOUS
<1>1. EffectsOncePerId
  BY DEF HooksInv, EffectsOncePerId
<1>2. SameAnswer
  <2> SUFFICES ASSUME NEW d \in Deliveries, NEW e \in Deliveries, kpc[d] = "done", kpc[e] = "done",
                      kcall[d].id = kcall[e].id, kcall[d].kind = kcall[e].kind,
                      kentry[kcall[d].id].kind = kcall[d].kind
               PROVE  kcall[d].out = kcall[e].out
    BY DEF SameAnswer
  <2>1. Consistent(d) /\ Consistent(e) /\ kcall[d] \in HookCalls
    BY DEF HooksInv, Known
  <2>2. kentry[kcall[d].id] # NoEntry
    BY <2>1 DEF HookCalls, Kinds, NoEntry
  <2> QED BY <2>1, <2>2 DEF Consistent
<1> QED BY <1>1, <1>2 DEF DecidedOnce

LEMMA HooksInit_Inv == HooksInit => HooksInv
<1> SUFFICES ASSUME HooksInit PROVE HooksInv
  OBVIOUS
<1>1. Held = {}
  BY DEF HooksInit, Held
<1>2. IsFiniteSet(Held)
  BY <1>1, FS_EmptySet
<1> QED BY <1>2 DEF HooksInit, HooksInv, HookEntries, Known, Owner

(* What one delivery does to the rest: nothing, where no entry changes.    *)
LEMMA AnswerKeeps ==
  ASSUME HooksInv, NEW d \in Deliveries, NEW id \in ToolIds, NEW kind \in Kinds, NEW out \in Answers,
         Answer(d, id, kind, out), UNCHANGED <<kentry, keffects>>,
         IF kentry[id] = NoEntry THEN Cardinality(Held) >= Capacity
         ELSE kentry[id].kind = kind => kentry[id].out = out
  PROVE  HooksInv'
<1> DEFINE c == [id |-> id, kind |-> kind, out |-> out]
<1>1. /\ kpc' = [kpc EXCEPT ![d] = "done"] /\ kcall' = [kcall EXCEPT ![d] = c]
      /\ c \in HookCalls /\ c.id = id /\ c.kind = kind /\ c.out = out
  BY DEF Answer, HookCalls
<1> HIDE DEF c
<1>2. /\ kpc' \in [Deliveries -> {"new", "recording", "probing", "waiting", "done", "cancelled"}]
      /\ kcall' \in [Deliveries -> {NoDelivery} \cup HookCalls]
      /\ \A e \in Deliveries : /\ kpc'[e] = IF e = d THEN "done" ELSE kpc[e]
                               /\ kcall'[e] = IF e = d THEN c ELSE kcall[e]
  BY <1>1 DEF HooksInv
<1>3. Held' = Held
  BY DEF Held
<1>4. \A e \in Deliveries : kpc'[e] = "done" => Consistent(e)'
  BY <1>1, <1>2, <1>3 DEF HooksInv, Consistent
<1> QED BY <1>1, <1>2, <1>3, <1>4 DEF HooksInv, Owner, Known

(* One step of a delivery that leaves the entries alone.                   *)
Steps(d, at, c) == kpc' = [kpc EXCEPT ![d] = at] /\ kcall' = [kcall EXCEPT ![d] = c]

(* A delivery that only waits, or stops waiting.                           *)
LEMMA WaitKeeps ==
  ASSUME HooksInv, NEW d \in Deliveries, NEW at \in {"waiting", "cancelled"},
         NEW c \in {NoDelivery} \cup HookCalls, at = "waiting" => c \in HookCalls,
         Steps(d, at, c), UNCHANGED <<kentry, keffects>>
  PROVE  HooksInv'
<1>1. /\ kpc' \in [Deliveries -> {"new", "recording", "probing", "waiting", "done", "cancelled"}]
      /\ kcall' \in [Deliveries -> {NoDelivery} \cup HookCalls]
      /\ \A e \in Deliveries : /\ kpc'[e] = IF e = d THEN at ELSE kpc[e]
                               /\ kcall'[e] = IF e = d THEN c ELSE kcall[e]
  BY DEF HooksInv, Steps
<1>2. Held' = Held
  BY DEF Held
<1>3. \A e \in Deliveries : kpc'[e] = "done" => Consistent(e)'
  BY <1>1, <1>2 DEF HooksInv, Consistent
<1> QED BY <1>1, <1>2, <1>3 DEF HooksInv, Owner, Known

(* One step of a delivery that sets an entry, and where it goes.           *)
SetsEntry(d, id, n, at, c) ==
  /\ kentry' = [kentry EXCEPT ![id] = n]
  /\ kpc' = [kpc EXCEPT ![d] = at] /\ kcall' = [kcall EXCEPT ![d] = c]

(* The delivery may set the entry of this id: as its owner, or as the      *)
(* first for which there is room.                                          *)
MaySet(d, id, kind) ==
  \/ kentry[id] = NoEntry /\ Cardinality(Held) < Capacity /\ ~Owner(d)
  \/ Owner(d) /\ kcall[d].id = id /\ kcall[d].kind = kind

(* No delivery that is done was answered from an entry that may be set,    *)
(* and no other one owns it.                                               *)
LEMMA SetEntry ==
  ASSUME HooksInv, NEW d \in Deliveries, NEW id \in ToolIds, NEW n \in HookEntries,
         MaySet(d, id, n.kind), n # NoEntry, NEW at, NEW c, SetsEntry(d, id, n, at, c)
  PROVE  /\ kentry' \in [ToolIds -> HookEntries] /\ IsFiniteSet(Held)'
         /\ kentry'[id] = n
         /\ \A i \in ToolIds : i # id => kentry'[i] = kentry[i]
         /\ Cardinality(Held') >= Cardinality(Held)
         /\ \A e \in Deliveries : Owner(e) /\ e # d => kcall[e].id # id
         /\ \A e \in Deliveries : kpc[e] = "done" => kcall[e].id # id \/ kcall[e].kind # n.kind
<1>1. /\ kentry' \in [ToolIds -> HookEntries] /\ kentry'[id] = n
      /\ \A i \in ToolIds : i # id => kentry'[i] = kentry[i]
  BY DEF HooksInv, SetsEntry
<1>2. Held' = Held \cup {id}
  BY <1>1 DEF Held
<1>3. IsFiniteSet(Held)' /\ Cardinality(Held') >= Cardinality(Held)
  <2>1. IsFiniteSet(Held)
    BY DEF HooksInv
  <2>2. Cardinality(Held) \in Nat
    BY <2>1, FS_CardinalityType
  <2>3. /\ IsFiniteSet(Held \cup {id})
        /\ Cardinality(Held \cup {id}) =
             IF id \in Held THEN Cardinality(Held) ELSE Cardinality(Held) + 1
    BY <2>1, FS_AddElement
  <2> QED BY <1>2, <2>2, <2>3
<1>4. \A e \in Deliveries : Owner(e) /\ e # d => kcall[e].id # id
  <2> SUFFICES ASSUME NEW e \in Deliveries, Owner(e), e # d, kcall[e].id = id PROVE FALSE
    OBVIOUS
  <2>1. kentry[id] = [kind |-> kcall[e].kind, out |-> "open"]
    BY DEF HooksInv
  <2>2. kentry[id] # NoEntry
    BY <2>1 DEF NoEntry
  <2> QED BY <2>2 DEF MaySet, HooksInv
<1>5. \A e \in Deliveries : kpc[e] = "done" => kcall[e].id # id \/ kcall[e].kind # n.kind
  <2> SUFFICES ASSUME NEW e \in Deliveries, kpc[e] = "done", kcall[e].id = id, kcall[e].kind = n.kind
               PROVE  FALSE
    OBVIOUS
  <2>1. Consistent(e)
    BY DEF HooksInv
  <2>2. CASE kentry[id] = NoEntry /\ Cardinality(Held) < Capacity
    <3>1. Cardinality(Held) \in Nat /\ Capacity \in Nat
      BY FS_CardinalityType, HooksAssumption DEF HooksInv
    <3> QED BY <2>1, <2>2, <3>1 DEF Consistent
  <2>3. CASE Owner(d) /\ kcall[d].id = id /\ kcall[d].kind = n.kind
    <3>1. kentry[id] = [kind |-> n.kind, out |-> "open"]
      BY <2>3 DEF HooksInv
    <3>2. kentry[id] # NoEntry /\ kentry[id].kind = n.kind /\ kentry[id].out = "open"
      BY <3>1 DEF NoEntry
    <3>3. "open" \notin Answers
      BY DEF Answers
    <3> QED BY <2>1, <3>2, <3>3 DEF Consistent
  <2> QED BY <2>2, <2>3 DEF MaySet
<1> QED BY <1>1, <1>3, <1>4, <1>5

(* A delivery that sets the entry of its id goes on as its owner, while    *)
(* the entry is open, or comes to an end with it.                          *)
LEMMA SetKeeps ==
  ASSUME HooksInv, NEW d \in Deliveries, NEW id \in ToolIds, NEW n \in HookEntries,
         MaySet(d, id, n.kind), n # NoEntry,
         NEW at \in {"recording", "probing", "done", "cancelled"},
         NEW c \in {NoDelivery} \cup HookCalls,
         at # "cancelled" => c \in HookCalls /\ c.id = id /\ c.kind = n.kind,
         SetsEntry(d, id, n, at, c),
         at \in {"recording", "probing"} => n.out = "open",
         at = "done" => n.out \in Answers /\ c.out = n.out,
         at = "recording" => c.out \in Answers,
         keffects' \in [ToolIds -> {0, 1}],
         \A i \in ToolIds : i # id => keffects'[i] = keffects[i],
         at = "probing" => keffects'[id] = 0
  PROVE  HooksInv'
<1>1. /\ kpc' \in [Deliveries -> {"new", "recording", "probing", "waiting", "done", "cancelled"}]
      /\ kcall' \in [Deliveries -> {NoDelivery} \cup HookCalls]
      /\ \A e \in Deliveries : /\ kpc'[e] = IF e = d THEN at ELSE kpc[e]
                               /\ kcall'[e] = IF e = d THEN c ELSE kcall[e]
  BY DEF HooksInv, SetsEntry
<1>2. /\ kentry' \in [ToolIds -> HookEntries] /\ IsFiniteSet(Held)'
      /\ kentry'[id] = n
      /\ \A i \in ToolIds : i # id => kentry'[i] = kentry[i]
      /\ Cardinality(Held') >= Cardinality(Held)
      /\ \A e \in Deliveries : Owner(e) /\ e # d => kcall[e].id # id
      /\ \A e \in Deliveries : kpc[e] = "done" => kcall[e].id # id \/ kcall[e].kind # n.kind
  BY SetEntry
<1>3. \A e \in Deliveries : Known(e)' => kcall'[e] \in HookCalls
  <2>1. Known(d)' => c \in HookCalls
    BY <1>1 DEF Known, Owner
  <2>2. \A e \in Deliveries : e # d /\ Known(e)' => Known(e)
    BY <1>1 DEF Known, Owner
  <2> QED BY <1>1, <2>1, <2>2 DEF HooksInv
<1>4. \A e \in Deliveries : Owner(e)' =>
        /\ kentry'[kcall'[e].id] = [kind |-> kcall'[e].kind, out |-> "open"]
        /\ \A f \in Deliveries : Owner(f)' /\ kcall'[f].id = kcall'[e].id => f = e
  <2>1. \A e \in Deliveries : e # d /\ Owner(e)' =>
          /\ Owner(e) /\ kcall'[e] = kcall[e] /\ kcall[e].id # id /\ kcall[e].id \in ToolIds
    BY <1>1, <1>2 DEF HooksInv, Owner, Known, HookCalls
  <2>2. Owner(d)' => kcall'[d] = c /\ c.id = id /\ c.kind = n.kind /\ n.out = "open"
    BY <1>1 DEF Owner
  <2>3. n.out = "open" => n = [kind |-> n.kind, out |-> "open"]
    BY DEF HookEntries, NoEntry
  <2> QED BY <1>2, <2>1, <2>2, <2>3 DEF HooksInv
<1>5. \A e \in Deliveries : kpc'[e] = "done" => Consistent(e)'
  <2> SUFFICES ASSUME NEW e \in Deliveries, kpc'[e] = "done" PROVE Consistent(e)'
    OBVIOUS
  <2>1. CASE e = d
    <3>1. at = "done" /\ kcall'[e] = c /\ c.id = id /\ c.kind = n.kind /\ c.out = n.out /\ n.out \in Answers
      BY <1>1, <2>1
    <3> QED BY <1>2, <3>1 DEF Consistent
  <2>2. CASE e # d
    <3>1. kpc[e] = "done" /\ kcall'[e] = kcall[e] /\ Consistent(e) /\ kcall[e].id \in ToolIds
      BY <1>1, <2>2 DEF HooksInv, Known, HookCalls
    <3>2. CASE kcall[e].id # id
      <4>1. Cardinality(Held) \in Nat /\ Cardinality(Held') \in Nat /\ Capacity \in Nat
        BY <1>2, FS_CardinalityType, HooksAssumption DEF HooksInv
      <4>2. kentry'[kcall[e].id] = kentry[kcall[e].id]
        BY <1>2, <3>1, <3>2
      <4> QED BY <1>2, <3>1, <4>1, <4>2 DEF Consistent
    <3>3. CASE kcall[e].id = id
      <4>1. kcall[e].kind # n.kind /\ kentry'[id].kind = n.kind
        BY <1>2, <3>1, <3>3
      <4> QED BY <1>2, <3>1, <3>3, <4>1 DEF Consistent
    <3> QED BY <3>2, <3>3
  <2> QED BY <2>1, <2>2
<1>6. \A i \in ToolIds : kentry'[i] = NoEntry => keffects'[i] = 0
  BY <1>2 DEF HooksInv
<1>7. \A e \in Deliveries : kpc'[e] = "recording" => kcall'[e].out \in Answers
  BY <1>1 DEF HooksInv
<1>8. \A e \in Deliveries : kpc'[e] = "probing" => keffects'[kcall'[e].id] = 0
  <2>1. \A e \in Deliveries : e # d /\ kpc[e] = "probing" => kcall[e].id \in ToolIds /\ kcall[e].id # id
    BY <1>2 DEF HooksInv, Owner, Known, HookCalls
  <2> QED BY <1>1, <2>1 DEF HooksInv
<1> QED BY <1>1, <1>2, <1>3, <1>4, <1>5, <1>6, <1>7, <1>8 DEF HooksInv

(* Evaluation of an invocation for whose id there is no entry yet.         *)
LEMMA EvaluateKeeps ==
  ASSUME HooksInv, NEW d \in Deliveries, NEW id \in ToolIds, NEW kind \in Kinds,
         kpc[d] = "new", id \notin Held, Cardinality(Held) < Capacity, Evaluate(d, id, kind)
  PROVE  HooksInv'
<1>1. MaySet(d, id, kind) /\ kentry[id] = NoEntry /\ keffects[id] = 0
  BY DEF MaySet, Held, Owner, HooksInv
<1>2. \/ UNCHANGED keffects
      \/ keffects' = [keffects EXCEPT ![id] = keffects[id] + 1]
  BY DEF Evaluate, Effect
<1>3. /\ keffects' \in [ToolIds -> {0, 1}]
      /\ \A i \in ToolIds : i # id => keffects'[i] = keffects[i]
  BY <1>1, <1>2 DEF HooksInv
<1>4. CASE \E out \in Answers : Complete(d, id, kind, out)
  <2> PICK out \in Answers : Complete(d, id, kind, out)
    BY <1>4
  <2> DEFINE c == [id |-> id, kind |-> kind, out |-> out]
            n == [kind |-> kind, out |-> out]
  <2>1. /\ c \in HookCalls /\ c.id = id /\ c.kind = kind /\ c.out = out
        /\ n \in HookEntries /\ n # NoEntry /\ n.kind = kind /\ n.out = out
    BY DEF HookCalls, HookEntries, NoEntry, Kinds
  <2>2. SetsEntry(d, id, n, "done", c)
    BY DEF SetsEntry, Complete, Answer
  <2> HIDE DEF c, n
  <2> QED BY <1>1, <1>3, <2>1, <2>2, SetKeeps
<1>5. CASE \E out \in Answers : Await(d, id, kind, out, "recording")
  <2> PICK out \in Answers : Await(d, id, kind, out, "recording")
    BY <1>5
  <2> DEFINE c == [id |-> id, kind |-> kind, out |-> out]
            n == [kind |-> kind, out |-> "open"]
  <2>1. /\ c \in HookCalls /\ c.id = id /\ c.kind = kind /\ c.out = out
        /\ n \in HookEntries /\ n # NoEntry /\ n.kind = kind /\ n.out = "open"
    BY DEF HookCalls, HookEntries, NoEntry, Kinds
  <2>2. SetsEntry(d, id, n, "recording", c)
    BY DEF SetsEntry, Await
  <2> HIDE DEF c, n
  <2> QED BY <1>1, <1>3, <2>1, <2>2, SetKeeps
<1>6. CASE Await(d, id, kind, "none", "probing") /\ UNCHANGED keffects
  <2> DEFINE c == [id |-> id, kind |-> kind, out |-> "none"]
            n == [kind |-> kind, out |-> "open"]
  <2>1. /\ c \in HookCalls /\ c.id = id /\ c.kind = kind
        /\ n \in HookEntries /\ n # NoEntry /\ n.kind = kind /\ n.out = "open"
    BY DEF HookCalls, HookEntries, NoEntry, Kinds
  <2>2. SetsEntry(d, id, n, "probing", c)
    BY <1>6 DEF SetsEntry, Await
  <2> HIDE DEF c, n
  <2> QED BY <1>1, <1>3, <1>6, <2>1, <2>2, SetKeeps
<1>7. CASE /\ kentry' = [kentry EXCEPT ![id] = [kind |-> kind, out |-> "deny"]]
           /\ kpc' = [kpc EXCEPT ![d] = "cancelled"] /\ kcall' = kcall
  <2> DEFINE n == [kind |-> kind, out |-> "deny"]
  <2>1. kcall' = [kcall EXCEPT ![d] = kcall[d]] /\ kcall[d] \in {NoDelivery} \cup HookCalls
    BY <1>7 DEF HooksInv
  <2>2. n \in HookEntries /\ n # NoEntry /\ n.kind = kind
    BY DEF HookEntries, NoEntry, Kinds, Answers
  <2>3. SetsEntry(d, id, n, "cancelled", kcall[d])
    BY <1>7, <2>1 DEF SetsEntry
  <2> HIDE DEF n
  <2> QED BY <1>1, <1>3, <2>1, <2>2, <2>3, SetKeeps
<1> QED BY <1>4, <1>5, <1>6, <1>7 DEF Evaluate, Answers

(* A delivery of an id that is in the cache, or has no room there.         *)
LEMMA ReplayKeeps ==
  ASSUME HooksInv, NEW d \in Deliveries, NEW id \in ToolIds, NEW kind \in Kinds,
         UNCHANGED <<kentry, keffects>>,
         \/ id \in Held /\ Replay(d, id, kind)
         \/ id \in Held /\ kentry[id].kind # kind /\ Answer(d, id, kind, "deny")
         \/ id \notin Held /\ Cardinality(Held) >= Capacity /\ Answer(d, id, kind, "deny")
  PROVE  HooksInv'
<1>1. "deny" \in Answers /\ kentry[id] \in HookEntries
  BY DEF Answers, HooksInv
<1>2. CASE id \notin Held /\ Cardinality(Held) >= Capacity /\ Answer(d, id, kind, "deny")
  BY <1>1, <1>2, AnswerKeeps DEF Held
<1>3. CASE id \in Held /\ kentry[id].kind # kind /\ Answer(d, id, kind, "deny")
  BY <1>1, <1>3, AnswerKeeps DEF Held
<1>4. CASE id \in Held /\ Replay(d, id, kind)
  <2>1. kentry[id] # NoEntry /\ kentry[id].out \in Answers \cup {"open"}
    BY <1>1, <1>4 DEF Held, HookEntries
  <2>2. CASE kentry[id].out # "open"
    BY <1>4, <2>1, <2>2, AnswerKeeps DEF Replay
  <2>3. CASE kentry[id].out = "open"
    <3> DEFINE c == [id |-> id, kind |-> kind, out |-> "none"]
    <3>1. c \in HookCalls
      BY DEF HookCalls
    <3>2. Steps(d, "waiting", c)
      BY <1>4, <2>3 DEF Replay, Steps
    <3> HIDE DEF c
    <3> QED BY <3>1, <3>2, WaitKeeps
  <2> QED BY <2>2, <2>3
<1> QED BY <1>2, <1>3, <1>4

(* The owner of an entry goes on: its answer, another await, or its end.   *)
LEMMA OwnerKeeps ==
  ASSUME HooksInv, NEW d \in Deliveries,
         Recorded(d) \/ Probed(d) \/ (Owner(d) /\ HookCancelled(d))
  PROVE  HooksInv'
<1> DEFINE id == kcall[d].id  kind == kcall[d].kind
<1>1. Owner(d) /\ kcall[d] \in HookCalls
  BY DEF Recorded, Probed, Owner, HooksInv, Known
<1>2. id \in ToolIds /\ kind \in Kinds /\ MaySet(d, id, kind)
  BY <1>1 DEF HookCalls, MaySet
<1>3. kentry[id] = [kind |-> kind, out |-> "open"]
  BY <1>1 DEF HooksInv
<1>4. ASSUME NEW out \in Answers, Complete(d, id, kind, out),
             keffects' \in [ToolIds -> {0, 1}],
             \A i \in ToolIds : i # id => keffects'[i] = keffects[i]
      PROVE  HooksInv'
  <2> DEFINE c == [id |-> id, kind |-> kind, out |-> out]
            n == [kind |-> kind, out |-> out]
  <2>1. /\ c \in HookCalls /\ c.id = id /\ c.kind = kind /\ c.out = out
        /\ n \in HookEntries /\ n # NoEntry /\ n.kind = kind /\ n.out = out
    BY <1>2 DEF HookCalls, HookEntries, NoEntry, Kinds
  <2>2. SetsEntry(d, id, n, "done", c)
    BY <1>4 DEF SetsEntry, Complete, Answer
  <2> HIDE DEF c, n, id, kind
  <2> QED BY <1>2, <1>4, <2>1, <2>2, SetKeeps
<1>5. CASE Recorded(d)
  <2>1. kcall[d].out \in Answers /\ Complete(d, id, kind, kcall[d].out) /\ UNCHANGED keffects
    BY <1>5 DEF Recorded, HooksInv
  <2> HIDE DEF id, kind
  <2> QED BY <1>4, <2>1 DEF HooksInv
<1>6. CASE Probed(d)
  <2>1. keffects' = [keffects EXCEPT ![id] = 1]
    <3>1. keffects' = [keffects EXCEPT ![id] = keffects[id] + 1] /\ keffects[id] = 0
      BY <1>6 DEF Probed, Effect, HooksInv
    <3> QED BY <3>1
  <2>2. /\ keffects' \in [ToolIds -> {0, 1}]
        /\ \A i \in ToolIds : i # id => keffects'[i] = keffects[i]
    BY <2>1 DEF HooksInv
  <2>3. CASE Complete(d, id, kind, "allow")
    BY <1>4, <2>2, <2>3 DEF Answers
  <2>4. CASE \E out \in Answers : Await(d, id, kind, out, "recording")
    <3> PICK out \in Answers : Await(d, id, kind, out, "recording")
      BY <2>4
    <3> DEFINE c == [id |-> id, kind |-> kind, out |-> out]
              n == [kind |-> kind, out |-> "open"]
    <3>1. /\ c \in HookCalls /\ c.id = id /\ c.kind = kind /\ c.out = out
          /\ n \in HookEntries /\ n # NoEntry /\ n.kind = kind /\ n.out = "open"
      BY <1>2 DEF HookCalls, HookEntries, NoEntry, Kinds
    <3>2. SetsEntry(d, id, n, "recording", c)
      BY DEF SetsEntry, Await
    <3> HIDE DEF c, n, id, kind
    <3> QED BY <1>2, <2>2, <3>1, <3>2, SetKeeps
  <2> QED BY <1>6, <2>3, <2>4 DEF Probed, Answers
<1>7. CASE Owner(d) /\ HookCancelled(d)
  <2>1. /\ kentry' = [kentry EXCEPT ![id].out = "deny"]
        /\ kpc' = [kpc EXCEPT ![d] = "cancelled"] /\ UNCHANGED <<kcall, keffects>>
    BY <1>7 DEF HookCancelled, Fail, Owner
  <2>2. [kentry[id] EXCEPT !.out = "deny"] = [kind |-> kind, out |-> "deny"]
    BY <1>3
  <2> DEFINE n == [kind |-> kind, out |-> "deny"]
  <2>3. kentry' = [kentry EXCEPT ![id] = n]
    BY <2>1, <2>2
  <2>4. kcall' = [kcall EXCEPT ![d] = kcall[d]] /\ kcall[d] \in {NoDelivery} \cup HookCalls
    BY <1>1, <2>1 DEF HooksInv
  <2>5. keffects' \in [ToolIds -> {0, 1}] /\ \A i \in ToolIds : keffects'[i] = keffects[i]
    BY <2>1 DEF HooksInv
  <2>6. n \in HookEntries /\ n # NoEntry /\ n.kind = kind
    BY <1>2 DEF HookEntries, NoEntry, Kinds, Answers
  <2>7. SetsEntry(d, id, n, "cancelled", kcall[d])
    BY <2>1, <2>3, <2>4 DEF SetsEntry
  <2> HIDE DEF id, kind, n
  <2> QED BY <1>2, <2>4, <2>5, <2>6, <2>7, SetKeeps
<1> QED BY <1>5, <1>6, <1>7

LEMMA HooksStep == HooksInv /\ [HooksNext]_hooksVars => HooksInv'
<1> SUFFICES ASSUME HooksInv, [HooksNext]_hooksVars PROVE HooksInv'
  OBVIOUS
<1>1. ASSUME NEW d \in Deliveries, NEW id \in ToolIds, NEW kind \in Kinds, DeliverHook(d, id, kind)
      PROVE  HooksInv'
  <2>1. CASE id \notin Held /\ Cardinality(Held) < Capacity
    <3>1. kpc[d] = "new" /\ Evaluate(d, id, kind)
      <4>1. ~(Cardinality(Held) >= Capacity)
        BY <2>1, FS_CardinalityType, HooksAssumption DEF HooksInv
      <4> QED BY <1>1, <2>1, <4>1 DEF DeliverHook
    <3> QED BY <2>1, <3>1, EvaluateKeeps
  <2>2. CASE ~(id \notin Held /\ Cardinality(Held) < Capacity)
    BY <1>1, <2>2, ReplayKeeps DEF DeliverHook
  <2> QED BY <2>1, <2>2
<1>2. ASSUME NEW d \in Deliveries, Resumed(d) PROVE HooksInv'
  <2>1. /\ kcall[d] \in HookCalls /\ kentry[kcall[d].id].out \in Answers
        /\ Answer(d, kcall[d].id, kcall[d].kind, kentry[kcall[d].id].out)
        /\ UNCHANGED <<kentry, keffects>>
    BY <1>2 DEF Resumed, HooksInv, Known
  <2>2. kentry[kcall[d].id] # NoEntry
    BY <2>1 DEF Answers, NoEntry
  <2>3. kcall[d].id \in ToolIds /\ kcall[d].kind \in Kinds
    BY <2>1 DEF HookCalls
  <2> QED BY <2>1, <2>2, <2>3, AnswerKeeps
<1>3. ASSUME NEW d \in Deliveries, HookCancelled(d) PROVE HooksInv'
  <2>1. CASE Owner(d)
    BY <1>3, <2>1, OwnerKeeps
  <2>2. CASE ~Owner(d)
    <3>1. /\ Steps(d, "cancelled", kcall[d]) /\ UNCHANGED <<kentry, keffects>>
          /\ kcall[d] \in {NoDelivery} \cup HookCalls
      BY <1>3, <2>2 DEF HookCancelled, Owner, HooksInv, Steps
    <3> QED BY <3>1, WaitKeeps
  <2> QED BY <2>1, <2>2
<1>4. CASE RunnerReplaced \/ UNCHANGED hooksVars
  <2>1. UNCHANGED <<kentry, kpc, kcall, keffects>>
    BY <1>4 DEF RunnerReplaced, hooksVars
  <2> QED BY <2>1 DEF HooksInv, Consistent, Known, Owner, Held
<1> QED BY <1>1, <1>2, <1>3, <1>4, OwnerKeeps DEF HooksNext

(* A tool call is decided once: whatever deliveries of its hook run beside *)
(* each other, retry it or are cut off, it has one strike or authorization *)
(* at most and one answer (_policy_hook_adapter.py, HookReplayCache).      *)
THEOREM HooksDecideOnce == HooksSpec => []DecidedOnce
BY HooksInit_Inv, HooksStep, DecidedFollows, PTL DEF HooksSpec
-----------------------------------------------------------------------------
(* ApprovalGates: GateHolds                                                *)

GateStages == {"idle", "arrived", "budget", "safeguard", "consent", "waiting", "handler",
               "dispatch", "over"}

GatesType ==
  /\ gpath \in [GateCalls -> {"none", "provider", "codex", "spawn"}]
  /\ gstage \in [GateCalls -> GateStages]
  /\ gask \in [GateCalls -> Commands \cup {NoCommand}]
  /\ ginput \in [GateCalls -> Commands \cup {NoCommand}]
  /\ gconfirm \in [GateCalls -> BOOLEAN]
  /\ gquestion \in [GateCalls -> {"none", "open", "answered", "expired"}]
  /\ greply \in [GateCalls -> Replies \cup {NoReply}]
  /\ gcancel \in [GateCalls -> BOOLEAN]
  /\ gout \in [GateCalls -> {"none", "ran", "denied", "cancelled"}]

(* No check has touched the call yet.                                      *)
Untouched(i) ==
  /\ ginput[i] = gask[i] /\ ~gconfirm[i] /\ gquestion[i] = "none" /\ gout[i] = "none"

(* The policies let the call through.                                      *)
Judged(i) ==
  /\ gpath[i] \in {"provider", "codex"} => gask[i] \notin Prohibited
  /\ gpath[i] = "codex" => gask[i] \notin OffScope

(* The input is the one that was consented to, or needed no consent.       *)
Consented(i) ==
  /\ NeedsConsent(gpath[i], gask[i]) =>
       /\ gquestion[i] = "answered"
       /\ \/ greply[i].says = "yes" /\ ginput[i] = gask[i]
          \/ /\ greply[i].says = "edit" /\ greply[i].text = ginput[i]
             /\ gpath[i] # "codex" /\ (gpath[i] = "provider" => gask[i] \notin Fieldless)
  /\ ~NeedsConsent(gpath[i], gask[i]) => ginput[i] = gask[i]
  /\ gconfirm[i] <=> gpath[i] = "provider" /\ gask[i] \in Risky

(* The stages of one path, and what holds in each: a call carries to its   *)
(* end what the checks before it have found.                               *)
GateInv(i) ==
  /\ gstage[i] = "idle" => gpath[i] = "none"
  /\ gstage[i] = "arrived" => gpath[i] = "codex"
  /\ gstage[i] \in {"budget", "handler"} => gpath[i] = "provider"
  /\ gstage[i] = "safeguard" => gpath[i] \in {"provider", "codex"}
  /\ gstage[i] \in {"consent", "waiting"} => gpath[i] # "none"
  /\ gstage[i] = "dispatch" => gpath[i] = "spawn"
  /\ gstage[i] \in {"idle", "arrived", "budget", "safeguard", "consent"} => Untouched(i)
  /\ gstage[i] \in {"consent", "waiting", "handler"} \/ gquestion[i] # "none" => Judged(i)
  /\ gstage[i] # "over" => gout[i] = "none"
  /\ gstage[i] = "waiting" =>
       /\ ginput[i] = gask[i] /\ ~gconfirm[i] /\ NeedsConsent(gpath[i], gask[i])
       /\ gquestion[i] \in {"open", "answered"}
  /\ gstage[i] \in {"handler", "dispatch"} => Consented(i) /\ gquestion[i] # "open"
  /\ gout[i] = "ran" =>
       /\ Consented(i) /\ Judged(i) /\ gquestion[i] # "open"
       /\ gpath[i] \in {"provider", "codex"} => ginput[i] \notin OffScope
  /\ gstage[i] = "over" /\ gquestion[i] = "open" => gcancel[i]
  /\ gcancel[i] =>
       /\ gpath[i] = "codex" /\ gbackend # "open" /\ gout[i] # "ran"
       /\ gstage[i] \in {"safeguard", "consent", "waiting", "over"}

GatesInv == GatesType /\ \A i \in GateCalls : GateInv(i)

LEMMA GateFollows == GatesInv => GateHolds
<1> SUFFICES ASSUME GatesInv PROVE GateHolds
  OBVIOUS
<1>1. ConsentBinds
  BY DEF GatesInv, GateInv, Consented, ConsentBinds, RanCommands
<1>2. RefusedNeverRuns
  BY DEF GatesInv, GateInv, Judged, RefusedNeverRuns, RanCommands
<1>3. NoPhantomQuestion
  BY DEF GatesInv, GateInv, NoPhantomQuestion, RanCommands
<1> QED BY <1>1, <1>2, <1>3 DEF GateHolds

LEMMA GatesInit_Inv == GatesInit => GatesInv
BY DEF GatesInit, GatesInv, GatesType, GateStages, GateInv, Untouched, NoCommand

(* A step of one call leaves the others, and the backend, as they are.     *)
OthersSame(i) ==
  /\ \A j \in GateCalls \ {i} :
       /\ gpath'[j] = gpath[j] /\ gstage'[j] = gstage[j] /\ gask'[j] = gask[j]
       /\ ginput'[j] = ginput[j] /\ gconfirm'[j] = gconfirm[j] /\ gquestion'[j] = gquestion[j]
       /\ greply'[j] = greply[j] /\ gcancel'[j] = gcancel[j] /\ gout'[j] = gout[j]
  /\ gbackend' = gbackend

LEMMA OneCall ==
  ASSUME GatesInv, NEW i \in GateCalls, GatesType', OthersSame(i), GateInv(i)'
  PROVE  GatesInv'
<1>1. ASSUME NEW j \in GateCalls, j # i PROVE GateInv(j)'
  BY <1>1 DEF GatesInv, OthersSame, GateInv, Untouched, Judged, Consented
<1> QED BY <1>1 DEF GatesInv

(* A call arrives, at the first check of its path.                         *)
LEMMA ProposeKeeps ==
  ASSUME GatesInv, NEW i \in GateCalls, Propose(i)
  PROVE  GatesInv'
<1>1. PICK path \in {"provider", "codex", "spawn"}, c \in Commands :
        /\ gpath' = [gpath EXCEPT ![i] = path]
        /\ gask' = [gask EXCEPT ![i] = c] /\ ginput' = [ginput EXCEPT ![i] = c]
        /\ IF path = "codex" /\ gbackend # "open"
           THEN Ends(i, "cancelled")
           ELSE GoesTo(i, [provider |-> "budget", codex |-> "arrived", spawn |-> "consent"][path])
  BY DEF Propose
<1>2. UNCHANGED <<gconfirm, gquestion, greply, gcancel, gbackend>> /\ gstage[i] = "idle"
  BY DEF Propose
<1>3. \/ gstage' = [gstage EXCEPT ![i] = "over"] /\ gout' = [gout EXCEPT ![i] = "cancelled"]
      \/ /\ gout' = gout
         /\ \/ path = "provider" /\ gstage' = [gstage EXCEPT ![i] = "budget"]
            \/ path = "codex" /\ gstage' = [gstage EXCEPT ![i] = "arrived"]
            \/ path = "spawn" /\ gstage' = [gstage EXCEPT ![i] = "consent"]
  BY <1>1 DEF Ends, GoesTo
<1>4. GatesType' /\ OthersSame(i)
  BY <1>1, <1>2, <1>3 DEF GatesInv, GatesType, GateStages, OthersSame
<1>5. /\ gpath'[i] = path /\ gask'[i] = c /\ ginput'[i] = c
      /\ \/ gstage'[i] = "over" /\ gout'[i] = "cancelled"
         \/ /\ gout'[i] = gout[i]
            /\ \/ path = "provider" /\ gstage'[i] = "budget"
               \/ path = "codex" /\ gstage'[i] = "arrived"
               \/ path = "spawn" /\ gstage'[i] = "consent"
  BY <1>1, <1>3 DEF GatesInv, GatesType
<1>6. GateInv(i)'
  BY <1>2, <1>5 DEF GatesInv, GateInv, Untouched, Judged
<1> QED BY <1>4, <1>6, OneCall
(* The checks: each passes the call on or ends it, and asks nobody but at  *)
(* the last one.                                                           *)
LEMMA ChecksKeep ==
  ASSUME GatesInv, NEW i \in GateCalls,
         Register(i) \/ BudgetCheck(i) \/ SafeguardCheck(i) \/ AskOperator(i)
  PROVE  GatesInv'
<1>1. UNCHANGED <<gpath, gask, ginput, gconfirm, greply, gcancel, gbackend>>
  BY DEF Register, BudgetCheck, SafeguardCheck, AskOperator, GatesSame, InputSame
<1>2. PICK stage \in GateStages, out \in {"none", "ran", "denied", "cancelled"},
           question \in {"none", "open", "answered", "expired"} :
        /\ gstage' = [gstage EXCEPT ![i] = stage] /\ gout' = [gout EXCEPT ![i] = out]
        /\ gquestion' = [gquestion EXCEPT ![i] = question]
        /\ \/ gstage[i] = "arrived" /\ stage = "safeguard" /\ out = gout[i] /\ question = gquestion[i]
           \/ /\ gstage[i] = "budget" /\ question = gquestion[i]
              /\ \/ stage = "over" /\ out = "denied"
                 \/ stage = "safeguard" /\ out = gout[i]
           \/ /\ gstage[i] = "safeguard" /\ question = gquestion[i]
              /\ \/ stage = "over" /\ out \in {"denied", "cancelled"}
                 \/ stage = "consent" /\ out = gout[i] /\ ginput[i] \notin Prohibited
                    /\ (gpath[i] = "codex" => ginput[i] \notin OffScope)
           \/ /\ gstage[i] = "consent" /\ NeedsConsent(gpath[i], ginput[i])
              /\ stage = "waiting" /\ out = gout[i] /\ question = "open"
           \/ /\ gstage[i] = "consent" /\ ~NeedsConsent(gpath[i], ginput[i])
              /\ question = gquestion[i]
              /\ \/ /\ gpath[i] = "codex" /\ stage = "over"
                    /\ out = CodexOut(i, "ran")
                 \/ gpath[i] # "codex" /\ stage = "handler" /\ out = gout[i]
  <2>1. gstage \in [GateCalls -> GateStages] /\ gout \in [GateCalls -> {"none", "ran", "denied", "cancelled"}]
        /\ gquestion \in [GateCalls -> {"none", "open", "answered", "expired"}]
    BY DEF GatesInv, GatesType
  <2>2. /\ gout = [gout EXCEPT ![i] = gout[i]] /\ gout[i] \in {"none", "ran", "denied", "cancelled"}
        /\ gquestion = [gquestion EXCEPT ![i] = gquestion[i]]
        /\ gquestion[i] \in {"none", "open", "answered", "expired"}
    BY <2>1
  <2>3. {"safeguard", "over", "consent", "waiting", "handler"} \subseteq GateStages
    BY DEF GateStages
  <2>4. CASE Register(i)
    BY <2>2, <2>3, <2>4 DEF Register, GoesTo
  <2>5. CASE BudgetCheck(i)
    BY <2>2, <2>3, <2>5 DEF BudgetCheck, GoesTo, Ends
  <2>6. CASE SafeguardCheck(i)
    BY <2>2, <2>3, <2>6 DEF SafeguardCheck, GoesTo, Ends, CodexOut
  <2>7. CASE AskOperator(i)
    BY <2>2, <2>3, <2>7 DEF AskOperator, GoesTo, Ends, CodexOut
  <2> QED BY <2>4, <2>5, <2>6, <2>7
<1>3. GatesType' /\ OthersSame(i)
  BY <1>1, <1>2 DEF GatesInv, GatesType, OthersSame
<1>4. gstage'[i] = stage /\ gout'[i] = out /\ gquestion'[i] = question
  BY <1>2 DEF GatesInv, GatesType
<1>5. gpath[i] = "spawn" => NeedsConsent(gpath[i], ginput[i])
  BY DEF NeedsConsent
<1>6. gpath[i] = "provider" /\ ~NeedsConsent(gpath[i], gask[i]) => gask[i] \notin Risky
  BY GatesAssumption DEF NeedsConsent
<1>7. gpath[i] \in {"none", "provider", "codex", "spawn"}
  BY DEF GatesInv, GatesType
<1>8. GateInv(i)'
  BY <1>1, <1>2, <1>4, <1>5, <1>6, <1>7 DEF GatesInv, GateInv, Untouched, Judged, Consented, CodexOut
<1> QED BY <1>3, <1>8, OneCall

(* The operator's side: a reply, or a wait that is over.                   *)
LEMMA WaitsKeep ==
  ASSUME GatesInv, NEW i \in GateCalls,
         OperatorReplies(i) \/ QuestionTimesOut(i) \/ PollCancelled(i)
  PROVE  GatesInv'
<1>1. UNCHANGED <<gpath, gask, ginput, gconfirm, gcancel, gbackend>>
  BY DEF OperatorReplies, QuestionTimesOut, PollCancelled, GatesSame, InputSame
<1>2. CASE OperatorReplies(i)
  <2>1. PICK reply \in Replies : greply' = [greply EXCEPT ![i] = reply]
    BY <1>2 DEF OperatorReplies
  <2>2. /\ gquestion[i] = "open" /\ gquestion' = [gquestion EXCEPT ![i] = "answered"]
        /\ UNCHANGED <<gstage, gout>>
    BY <1>2 DEF OperatorReplies
  <2>3. GatesType' /\ OthersSame(i) /\ gquestion'[i] = "answered"
    BY <1>1, <2>1, <2>2 DEF GatesInv, GatesType, OthersSame
  <2>4. GateInv(i)'
    BY <1>1, <2>2, <2>3 DEF GatesInv, GateInv, Untouched, Judged, Consented
  <2> QED BY <2>3, <2>4, OneCall
<1>3. CASE QuestionTimesOut(i) \/ PollCancelled(i)
  <2>1. PICK out \in {"denied", "cancelled"} :
          /\ gstage' = [gstage EXCEPT ![i] = "over"] /\ gout' = [gout EXCEPT ![i] = out]
          /\ greply' = greply
    BY <1>3 DEF QuestionTimesOut, PollCancelled, Ends, CodexOut
  <2>2. \/ /\ gstage[i] = "waiting"
           /\ gquestion' = [gquestion EXCEPT ![i] = IF gquestion[i] = "open" THEN "expired" ELSE gquestion[i]]
        \/ gcancel[i] /\ gquestion' = gquestion
    BY <1>3 DEF QuestionTimesOut, PollCancelled
  <2>3. gquestion'[i] = gquestion[i] \/ (gstage[i] = "waiting" /\ gquestion'[i] # "open")
    BY <2>2 DEF GatesInv, GatesType
  <2>4. GatesType' /\ OthersSame(i) /\ gstage'[i] = "over" /\ gout'[i] = out
    BY <1>1, <2>1, <2>2 DEF GatesInv, GatesType, OthersSame, GateStages
  <2>5. gquestion'[i] = "open" => gcancel[i]
    BY <2>2 DEF GatesInv, GatesType
  <2>6. gquestion'[i] # "none" => gquestion[i] # "none" \/ gstage[i] = "waiting"
    BY <2>2 DEF GatesInv, GatesType
  <2>7. GateInv(i)'
    BY <1>1, <2>3, <2>4, <2>5, <2>6 DEF GatesInv, GateInv, Untouched, Judged, Consented
  <2> QED BY <2>4, <2>7, OneCall
<1> QED BY <1>2, <1>3

(* What a reply says is what is done with the call.                        *)
LEMMA ReplyKeeps ==
  ASSUME GatesInv, NEW i \in GateCalls, ReplyArrives(i)
  PROVE  GatesInv'
<1> DEFINE text == greply[i].text
           risky == gask[i] \in Risky /\ gpath[i] = "provider"
           next == IF gpath[i] = "provider" THEN "handler" ELSE "dispatch"
<1>1. /\ gstage[i] = "waiting" /\ gquestion[i] = "answered"
      /\ UNCHANGED <<gpath, gask, gquestion, greply, gcancel, gbackend>>
  BY DEF ReplyArrives
<1>2. \/ ParsedReply(greply[i]) = "approve" /\ greply[i].says = "yes"
      \/ ParsedReply(greply[i]) = "edit" /\ greply[i].says = "edit" /\ text # NoCommand
      \/ ParsedReply(greply[i]) = "deny"
  BY DEF ParsedReply
<1>3. text \in Commands \cup {NoCommand}
  <2>1. greply[i] \in Replies \cup {NoReply}
    BY DEF GatesInv, GatesType
  <2> QED BY <2>1 DEF Replies, NoReply
<1>4. PICK stage \in {"handler", "dispatch", "over"}, out \in {"none", "ran", "denied", "cancelled"},
           input \in Commands \cup {NoCommand}, confirm \in BOOLEAN :
        /\ gstage' = [gstage EXCEPT ![i] = stage] /\ gout' = [gout EXCEPT ![i] = out]
        /\ ginput' = [ginput EXCEPT ![i] = input] /\ gconfirm' = [gconfirm EXCEPT ![i] = confirm]
        /\ \/ /\ greply[i].says = "yes" /\ gpath[i] # "codex"
              /\ stage = next /\ out = gout[i] /\ input = gask[i] /\ confirm = risky
           \/ /\ greply[i].says = "edit" /\ gpath[i] # "codex"
              /\ gpath[i] = "provider" => gask[i] \notin Fieldless
              /\ stage = next /\ out = gout[i] /\ input = text /\ confirm = risky
           \/ /\ greply[i].says = "yes" /\ gpath[i] = "codex" /\ ~gcancel[i]
              /\ stage = "over" /\ out = "ran" /\ input = ginput[i] /\ confirm = gconfirm[i]
           \/ /\ stage = "over" /\ out \in {"denied", "cancelled"}
              /\ input = ginput[i] /\ confirm = gconfirm[i]
  <2>1. /\ ginput = [ginput EXCEPT ![i] = ginput[i]] /\ ginput[i] \in Commands \cup {NoCommand}
        /\ gconfirm = [gconfirm EXCEPT ![i] = gconfirm[i]] /\ gconfirm[i] \in BOOLEAN
        /\ gout = [gout EXCEPT ![i] = gout[i]] /\ gout[i] \in {"none", "ran", "denied", "cancelled"}
        /\ gask[i] \in Commands \cup {NoCommand}
    BY DEF GatesInv, GatesType
  <2>2. next \in {"handler", "dispatch", "over"} /\ risky \in BOOLEAN
    OBVIOUS
  <2>3. CASE gpath[i] = "codex"
    <3>1. PICK out \in {"ran", "denied"} : Ends(i, CodexOut(i, out)) /\ InputSame
                                          /\ (out = "ran" => greply[i].says = "yes")
      BY <1>2, <2>3 DEF ReplyArrives
    <3> QED BY <2>1, <2>3, <3>1 DEF Ends, CodexOut, InputSame
  <2>4. CASE gpath[i] # "codex" /\ ParsedReply(greply[i]) = "approve"
    <3>1. GoesTo(i, next) /\ Updated(i, gask[i], risky)
      BY <2>4 DEF ReplyArrives
    <3>2. greply[i].says = "yes"
      BY <1>2, <2>4
    <3> HIDE DEF next, risky
    <3> QED BY <2>1, <2>2, <2>4, <3>1, <3>2 DEF GoesTo, Updated
  <2>5. CASE gpath[i] # "codex" /\ ParsedReply(greply[i]) = "edit"
    <3>1. greply[i].says = "edit"
      BY <1>2, <2>5
    <3>2. CASE gpath[i] = "provider" /\ gask[i] \in Fieldless
      <4>1. Ends(i, "denied") /\ InputSame
        BY <2>5, <3>2 DEF ReplyArrives
      <4> QED BY <2>1, <4>1 DEF Ends, InputSame
    <3>3. CASE ~(gpath[i] = "provider" /\ gask[i] \in Fieldless)
      <4>1. GoesTo(i, next) /\ Updated(i, text, risky)
        BY <2>5, <3>3 DEF ReplyArrives
      <4> HIDE DEF next, risky, text
      <4> QED BY <1>3, <2>1, <2>2, <2>5, <3>1, <3>3, <4>1 DEF GoesTo, Updated
    <3> QED BY <3>2, <3>3
  <2>6. CASE gpath[i] # "codex" /\ ParsedReply(greply[i]) = "deny"
    <3>1. Ends(i, "denied") /\ InputSame
      BY <2>6 DEF ReplyArrives
    <3> QED BY <2>1, <3>1 DEF Ends, InputSame
  <2> QED BY <1>2, <2>3, <2>4, <2>5, <2>6
<1>5. GatesType' /\ OthersSame(i)
  BY <1>1, <1>4 DEF GatesInv, GatesType, OthersSame, GateStages
<1>6. gstage'[i] = stage /\ gout'[i] = out /\ ginput'[i] = input /\ gconfirm'[i] = confirm
  BY <1>4 DEF GatesInv, GatesType
<1>7. gpath[i] \in {"provider", "codex", "spawn"} /\ NeedsConsent(gpath[i], gask[i])
      /\ ginput[i] = gask[i] /\ ~gconfirm[i] /\ Judged(i) /\ gout[i] = "none"
  BY <1>1 DEF GatesInv, GatesType, GateInv
<1>8. gcancel[i] => gpath[i] = "codex" /\ gbackend # "open"
  BY DEF GatesInv, GateInv
<1>9. GateInv(i)'
  <2>1. Judged(i)' <=> Judged(i)
    BY <1>1 DEF Judged
  <2>2. CASE stage \in {"handler", "dispatch"}
    <3>1. Consented(i)'
      BY <1>1, <1>4, <1>6, <1>7, <2>2 DEF Consented
    <3> QED BY <1>1, <1>4, <1>6, <1>7, <1>8, <2>1, <2>2, <3>1 DEF GateInv
  <2>3. CASE stage = "over" /\ out = "ran"
    <3>1. greply[i].says = "yes" /\ gpath[i] = "codex" /\ input = ginput[i] /\ confirm = gconfirm[i] /\ ~gcancel[i]
      BY <1>4, <1>7, <2>3
    <3>2. Consented(i)'
      BY <1>1, <1>6, <1>7, <3>1 DEF Consented
    <3> QED BY <1>1, <1>6, <1>7, <2>1, <2>3, <3>1, <3>2 DEF GateInv, Judged
  <2>4. CASE stage = "over" /\ out # "ran"
    BY <1>1, <1>4, <1>6, <1>7, <1>8, <2>1, <2>4 DEF GateInv
  <2> QED BY <2>2, <2>3, <2>4
<1> QED BY <1>5, <1>9, OneCall

(* The handler's own check of the scope is the last one.                   *)
LEMMA DispatchKeeps ==
  ASSUME GatesInv, NEW i \in GateCalls, Dispatches(i)
  PROVE  GatesInv'
<1>1. UNCHANGED <<gpath, gask, ginput, gconfirm, gquestion, greply, gcancel, gbackend>>
  BY DEF Dispatches, GatesSame, InputSame
<1>2. PICK out \in {"denied", "ran"} :
        /\ gstage' = [gstage EXCEPT ![i] = "over"] /\ gout' = [gout EXCEPT ![i] = out]
        /\ gstage[i] \in {"handler", "dispatch"}
        /\ gstage[i] = "handler" /\ ginput[i] \in OffScope => out = "denied"
  BY DEF Dispatches, Ends
<1>3. GatesType' /\ OthersSame(i) /\ gstage'[i] = "over" /\ gout'[i] = out
  BY <1>1, <1>2 DEF GatesInv, GatesType, OthersSame, GateStages
<1>4. Judged(i)
  BY <1>2 DEF GatesInv, GateInv, Judged
<1>5. GateInv(i)'
  BY <1>1, <1>2, <1>3, <1>4 DEF GatesInv, GateInv, Untouched, Judged, Consented
<1> QED BY <1>3, <1>5, OneCall

(* The disconnect marks the requests that are pending, once.               *)
LEMMA DisconnectKeeps ==
  ASSUME GatesInv, Brake \/ BackendDisconnects \/ CloseClient
  PROVE  GatesInv'
<1>1. UNCHANGED <<gpath, gstage, gask, ginput, gconfirm, gquestion, greply, gout>>
  BY DEF Brake, BackendDisconnects, CloseClient, InputSame
<1>2. \/ gcancel' = gcancel /\ (gbackend' = "open" => gbackend = "open")
      \/ /\ gbackend = "open" /\ gbackend' = "closing"
         /\ gcancel' = [i \in GateCalls |-> gpath[i] = "codex"
                                            /\ gstage[i] \in {"safeguard", "consent", "waiting"}]
  BY DEF Brake, BackendDisconnects, CloseClient
<1>3. GatesType'
  BY <1>1, <1>2 DEF GatesInv, GatesType
<1>4. ASSUME NEW i \in GateCalls PROVE GateInv(i)'
  BY <1>1, <1>2 DEF GatesInv, GateInv, Untouched, Judged, Consented
<1> QED BY <1>3, <1>4 DEF GatesInv

LEMMA GatesStep == GatesInv /\ [GatesNext]_gatesVars => GatesInv'
<1> SUFFICES ASSUME GatesInv, [GatesNext]_gatesVars PROVE GatesInv'
  OBVIOUS
<1>1. CASE UNCHANGED gatesVars
  BY <1>1 DEF gatesVars, GatesInv, GatesType, GateInv, Untouched, Judged, Consented
<1> QED BY <1>1, ProposeKeeps, ChecksKeep, WaitsKeep, ReplyKeeps, DispatchKeeps, DisconnectKeeps
        DEF GatesNext

(* On each of the three paths what runs is what the operator consented to, *)
(* or what needed no consent; what a policy refuses neither runs nor is    *)
(* asked about; and no question outlives its call (daemon/runtime.py,      *)
(* _runner_factory.py, codex.py).                                          *)
THEOREM GatesHold == GatesSpec => []GateHolds
BY GatesInit_Inv, GatesStep, GateFollows, PTL DEF GatesSpec
-----------------------------------------------------------------------------
(* AuditTrail: ChainIsTrue                                                 *)

(* A set of calls with one call of the tool of c has more than none.       *)
LEMMA CountedCall ==
  ASSUME NEW calls \in SUBSET AuditCalls, NEW c \in calls
  PROVE  Under(calls, c) \in Nat \ {0}
<1> DEFINE same == {d \in calls : IF Strong THEN d = c ELSE ToolOf[d] = ToolOf[c]}
<1>1. c \in same /\ same \in SUBSET AuditCalls
  OBVIOUS
<1>2. IsFiniteSet(same)
  BY <1>1, AuditAssumption, FS_Subset
<1> HIDE DEF same
<1>3. Cardinality(same) \in Nat
  BY <1>2, FS_CardinalityType
<1>4. Cardinality(same) # 0
  BY <1>1, <1>2, FS_EmptySet
<1> QED BY <1>3, <1>4 DEF Under, same

(* Where rows are joined by their decision, no other call counts.          *)
LEMMA StrongCount ==
  ASSUME NEW calls \in SUBSET AuditCalls, NEW c \in AuditCalls, c \notin calls, Strong
  PROVE  Under(calls, c) = 0
<1>1. {d \in calls : IF Strong THEN d = c ELSE ToolOf[d] = ToolOf[c]} = {}
  OBVIOUS
<1> QED BY <1>1, FS_EmptySet DEF Under

(* The counts tell a missing copy and an orphan, whatever led to them.     *)
LEMMA CountsTell == adenies \subseteq AuditCalls => NoGreenPaint
<1> SUFFICES ASSUME adenies \subseteq AuditCalls, ChainComplete, ~alegacy
             PROVE  adenies = Mirrored
  BY DEF NoGreenPaint, Mirrored, DenyOps
<1>1. Mirrored \subseteq AuditCalls
  BY DEF Mirrored
<1>2. \A c \in AuditCalls : Under(adenies, c) = Under(Mirrored, c)
  BY DEF ChainComplete
<1>3. CASE adenies # {}
  <2>1. Strong
    BY <1>3 DEF Strong
  <2>2. ASSUME NEW c \in adenies, c \notin Mirrored PROVE FALSE
    <3>1. c \in AuditCalls /\ Under(adenies, c) # 0
      BY <2>2, CountedCall
    <3>2. Under(Mirrored, c) = 0
      BY <1>1, <2>1, <2>2, <3>1, StrongCount
    <3> QED BY <1>2, <3>1, <3>2
  <2>3. ASSUME NEW c \in Mirrored, c \notin adenies PROVE FALSE
    <3>1. c \in AuditCalls /\ Under(Mirrored, c) # 0
      BY <1>1, <2>3, CountedCall
    <3>2. Under(adenies, c) = 0
      BY <2>1, <2>3, <3>1, StrongCount
    <3> QED BY <1>2, <3>1, <3>2
  <2> QED BY <2>2, <2>3
<1>4. CASE adenies = {}
  <2>1. ASSUME NEW c \in Mirrored PROVE FALSE
    <3>1. c \in AuditCalls /\ Under(Mirrored, c) # 0
      BY <1>1, <2>1, CountedCall
    <3>2. {d \in adenies : IF Strong THEN d = c ELSE ToolOf[d] = ToolOf[c]} = {}
      BY <1>4
    <3>3. Under(adenies, c) = 0
      BY <3>2, FS_EmptySet DEF Under
    <3> QED BY <1>2, <3>1, <3>3
  <2> QED BY <1>4, <2>1
<1> QED BY <1>3, <1>4

(* The inductive invariant. Without a hitch, a denied call has its row and *)
(* its copy as soon as its hook is over, unless another refusal came       *)
(* first; and only an enforced denial is mirrored as one.                  *)
AuditInv ==
  /\ apolicy \in [AuditCalls -> {"new", "safeguard", "scope", "pass", "deny"}]
  /\ amirror \in [AuditCalls -> {"none", "safeguard_block", "scope_deny", "scope_deny_shadowed",
                                 "deny", "budget_park"}]
  /\ adenies \subseteq AuditCalls
  /\ \A c \in AuditCalls :
       /\ c \in adenies => apolicy[c] \notin {"new", "safeguard"} /\ amirror[c] # "safeguard_block"
       /\ apolicy[c] = "new" => amirror[c] \in {"none", "budget_park"}
       /\ amirror[c] = "scope_deny" => aenforce /\ apolicy[c] = "deny"
       /\ ~ahitch =>
            /\ apolicy[c] = "scope" \/ amirror[c] \in DenyOps => c \in adenies
            /\ c \in adenies => apolicy[c] = "scope" \/ amirror[c] # "none"

LEMMA ChainFollows == AuditInv => ChainIsTrue
<1> SUFFICES ASSUME AuditInv PROVE ChainIsTrue
  OBVIOUS
<1>1. NoGreenPaint
  BY CountsTell DEF AuditInv
<1>2. CompleteWhenWritten
  <2> SUFFICES ASSUME ~ahitch, HasRows, \A c \in AuditCalls : ~UnderWay(c),
                      \A c \in adenies : amirror[c] \notin {"budget_park", "deny"}
               PROVE  ChainComplete
    BY DEF CompleteWhenWritten
  <2>1. adenies = Mirrored
    BY DEF AuditInv, Mirrored, DenyOps, UnderWay
  <2> QED BY <2>1 DEF ChainComplete
<1>3. RanIsNotDenied
  BY DEF AuditInv, RanIsNotDenied, Ran
<1> QED BY <1>1, <1>2, <1>3 DEF ChainIsTrue, NoFalseAlarm

LEMMA AuditInit_Inv == AuditInit => AuditInv
BY DEF AuditInit, AuditInv, DenyOps

(* A copy is written, unless there is one, or the write fails.             *)
LEMMA MirrorOf ==
  ASSUME AuditInv, NEW c \in AuditCalls, NEW op, Mirror(c, op)
  PROVE  /\ \A d \in AuditCalls : d # c => amirror'[d] = amirror[d]
         /\ amirror'[c] = amirror[c] \/ (amirror[c] = "none" /\ amirror'[c] = op)
         /\ ahitch \/ ahitch' \/ (~ahitch' /\ amirror'[c] # "none") \/ op = "none"
         /\ ahitch => ahitch'
         /\ op \in {"safeguard_block", "scope_deny", "scope_deny_shadowed", "deny", "budget_park"} =>
              amirror' \in [AuditCalls -> {"none", "safeguard_block", "scope_deny",
                                           "scope_deny_shadowed", "deny", "budget_park"}]
BY DEF AuditInv, Mirror

LEMMA AuditStep == AuditInv /\ [AuditNext]_auditVars => AuditInv'
<1> SUFFICES ASSUME AuditInv, [AuditNext]_auditVars PROVE AuditInv'
  OBVIOUS
<1> USE DEF DenyOps
<1>1. ASSUME NEW c \in AuditCalls, SafeguardRefuses(c) \/ ScopeAllows(c) \/ ScopeDenies(c)
      PROVE  AuditInv'
  BY <1>1 DEF SafeguardRefuses, ScopeAllows, ScopeDenies, AuditInv
<1>2. ASSUME NEW c \in AuditCalls, PolicyEnds(c) PROVE AuditInv'
  <2>1. PICK op \in {"safeguard_block", "scope_deny", "scope_deny_shadowed"},
             verdict \in {"deny", "pass"} :
          /\ Mirror(c, op) /\ apolicy' = [apolicy EXCEPT ![c] = verdict]
          /\ \/ apolicy[c] = "safeguard" /\ op = "safeguard_block" /\ verdict = "deny"
             \/ apolicy[c] = "scope" /\ op = "scope_deny" /\ verdict = "deny" /\ aenforce
             \/ apolicy[c] = "scope" /\ op = "scope_deny_shadowed" /\ verdict = "pass" /\ ~aenforce
    BY <1>2 DEF PolicyEnds, ScopeOp
  <2>2. UNCHANGED <<aenforce, adenies>>
    BY <1>2 DEF PolicyEnds
  <2>3. /\ \A d \in AuditCalls : d # c => amirror'[d] = amirror[d]
        /\ amirror'[c] = amirror[c] \/ (amirror[c] = "none" /\ amirror'[c] = op)
        /\ ahitch \/ ahitch' \/ (~ahitch' /\ amirror'[c] # "none")
        /\ ahitch => ahitch'
        /\ amirror' \in [AuditCalls -> {"none", "safeguard_block", "scope_deny",
                                        "scope_deny_shadowed", "deny", "budget_park"}]
    BY <2>1, MirrorOf
  <2>4. /\ apolicy' \in [AuditCalls -> {"new", "safeguard", "scope", "pass", "deny"}]
        /\ apolicy'[c] = verdict
        /\ \A d \in AuditCalls : d # c => apolicy'[d] = apolicy[d]
    BY <2>1 DEF AuditInv
  <2> QED BY <2>1, <2>2, <2>3, <2>4 DEF AuditInv
<1>3. ASSUME NEW c \in AuditCalls, ReplayRejected(c) \/ BudgetGate(c) PROVE AuditInv'
  <2>1. /\ UNCHANGED <<aenforce, apolicy, adenies>>
        /\ \/ UNCHANGED <<amirror, ahitch>>
           \/ Mirror(c, "deny") /\ apolicy[c] # "new"
           \/ Mirror(c, "budget_park")
    BY <1>3 DEF ReplayRejected, BudgetGate
  <2>2. CASE UNCHANGED <<amirror, ahitch>>
    BY <2>1, <2>2 DEF AuditInv
  <2>3. ASSUME NEW op \in {"deny", "budget_park"}, Mirror(c, op), op = "deny" => apolicy[c] # "new"
        PROVE  AuditInv'
    <3>1. /\ \A d \in AuditCalls : d # c => amirror'[d] = amirror[d]
          /\ amirror'[c] = amirror[c] \/ (amirror[c] = "none" /\ amirror'[c] = op)
          /\ ahitch => ahitch'
          /\ amirror' \in [AuditCalls -> {"none", "safeguard_block", "scope_deny",
                                          "scope_deny_shadowed", "deny", "budget_park"}]
      BY <2>3, MirrorOf
    <3> QED BY <2>1, <2>3, <3>1 DEF AuditInv
  <2> QED BY <2>1, <2>2, <2>3
<1>4. CASE TurnCancelled
  <2>1. /\ UNCHANGED <<aenforce, adenies, amirror>>
        /\ apolicy' = [c \in AuditCalls |-> IF UnderWay(c) THEN "deny" ELSE apolicy[c]]
        /\ ahitch' = (ahitch \/ \E c \in AuditCalls : UnderWay(c))
    BY <1>4 DEF TurnCancelled
  <2> QED BY <2>1 DEF AuditInv, UnderWay
<1>5. CASE GateArms \/ TurnFinishes \/ RecordJob \/ StopDispatched \/ RecordStop \/ UNCHANGED auditVars
  <2>1. UNCHANGED <<aenforce, apolicy, adenies, amirror>> /\ (ahitch => ahitch')
    BY <1>5 DEF GateArms, TurnFinishes, RecordJob, StopDispatched, RecordStop, auditVars
  <2> QED BY <2>1 DEF AuditInv
<1> QED BY <1>1, <1>2, <1>3, <1>4, <1>5 DEF AuditNext

(* A chain that is called complete has every denial with its copy, nothing *)
(* is called incomplete when all was written, and no call that ran counts  *)
(* as an enforced denial (coord/reconstruct.py, build_reconstruction).     *)
THEOREM ChainHolds == AuditSpec => []ChainIsTrue
BY AuditInit_Inv, AuditStep, ChainFollows, PTL DEF AuditSpec

-----------------------------------------------------------------------------
(* ScopeStore: AllowedOnRecord and RulesAreSerial                          *)

\* A snapshot's rules have places and times, of the times up to b, and only an
\* operator's rules are one-shots.
Fits(n, b) ==
  /\ n.gen \in Nat
  /\ \A r \in n.rules : r.since \in Nat /\ r.at \in 0..b /\ (r.once => r.origin = "adhoc")

\* The rows of scope_snapshots: one of each generation, none above the head.
TableFits(rows, head) ==
  /\ head \in Nat
  /\ \A n \in rows : n.gen \in Nat /\ n.gen <= head
  /\ \A n, m \in rows : n.gen = m.gen => n = m
  /\ \E n \in rows : n.gen = head

SnapshotsFit ==
  /\ sadded \in Nat
  /\ \A n \in stable : Fits(n, sadded)
  /\ \A s \in Stores : Fits(live[s], sadded)

\* A publication of engagement rules arms nothing and disarms nothing.
OwnedFits(o, b) ==
  o # NoSnapshot => /\ Fits(o.back, b) /\ Fits(o.new, b)
                    /\ o.new.gen = o.back.gen + 1 /\ Armed(o.new) = Armed(o.back)

Strict(c) == scalls[c].st = "allowed" /\ scalls[c].via = "strict"

\* A one-shot that admitted a call in the strict lane is armed no more in the head,
\* and admitted no other.
UsedUp ==
  /\ \A c \in ScopeCalls : Strict(c) => \A at \in scalls[c].used :
       /\ at \in 0..sadded
       /\ at \in srearmed \/ \A n \in stable : n.gen = shead => at \notin Armed(n)
  /\ \A c, d \in ScopeCalls : Strict(c) /\ Strict(d) /\ c # d =>
       \A at \in scalls[c].used : at \in scalls[d].used => at \in srearmed

ScopeInv ==
  /\ scalls = [c \in ScopeCalls |-> scalls[c]]
  /\ live = [s \in Stores |-> live[s]] /\ owned = [s \in Stores |-> owned[s]]
  /\ TableFits(stable, shead) /\ SnapshotsFit
  /\ \A s \in Stores : OwnedFits(owned[s], sadded)
  /\ UsedUp
  /\ AllowedOnRecord /\ ~slost

LEMMA UsedUpIsOnce == ScopeInv => RulesAreSerial
<1> SUFFICES ASSUME ScopeInv, NEW at \in 1..MaxRules, at \notin srearmed
             PROVE  Uses({"strict"}, at) <= 1
  BY DEF RulesAreSerial, OneShotOnce, NoLostRule, ScopeInv
<1> DEFINE used == {c \in ScopeCalls : /\ scalls[c].st = "allowed"
                                       /\ scalls[c].via \in {"strict"} /\ at \in scalls[c].used}
<1>1. \A c, d \in used : c = d
  BY DEF ScopeInv, UsedUp, Strict
<1>2. used = {} \/ \E c \in used : used = {c}
  BY <1>1
<1>3. Cardinality(used) <= 1
  <2> HIDE DEF used
  <2>1. CASE used = {}
    BY <2>1, FS_EmptySet
  <2>2. ASSUME NEW c \in used, used = {c} PROVE Cardinality(used) <= 1
    BY <2>2, FS_Singleton
  <2> QED
    BY <1>2, <2>1, <2>2
<1> QED
  BY <1>3 DEF Uses

LEMMA ScopeInit_Inv == ScopeInit => ScopeInv
<1> SUFFICES ASSUME ScopeInit PROVE ScopeInv
  OBVIOUS
<1>1. Bootstrap.gen = 0 /\ Bootstrap.rules = {}
  BY DEF Bootstrap
<1>2. TableFits(stable, shead)
  BY <1>1 DEF ScopeInit, TableFits
<1>3. SnapshotsFit
  BY <1>1 DEF ScopeInit, SnapshotsFit, Fits
<1>4. \A c \in ScopeCalls : scalls[c].st # "allowed"
  BY DEF ScopeInit, NewCall
<1>5. UsedUp /\ AllowedOnRecord
  BY <1>4 DEF UsedUp, Strict, AllowedOnRecord
<1>6. \A s \in Stores : OwnedFits(owned[s], sadded)
  BY DEF ScopeInit, OwnedFits
<1> QED
  BY <1>2, <1>3, <1>5, <1>6 DEF ScopeInit, ScopeInv

\* What the code takes for the head is the row that is.
LEMMA HeadIsTop ==
  ASSUME TableFits(stable, shead)
  PROVE  Top \in stable /\ Top.gen = shead /\ \A n \in stable : n.gen = shead => n = Top
BY DEF TableFits, Top

LEMMA FitsLater ==
  ASSUME NEW n, NEW b \in Nat, NEW d \in Nat, b <= d, Fits(n, b) PROVE Fits(n, d)
BY DEF Fits

\* The first of a list of rules is one of them.
LEMMA FirstIsOne ==
  ASSUME NEW R, R # {}, \A r \in R : r.since \in Nat PROVE First(R) \in R
<1> DEFINE number == [r \in R |-> r.since]
<1>1. \A r \in R : number[r] = r.since
  OBVIOUS
<1>2. \A r \in R : number[r] \in Nat
  BY <1>1
<1>3. \E r \in R : \A q \in R : number[r] <= number[q]
  <2> HIDE DEF number
  <2> QED
    BY <1>2, Least
<1>4. \E r \in R : \A q \in R : r.since <= q.since
  BY <1>1, <1>3
<1> QED
  BY <1>4 DEF First

\* A call matches one-shots that are armed, of the times given out so far.
LEMMA MatchesArmed ==
  ASSUME NEW n, NEW b \in Nat, Fits(n, b), NEW asked
  PROVE  \A at \in OneShots(n, asked) : at \in Armed(n) /\ at \in 0..b
<1> SUFFICES ASSUME NEW t, Covering(n, "in", t) # {}, First(Covering(n, "in", t)).once
             PROVE  /\ First(Covering(n, "in", t)).at \in Armed(n)
                    /\ First(Covering(n, "in", t)).at \in 0..b
  BY DEF OneShots
<1>1. \A r \in Covering(n, "in", t) : r \in n.rules /\ r.since \in Nat /\ ~r.spent
  BY DEF Covering, Fits
<1>2. First(Covering(n, "in", t)) \in Covering(n, "in", t)
  BY <1>1, FirstIsOne
<1> QED
  BY <1>1, <1>2 DEF Armed, Fits

LEMMA SpendDisarms ==
  ASSUME NEW s, NEW n, NEW ats, NEW b \in Nat, Fits(n, b)
  PROVE  /\ Fits(Spend(s, n, ats), b) /\ Spend(s, n, ats).gen = n.gen + 1
         /\ \A at \in Armed(Spend(s, n, ats)) : at \in Armed(n) /\ at \notin ats
<1> DEFINE spend(r) == [dir |-> r.dir, origin |-> r.origin, cover |-> r.cover, once |-> r.once,
                        at |-> r.at, spent |-> r.spent \/ r.at \in ats, since |-> r.since]
<1>1. /\ Spend(s, n, ats).gen = n.gen + 1
      /\ Spend(s, n, ats).rules = {spend(r) : r \in n.rules}
  BY DEF Spend, Successor
<1>2. \A r : /\ spend(r).at = r.at /\ spend(r).since = r.since /\ spend(r).origin = r.origin
             /\ (spend(r).once => r.once)
             /\ (~spend(r).spent => ~r.spent /\ r.at \notin ats)
  OBVIOUS
<1>3. \A q \in Spend(s, n, ats).rules : \E r \in n.rules :
        /\ q.at = r.at /\ q.since = r.since /\ q.origin = r.origin
        /\ q.once => r.once
        /\ ~q.spent => ~r.spent /\ r.at \notin ats
  <2> HIDE DEF spend
  <2> QED
    BY <1>1, <1>2
<1>4. Fits(Spend(s, n, ats), b)
  BY <1>1, <1>3 DEF Fits
<1>5. \A at \in Armed(Spend(s, n, ats)) : at \in Armed(n) /\ at \notin ats
  <2> SUFFICES ASSUME NEW q \in Spend(s, n, ats).rules, q.once, ~q.spent
               PROVE  q.at \in Armed(n) /\ q.at \notin ats
    BY DEF Armed
  <2>1. PICK r \in n.rules :
          /\ q.at = r.at
          /\ q.once => r.once
          /\ ~q.spent => ~r.spent /\ r.at \notin ats
    BY <1>3
  <2> QED
    BY <2>1 DEF Armed
<1> QED
  BY <1>1, <1>4, <1>5

\* Snapshots fit the times of later, too.
LEMMA SnapshotsLater ==
  ASSUME ScopeInv, sadded' \in Nat, sadded <= sadded'
  PROVE  /\ \A n \in stable : Fits(n, sadded')
         /\ \A s \in Stores : Fits(live[s], sadded') /\ OwnedFits(owned[s], sadded')
<1>1. sadded \in Nat
  BY DEF ScopeInv, SnapshotsFit
<1> QED
  BY <1>1, FitsLater DEF ScopeInv, SnapshotsFit, OwnedFits

\* The one-shots that were used stay used when calls stay as they are and nothing
\* is armed that was not, unless it is recorded.
LEMMA StayUsed ==
  ASSUME ScopeInv, scalls' = scalls, sadded' \in Nat, sadded <= sadded',
         srearmed \subseteq srearmed',
         \A n \in stable' : n.gen = shead' =>
           \A at \in Armed(n) : at \in 0..sadded => at \in Armed(Top) \/ at \in srearmed'
  PROVE  UsedUp'
<1>1. /\ Top \in stable /\ Top.gen = shead
      /\ UsedUp /\ sadded \in Nat
  BY HeadIsTop DEF ScopeInv, SnapshotsFit
<1>2. \A c \in ScopeCalls : Strict(c)' <=> Strict(c)
  BY DEF Strict
<1>3. ASSUME NEW c \in ScopeCalls, Strict(c), NEW at \in scalls[c].used
      PROVE  /\ at \in 0..sadded'
             /\ at \in srearmed' \/ \A n \in stable' : n.gen = shead' => at \notin Armed(n)
  <2>1. at \in 0..sadded /\ (at \in srearmed \/ at \notin Armed(Top))
    BY <1>1, <1>3 DEF UsedUp
  <2>2. at \in 0..sadded'
    BY <1>1, <2>1
  <2> QED
    BY <2>1, <2>2
<1>4. \A c, d \in ScopeCalls : Strict(c) /\ Strict(d) /\ c # d =>
        \A at \in scalls[c].used : at \in scalls[d].used => at \in srearmed'
  BY <1>1 DEF UsedUp
<1> QED
  BY <1>2, <1>3, <1>4 DEF UsedUp, Armed

LEMMA RecordStays == AllowedOnRecord /\ scalls' = scalls => AllowedOnRecord'
BY DEF AllowedOnRecord

\* A generation committed on the live snapshot of a store.
LEMMA CommitKeeps ==
  ASSUME ScopeInv, NEW s \in Stores, NEW n, NEW meant \in BOOLEAN, Commit(s, n, meant),
         n.gen = live[s].gen + 1, Fits(n, sadded'),
         sadded' \in Nat, sadded <= sadded', UNCHANGED <<owned, scalls>>,
         meant \/ \A at \in Armed(n) : at \in 0..sadded => at \in Armed(live[s])
  PROVE  ScopeInv'
<1>1. /\ Top \in stable /\ Top.gen = shead /\ TableFits(stable, shead)
      /\ \A m \in stable : m.gen = shead => m = Top
      /\ sadded \in Nat
  BY HeadIsTop DEF ScopeInv, SnapshotsFit
<1>2. /\ live[s].gen = shead /\ stable' = stable \cup {n} /\ shead' = n.gen
      /\ live' \in {live, [live EXCEPT ![s] = n]}
      /\ srearmed' = IF meant \/ live[s] \notin stable
                     THEN srearmed \cup {at \in Armed(n) \ Armed(Top) : at <= sadded} ELSE srearmed
      /\ slost' = (slost \/ live[s] \in stable \ {Top})
  BY DEF Commit, Current
<1>3. n.gen = shead + 1 /\ shead \in Nat
  BY <1>1, <1>2 DEF TableFits
<1>4. TableFits(stable', shead')
  BY <1>1, <1>2, <1>3 DEF TableFits
<1>5. live' = [t \in Stores |-> live'[t]] /\ \A t \in Stores : live'[t] \in {live[t], n}
  BY <1>2 DEF ScopeInv
<1>6. SnapshotsFit' /\ \A t \in Stores : OwnedFits(owned'[t], sadded')
  <2>1. /\ \A m \in stable : Fits(m, sadded')
        /\ \A t \in Stores : Fits(live[t], sadded') /\ OwnedFits(owned[t], sadded')
    BY SnapshotsLater
  <2> QED
    BY <1>2, <1>5, <2>1 DEF SnapshotsFit, Fits
<1>7. UsedUp'
  <2>1. \A m \in stable' : m.gen = shead' => m = n
    BY <1>1, <1>2, <1>3 DEF TableFits
  <2>2. srearmed \subseteq srearmed'
    BY <1>2
  <2>3. ASSUME NEW at \in Armed(n), at \in 0..sadded
        PROVE  at \in Armed(Top) \/ at \in srearmed'
    <3>1. at <= sadded
      BY <1>1, <2>3
    <3>2. CASE meant \/ live[s] \notin stable
      BY <1>2, <2>3, <3>1, <3>2
    <3>3. CASE ~meant /\ live[s] \in stable
      <4>1. live[s] = Top
        BY <1>1, <1>2, <3>3
      <4> QED
        BY <2>3, <3>3, <4>1
    <3> QED
      BY <3>2, <3>3
  <2>4. scalls' = scalls
    OBVIOUS
  <2> QED
    BY <2>1, <2>2, <2>3, <2>4, StayUsed
<1>8. AllowedOnRecord' /\ ~slost'
  BY <1>1, <1>2, RecordStays DEF ScopeInv
<1> QED
  BY <1>4, <1>5, <1>6, <1>7, <1>8 DEF ScopeInv

\* What a store commits on its live snapshot: an adhoc rule more or less, the
\* publication it prepared, or the rules of an earlier generation.
LEMMA AddKeeps ==
  ASSUME ScopeInv, NEW s \in Stores, NEW a, AddAdhoc(s, a) PROVE ScopeInv'
<1> DEFINE rule == [dir |-> a.dir, origin |-> "adhoc", cover |-> a.cover, once |-> a.once,
                    at |-> sadded + 1, spent |-> FALSE, since |-> live[s].gen + 1]
           n == Successor(live[s], s, Without(live[s].rules, a) \cup {rule}, live[s].research)
<1>1. /\ sadded' = sadded + 1 /\ Commit(s, n, FALSE)
      /\ UNCHANGED <<owned, scalls>>
  BY DEF AddAdhoc
<1>2. sadded \in Nat /\ Fits(live[s], sadded)
  BY DEF ScopeInv, SnapshotsFit
<1>3. /\ rule.since \in Nat /\ rule.at = sadded + 1 /\ rule.at \in 0..sadded'
      /\ rule.origin = "adhoc"
  BY <1>1, <1>2 DEF Fits
<1>4. /\ n.gen = live[s].gen + 1
      /\ \A r \in n.rules : r \in live[s].rules \/ r = rule
  BY DEF Successor, Without
<1> HIDE DEF n, rule
<1>5. Fits(n, sadded')
  BY <1>1, <1>2, <1>3, <1>4 DEF Fits
<1>6. \A at \in Armed(n) : at \in 0..sadded => at \in Armed(live[s])
  <2> SUFFICES ASSUME NEW r \in n.rules, r.once, ~r.spent, r.at \in 0..sadded
               PROVE  r.at \in Armed(live[s])
    BY DEF Armed
  <2>1. r \in live[s].rules
    BY <1>2, <1>3, <1>4
  <2> QED
    BY <2>1 DEF Armed
<1>7. sadded' \in Nat /\ sadded <= sadded'
  BY <1>1, <1>2
<1>8. FALSE \/ \A at \in Armed(n) : at \in 0..sadded => at \in Armed(live[s])
  BY <1>6
<1> QED
  BY <1>1, <1>4, <1>5, <1>7, <1>8, CommitKeeps, Zenon

LEMMA RemoveKeeps ==
  ASSUME ScopeInv, NEW s \in Stores, NEW a, RemoveAdhoc(s, a) PROVE ScopeInv'
<1> DEFINE n == Successor(live[s], s, Without(live[s].rules, a), live[s].research)
<1>1. sadded' = sadded /\ Commit(s, n, FALSE) /\ UNCHANGED <<owned, scalls>>
  BY DEF RemoveAdhoc
<1>2. sadded \in Nat /\ Fits(live[s], sadded)
  BY DEF ScopeInv, SnapshotsFit
<1>3. n.gen = live[s].gen + 1 /\ n.rules \subseteq live[s].rules
  BY DEF Successor, Without
<1> HIDE DEF n
<1>4. Fits(n, sadded') /\ \A at \in Armed(n) : at \in Armed(live[s])
  BY <1>1, <1>2, <1>3 DEF Fits, Armed
<1>5. sadded' \in Nat /\ sadded <= sadded'
  BY <1>1, <1>2
<1>6. FALSE \/ \A at \in Armed(n) : at \in 0..sadded => at \in Armed(live[s])
  BY <1>4
<1> QED
  BY <1>1, <1>3, <1>4, <1>5, <1>6, CommitKeeps, Zenon

LEMMA PublishKeeps ==
  ASSUME ScopeInv, NEW s \in Stores, Publish(s) PROVE ScopeInv'
<1>1. /\ owned[s] # NoSnapshot /\ owned[s].back = live[s]
      /\ Commit(s, owned[s].new, FALSE) /\ UNCHANGED <<owned, scalls, sadded>>
  BY DEF Publish
<1>2. OwnedFits(owned[s], sadded) /\ sadded \in Nat
  BY DEF ScopeInv, SnapshotsFit
<1>3. /\ owned[s].new.gen = live[s].gen + 1 /\ Fits(owned[s].new, sadded')
      /\ Armed(owned[s].new) = Armed(live[s])
  BY <1>1, <1>2 DEF OwnedFits
<1>4. sadded' \in Nat /\ sadded <= sadded'
  BY <1>1, <1>2
<1>5. FALSE \/ \A at \in Armed(owned[s].new) : at \in 0..sadded => at \in Armed(live[s])
  BY <1>3
<1> QED
  BY <1>1, <1>3, <1>4, <1>5, CommitKeeps, Zenon

LEMMA RestoreKeeps ==
  ASSUME ScopeInv, NEW s \in Stores, NEW old \in stable, Restore(s, old) PROVE ScopeInv'
<1> DEFINE n == Successor(live[s], s, old.rules, old.research)
<1>1. sadded' = sadded /\ Commit(s, n, TRUE) /\ UNCHANGED <<owned, scalls>>
  BY DEF Restore
<1>2. sadded \in Nat /\ Fits(old, sadded) /\ Fits(live[s], sadded)
  BY DEF ScopeInv, SnapshotsFit
<1>3. n.gen = live[s].gen + 1 /\ n.rules = old.rules
  BY DEF Successor
<1> HIDE DEF n
<1>4. Fits(n, sadded')
  BY <1>1, <1>2, <1>3 DEF Fits
<1>5. sadded' \in Nat /\ sadded <= sadded'
  BY <1>1, <1>2
<1>6. TRUE \/ \A at \in Armed(n) : at \in 0..sadded => at \in Armed(live[s])
  OBVIOUS
<1> QED
  BY <1>1, <1>3, <1>4, <1>5, <1>6, CommitKeeps, Zenon

\* A step that leaves the rows, the calls and the times alone.
LEMMA TableStays ==
  ASSUME ScopeInv, UNCHANGED <<stable, shead, scalls, sadded, srearmed, slost>>,
         live' = [s \in Stores |-> live'[s]], owned' = [s \in Stores |-> owned'[s]],
         \A s \in Stores : live'[s] = live[s] \/ live'[s] \in stable,
         \A s \in Stores : OwnedFits(owned'[s], sadded)
  PROVE  ScopeInv'
<1>1. TableFits(stable', shead') /\ UsedUp'
  BY DEF ScopeInv, UsedUp, Strict, TableFits
<1>2. SnapshotsFit' /\ \A s \in Stores : OwnedFits(owned'[s], sadded')
  BY DEF ScopeInv, SnapshotsFit
<1>3. AllowedOnRecord' /\ ~slost'
  BY RecordStays DEF ScopeInv
<1> QED
  BY <1>1, <1>2, <1>3 DEF ScopeInv

LEMMA PrepareKeeps ==
  ASSUME ScopeInv, NEW s \in Stores, NEW p, Prepare(s, p) PROVE ScopeInv'
<1> DEFINE gen == live[s].gen + 1
           own == {r \in live[s].rules : r.origin # "engagement"}
           new == Successor(live[s], s, own \cup EngagementRules(p, gen), p.research)
           o == [back |-> live[s], new |-> new]
<1>1. /\ owned' = [owned EXCEPT ![s] = o]
      /\ UNCHANGED <<stable, shead, live, scalls, sadded, srearmed, slost>>
  BY DEF Prepare
<1>2. sadded \in Nat /\ Fits(live[s], sadded)
  BY DEF ScopeInv, SnapshotsFit
<1>3. \A r \in EngagementRules(p, gen) :
        r.since = gen /\ r.at = 0 /\ ~r.once /\ r.origin = "engagement"
  BY DEF EngagementRules
<1>4. gen \in Nat /\ new.gen = gen /\ new.rules = own \cup EngagementRules(p, gen)
  BY <1>2 DEF Successor, Fits
<1>5. \A r \in live[s].rules : r.once => r \in own
  BY <1>2 DEF Fits
<1>6. o.back = live[s] /\ o.new = new
  OBVIOUS
<1>7. Fits(new, sadded)
  <2> HIDE DEF gen, new
  <2> QED
    BY <1>2, <1>3, <1>4 DEF Fits
<1>8. Armed(new) = Armed(live[s])
  <2>1. \A r : (r \in new.rules /\ r.once) <=> (r \in live[s].rules /\ r.once)
    <3> HIDE DEF gen, new
    <3> QED
      BY <1>3, <1>4, <1>5
  <2> HIDE DEF new
  <2> QED
    BY <2>1 DEF Armed
<1> HIDE DEF o, new
<1>9. OwnedFits(o, sadded)
  BY <1>2, <1>4, <1>6, <1>7, <1>8 DEF OwnedFits
<1>10. owned' = [t \in Stores |-> owned'[t]] /\ \A t \in Stores : owned'[t] \in {owned[t], o}
  BY <1>1 DEF ScopeInv
<1>11. \A t \in Stores : OwnedFits(owned'[t], sadded)
  BY <1>9, <1>10 DEF ScopeInv
<1> QED
  BY <1>1, <1>10, <1>11, TableStays DEF ScopeInv

\* A roll back to the checkpoint, of the owner's own publication.
LEMMA RollBackKeeps ==
  ASSUME ScopeInv, NEW s \in Stores, RollBack(s) PROVE ScopeInv'
<1> DEFINE back == owned[s].back
<1>1. /\ Top \in stable /\ Top.gen = shead /\ TableFits(stable, shead)
      /\ \A m \in stable : m.gen = shead => m = Top
      /\ sadded \in Nat
  BY HeadIsTop DEF ScopeInv, SnapshotsFit
<1>2. /\ owned[s] # NoSnapshot /\ owned' = [owned EXCEPT ![s] = NoSnapshot]
      /\ UNCHANGED <<scalls, sadded, srearmed, slost>>
  BY DEF RollBack
<1>3. /\ owned' = [t \in Stores |-> owned'[t]]
      /\ \A t \in Stores : OwnedFits(owned'[t], sadded)
  BY <1>2 DEF ScopeInv, OwnedFits
<1>4. CASE Top = back /\ live' = [live EXCEPT ![s] = Top] /\ UNCHANGED <<stable, shead>>
  BY <1>1, <1>2, <1>3, <1>4, TableStays DEF ScopeInv
<1>5. CASE UNCHANGED <<stable, shead, live>>
  BY <1>1, <1>2, <1>3, <1>5, TableStays DEF ScopeInv
<1>6. CASE /\ Top = owned[s].new /\ back \in stable
           /\ stable' = {n \in stable : n.gen <= back.gen} /\ shead' = back.gen
           /\ live' = [live EXCEPT ![s] = back]
  <2>1. Armed(back) = Armed(Top) /\ Fits(back, sadded) /\ back.gen \in Nat
    BY <1>2, <1>6 DEF ScopeInv, OwnedFits, Fits
  <2> HIDE DEF back
  <2>2. TableFits(stable', shead') /\ \A n \in stable' : n.gen = shead' => n = back
    BY <1>1, <1>6, <2>1 DEF TableFits
  <2>3. SnapshotsFit' /\ live' = [t \in Stores |-> live'[t]]
    BY <1>1, <1>2, <1>6, <2>1 DEF ScopeInv, SnapshotsFit
  <2>4. \A n \in stable' : n.gen = shead' =>
          \A at \in Armed(n) : at \in 0..sadded => at \in Armed(Top) \/ at \in srearmed'
    BY <2>1, <2>2
  <2>5. scalls' = scalls /\ sadded' \in Nat /\ sadded <= sadded' /\ srearmed \subseteq srearmed'
    BY <1>1, <1>2
  <2>6. UsedUp'
    BY <2>4, <2>5, StayUsed
  <2>7. AllowedOnRecord' /\ ~slost'
    BY <1>2, RecordStays DEF ScopeInv
  <2> QED
    BY <1>2, <1>3, <2>2, <2>3, <2>6, <2>7 DEF ScopeInv
<1> QED
  BY <1>4, <1>5, <1>6 DEF RollBack

\* Of a call: no verdict of the strict lane, and if it is allowed, a row.
NotStrict(call) ==
  call.st = "allowed" => /\ call.via # "strict"
                         /\ call.row = "allow" \/ (call.via = "research" /\ call.row = "deny")

\* A step of calls that are in no strict lane, which commits nothing.
LEMMA CallsMove ==
  ASSUME ScopeInv, UNCHANGED <<stable, shead, sadded, srearmed, slost>>,
         live' = [s \in Stores |-> live'[s]],
         \A s \in Stores : live'[s] = live[s] \/ live'[s] \in stable,
         owned' = [s \in Stores |-> owned'[s]],
         \A s \in Stores : owned'[s] = owned[s] \/ owned'[s] = NoSnapshot,
         scalls' = [c \in ScopeCalls |-> scalls'[c]],
         \A c \in ScopeCalls : scalls'[c] = scalls[c] \/ NotStrict(scalls'[c])
  PROVE  ScopeInv'
<1>1. TableFits(stable', shead') /\ SnapshotsFit'
  BY DEF ScopeInv, TableFits, SnapshotsFit
<1>2. \A s \in Stores : OwnedFits(owned'[s], sadded')
  BY DEF ScopeInv, OwnedFits
<1>3. \A c \in ScopeCalls : Strict(c)' => Strict(c) /\ scalls'[c] = scalls[c]
  BY DEF Strict, NotStrict
<1>4. UsedUp'
  BY <1>3 DEF ScopeInv, UsedUp
<1>5. AllowedOnRecord'
  BY DEF ScopeInv, AllowedOnRecord, NotStrict
<1> QED
  BY <1>1, <1>2, <1>4, <1>5 DEF ScopeInv

LEMMA LogKeeps ==
  ASSUME ScopeInv, NEW s, NEW c, NEW ok, NEW ended, Log(s, c, ok, ended),
         NotStrict(ended)
  PROVE  ScopeInv'
<1>1. UNCHANGED <<stable, shead, owned, sadded, srearmed, slost>>
  BY DEF Log
<1>2. NotStrict(Ended(FALSE, "none", "none", {}))
  BY DEF Ended, NotStrict
<1>3. \E e : NotStrict(e) /\ scalls' = [scalls EXCEPT ![c] = e]
  BY <1>2 DEF Log, Unaudited
<1>4. /\ live' = [t \in Stores |-> live'[t]]
      /\ \A t \in Stores : live'[t] = live[t] \/ live'[t] \in stable
  <2>1. Top \in stable
    BY HeadIsTop DEF ScopeInv
  <2>2. Persisted(s) = live[s] \/ Persisted(s) \in stable
    BY <2>1 DEF Persisted
  <2>3. live' = live \/ live' = [live EXCEPT ![s] = Persisted(s)]
    BY DEF Log
  <2> QED
    BY <2>2, <2>3 DEF ScopeInv
<1>5. /\ scalls' = [d \in ScopeCalls |-> scalls'[d]]
      /\ \A d \in ScopeCalls : scalls'[d] = scalls[d] \/ NotStrict(scalls'[d])
  BY <1>3 DEF ScopeInv
<1>6. /\ owned' = [t \in Stores |-> owned'[t]]
      /\ \A t \in Stores : owned'[t] = owned[t] \/ owned'[t] = NoSnapshot
  BY <1>1 DEF ScopeInv
<1> QED
  BY <1>1, <1>4, <1>5, <1>6, CallsMove

LEMMA StoreKeeps ==
  ASSUME ScopeInv, NEW s \in Stores, Settle(s) \/ Reopen(s) PROVE ScopeInv'
<1>1. Top \in stable
  BY HeadIsTop DEF ScopeInv
<1>2. CASE Settle(s)
  BY <1>2, CallsMove DEF Settle, ScopeInv
<1>3. CASE Reopen(s)
  <2>1. \A d \in ScopeCalls : scalls'[d] = scalls[d] \/ NotStrict(scalls'[d])
    BY <1>3 DEF Reopen, NotStrict
  <2>2. /\ UNCHANGED <<stable, shead, sadded, srearmed, slost>>
        /\ live' = [t \in Stores |-> live'[t]] /\ owned' = [t \in Stores |-> owned'[t]]
        /\ scalls' = [d \in ScopeCalls |-> scalls'[d]]
        /\ \A t \in Stores : live'[t] = live[t] \/ live'[t] \in stable
        /\ \A t \in Stores : owned'[t] = owned[t] \/ owned'[t] = NoSnapshot
    BY <1>1, <1>3 DEF Reopen, ScopeInv
  <2> QED
    BY <2>1, <2>2, CallsMove
<1> QED
  BY <1>2, <1>3

LEMMA ResearchStarts ==
  ASSUME ScopeInv, NEW s, NEW c, NEW asked, StartResearch(s, c, asked) PROVE ScopeInv'
<1>1. \A d \in ScopeCalls : scalls'[d] = scalls[d] \/ NotStrict(scalls'[d])
  BY DEF StartResearch, ScopeInv, NotStrict
<1> QED
  BY <1>1, CallsMove DEF StartResearch, ScopeInv

LEMMA FixedKeeps ==
  ASSUME ScopeInv, NEW s, NEW c, LogFixed(s, c) PROVE ScopeInv'
<1>1. PICK ok \in BOOLEAN : Log(s, c, ok, Ended(ok, "fixed", Row(ok), {}))
  BY DEF LogFixed
<1>2. NotStrict(Ended(ok, "fixed", Row(ok), {}))
  BY DEF Ended, NotStrict, Row
<1> QED
  BY <1>1, <1>2, LogKeeps

LEMMA JudgeKeeps ==
  ASSUME ScopeInv, NEW c \in ScopeCalls, Judge(c) \/ EndResearch(c) PROVE ScopeInv'
<1>1. CASE Judge(c)
  <2>1. \A d \in ScopeCalls : scalls'[d] = scalls[d] \/ NotStrict(scalls'[d])
    BY <1>1 DEF Judge, ScopeInv, NotStrict
  <2> QED
    BY <1>1, <2>1, CallsMove DEF Judge, ScopeInv
<1>2. CASE EndResearch(c)
  <2> DEFINE call == scalls[c]
             row == Row(ResearchAllows(Persisted(call.by), call.asked))
  <2>1. Log(call.by, c, call.ok, Ended(call.ok, "research", row, call.used))
    BY <1>2 DEF EndResearch
  <2>2. row \in {"allow", "deny"}
    BY DEF Row
  <2>3. NotStrict(Ended(call.ok, "research", row, call.used))
    <3> HIDE DEF row
    <3> QED
      BY <2>2 DEF Ended, NotStrict
  <2> QED
    BY <2>1, <2>3, LogKeeps
<1> QED
  BY <1>1, <1>2

\* The strict lane: the call is judged against the head, and what it used is
\* disarmed in the generation committed with its row.
LEMMA AuthorizeKeeps ==
  ASSUME ScopeInv, NEW s \in Stores, NEW c \in ScopeCalls, NEW asked, Authorize(s, c, asked)
  PROVE  ScopeInv'
<1> DEFINE ok == Allows(Top, asked)
           used == IF ok THEN OneShots(Top, asked) ELSE {}
           next == IF used = {} THEN Top ELSE Spend(s, Top, used)
           ended == Ended(ok, "strict", Row(ok), used)
<1>1. /\ Top \in stable /\ Top.gen = shead /\ TableFits(stable, shead)
      /\ \A m \in stable : m.gen = shead => m = Top
      /\ sadded \in Nat /\ Fits(Top, sadded)
  BY HeadIsTop DEF ScopeInv, SnapshotsFit
<1>2. /\ UNCHANGED <<owned, sadded, srearmed, slost>> /\ scalls[c].st = "new"
      /\ \/ /\ stable' = stable \cup {next} /\ shead' = next.gen
            /\ live' = [live EXCEPT ![s] = next] /\ scalls' = [scalls EXCEPT ![c] = ended]
         \/ Unaudited(c, ok) /\ UNCHANGED <<stable, shead, live>>
  BY DEF Authorize
<1>3. CASE Unaudited(c, ok) /\ UNCHANGED <<stable, shead, live>>
  <2>1. NotStrict(Ended(FALSE, "none", "none", {}))
    BY DEF Ended, NotStrict
  <2>2. /\ scalls' = [d \in ScopeCalls |-> scalls'[d]]
        /\ \A d \in ScopeCalls : scalls'[d] = scalls[d] \/ NotStrict(scalls'[d])
    BY <1>3, <2>1 DEF Unaudited, ScopeInv
  <2> QED
    BY <1>2, <1>3, <2>2, CallsMove DEF ScopeInv
<1>4. CASE /\ stable' = stable \cup {next} /\ shead' = next.gen
           /\ live' = [live EXCEPT ![s] = next] /\ scalls' = [scalls EXCEPT ![c] = ended]
  <2>1. \A at \in used : at \in Armed(Top) /\ at \in 0..sadded
    BY <1>1, MatchesArmed
  <2>2. /\ Fits(next, sadded)
        /\ next = Top \/ next.gen = Top.gen + 1
        /\ \A at \in Armed(next) : at \in Armed(Top) /\ at \notin used
    BY <1>1, SpendDisarms
  <2>3. /\ ended.st = "allowed" => ended.row = "allow" /\ ended.used = used
        /\ ended.st = "allowed" => ended.via = "strict"
    BY DEF Ended, Row
  <2> HIDE DEF ok, used, next, ended
  <2>4. TableFits(stable', shead') /\ \A n \in stable' : n.gen = shead' => n = next
    BY <1>1, <1>4, <2>2 DEF TableFits
  <2>5. SnapshotsFit' /\ live' = [t \in Stores |-> live'[t]]
    BY <1>1, <1>2, <1>4, <2>2 DEF ScopeInv, SnapshotsFit
  <2>6. /\ scalls' = [d \in ScopeCalls |-> scalls'[d]] /\ scalls'[c] = ended
        /\ \A d \in ScopeCalls : d # c => scalls'[d] = scalls[d]
    BY <1>4 DEF ScopeInv
  <2>7. AllowedOnRecord'
    BY <2>3, <2>6 DEF ScopeInv, AllowedOnRecord
  <2>8. ASSUME NEW d \in ScopeCalls, Strict(d)', NEW at \in scalls'[d].used
        PROVE  /\ at \in 0..sadded'
               /\ at \in srearmed' \/ \A n \in stable' : n.gen = shead' => at \notin Armed(n)
    <3>1. CASE d = c
      BY <1>2, <2>1, <2>2, <2>3, <2>4, <2>6, <2>8, <3>1 DEF Strict
    <3>2. CASE d # c
      <4>1. Strict(d) /\ at \in scalls[d].used
        BY <2>6, <2>8, <3>2 DEF Strict
      <4>2. at \in 0..sadded /\ (at \in srearmed \/ at \notin Armed(Top))
        BY <1>1, <4>1 DEF ScopeInv, UsedUp
      <4> QED
        BY <1>2, <2>2, <2>4, <4>2
    <3> QED
      BY <3>1, <3>2
  <2>9. ASSUME NEW d \in ScopeCalls, d # c, Strict(d)', Strict(c)', NEW at \in used,
               at \in scalls'[d].used
        PROVE  at \in srearmed'
    <3>1. Strict(d) /\ at \in scalls[d].used
      BY <2>6, <2>9 DEF Strict
    <3>2. at \in srearmed \/ at \notin Armed(Top)
      BY <1>1, <3>1 DEF ScopeInv, UsedUp
    <3> QED
      BY <1>2, <2>1, <3>2
  <2>10. ASSUME NEW d \in ScopeCalls, NEW e \in ScopeCalls, Strict(d)', Strict(e)', d # e,
                NEW at \in scalls'[d].used, at \in scalls'[e].used
         PROVE  at \in srearmed'
    <3>1. CASE d = c
      BY <2>3, <2>6, <2>9, <2>10, <3>1 DEF Strict
    <3>2. CASE e = c
      BY <2>3, <2>6, <2>9, <2>10, <3>2 DEF Strict
    <3>3. CASE d # c /\ e # c
      BY <1>2, <2>6, <2>10, <3>3 DEF ScopeInv, UsedUp, Strict
    <3> QED
      BY <3>1, <3>2, <3>3
  <2>11. UsedUp'
    BY <2>8, <2>10 DEF UsedUp
  <2> QED
    BY <1>2, <2>4, <2>5, <2>6, <2>7, <2>11 DEF ScopeInv
<1> QED
  BY <1>2, <1>3, <1>4

LEMMA ScopeStep == ScopeInv /\ [ScopeNext]_scopeVars => ScopeInv'
<1> SUFFICES ASSUME ScopeInv, [ScopeNext]_scopeVars PROVE ScopeInv'
  OBVIOUS
<1>1. CASE UNCHANGED scopeVars
  BY <1>1, CallsMove DEF scopeVars, ScopeInv
<1>2. ASSUME NEW s \in Stores, NEW a \in Adhoc, AddAdhoc(s, a) \/ RemoveAdhoc(s, a)
      PROVE  ScopeInv'
  BY <1>2, AddKeeps, RemoveKeeps
<1>3. ASSUME NEW s \in Stores, NEW p \in Profiles, Prepare(s, p) PROVE ScopeInv'
  BY <1>3, PrepareKeeps
<1>4. ASSUME NEW s \in Stores, Publish(s) \/ RollBack(s) PROVE ScopeInv'
  BY <1>4, PublishKeeps, RollBackKeeps
<1>5. ASSUME NEW s \in Stores, Settle(s) \/ Reopen(s) PROVE ScopeInv'
  BY <1>5, StoreKeeps
<1>6. ASSUME NEW s \in Stores, NEW old \in stable, Restore(s, old) PROVE ScopeInv'
  BY <1>6, RestoreKeeps
<1>7. ASSUME NEW s \in Stores, NEW c \in ScopeCalls, NEW asked \in Requests,
             Authorize(s, c, asked) \/ StartResearch(s, c, asked)
      PROVE  ScopeInv'
  BY <1>7, AuthorizeKeeps, ResearchStarts
<1>8. ASSUME NEW s \in Stores, NEW c \in ScopeCalls, LogFixed(s, c) PROVE ScopeInv'
  BY <1>8, FixedKeeps
<1>9. ASSUME NEW c \in ScopeCalls, Judge(c) \/ EndResearch(c) PROVE ScopeInv'
  BY <1>9, JudgeKeeps
<1> QED
  BY <1>1, <1>2, <1>3, <1>4, <1>5, <1>6, <1>7, <1>8, <1>9 DEF ScopeNext

(* No call runs without a row of the audit table, and in the strict lane   *)
(* the snapshot the row names allows it (scope.py, authorize_and_log), for *)
(* any stores, rules and requests and any number of generations.           *)
THEOREM AllowedIsOnRecord == ScopeSpec => []AllowedOnRecord
<1>1. ScopeInv => AllowedOnRecord
  BY DEF ScopeInv
<1> QED
  BY <1>1, ScopeInit_Inv, ScopeStep, PTL DEF ScopeSpec

(* A one-shot rule admits one call of the strict lane unless it was armed  *)
(* again, and no generation is built on another than it replaces           *)
(* (scope.py, _commit_snapshot, _consume, restore_checkpoint).             *)
THEOREM StoresAreOne == ScopeSpec => []RulesAreSerial
BY UsedUpIsOnce, ScopeInit_Inv, ScopeStep, PTL DEF ScopeSpec
================================================================================
