----------------------------- MODULE ContextStore -----------------------------
(***************************************************************************)
(* The shared context store (bus/_context_store.py): keys that agents and  *)
(* the daemon write, cached in memory and written to SQLite first; records *)
(* that are written best effort; and the events table, which is pruned to  *)
(* the newest Cap rows of an agent once per Interval insertions.           *)
(*                                                                         *)
(* Everything that touches the connection holds one lock, so a transaction *)
(* is one step, with the ways in which it can fail. The count of insertions*)
(* is kept outside of the lock, and events are recorded by many threads.   *)
(* One agent records here. Values and events are numbered in their order.  *)
(***************************************************************************)
EXTENDS Integers, Sequences, FiniteSets

CONSTANTS
  Keys, StaleKeys,        \* of (agent, key) and of meta; those that match job_*
  Recorders,              \* threads that record events
  Cap, Interval,          \* events_cap_per_agent, prune_check_interval
  MaxWrites, MaxEvents, MaxFaults      \* bounds

ASSUME ContextAssumption ==
  /\ StaleKeys \subseteq Keys
  /\ {Cap, Interval} \subseteq Nat \ {0} /\ {MaxWrites, MaxEvents, MaxFaults} \subseteq Nat

VARIABLES
  dcache, ddisk,          \* of each key its value, 0 for none
  dconn,                  \* the connection: open, dropped, closed
  dpending,               \* a statement whose transaction is still open
  dwrites,
  drejected,              \* history: values whose write was refused to its caller
  devents,                \* the rows of the events table
  devent,                 \* rows inserted so far
  dcount,                 \* _inserts_since_prune
  dat, dread,             \* of each recorder: where it is, and the count it read
  ddegraded,
  dunseen,                \* history: a record was dropped, and health() is ok
  dfaults

contextVars == <<dcache, ddisk, dconn, dpending, dwrites, drejected, devents, devent,
                 dcount, dat, dread, ddegraded, dunseen, dfaults>>

ContextInit ==
  /\ dcache = [k \in Keys |-> 0] /\ ddisk = [k \in Keys |-> 0]
  /\ dconn = "open" /\ dpending = FALSE
  /\ dwrites = 0 /\ drejected = {}
  /\ devents = {} /\ devent = 0 /\ dcount = 0 /\ dat = [w \in Recorders |-> "idle"]
  /\ dread = [w \in Recorders |-> 0]
  /\ ddegraded = FALSE /\ dunseen = FALSE /\ dfaults = 0

-----------------------------------------------------------------------------
(* _txn *)

\* Mutant: the statement that failed to commit stays in the connection.
RolledBack_Not == dpending' = TRUE /\ UNCHANGED dconn

\* On any failure the transaction is rolled back; when that fails as well, the
\* connection is dropped, and the store goes on in memory.
RolledBack ==
  /\ dpending' = FALSE
  /\ dconn' \in {dconn, "dropped"}

\* A transaction fails: in its statement or commit, or at once since another
\* one is still open.
Aborts(cause) ==
  /\ dconn = "open"
  /\ IF dpending THEN UNCHANGED <<dpending, dconn, dfaults>>
                 ELSE dfaults < MaxFaults /\ dfaults' = dfaults + 1 /\ cause

Commits == dconn = "open" /\ ~dpending /\ UNCHANGED <<dpending, dconn, dfaults>>

-----------------------------------------------------------------------------
(* Keys: commit first, publish second *)

\* Mutant: the cache has the value before the commit.
Publish_First(cache, committed) == dcache' = cache

PublishCache(cache, committed) == IF committed THEN dcache' = cache ELSE UNCHANGED dcache

\* write and meta_set of a value, delete and meta_delete of several keys.
Change(ks, value) ==
  LET changed(f) == [k \in Keys |-> IF k \in ks THEN value ELSE f[k]]
  IN  \/ /\ Commits
         /\ ddisk' = changed(ddisk) /\ PublishCache(changed(dcache), TRUE)
         /\ UNCHANGED drejected
      \/ /\ dconn # "open"                       \* in memory only
         /\ PublishCache(changed(dcache), TRUE)
         /\ UNCHANGED <<ddisk, drejected, dconn, dpending, dfaults>>
      \/ /\ Aborts(RolledBack)                    \* raised to the caller
         /\ drejected' = drejected \cup ({value} \ {0})
         /\ PublishCache(changed(dcache), FALSE)
         /\ UNCHANGED ddisk

RecordsSame == UNCHANGED <<devents, devent, dcount, dat, dread, ddegraded, dunseen>>

WriteKey(k) ==
  /\ dwrites < MaxWrites
  /\ dwrites' = dwrites + 1
  /\ Change({k}, dwrites')
  /\ RecordsSame

DeleteKey(k) ==
  /\ dcache[k] # 0
  /\ Change({k}, 0)
  /\ UNCHANGED dwrites /\ RecordsSame

\* gc_stale_job_keys, at the start of the daemon.
CollectStale ==
  /\ dconn = "open" /\ \E k \in StaleKeys : dcache[k] # 0
  /\ Change(StaleKeys, 0)
  /\ UNCHANGED dwrites /\ RecordsSame

-----------------------------------------------------------------------------
(* Records *)

KeysSame == UNCHANGED <<dcache, ddisk, dwrites, drejected>>

\* A record that is lost is told by health(), unless the connection is gone.
Degrades == ddegraded' = TRUE /\ UNCHANGED dunseen

\* It fails, or there is no connection, when nothing is said.
RecordLost ==
  /\ \/ Aborts(RolledBack) /\ Degrades
     \/ /\ dconn # "open"
        /\ dunseen' = (dunseen \/ (dconn = "dropped" /\ ~ddegraded))
        /\ UNCHANGED <<ddegraded, dconn, dpending, dfaults>>
  /\ UNCHANGED <<devents, devent, dat>>

\* record_event.
RecordEvent(w) ==
  /\ dat[w] = "idle" /\ devent < MaxEvents
  /\ \/ /\ Commits
        /\ devent' = devent + 1 /\ devents' = devents \cup {devent'}
        /\ dat' = [dat EXCEPT ![w] = "inserted"]
        /\ UNCHANGED <<ddegraded, dunseen>>
     \/ RecordLost
  /\ UNCHANGED <<dcount, dread>> /\ KeysSame

\* record_job and the records that nothing counts: they matter when they fail.
RecordJobRow == RecordLost /\ UNCHANGED <<dcount, dread>> /\ KeysSame

NoTxn == UNCHANGED <<dconn, dpending, dfaults, devents, devent, ddegraded, dunseen>>

\* += reads the count and writes it, and others may in between.
ReadCount(w) ==
  /\ dat[w] = "inserted"
  /\ dat' = [dat EXCEPT ![w] = "counting"] /\ dread' = [dread EXCEPT ![w] = dcount]
  /\ UNCHANGED dcount /\ NoTxn /\ KeysSame

WriteCount(w) ==
  /\ dat[w] = "counting"
  /\ dcount' = dread[w] + 1 /\ dread' = [dread EXCEPT ![w] = 0]
  /\ dat' = [dat EXCEPT ![w] = IF dcount' >= Interval THEN "pruning" ELSE "idle"]
  /\ NoTxn /\ KeysSame

\* Mutant: the rows are deleted from the other end.
Kept_Oldest(rows) == {e \in rows : Cardinality({f \in rows : f < e}) < Cap}

Kept(rows) == {e \in rows : Cardinality({f \in rows : f > e}) < Cap}

\* _prune_events, then the count starts again.
PruneEvents(w) ==
  /\ dat[w] = "pruning"
  /\ dat' = [dat EXCEPT ![w] = "pruned"]
  /\ \/ /\ Commits /\ devents' = Kept(devents) /\ UNCHANGED <<ddegraded, dunseen>>
     \/ /\ Aborts(RolledBack) /\ Degrades /\ UNCHANGED devents
     \/ dconn # "open" /\ UNCHANGED <<devents, ddegraded, dunseen, dconn, dpending, dfaults>>
  /\ UNCHANGED <<devent, dcount, dread>> /\ KeysSame

ResetCount(w) ==
  /\ dat[w] = "pruned"
  /\ dat' = [dat EXCEPT ![w] = "idle"]
  /\ dcount' = 0
  /\ UNCHANGED dread /\ NoTxn /\ KeysSame

\* The daemon goes down and up: the schema is migrated, each step of which may
\* fail and say so, and the cache is hydrated.
ReopenStore ==
  /\ \A w \in Recorders : dat[w] = "idle"
  /\ dconn = "dropped" \/ devent > 0
  /\ dconn' = "open" /\ dpending' = FALSE
  /\ dcache' = ddisk
  /\ dcount' = 0 /\ ddegraded' \in (IF dfaults < MaxFaults THEN BOOLEAN ELSE {FALSE})
  /\ dfaults' = IF ddegraded' THEN dfaults + 1 ELSE dfaults
  /\ dunseen' = FALSE
  /\ UNCHANGED <<ddisk, dwrites, drejected, devents, devent, dat, dread>>

ContextNext ==
  \/ \E k \in Keys : WriteKey(k) \/ DeleteKey(k)
  \/ CollectStale \/ RecordJobRow
  \/ \E w \in Recorders :
       RecordEvent(w) \/ ReadCount(w) \/ WriteCount(w) \/ PruneEvents(w) \/ ResetCount(w)
  \/ ReopenStore

ContextSpec == ContextInit /\ [][ContextNext]_contextVars

-----------------------------------------------------------------------------
(* What the daemon relies on *)

(* "Divergence between live and restarted state" does not arise: while the  *)
(* store is connected, a restart would bring back what is in memory, no     *)
(* write that was refused is in either, and it can still take a write.      *)
CacheIsDisk ==
  /\ dconn = "open" => dcache = ddisk /\ ~dpending
  /\ \A k \in Keys : {dcache[k], ddisk[k]} \cap drejected = {}

(* Pruning sheds the oldest events only, whoever counted and however stale  *)
(* the count was: of an event that is gone, Cap newer ones are there.       *)
OnlyOldestShed ==
  \A e \in (1..devent) \ devents : Cardinality({f \in devents : f > e}) >= Cap

(* Both of the above.                                                      *)
StoreIsTrue == CacheIsDisk /\ OnlyOldestShed

(* "ok is False after any dropped audit/recovery write." It stays true once *)
(* the connection itself was dropped: see README, section 6.                *)
HealthTellsLoss == ~dunseen
=============================================================================
