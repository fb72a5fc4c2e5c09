---------------------------- MODULE StorageProofs ----------------------------
(***************************************************************************)
(* Proofs about what the daemon stores and streams: the context store,     *)
(* the event hub and the knowledge graph. They hold for any number of      *)
(* keys, recorders, observers and facts, any size of the ring, the queues, *)
(* the events table and its interval, and any history of failures.         *)
(***************************************************************************)
EXTENDS ContextStore, EventHub, KnowledgeGraph, CountingLemmas

-----------------------------------------------------------------------------
(* ContextStore: StoreIsTrue                                               *)

Shed == (1..devent) \ devents

(* The inductive invariant. A value in either copy was written before and  *)
(* not refused, and no transaction stays open, whatever failed; the events *)
(* are numbered by their insertion, and one that was shed is older than    *)
(* Cap of those that are there.                                            *)
ContextInv ==
  /\ dwrites \in Nat /\ devent \in Nat
  /\ dcache \in [Keys -> 0..dwrites] /\ ddisk \in [Keys -> 0..dwrites]
  /\ drejected \subseteq 1..dwrites
  /\ \A k \in Keys : dcache[k] \notin drejected /\ ddisk[k] \notin drejected
  /\ ~dpending
  /\ dconn = "open" => dcache = ddisk
  /\ devents \subseteq 1..devent
  /\ OnlyOldestShed

LEMMA StoreFollows == ContextInv => StoreIsTrue
BY DEF ContextInv, StoreIsTrue, CacheIsDisk

LEMMA ContextInitInv == ContextInit => ContextInv
BY DEF ContextInit, ContextInv, OnlyOldestShed

(* A change of some keys to a value that was never refused: a new one or   *)
(* none. The value counts as written when the change is over.              *)
LEMMA ChangeKeeps ==
  ASSUME ContextInv, NEW ks \in SUBSET Keys, NEW value \in {0, dwrites + 1},
         dwrites' = (IF value = 0 THEN dwrites ELSE value),
         Change(ks, value), UNCHANGED <<devents, devent>>
  PROVE  ContextInv'
<1> DEFINE changed(f) == [k \in Keys |-> IF k \in ks THEN value ELSE f[k]]
<1>1. /\ dwrites \in Nat /\ dcache \in [Keys -> 0..dwrites] /\ ddisk \in [Keys -> 0..dwrites]
      /\ drejected \subseteq 1..dwrites /\ ~dpending
  BY DEF ContextInv
<1>2. dwrites' \in Nat /\ dwrites <= dwrites' /\ value \in 0..dwrites' /\ value \notin drejected
  BY <1>1
<1>3. \A f \in [Keys -> 0..dwrites] :
        f \in [Keys -> 0..dwrites'] /\ changed(f) \in [Keys -> 0..dwrites']
  BY <1>1, <1>2
<1>4. OnlyOldestShed' /\ devents' \subseteq 1..devent' /\ devent' \in Nat
  BY DEF ContextInv, OnlyOldestShed
<1>5. ~dpending'
  BY <1>1 DEF Change, Commits, Aborts, RolledBack
<1>6. CASE /\ dcache' = changed(dcache) /\ drejected' = drejected /\ dconn' = dconn
           /\ \/ ddisk' = changed(ddisk)
              \/ ddisk' = ddisk /\ dconn # "open"
  <2>1. dcache' \in [Keys -> 0..dwrites'] /\ ddisk' \in [Keys -> 0..dwrites']
    BY <1>1, <1>3, <1>6
  <2>2. \A k \in Keys : dcache'[k] \notin drejected' /\ ddisk'[k] \notin drejected'
    BY <1>2, <1>6 DEF ContextInv
  <2>3. dconn' = "open" => dcache' = ddisk'
    BY <1>6 DEF ContextInv
  <2> QED
    BY <1>1, <1>2, <1>4, <1>5, <1>6, <2>1, <2>2, <2>3 DEF ContextInv
<1>7. CASE dcache' = dcache /\ ddisk' = ddisk /\ drejected' = drejected \cup ({value} \ {0})
           /\ (dconn' = "open" => dconn = "open")
  <2>1. dcache' \in [Keys -> 0..dwrites'] /\ ddisk' \in [Keys -> 0..dwrites']
    BY <1>1, <1>3, <1>7
  <2>2. \A k \in Keys : dcache[k] \in 0..dwrites /\ ddisk[k] \in 0..dwrites
    BY <1>1
  <2>3. value # 0 => value = dwrites + 1
    OBVIOUS
  <2>4. \A k \in Keys : dcache'[k] \notin drejected' /\ ddisk'[k] \notin drejected'
    BY <1>1, <1>7, <2>2, <2>3 DEF ContextInv
  <2>5. drejected' \subseteq 1..dwrites'
    BY <1>1, <1>2, <1>7
  <2> QED
    BY <1>2, <1>4, <1>5, <1>7, <2>1, <2>4, <2>5 DEF ContextInv
<1> QED
  <2>1. CASE /\ Commits /\ ddisk' = changed(ddisk) /\ PublishCache(changed(dcache), TRUE)
             /\ UNCHANGED drejected
    <3>1. dconn' = dconn /\ dcache' = changed(dcache) /\ drejected' = drejected
      BY <2>1 DEF Commits, PublishCache
    <3>2. ddisk' = changed(ddisk)
      BY <2>1
    <3> QED
      BY <1>6, <3>1, <3>2, Zenon
  <2>2. CASE /\ dconn # "open" /\ PublishCache(changed(dcache), TRUE)
             /\ UNCHANGED <<ddisk, drejected, dconn, dpending, dfaults>>
    BY <1>6, <2>2 DEF PublishCache
  <2>3. CASE /\ Aborts(RolledBack) /\ drejected' = drejected \cup ({value} \ {0})
             /\ PublishCache(changed(dcache), FALSE) /\ UNCHANGED ddisk
    BY <1>7, <2>3 DEF Aborts, PublishCache
  <2> QED
    BY <2>1, <2>2, <2>3 DEF Change

(* Only events are touched, or the connection.                             *)
LEMMA RecordsKeep ==
  ASSUME ContextInv, UNCHANGED <<dcache, ddisk, dwrites, drejected>>, ~dpending',
         dconn' = "open" => dconn = "open",
         devent' \in Nat, devents' \subseteq 1..devent', OnlyOldestShed'
  PROVE  ContextInv'
BY DEF ContextInv

LEMMA RecordLostKeeps ==
  ASSUME ContextInv, RecordLost, KeysSame
  PROVE  ContextInv'
<1>1. ~dpending' /\ (dconn' = "open" => dconn = "open") /\ devent' = devent /\ devents' = devents
  BY DEF RecordLost, Aborts, RolledBack, ContextInv
<1>2. UNCHANGED <<dcache, ddisk, dwrites, drejected>>
  BY DEF KeysSame
<1> QED
  BY <1>1, <1>2 DEF ContextInv, OnlyOldestShed

(* A new event is newer than all, so nothing that was shed becomes younger.*)
LEMMA InsertKeeps ==
  ASSUME ContextInv, devent' = devent + 1, devents' = devents \cup {devent'}
  PROVE  OnlyOldestShed' /\ devents' \subseteq 1..devent' /\ devent' \in Nat
<1>1. devent \in Nat /\ devents \subseteq 1..devent /\ OnlyOldestShed
  BY DEF ContextInv
<1>2. devents' \subseteq 1..devent' /\ devent' \in Nat
  BY <1>1
<1>3. ASSUME NEW e \in (1..devent') \ devents' PROVE Cardinality({f \in devents' : f > e}) >= Cap
  <2>1. e \in (1..devent) \ devents
    BY <1>1, <1>3
  <2>2. Cardinality({f \in devents : f > e}) >= Cap
    BY <1>1, <2>1 DEF OnlyOldestShed
  <2>3. {f \in devents : f > e} \in SUBSET {f \in devents' : f > e}
    OBVIOUS
  <2>4. IsFiniteSet({f \in devents' : f > e})
    <3>1. /\ {f \in devents' : f > e} \in SUBSET Nat
          /\ \A f \in {f \in devents' : f > e} : f <= devent'
      BY <1>2
    <3> HIDE DEF OnlyOldestShed
    <3> QED
      BY <1>2, <3>1, FS_BoundedSetOfNaturals
  <2>5. /\ Cardinality({f \in devents : f > e}) \in Nat
        /\ Cardinality({f \in devents' : f > e}) \in Nat
        /\ Cardinality({f \in devents : f > e}) <= Cardinality({f \in devents' : f > e})
    BY <2>3, <2>4, PartCounts
  <2>6. Cap \in Nat
    BY ContextAssumption
  <2> QED
    BY <2>2, <2>5, <2>6
<1> QED
  BY <1>2, <1>3 DEF OnlyOldestShed

(* What pruning keeps still covers whatever was shed, before or now.       *)
LEMMA PruneKeeps ==
  ASSUME ContextInv, devent' = devent, devents' = Kept(devents)
  PROVE  OnlyOldestShed' /\ devents' \subseteq 1..devent' /\ devent' \in Nat
<1>1. devent \in Nat /\ devents \subseteq 1..devent /\ OnlyOldestShed
  BY DEF ContextInv
<1>2. Cap \in Nat
  BY ContextAssumption
<1>3. devents' = NewestOf(devents, Cap)
  BY DEF Kept, NewestOf
<1>4. devents' \subseteq devents
  BY <1>3 DEF NewestOf
<1>5. ASSUME NEW e \in (1..devent') \ devents' PROVE Cardinality({f \in devents' : f > e}) >= Cap
  <2>1. e \in Nat
    BY <1>1
  <2>2. Cardinality({f \in devents : f > e}) >= Cap
    <3>1. CASE e \in devents
      <4>1. ~(Cardinality({f \in devents : f > e}) < Cap)
        BY <1>3, <1>5, <3>1 DEF NewestOf
      <4>2. IsFiniteSet(devents)
        <5>1. devents \in SUBSET Nat /\ \A x \in devents : x <= devent
          BY <1>1
        <5> QED
          BY <1>1, <5>1, FS_BoundedSetOfNaturals
      <4>3. {f \in devents : f > e} \in SUBSET devents
        OBVIOUS
      <4>4. Cardinality({f \in devents : f > e}) \in Nat
        BY <4>2, <4>3, PartCounts
      <4> QED
        BY <1>2, <4>1, <4>4
    <3>2. CASE e \notin devents
      BY <1>1, <1>5, <3>2 DEF OnlyOldestShed
    <3> QED
      BY <3>1, <3>2
  <2>3. devents \in SUBSET Nat /\ \A x \in devents : x <= devent
    BY <1>1
  <2>4. Cardinality({f \in NewestOf(devents, Cap) : f > e}) >= Cap
    BY <1>1, <1>2, <2>1, <2>2, <2>3, NewestAbove
  <2> QED
    BY <1>3, <2>4
<1> QED
  BY <1>1, <1>4, <1>5 DEF OnlyOldestShed

LEMMA ContextStep == ContextInv /\ [ContextNext]_contextVars => ContextInv'
<1> SUFFICES ASSUME ContextInv, [ContextNext]_contextVars PROVE ContextInv'
  OBVIOUS
<1>1. dwrites \in Nat /\ ~dpending
  BY DEF ContextInv
<1>2. ASSUME NEW k \in Keys, WriteKey(k) PROVE ContextInv'
  <2>1. dwrites' = dwrites + 1 /\ Change({k}, dwrites + 1) /\ UNCHANGED <<devents, devent>>
    BY <1>2 DEF WriteKey, RecordsSame
  <2>2. dwrites + 1 # 0
    BY <1>1
  <2> QED
    BY <2>1, <2>2, ChangeKeeps
<1>3. ASSUME NEW k \in Keys, DeleteKey(k) PROVE ContextInv'
  <2>1. dwrites' = dwrites /\ Change({k}, 0) /\ UNCHANGED <<devents, devent>>
    BY <1>3 DEF DeleteKey, RecordsSame
  <2> QED
    BY <2>1, ChangeKeeps
<1>4. CASE CollectStale
  <2>1. dwrites' = dwrites /\ Change(StaleKeys, 0) /\ UNCHANGED <<devents, devent>>
    BY <1>4 DEF CollectStale, RecordsSame
  <2> QED
    BY <2>1, ChangeKeeps, ContextAssumption
<1>5. CASE RecordJobRow
  BY <1>5, RecordLostKeeps DEF RecordJobRow
<1>6. ASSUME NEW w \in Recorders, RecordEvent(w) PROVE ContextInv'
  <2>1. CASE RecordLost
    BY <1>6, <2>1, RecordLostKeeps DEF RecordEvent
  <2>2. CASE Commits /\ devent' = devent + 1 /\ devents' = devents \cup {devent'}
    <3>1. ~dpending' /\ dconn' = dconn
      BY <1>1, <2>2 DEF Commits
    <3> QED
      BY <1>6, <2>2, <3>1, InsertKeeps, RecordsKeep DEF RecordEvent, KeysSame
  <2> QED
    BY <1>6, <2>1, <2>2 DEF RecordEvent
<1>7. ASSUME NEW w \in Recorders, ReadCount(w) \/ WriteCount(w) \/ ResetCount(w) PROVE ContextInv'
  <2>1. UNCHANGED <<dcache, ddisk, dwrites, drejected, dconn, dpending, devents, devent>>
    BY <1>7 DEF ReadCount, WriteCount, ResetCount, NoTxn, KeysSame
  <2> QED
    BY <2>1 DEF ContextInv, OnlyOldestShed
<1>8. ASSUME NEW w \in Recorders, PruneEvents(w) PROVE ContextInv'
  <2>1. devent' = devent /\ UNCHANGED <<dcache, ddisk, dwrites, drejected>>
    BY <1>8 DEF PruneEvents, KeysSame
  <2>2. ~dpending' /\ (dconn' = "open" => dconn = "open")
    BY <1>1, <1>8 DEF PruneEvents, Commits, Aborts, RolledBack
  <2>3. CASE devents' = Kept(devents)
    BY <2>1, <2>2, <2>3, PruneKeeps, RecordsKeep
  <2>4. CASE devents' = devents
    BY <2>1, <2>2, <2>4, RecordsKeep DEF ContextInv, OnlyOldestShed
  <2> QED
    BY <1>8, <2>3, <2>4 DEF PruneEvents
<1>9. CASE ReopenStore
  BY <1>9 DEF ReopenStore, ContextInv, OnlyOldestShed
<1>10. CASE UNCHANGED contextVars
  BY <1>10 DEF contextVars, ContextInv, OnlyOldestShed
<1> QED
  BY <1>2, <1>3, <1>4, <1>5, <1>6, <1>7, <1>8, <1>9, <1>10 DEF ContextNext

(* However statements, commits and roll backs fail and whatever the        *)
(* recorders' counts have become: what is in memory is what a restart      *)
(* brings back, no refused write is in it, and pruning sheds the oldest.   *)
THEOREM StoreHolds == ContextSpec => []StoreIsTrue
<1>1. ContextSpec => []ContextInv
  BY ContextInitInv, ContextStep, PTL DEF ContextSpec
<1> QED
  BY <1>1, StoreFollows, PTL

-----------------------------------------------------------------------------
(* EventHub: bounded queues                                                *)

Elements(s) == {s[i] : i \in 1..Len(s)}
Above(S, e) == {k \in S : k > e}

(* What a bounded queue keeps, position by position.                       *)
IsLast(s, n, t) ==
  /\ t \in Seq(Int)
  /\ Len(t) = IF Len(s) <= n THEN Len(s) ELSE n
  /\ \A i \in 1..Len(t) : t[i] = s[Len(s) - Len(t) + i]

LEMMA NewestKeeps ==
  ASSUME NEW s \in Seq(Int), NEW n \in Nat \ {0}
  PROVE  IsLast(s, n, Newest(s, n))
<1>1. Len(s) \in Nat /\ \A i \in 1..Len(s) : s[i] \in Int
  OBVIOUS
<1>2. CASE Len(s) <= n
  <2>1. Newest(s, n) = s
    BY <1>2 DEF Newest
  <2>2. IsLast(s, n, s)
    BY <1>1, <1>2 DEF IsLast
  <2> QED
    BY <2>1, <2>2
<1>3. CASE ~(Len(s) <= n)
  <2>1. Newest(s, n) = SubSeq(s, Len(s) - n + 1, Len(s))
    BY <1>3 DEF Newest
  <2>2. Len(s) - n + 1 \in 1..Len(s)
    BY <1>1, <1>3
  <2>3. Len(SubSeq(s, Len(s) - n + 1, Len(s))) = n
    BY <1>1, <2>2
  <2>4. \A i \in 1..n : SubSeq(s, Len(s) - n + 1, Len(s))[i] = s[Len(s) - n + i]
    BY <1>1, <2>2
  <2>5. SubSeq(s, Len(s) - n + 1, Len(s)) \in Seq(Int)
    BY <1>1, <2>2
  <2> QED
    BY <1>3, <2>1, <2>3, <2>4, <2>5 DEF IsLast
<1> QED
  BY <1>2, <1>3

(* One more, and at most n: nothing is dropped, or the first is.           *)
Appended(s, n, e, t) ==
  /\ t \in Seq(Int)
  /\ Len(s) < n => t = Append(s, e) /\ Elements(t) = Elements(s) \cup {e}
  /\ Len(s) = n => Len(t) = n /\ t[n] = e /\ \A i \in 1..(n - 1) : t[i] = s[i + 1]

LEMMA NewestAppend ==
  ASSUME NEW s \in Seq(Int), NEW n \in Nat \ {0}, Len(s) <= n, NEW e \in Int
  PROVE  Appended(s, n, e, Newest(Append(s, e), n))
<1> DEFINE t == Append(s, e)
<1>1. t \in Seq(Int) /\ Len(t) = Len(s) + 1 /\ t[Len(s) + 1] = e /\ \A i \in 1..Len(s) : t[i] = s[i]
  OBVIOUS
<1>2. Len(s) \in Nat
  OBVIOUS
<1>3. /\ Newest(t, n) \in Seq(Int)
      /\ Len(Newest(t, n)) = IF Len(t) <= n THEN Len(t) ELSE n
      /\ \A i \in 1..Len(Newest(t, n)) : Newest(t, n)[i] = t[Len(t) - Len(Newest(t, n)) + i]
  BY <1>1, NewestKeeps DEF IsLast
<1>4. ASSUME Len(s) < n PROVE Newest(t, n) = t /\ Elements(Newest(t, n)) = Elements(s) \cup {e}
  <2>1. Newest(t, n) = t
    BY <1>1, <1>2, <1>4 DEF Newest
  <2>2. Elements(t) = Elements(s) \cup {e}
    BY <1>1, <1>2 DEF Elements
  <2> QED
    BY <2>1, <2>2
<1>5. ASSUME Len(s) = n
      PROVE  /\ Len(Newest(t, n)) = n
             /\ \A i \in 1..(n - 1) : Newest(t, n)[i] = s[i + 1]
             /\ Newest(t, n)[n] = e
  <2> HIDE DEF t
  <2>1. Len(t) = n + 1 /\ Len(Newest(t, n)) = n
    BY <1>1, <1>3, <1>5
  <2>2. \A i \in 1..n : Newest(t, n)[i] = t[1 + i]
    BY <1>3, <2>1
  <2> QED
    BY <1>1, <1>5, <2>1, <2>2
<1> HIDE DEF t
<1>6. Appended(s, n, e, Newest(t, n))
  BY <1>3, <1>4, <1>5 DEF Appended, t
<1> QED
  BY <1>6 DEF t

-----------------------------------------------------------------------------
(* EventHub: NoSilentLoss                                                  *)

(* Of the events an observer was promised, from j to p, one that is neither*)
(* queued nor seen is older than the queue and than a queue's worth.       *)
Covered(queued, known, j, p) ==
  \A e \in (j..p) \ (queued \cup known) :
    /\ \A m \in queued : e < m
    /\ Cardinality(Above(queued \cup known, e)) >= QueueSize

Backlog(s, p) ==
  /\ s \in Seq(Int) /\ Len(s) <= QueueSize
  /\ Increasing(s)
  /\ \A i \in 1..Len(s) : s[i] \in 1..p

LEMMA DeliverCovers ==
  ASSUME NEW p \in Nat, NEW s, Backlog(s, p), NEW j \in Int,
         NEW known \in SUBSET Int, IsFiniteSet(known),
         Covered(Elements(s), known, j, p)
  PROVE  /\ Backlog(Newest(Append(s, p + 1), QueueSize), p + 1)
         /\ Covered(Elements(Newest(Append(s, p + 1), QueueSize)), known, j, p + 1)
<1> DEFINE t == Newest(Append(s, p + 1), QueueSize)
<1>1. QueueSize \in Nat \ {0}
  BY HubAssumption
<1>2. s \in Seq(Int) /\ Len(s) <= QueueSize /\ Len(s) \in Nat /\ \A i \in 1..Len(s) : s[i] \in Int
  BY DEF Backlog
<1>3. /\ t \in Seq(Int)
      /\ Len(s) < QueueSize => t = Append(s, p + 1) /\ Elements(t) = Elements(s) \cup {p + 1}
      /\ Len(s) = QueueSize => /\ Len(t) = QueueSize
                               /\ \A i \in 1..(QueueSize - 1) : t[i] = s[i + 1]
                               /\ t[QueueSize] = p + 1
  <2>1. p + 1 \in Int
    OBVIOUS
  <2>2. Appended(s, QueueSize, p + 1, t)
    BY <1>1, <1>2, <2>1, NewestAppend
  <2> HIDE DEF t
  <2> QED
    BY <2>2 DEF Appended
<1> HIDE DEF t
<1>4. CASE Len(s) < QueueSize
  <2>1. Backlog(t, p + 1)
    <3>1. Len(t) = Len(s) + 1 /\ t[Len(s) + 1] = p + 1 /\ \A i \in 1..Len(s) : t[i] = s[i]
      <4>1. t = Append(s, p + 1)
        BY <1>3, <1>4
      <4>2. s \in Seq(Int) /\ p + 1 \in Int
        BY <1>2
      <4> QED
        BY <4>1, <4>2
    <3>2. \A i \in 1..Len(t) : t[i] \in 1..(p + 1)
      BY <1>2, <3>1 DEF Backlog
    <3>3. Increasing(t)
      <4> SUFFICES ASSUME NEW i \in 1..Len(t), NEW k \in 1..Len(t), i < k PROVE t[i] < t[k]
        BY DEF Increasing
      <4>1. CASE k = Len(s) + 1
        BY <1>2, <3>1, <4>1 DEF Backlog
      <4>2. CASE k # Len(s) + 1
        BY <1>2, <3>1, <4>2 DEF Backlog, Increasing
      <4> QED
        BY <4>1, <4>2
    <3> QED
      BY <1>1, <1>2, <1>3, <1>4, <3>1, <3>2, <3>3 DEF Backlog
  <2>2. Covered(Elements(t), known, j, p + 1)
    <3> SUFFICES ASSUME NEW e \in (j..(p + 1)) \ (Elements(t) \cup known)
                 PROVE  /\ \A m \in Elements(t) : e < m
                        /\ Cardinality(Above(Elements(t) \cup known, e)) >= QueueSize
      BY DEF Covered
    <3>1. Elements(t) = Elements(s) \cup {p + 1}
      BY <1>3, <1>4
    <3>2. e \in (j..p) \ (Elements(s) \cup known)
      BY <3>1
    <3>3. /\ \A m \in Elements(s) : e < m
          /\ Cardinality(Above(Elements(s) \cup known, e)) >= QueueSize
      BY <3>2 DEF Covered
    <3>4. \A m \in Elements(t) : e < m
      BY <3>1, <3>2, <3>3
    <3>5. IsFiniteSet(Above(Elements(t) \cup known, e))
      <4>1. IsFiniteSet(Elements(s))
        BY <1>2, IncreasingCount DEF Backlog, Elements
      <4>2. IsFiniteSet(Elements(t) \cup known)
        BY <3>1, <4>1, FS_Union, FS_AddElement
      <4>3. Above(Elements(t) \cup known, e) \in SUBSET (Elements(t) \cup known)
        BY DEF Above
      <4> QED
        BY <4>2, <4>3, FS_Subset
    <3>6. Above(Elements(s) \cup known, e) \in SUBSET Above(Elements(t) \cup known, e)
      BY <3>1 DEF Above
    <3>7. /\ Cardinality(Above(Elements(s) \cup known, e)) \in Nat
          /\ Cardinality(Above(Elements(t) \cup known, e)) \in Nat
          /\ Cardinality(Above(Elements(s) \cup known, e))
               <= Cardinality(Above(Elements(t) \cup known, e))
      BY <3>5, <3>6, PartCounts
    <3> QED
      BY <1>1, <3>3, <3>4, <3>7
  <2> QED
    BY <2>1, <2>2 DEF t
<1>5. CASE Len(s) = QueueSize
  <2>1. /\ Len(t) = QueueSize /\ t[QueueSize] = p + 1
        /\ \A i \in 1..(QueueSize - 1) : t[i] = s[i + 1]
    BY <1>3, <1>5
  <2>2. \A i \in 1..Len(t) : t[i] \in 1..(p + 1)
    BY <1>1, <1>2, <1>5, <2>1 DEF Backlog
  <2>3. Increasing(t)
    <3> SUFFICES ASSUME NEW i \in 1..Len(t), NEW k \in 1..Len(t), i < k PROVE t[i] < t[k]
      BY DEF Increasing
    <3>1. t[i] = s[i + 1] /\ i + 1 \in 1..Len(s)
      BY <1>1, <1>5, <2>1
    <3>2. CASE k = QueueSize
      BY <1>2, <2>1, <3>1, <3>2 DEF Backlog
    <3>3. CASE k # QueueSize
      <4>1. t[k] = s[k + 1] /\ k + 1 \in 1..Len(s) /\ i + 1 < k + 1
        BY <1>1, <1>5, <2>1, <3>3
      <4> QED
        BY <3>1, <4>1 DEF Backlog, Increasing
    <3> QED
      BY <3>2, <3>3
  <2>4. Backlog(t, p + 1)
    BY <1>1, <1>3, <2>1, <2>2, <2>3 DEF Backlog
  <2>5. Covered(Elements(t), known, j, p + 1)
    <3> SUFFICES ASSUME NEW e \in (j..(p + 1)) \ (Elements(t) \cup known)
                 PROVE  /\ \A m \in Elements(t) : e < m
                        /\ Cardinality(Above(Elements(t) \cup known, e)) >= QueueSize
      BY DEF Covered
    <3>1. s[1] \in Int /\ \A i \in 2..QueueSize : s[1] < s[i]
      BY <1>1, <1>2, <1>5 DEF Backlog, Increasing
    <3>2. e \in j..p
      <4>1. p + 1 \in Elements(t)
        BY <1>1, <2>1 DEF Elements
      <4> QED
        BY <4>1
    <3>3. e = s[1] \/ e \notin Elements(s) \cup known
      <4>1. \A i \in 2..QueueSize : s[i] \in Elements(t)
        <5> SUFFICES ASSUME NEW i \in 2..QueueSize PROVE s[i] \in Elements(t)
          OBVIOUS
        <5>1. i - 1 \in 1..(QueueSize - 1) /\ (i - 1) + 1 = i
          BY <1>1
        <5>2. t[i - 1] = s[i] /\ i - 1 \in 1..Len(t)
          BY <1>1, <2>1, <5>1
        <5> QED
          BY <5>2 DEF Elements
      <4> QED
        BY <1>1, <1>5, <4>1 DEF Elements
    <3>4. e <= s[1]
      <4>1. CASE e \notin Elements(s) \cup known
        <5>1. s[1] \in Elements(s)
          BY <1>1, <1>5 DEF Elements
        <5> QED
          BY <3>1, <3>2, <4>1, <5>1 DEF Covered
      <4> QED
        BY <3>1, <3>3, <4>1
    <3>5. \A m \in Elements(t) : m \in Int /\ e < m
      <4> SUFFICES ASSUME NEW i \in 1..QueueSize PROVE t[i] \in Int /\ e < t[i]
        BY <2>1 DEF Elements
      <4>1. CASE i = QueueSize
        BY <2>1, <3>2, <4>1
      <4>2. CASE i # QueueSize
        <5>1. t[i] = s[i + 1] /\ i + 1 \in 2..QueueSize /\ i + 1 \in 1..Len(s)
          BY <1>1, <1>5, <2>1, <4>2
        <5>2. s[i + 1] \in Int /\ s[1] < s[i + 1]
          BY <1>2, <3>1, <5>1
        <5> QED
          BY <3>1, <3>2, <3>4, <5>1, <5>2
      <4> QED
        BY <4>1, <4>2
    <3>6. IsFiniteSet(Elements(t)) /\ Cardinality(Elements(t)) = QueueSize
      BY <1>3, <2>1, <2>3, IncreasingCount DEF Elements
    <3>7. IsFiniteSet(Above(Elements(t) \cup known, e))
      <4>1. IsFiniteSet(Elements(t) \cup known)
        BY <3>6, FS_Union
      <4>2. Above(Elements(t) \cup known, e) \in SUBSET (Elements(t) \cup known)
        BY DEF Above
      <4> QED
        BY <4>1, <4>2, FS_Subset
    <3>8. Elements(t) \in SUBSET Above(Elements(t) \cup known, e)
      BY <3>2, <3>5 DEF Above
    <3>9. /\ Cardinality(Above(Elements(t) \cup known, e)) \in Nat
          /\ Cardinality(Elements(t)) <= Cardinality(Above(Elements(t) \cup known, e))
      BY <3>7, <3>8, PartCounts
    <3> QED
      BY <1>1, <3>5, <3>6, <3>9
  <2> QED
    BY <2>4, <2>5 DEF t
<1> QED
  BY <1>1, <1>2, <1>4, <1>5

(* A consumer reads the head: it is seen now, and nothing is lost by it.   *)
LEMMA ReadCovers ==
  ASSUME NEW p \in Nat, NEW s, Backlog(s, p), s # <<>>, NEW j \in Int,
         NEW known \in SUBSET Int, Covered(Elements(s), known, j, p)
  PROVE  /\ Backlog(Tail(s), p) /\ Len(Tail(s)) < QueueSize
         /\ Covered(Elements(Tail(s)), known \cup {Head(s)}, j, p)
<1>1. s \in Seq(Int) /\ Len(s) \in Nat /\ Len(s) > 0 /\ Len(s) <= QueueSize
  BY DEF Backlog
<1>2. /\ Tail(s) \in Seq(Int) /\ Len(Tail(s)) = Len(s) - 1
      /\ \A i \in 1..Len(Tail(s)) : Tail(s)[i] = s[i + 1]
  BY <1>1
<1>3. Increasing(Tail(s)) /\ \A i \in 1..Len(Tail(s)) : Tail(s)[i] \in 1..p
  BY <1>1, <1>2 DEF Backlog, Increasing
<1>4. QueueSize \in Nat
  BY HubAssumption
<1>5. Elements(s) = Elements(Tail(s)) \cup {Head(s)}
  <2>1. \A i \in 2..Len(s) : s[i] = Tail(s)[i - 1] /\ i - 1 \in 1..Len(Tail(s))
    BY <1>1, <1>2
  <2>2. \A i \in 1..Len(Tail(s)) : Tail(s)[i] \in Elements(s)
    BY <1>1, <1>2 DEF Elements
  <2>3. \A i \in 1..Len(s) : i = 1 \/ i \in 2..Len(s)
    BY <1>1
  <2>4. Head(s) = s[1] /\ 1 \in 1..Len(s)
    BY <1>1
  <2>5. Elements(s) \subseteq Elements(Tail(s)) \cup {Head(s)}
    BY <2>1, <2>3, <2>4 DEF Elements
  <2>6. Elements(Tail(s)) \cup {Head(s)} \subseteq Elements(s)
    BY <2>2, <2>4 DEF Elements
  <2> QED
    BY <2>5, <2>6
<1>6. Elements(Tail(s)) \cup (known \cup {Head(s)}) = Elements(s) \cup known
  BY <1>5
<1>7. Covered(Elements(Tail(s)), known \cup {Head(s)}, j, p)
  BY <1>5, <1>6 DEF Covered
<1> QED
  BY <1>1, <1>2, <1>3, <1>4, <1>7 DEF Backlog

(* The ring holds the last events, without a gap.                          *)
RingIsTail ==
  /\ ring \in Seq(Int) /\ Len(ring) <= published
  /\ \A i \in 1..Len(ring) : ring[i] = published - Len(ring) + i

(* A queue of a subscriber is full only since a publish after its last     *)
(* read, which the streak does not count.                                  *)
Served(o) ==
  /\ Backlog(mailbox[o], published)
  /\ Covered(Elements(mailbox[o]), seen[o], joined[o], published)
  /\ Len(mailbox[o]) = QueueSize => full_streak[o] < idle_for[o]

(* An evicted one finds its notice, and has not seen it, or finds nothing. *)
Noticed(o) ==
  \/ mailbox[o] = <<>>
  \/ \E n \in 1..sentinel_seq : mailbox[o] = <<-n>> /\ -n \notin seen[o]

(* The inductive invariant of the hub.                                     *)
HubInv ==
  /\ published \in Nat /\ sentinel_seq \in Nat
  /\ RingIsTail
  /\ subs \subseteq connected /\ connected \subseteq Observers /\ IsFiniteSet(subs)
  /\ DOMAIN mailbox = Observers
  /\ full_streak \in [Observers -> Nat] /\ idle_for \in [Observers -> Nat]
  /\ joined \in [Observers -> Int]
  /\ seen \in [Observers -> SUBSET Int]
  /\ \A o \in Observers : IsFiniteSet(seen[o]) /\ \A n \in seen[o] : n + sentinel_seq >= 0
  /\ \A o \in subs : Served(o)
  /\ \A o \in connected \ subs : Noticed(o)

LEMMA HubFollows == HubInv => NoSilentLoss
<1> SUFFICES ASSUME HubInv PROVE NoSilentLoss
  OBVIOUS
<1>1. OnlyOldestDropped
  <2> SUFFICES ASSUME NEW o \in subs,
                      NEW e \in (joined[o]..published) \ (MailSet(o) \cup seen[o])
               PROVE  /\ \A m \in MailSet(o) : e < m
                      /\ Cardinality({k \in MailSet(o) \cup seen[o] : k > e}) >= QueueSize
    BY DEF OnlyOldestDropped
  <2>1. MailSet(o) = Elements(mailbox[o])
    BY DEF MailSet, Elements
  <2>2. Covered(MailSet(o), seen[o], joined[o], published)
    BY <2>1 DEF HubInv, Served
  <2> QED
    BY <2>2 DEF Covered, Above
<1>2. EvictionIsNoticed
  <2> SUFFICES ASSUME NEW o \in connected \ subs, mailbox[o] # <<>>
               PROVE  Head(mailbox[o]) < 0 /\ Head(mailbox[o]) \notin seen[o]
    BY DEF EvictionIsNoticed
  <2>1. PICK n \in 1..sentinel_seq : mailbox[o] = <<-n>> /\ -n \notin seen[o]
    BY DEF HubInv, Noticed
  <2>2. Head(mailbox[o]) = -n
    BY <2>1
  <2>3. n \in Nat /\ n > 0
    BY DEF HubInv
  <2> QED
    BY <2>1, <2>2, <2>3
<1> QED
  BY <1>1, <1>2 DEF NoSilentLoss

LEMMA HubInitInv == HubInit => HubInv
<1> SUFFICES ASSUME HubInit PROVE HubInv
  OBVIOUS
<1>1. RingIsTail
  BY DEF HubInit, RingIsTail
<1> QED
  BY <1>1, FS_EmptySet DEF HubInit, HubInv

-----------------------------------------------------------------------------

LEMMA SubscribeKeeps ==
  ASSUME HubInv, NEW o \in Observers, Subscribe(o)
  PROVE  HubInv'
<1> DEFINE replayed == {ring[i] : i \in 1..Len(ring)}
<1>1. /\ connected' = connected \cup {o} /\ subs' = subs \cup {o}
      /\ mailbox' = [mailbox EXCEPT ![o] = <<>>]
      /\ seen' = [seen EXCEPT ![o] = @ \cup replayed]
      /\ joined' = [joined EXCEPT ![o] = published - Len(ring) + 1]
      /\ idle_for' = [idle_for EXCEPT ![o] = 0]
      /\ UNCHANGED <<published, ring, full_streak, starving, sentinel_seq>>
  BY DEF Subscribe
<1>2. /\ published \in Nat /\ sentinel_seq \in Nat /\ ring \in Seq(Int) /\ Len(ring) <= published
      /\ Len(ring) \in Nat /\ \A i \in 1..Len(ring) : ring[i] = published - Len(ring) + i
  BY DEF HubInv, RingIsTail
<1>3. replayed = (published - Len(ring) + 1)..published
  <2>1. replayed \subseteq (published - Len(ring) + 1)..published
    BY <1>2
  <2>2. ASSUME NEW e \in (published - Len(ring) + 1)..published PROVE e \in replayed
    <3>1. e - (published - Len(ring)) \in 1..Len(ring)
      BY <1>2
    <3>2. ring[e - (published - Len(ring))] = e
      BY <1>2, <3>1
    <3> QED
      BY <3>1, <3>2
  <2> QED
    BY <2>1, <2>2
<1> HIDE DEF replayed
<1>4. IsFiniteSet(replayed) /\ replayed \subseteq Nat
  <2>1. replayed \in SUBSET Nat /\ \A e \in replayed : e <= published
    BY <1>2, <1>3
  <2> QED
    BY <1>2, <2>1, FS_BoundedSetOfNaturals
<1>5. \A q \in Observers : IsFiniteSet(seen'[q]) /\ \A n \in seen'[q] : n + sentinel_seq' >= 0
  <2> SUFFICES ASSUME NEW q \in Observers
               PROVE  IsFiniteSet(seen'[q]) /\ \A n \in seen'[q] : n + sentinel_seq' >= 0
    OBVIOUS
  <2>1. IsFiniteSet(seen[q]) /\ (\A n \in seen[q] : n + sentinel_seq >= 0)
    BY DEF HubInv
  <2>2. CASE q = o
    <3>1. seen'[q] = seen[q] \cup replayed
      BY <1>1, <2>2 DEF HubInv
    <3>2. IsFiniteSet(seen'[q])
      BY <1>4, <2>1, <3>1, FS_Union
    <3>3. sentinel_seq' = sentinel_seq /\ \A n \in replayed : n + sentinel_seq >= 0
      BY <1>1, <1>2, <1>4
    <3> QED
      BY <2>1, <3>1, <3>2, <3>3
  <2>3. CASE q # o
    BY <1>1, <2>1, <2>3 DEF HubInv
  <2> QED
    BY <2>2, <2>3
<1>6. ASSUME NEW q \in subs' PROVE Served(q)'
  <2>1. CASE q = o
    <3>1. /\ mailbox'[o] = <<>> /\ seen'[o] = seen[o] \cup replayed
          /\ joined'[o] = published - Len(ring) + 1 /\ published' = published
      BY <1>1 DEF HubInv
    <3>2. QueueSize \in Nat \ {0}
      BY HubAssumption
    <3>3. Backlog(<<>>, published)
      BY <3>2 DEF Backlog, Increasing
    <3>4. Covered(Elements(<<>>), seen'[o], joined'[o], published)
      BY <1>3, <3>1 DEF Covered
    <3>5. Len(<<>>) # QueueSize
      BY <3>2
    <3> QED
      BY <2>1, <3>1, <3>3, <3>4, <3>5 DEF Served
  <2>2. CASE q # o
    <3>1. q \in subs /\ Served(q) /\ q \in Observers
      BY <1>1, <2>2 DEF HubInv
    <3>2. /\ mailbox'[q] = mailbox[q] /\ seen'[q] = seen[q] /\ joined'[q] = joined[q]
          /\ full_streak'[q] = full_streak[q] /\ idle_for'[q] = idle_for[q]
      BY <1>1, <2>2, <3>1 DEF HubInv
    <3> QED
      BY <1>1, <3>1, <3>2 DEF Served
  <2> QED
    BY <2>1, <2>2
<1>7. ASSUME NEW q \in connected' \ subs' PROVE Noticed(q)'
  <2>1. q # o /\ q \in Observers /\ Noticed(q)
    BY <1>1 DEF HubInv
  <2>2. mailbox'[q] = mailbox[q] /\ seen'[q] = seen[q]
    BY <1>1, <2>1 DEF HubInv
  <2> QED
    BY <1>1, <2>1, <2>2 DEF Noticed
<1>8. RingIsTail'
  BY <1>1 DEF HubInv, RingIsTail
<1>9. IsFiniteSet(subs')
  BY <1>1, FS_AddElement DEF HubInv
<1>10. /\ full_streak' \in [Observers -> Nat] /\ idle_for' \in [Observers -> Nat]
       /\ joined' \in [Observers -> Int] /\ seen' \in [Observers -> SUBSET Int]
       /\ DOMAIN mailbox' = Observers
  <2>1. published - Len(ring) + 1 \in Int
    BY <1>2
  <2>2. full_streak' \in [Observers -> Nat] /\ idle_for' \in [Observers -> Nat]
    BY <1>1 DEF HubInv
  <2>3. joined' \in [Observers -> Int]
    BY <1>1, <2>1 DEF HubInv
  <2>4. seen' \in [Observers -> SUBSET Int]
    <3>1. replayed \subseteq Int
      BY <1>4
    <3> QED
      BY <1>1, <3>1 DEF HubInv
  <2>5. DOMAIN mailbox' = Observers
    BY <1>1 DEF HubInv
  <2> QED
    BY <2>2, <2>3, <2>4, <2>5
<1> QED
  BY <1>1, <1>5, <1>6, <1>7, <1>8, <1>9, <1>10 DEF HubInv

LEMMA UnsubscribeKeeps ==
  ASSUME HubInv, NEW o \in Observers, Unsubscribe(o)
  PROVE  HubInv'
<1>1. /\ connected' = connected \ {o} /\ subs' = subs \ {o}
      /\ mailbox' = [mailbox EXCEPT ![o] = <<>>]
      /\ full_streak' = [full_streak EXCEPT ![o] = 0]
      /\ UNCHANGED <<published, ring, sentinel_seq, seen, joined, idle_for>>
  BY DEF Unsubscribe
<1>2. ASSUME NEW q \in Observers, q # o
      PROVE  mailbox'[q] = mailbox[q] /\ full_streak'[q] = full_streak[q]
  BY <1>1, <1>2 DEF HubInv
<1>3. \A q \in subs' : Served(q)'
  BY <1>1, <1>2 DEF HubInv, Served
<1>4. \A q \in connected' \ subs' : Noticed(q)'
  BY <1>1, <1>2 DEF HubInv, Noticed
<1>5. RingIsTail'
  BY <1>1 DEF HubInv, RingIsTail
<1>6. IsFiniteSet(subs')
  BY <1>1, FS_Subset DEF HubInv
<1>7. full_streak' \in [Observers -> Nat] /\ DOMAIN mailbox' = Observers
  BY <1>1 DEF HubInv
<1> QED
  BY <1>1, <1>3, <1>4, <1>5, <1>6, <1>7 DEF HubInv

LEMMA ReadKeeps ==
  ASSUME HubInv, NEW o \in Observers, Read(o)
  PROVE  HubInv'
<1>1. /\ o \in connected /\ mailbox[o] # <<>>
      /\ mailbox' = [mailbox EXCEPT ![o] = Tail(@)]
      /\ seen' = [seen EXCEPT ![o] = @ \cup {Head(mailbox[o])}]
      /\ idle_for' = [idle_for EXCEPT ![o] = 0]
      /\ UNCHANGED <<published, ring, subs, full_streak, starving, sentinel_seq, connected, joined>>
  BY DEF Read
<1>2. ASSUME NEW q \in Observers, q # o
      PROVE  mailbox'[q] = mailbox[q] /\ seen'[q] = seen[q] /\ idle_for'[q] = idle_for[q]
  BY <1>1, <1>2 DEF HubInv
<1>3. mailbox'[o] = Tail(mailbox[o]) /\ seen'[o] = seen[o] \cup {Head(mailbox[o])}
  BY <1>1 DEF HubInv
<1>4. /\ published \in Nat /\ sentinel_seq \in Nat /\ joined[o] \in Int
      /\ seen[o] \in SUBSET Int /\ IsFiniteSet(seen[o]) /\ \A n \in seen[o] : n + sentinel_seq >= 0
  BY DEF HubInv
<1>5. Head(mailbox[o]) \in Int /\ Head(mailbox[o]) + sentinel_seq >= 0
  <2>1. CASE o \in subs
    <3>1. /\ mailbox[o] \in Seq(Int) /\ \A i \in 1..Len(mailbox[o]) : mailbox[o][i] \in 1..published
      BY <2>1 DEF HubInv, Served, Backlog
    <3>2. Head(mailbox[o]) = mailbox[o][1] /\ 1 \in 1..Len(mailbox[o])
      BY <1>1, <3>1
    <3> QED
      BY <1>4, <3>1, <3>2
  <2>2. CASE o \notin subs
    <3>1. PICK n \in 1..sentinel_seq : mailbox[o] = <<-n>>
      BY <1>1, <2>2 DEF HubInv, Noticed
    <3>2. Head(mailbox[o]) = -n
      BY <3>1
    <3> QED
      BY <1>4, <3>2
  <2> QED
    BY <2>1, <2>2
<1>6. \A q \in subs' : Served(q)'
  <2>1. ASSUME o \in subs PROVE Served(o)'
    <3>1. /\ Backlog(mailbox[o], published)
          /\ Covered(Elements(mailbox[o]), seen[o], joined[o], published)
      BY <2>1 DEF HubInv, Served
    <3>2. /\ Backlog(Tail(mailbox[o]), published) /\ Len(Tail(mailbox[o])) < QueueSize
          /\ Covered(Elements(Tail(mailbox[o])), seen[o] \cup {Head(mailbox[o])}, joined[o],
                     published)
      BY <1>1, <1>4, <3>1, ReadCovers
    <3>3. QueueSize \in Nat /\ Len(Tail(mailbox[o])) # QueueSize
      BY <3>2, HubAssumption DEF Backlog
    <3> QED
      BY <1>1, <1>3, <3>2, <3>3 DEF Served
  <2>2. ASSUME NEW q \in subs, q # o PROVE Served(q)'
    BY <1>1, <1>2, <2>2 DEF HubInv, Served
  <2> QED
    BY <1>1, <2>1, <2>2
<1>7. \A q \in connected' \ subs' : Noticed(q)'
  <2>1. ASSUME o \notin subs PROVE Noticed(o)'
    <3>1. PICK n \in 1..sentinel_seq : mailbox[o] = <<-n>>
      BY <1>1, <2>1 DEF HubInv, Noticed
    <3>2. Tail(mailbox[o]) = <<>>
      BY <3>1
    <3> QED
      BY <1>3, <3>2 DEF Noticed
  <2>2. ASSUME NEW q \in connected \ subs, q # o PROVE Noticed(q)'
    BY <1>1, <1>2, <2>2 DEF HubInv, Noticed
  <2> QED
    BY <1>1, <2>1, <2>2
<1>8. \A q \in Observers : IsFiniteSet(seen'[q]) /\ \A n \in seen'[q] : n + sentinel_seq' >= 0
  <2>1. IsFiniteSet(seen'[o]) /\ \A n \in seen'[o] : n + sentinel_seq >= 0
    <3>1. IsFiniteSet(seen[o] \cup {Head(mailbox[o])})
      BY <1>4, FS_AddElement
    <3> QED
      BY <1>3, <1>4, <1>5, <3>1
  <2>2. ASSUME NEW q \in Observers, q # o
        PROVE  IsFiniteSet(seen'[q]) /\ \A n \in seen'[q] : n + sentinel_seq >= 0
    BY <1>2, <2>2 DEF HubInv
  <2> QED
    BY <1>1, <2>1, <2>2
<1>9. /\ seen' \in [Observers -> SUBSET Int] /\ idle_for' \in [Observers -> Nat]
      /\ DOMAIN mailbox' = Observers
  BY <1>1, <1>5 DEF HubInv
<1>10. RingIsTail'
  BY <1>1 DEF HubInv, RingIsTail
<1> QED
  BY <1>1, <1>6, <1>7, <1>8, <1>9, <1>10 DEF HubInv

(* A publish, seen from one observer: its queue takes the event, or ends in*)
(* a notice with a key that no observer has seen.                          *)
LEMMA EvictedCount ==
  ASSUME HubInv
  PROVE  IsFiniteSet(Evicted) /\ Cardinality(Evicted) \in Nat
<1>1. Evicted \in SUBSET subs
  BY DEF Evicted
<1> QED
  BY <1>1, PartCounts DEF HubInv

LEMMA PublishRing ==
  ASSUME HubInv, published' = published + 1,
         ring' = Newest(Append(ring, published'), RingSize)
  PROVE  RingIsTail'
<1> DEFINE t == Append(ring, published + 1)
<1>1. /\ published \in Nat /\ ring \in Seq(Int) /\ Len(ring) \in Nat /\ Len(ring) <= published
      /\ \A i \in 1..Len(ring) : ring[i] = published - Len(ring) + i
  BY DEF HubInv, RingIsTail
<1>2. /\ t \in Seq(Int) /\ Len(t) = Len(ring) + 1
      /\ \A i \in 1..Len(t) : t[i] = published + 1 - Len(t) + i
  BY <1>1
<1>3. RingSize \in Nat \ {0}
  BY HubAssumption
<1>4. ring' = Newest(t, RingSize)
  OBVIOUS
<1> HIDE DEF t
<1>5. /\ ring' \in Seq(Int) /\ Len(ring') = IF Len(t) <= RingSize THEN Len(t) ELSE RingSize
      /\ \A i \in 1..Len(ring') : ring'[i] = t[Len(t) - Len(ring') + i]
  <2>1. IsLast(t, RingSize, ring')
    BY <1>2, <1>3, <1>4, NewestKeeps
  <2> QED
    BY <2>1 DEF IsLast
<1>6. Len(ring') \in Nat /\ Len(ring') <= Len(t) /\ Len(t) \in Nat
  BY <1>1, <1>2, <1>3, <1>5
<1>7. ASSUME NEW i \in 1..Len(ring') PROVE ring'[i] = published + 1 - Len(ring') + i
  <2>1. Len(t) - Len(ring') + i \in 1..Len(t)
    BY <1>6
  <2>2. ring'[i] = t[Len(t) - Len(ring') + i]
    BY <1>5
  <2>3. t[Len(t) - Len(ring') + i] = published + 1 - Len(t) + (Len(t) - Len(ring') + i)
    BY <1>2, <2>1
  <2> QED
    BY <1>1, <1>6, <2>2, <2>3
<1>8. Len(ring') <= published'
  BY <1>1, <1>2, <1>6
<1> QED
  BY <1>1, <1>5, <1>7, <1>8 DEF RingIsTail

LEMMA PublishServes ==
  ASSUME HubInv, NEW o \in subs \ Evicted,
         published' = published + 1,
         mailbox'[o] = Deliver(o, published'),
         full_streak'[o] = Streak(o), idle_for'[o] = idle_for[o] + 1,
         UNCHANGED <<seen, joined>>
  PROVE  Served(o)'
<1>1. /\ published \in Nat /\ joined[o] \in Int /\ seen[o] \in SUBSET Int /\ IsFiniteSet(seen[o])
      /\ full_streak[o] \in Nat /\ idle_for[o] \in Nat /\ Served(o)
  BY DEF HubInv
<1>2. /\ Backlog(mailbox[o], published)
      /\ Covered(Elements(mailbox[o]), seen[o], joined[o], published)
      /\ Len(mailbox[o]) = QueueSize => full_streak[o] < idle_for[o]
  BY <1>1 DEF Served
<1>3. mailbox'[o] = Newest(Append(mailbox[o], published + 1), QueueSize)
  BY DEF Deliver
<1>4. /\ Backlog(mailbox'[o], published + 1)
      /\ Covered(Elements(mailbox'[o]), seen[o], joined[o], published + 1)
  BY <1>1, <1>2, <1>3, DeliverCovers
<1>5. full_streak'[o] < idle_for'[o]
  BY <1>1, <1>2 DEF Streak
<1> QED
  BY <1>4, <1>5 DEF Served

LEMMA PublishKeeps ==
  ASSUME HubInv, PublishEvent
  PROVE  HubInv'
<1>1. PICK rank \in [Evicted -> 1..Cardinality(Evicted)] :
        mailbox' = [o \in Observers |->
          IF o \in Evicted THEN <<Notice(sentinel_seq + rank[o])>>
          ELSE IF o \in subs THEN Deliver(o, published') ELSE mailbox[o]]
  BY DEF PublishEvent
<1>2. /\ published' = published + 1
      /\ ring' = Newest(Append(ring, published'), RingSize)
      /\ sentinel_seq' = sentinel_seq + Cardinality(Evicted)
      /\ full_streak' = [o \in Observers |-> IF o \in subs \ Evicted THEN Streak(o) ELSE 0]
      /\ subs' = subs \ Evicted
      /\ idle_for' = [o \in Observers |-> IF o \in subs THEN idle_for[o] + 1 ELSE 0]
      /\ UNCHANGED <<connected, seen, joined>>
  BY DEF PublishEvent
<1>3. IsFiniteSet(Evicted) /\ Cardinality(Evicted) \in Nat /\ Evicted \subseteq subs
  BY EvictedCount DEF Evicted
<1>4. /\ published \in Nat /\ sentinel_seq \in Nat /\ subs \subseteq Observers
      /\ \A o \in Observers : full_streak[o] \in Nat /\ idle_for[o] \in Nat
  BY DEF HubInv
<1>5. RingIsTail'
  BY <1>2, PublishRing
<1>6. IsFiniteSet(subs')
  BY <1>2, FS_Subset DEF HubInv
<1>7. /\ full_streak' \in [Observers -> Nat] /\ idle_for' \in [Observers -> Nat]
      /\ DOMAIN mailbox' = Observers
  <2>1. \A o \in Observers : Streak(o) \in Nat
    BY <1>4 DEF Streak
  <2> QED
    BY <1>1, <1>2, <1>4, <2>1
<1>8. sentinel_seq' \in Nat /\ sentinel_seq <= sentinel_seq'
  BY <1>2, <1>3, <1>4
<1>9. \A o \in Observers : IsFiniteSet(seen'[o]) /\ \A n \in seen'[o] : n + sentinel_seq' >= 0
  <2>1. \A o \in Observers :
          IsFiniteSet(seen[o]) /\ \A n \in seen[o] : n \in Int /\ n + sentinel_seq >= 0
    BY DEF HubInv
  <2>2. sentinel_seq \in Int /\ sentinel_seq' \in Int /\ sentinel_seq <= sentinel_seq'
    BY <1>4, <1>8
  <2>3. \A a, b, n \in Int : a <= b /\ n + a >= 0 => n + b >= 0
    OBVIOUS
  <2>4. \A n \in Int : n + sentinel_seq >= 0 => n + sentinel_seq' >= 0
    BY <2>2, <2>3, Zenon
  <2> QED
    BY <1>2, <2>1, <2>4
<1>10. ASSUME NEW o \in subs' PROVE Served(o)'
  <2>1. o \in subs \ Evicted /\ o \in Observers
    BY <1>2, <1>4
  <2>2. /\ mailbox'[o] = Deliver(o, published') /\ full_streak'[o] = Streak(o)
        /\ idle_for'[o] = idle_for[o] + 1
    BY <1>1, <1>2, <2>1
  <2> QED
    BY <1>2, <2>1, <2>2, PublishServes
<1>11. ASSUME NEW o \in connected' \ subs' PROVE Noticed(o)'
  <2>1. o \in Observers /\ o \in connected
    BY <1>2 DEF HubInv
  <2>2. CASE o \in Evicted
    <3> DEFINE n == sentinel_seq + rank[o]
    <3>1. n \in 1..sentinel_seq' /\ n > sentinel_seq
      BY <1>1, <1>2, <1>3, <1>4, <2>2
    <3>2. mailbox'[o] = <<-n>>
      BY <1>1, <2>1, <2>2 DEF Notice
    <3>3. -n \notin seen'[o]
      <4>1. \A m \in seen[o] : m \in Int /\ m + sentinel_seq >= 0
        BY <2>1 DEF HubInv
      <4> QED
        BY <1>2, <1>4, <3>1, <4>1
    <3> HIDE DEF n
    <3> QED
      BY <3>1, <3>2, <3>3 DEF Noticed
  <2>3. CASE o \notin Evicted
    <3>1. o \notin subs /\ Noticed(o)
      BY <1>2, <2>1, <2>3 DEF HubInv
    <3>2. mailbox'[o] = mailbox[o] /\ seen'[o] = seen[o]
      BY <1>1, <1>2, <2>1, <2>3, <3>1
    <3>3. 1..sentinel_seq \subseteq 1..sentinel_seq'
      BY <1>4, <1>8
    <3> QED
      BY <3>1, <3>2, <3>3 DEF Noticed
  <2> QED
    BY <2>2, <2>3
<1>12. published' \in Nat /\ subs' \subseteq connected' /\ connected' \subseteq Observers
       /\ joined' \in [Observers -> Int] /\ seen' \in [Observers -> SUBSET Int]
  BY <1>2, <1>4 DEF HubInv
<1> QED
  BY <1>5, <1>6, <1>7, <1>8, <1>9, <1>10, <1>11, <1>12 DEF HubInv

LEMMA HubStep == HubInv /\ [HubNext]_hubVars => HubInv'
<1> SUFFICES ASSUME HubInv, [HubNext]_hubVars PROVE HubInv'
  OBVIOUS
<1>1. CASE PublishEvent
  BY <1>1, PublishKeeps
<1>2. ASSUME NEW o \in Observers, Subscribe(o) \/ Unsubscribe(o) \/ Read(o) PROVE HubInv'
  BY <1>2, SubscribeKeeps, UnsubscribeKeeps, ReadKeeps
<1>3. CASE UNCHANGED hubVars \/ \E o \in Observers : TimePasses(o)
  <2>1. UNCHANGED <<published, ring, subs, mailbox, full_streak, sentinel_seq, connected, seen,
                    joined, idle_for>>
    BY <1>3 DEF hubVars, TimePasses
  <2> QED
    BY <2>1 DEF HubInv, RingIsTail, Served, Noticed
<1> QED
  BY <1>1, <1>2, <1>3 DEF HubNext

(* For every number of observers and every size of the ring and of the     *)
(* queues: what a subscriber was promised it has seen, has queued, or lost *)
(* to a whole queue of newer events; and an evicted one is told.           *)
THEOREM HubLosesOpenly == HubSpec => []NoSilentLoss
<1>1. HubSpec => []HubInv
  BY HubInitInv, HubStep, PTL DEF HubSpec
<1> QED
  BY <1>1, HubFollows, PTL

(* Eviction needs a streak, and the streak counts publishes that came      *)
(* after the last read.                                                    *)
LEMMA EvictedIsIdle ==
  ASSUME HubInv, [HubNext]_hubVars, NEW o \in subs \cap connected', o \notin subs'
  PROVE  idle_for'[o] > EvictAfter
<1>1. PublishEvent
  BY DEF HubNext, hubVars, TimePasses, Subscribe, Unsubscribe, Read
<1>2. o \in Evicted /\ idle_for'[o] = idle_for[o] + 1
  BY <1>1 DEF PublishEvent, HubInv
<1>3. Streak(o) >= EvictAfter /\ EvictAfter \in Nat \ {0}
  BY <1>2, HubAssumption DEF Evicted
<1>4. full_streak[o] \in Nat /\ idle_for[o] \in Nat /\ Served(o)
  BY DEF HubInv
<1>5. Streak(o) = full_streak[o] + 1 /\ Len(mailbox[o]) = QueueSize
  BY <1>3, <1>4 DEF Streak
<1> QED
  BY <1>2, <1>3, <1>4, <1>5 DEF Served

(* No observer that read anything over the last EvictAfter publishes is    *)
(* evicted, whatever the clock says.                                       *)
THEOREM ReadersStay == HubSpec => EvictsOnlyIdle
<1>1. HubInv /\ [HubNext]_hubVars
        => [\A o \in subs \cap connected' : o \notin subs' => idle_for'[o] > EvictAfter]_hubVars
  BY EvictedIsIdle
<1>2. HubSpec => []HubInv
  BY HubInitInv, HubStep, PTL DEF HubSpec
<1> QED
  BY <1>1, <1>2, PTL DEF HubSpec, EvictsOnlyIdle

-----------------------------------------------------------------------------
(* The knowledge graph                                                     *)

(* Above the cap only what somebody said.                                  *)
Owned(conf) == conf > TopConfidence => conf \in Confidences

(* What somebody may have said, and nothing.                               *)
Beliefs == [Authors -> Confidences \cup {0}]

IsRow(row) ==
  /\ row = [id |-> row.id, fact |-> row.fact, by |-> row.by, conf |-> row.conf,
            expires |-> row.expires, vector |-> row.vector]
  /\ row.id \in Nat /\ row.fact \in Triples /\ row.by \in Beliefs /\ Owned(row.conf)
  /\ row.expires \in Nat /\ row.vector \in {"none", row.fact}

(* Ids and facts tell rows apart, and no id is ahead of the counter.       *)
IsTable(rows, last) ==
  /\ \A row \in rows : IsRow(row) /\ row.id <= last
  /\ \A row, other \in rows : row.fact = other.fact \/ row.id = other.id => row = other

(* What was read of some rows is still true of those that are there.       *)
Remembers(read, rows, last) ==
  /\ read \subseteq [id : Nat, fact : Triples]
  /\ \A p \in read : p.id <= last
  /\ \A p \in read, row \in rows : p.id = row.id => p.fact = row.fact

TopicsApart(rows, told) ==
  {StrongTopic, WeakTopic} \cap told = {} =>
    \A row, other \in rows :
      row.fact \in {StrongTopic, WeakTopic} /\ other.fact \in {StrongTopic, WeakTopic} =>
        row = other /\ row.expires = 0

JobIsTrue ==
  /\ mjob.now \in Nat /\ mjob.now <= mclock
  /\ mjob.kind = "curate" => \A p \in mjob.rows : p.fact \notin Secret
  /\ mat = "archived" => mjob.rows \subseteq marchive

GraphInv ==
  /\ mclock \in Nat /\ mlast \in Nat
  /\ IsTable(mrows, mlast) /\ TopicsApart(mrows, mtold)
  /\ Remembers(membed, mrows, mlast) /\ Remembers(mjob.rows, mrows, mlast)
  /\ JobIsTrue /\ RemovedIsArchived

LEMMA GraphFollows == GraphInv => MemoryIsKept
<1> SUFFICES ASSUME GraphInv PROVE MemoryIsKept
  OBVIOUS
<1>1. \A row \in mrows : row.vector \in {"none", row.fact} /\ Owned(row.conf)
  BY DEF GraphInv, IsTable, IsRow
<1>2. \A row, other \in mrows : row.fact = other.fact \/ row.id = other.id => row = other
  BY DEF GraphInv, IsTable
<1>3. ASSUME {StrongTopic, WeakTopic} \cap mtold = {}
      PROVE  /\ Cardinality(Of({StrongTopic, WeakTopic})) <= 1
             /\ \A row \in Of({StrongTopic, WeakTopic}) : row.expires = 0
  <2> DEFINE entries == Of({StrongTopic, WeakTopic})
  <2>1. \A row, other \in entries : row = other /\ row.expires = 0
    BY <1>3 DEF GraphInv, TopicsApart, Of
  <2> HIDE DEF entries
  <2>2. CASE entries = {}
    BY <2>2, FS_EmptySet DEF entries
  <2>3. CASE entries # {}
    <3>1. PICK row \in entries : TRUE
      BY <2>3
    <3>2. entries = {row}
      BY <2>1, <3>1
    <3>3. Cardinality(entries) = 1
      BY <3>2, FS_Singleton
    <3> QED
      BY <2>1, <3>3 DEF entries
  <2> QED
    BY <2>2, <2>3 DEF entries
<1>4. OneRowPerFact
  BY <1>1, <1>2, <1>3 DEF OneRowPerFact
<1>5. NoBorrowedCertainty
  BY <1>1 DEF NoBorrowedCertainty, Owned
<1> QED
  BY <1>4, <1>5 DEF MemoryIsKept, GraphInv

LEMMA GraphInitInv == GraphInit => GraphInv
<1> SUFFICES ASSUME GraphInit PROVE GraphInv
  OBVIOUS
<1> USE DEF GraphInit
<1>1. mclock \in Nat /\ mlast \in Nat /\ JobIsTrue
  BY DEF JobIsTrue, NoJob
<1>2. IsTable(mrows, mlast) /\ TopicsApart(mrows, mtold) /\ RemovedIsArchived
  BY DEF IsTable, TopicsApart, RemovedIsArchived
<1>3. Remembers(membed, mrows, mlast) /\ Remembers(mjob.rows, mrows, mlast)
  BY DEF Remembers, NoJob
<1> QED
  BY <1>1, <1>2, <1>3 DEF GraphInv

(* A combination of what was said is at most the cap, or was said.         *)
LEMMA CombinedIsOwned ==
  ASSUME NEW by \in Beliefs
  PROVE  Owned(Combined(by))
<1>1. \A a \in Authors : by[a] \in Confidences \cup {0} /\ (by[a] > 0 => by[a] \in Confidences)
  BY DEF Beliefs
<1>2. Confidences \subseteq 1..1000 /\ TopConfidence \in Nat
  BY GraphAssumption
<1>3. CASE Cardinality(Corroborators(by)) = 1
  <2>1. \E a \in Authors : by[a] > 0
    <3>1. Corroborators(by) # {}
      BY <1>3, FS_EmptySet
    <3> QED
      BY <3>1 DEF Corroborators
  <2> DEFINE said == by[CHOOSE a \in Authors : by[a] > 0]
  <2>2. said \in Confidences
    BY <1>1, <2>1
  <2> HIDE DEF said
  <2>3. \/ Combined(by) = said
        \/ Combined(by) = 1000 /\ \E a \in Authors : by[a] = 1000
    BY <1>3 DEF Combined, said
  <2> QED
    BY <1>1, <2>2, <2>3 DEF Owned
<1>4. CASE /\ \E a \in Authors : by[a] = 1000
           /\ Cardinality(Corroborators(by)) # 1
  <2>1. 1000 \in Confidences
    BY <1>1, <1>4
  <2>2. Combined(by) = 1000
    BY <1>4 DEF Combined
  <2> QED
    BY <2>1, <2>2 DEF Owned
<1>5. CASE /\ ~ \E a \in Authors : by[a] = 1000
           /\ Cardinality(Corroborators(by)) # 1
  <2> DEFINE left == 1000 - Doubt(by)
  <2>1. Combined(by) = Smaller(TopConfidence, left)
    BY <1>5 DEF Combined
  <2> HIDE DEF left
  <2>2. ~ (Smaller(TopConfidence, left) > TopConfidence)
    BY <1>2 DEF Smaller
  <2> QED
    BY <2>1, <2>2 DEF Owned
<1> QED
  BY <1>3, <1>4, <1>5

(* Of each row there was one of its fact and id, or its id is new.         *)
Descends(rows, last) ==
  \A new \in rows : \/ last < new.id
                    \/ \E row \in mrows : row.id = new.id /\ row.fact = new.fact

(* So nothing that was read goes stale by it.                              *)
LEMMA StillRemembers ==
  ASSUME GraphInv, NEW read, Remembers(read, mrows, mlast), Descends(mrows', mlast),
         mlast' \in Nat, mlast <= mlast'
  PROVE  Remembers(read, mrows', mlast')
<1>1. \A p \in read : p.id \in Nat /\ p.id <= mlast
  BY DEF Remembers
<1>2. \A p \in read : p.id <= mlast'
  <2>1. mlast \in Nat
    BY DEF GraphInv
  <2>2. \A k, m, n \in Nat : k <= m /\ m <= n => k <= n
    OBVIOUS
  <2> QED
    BY <1>1, <2>1, <2>2, Zenon
<1>3. ASSUME NEW p \in read, NEW new \in mrows', p.id = new.id PROVE p.fact = new.fact
  <2>1. ~ (mlast < new.id)
    BY <1>1, <1>3 DEF GraphInv
  <2>2. PICK row \in mrows : row.id = new.id /\ row.fact = new.fact
    BY <2>1 DEF Descends
  <2> QED
    BY <1>3, <2>2 DEF Remembers
<1> QED
  BY <1>2, <1>3 DEF Remembers

(* A step that leaves the compaction and the embeddings alone.             *)
LEMMA WriteKeeps ==
  ASSUME GraphInv, UNCHANGED <<mclock, mjob, mat, marchive, mremoved, membed>>,
         IsTable(mrows', mlast'), TopicsApart(mrows', mtold'), Descends(mrows', mlast),
         mlast' \in Nat, mlast <= mlast'
  PROVE  GraphInv'
<1>1. Remembers(membed, mrows, mlast) /\ Remembers(mjob.rows, mrows, mlast)
  BY DEF GraphInv
<1>2. Remembers(membed, mrows', mlast') /\ Remembers(mjob.rows, mrows', mlast')
  BY <1>1, StillRemembers
<1>3. mclock' \in Nat /\ JobIsTrue' /\ RemovedIsArchived'
  BY DEF GraphInv, JobIsTrue, RemovedIsArchived
<1> QED
  BY <1>2, <1>3 DEF GraphInv

(* What a write leaves: the row of the fact, and some of those there were. *)
LEMMA UpsertWrites ==
  ASSUME GraphInv, NEW rows \in SUBSET mrows, NEW fact \in Triples, NEW by \in Beliefs,
         NEW conf, Owned(conf), NEW expires \in Nat, Of({fact}) \subseteq rows,
         Upsert(rows, fact, by, conf, expires)
  PROVE  /\ mlast' \in Nat /\ mlast <= mlast'
         /\ IsTable(mrows', mlast') /\ Descends(mrows', mlast)
         /\ \A new \in mrows' :
              (new \in rows /\ new.fact # fact) \/ (new.fact = fact /\ new.expires = expires)
<1>1. /\ mlast \in Nat
      /\ \A row \in mrows : IsRow(row) /\ row.id <= mlast /\ row.id \in Nat
      /\ \A row, other \in mrows : row.fact = other.fact \/ row.id = other.id => row = other
  BY DEF GraphInv, IsTable, IsRow
<1>2. CASE \E row \in Of({fact}) :
             /\ mrows' = (rows \ {row})
                   \cup {[id |-> row.id, fact |-> fact, by |-> by, conf |-> conf,
                          expires |-> expires, vector |-> row.vector]}
             /\ UNCHANGED mlast
  <2>1. PICK row \in Of({fact}) :
          /\ mrows' = (rows \ {row})
                \cup {[id |-> row.id, fact |-> fact, by |-> by, conf |-> conf,
                       expires |-> expires, vector |-> row.vector]}
          /\ UNCHANGED mlast
    BY <1>2
  <2> DEFINE new == [id |-> row.id, fact |-> fact, by |-> by, conf |-> conf,
                     expires |-> expires, vector |-> row.vector]
  <2>2. row \in mrows /\ row \in rows /\ row.fact = fact
    BY <2>1 DEF Of
  <2>3. row.vector \in {"none", row.fact}
    BY <1>1, <2>2 DEF IsRow
  <2>4. /\ new.id = row.id /\ new.fact = row.fact /\ new.by = by /\ new.conf = conf
        /\ new.expires = expires /\ new.vector = row.vector
    BY <2>2
  <2>5. IsRow(new) /\ new.id <= mlast
    BY <1>1, <2>2, <2>3, <2>4 DEF IsRow
  <2> HIDE DEF new
  <2>6. mrows' = (rows \ {row}) \cup {new}
    BY <2>1 DEF new
  <2>7. \A other \in rows \ {row} : other.fact # row.fact /\ other.id # row.id
    BY <1>1, <2>2
  <2>8. IsTable(mrows', mlast')
    BY <1>1, <2>1, <2>4, <2>5, <2>6, <2>7 DEF IsTable
  <2>9. Descends(mrows', mlast)
    BY <2>2, <2>4, <2>6 DEF Descends
  <2>10. \A e \in mrows' : (e \in rows /\ e.fact # fact) \/ (e.fact = fact /\ e.expires = expires)
    BY <2>2, <2>4, <2>6, <2>7
  <2>11. mlast' \in Nat /\ mlast <= mlast'
    BY <1>1, <2>1
  <2> QED
    BY <2>8, <2>9, <2>10, <2>11
<1>3. CASE /\ Of({fact}) = {} /\ mlast < MaxRows
           /\ mrows' = rows \cup {[id |-> NewId, fact |-> fact, by |-> by, conf |-> conf,
                                   expires |-> expires, vector |-> "none"]}
           /\ mlast' = NewId
  <2> DEFINE new == [id |-> NewId, fact |-> fact, by |-> by, conf |-> conf,
                     expires |-> expires, vector |-> "none"]
  <2>1. mlast' = mlast + 1 /\ NewId = mlast + 1 /\ mlast' \in Nat /\ mlast <= mlast'
    BY <1>1, <1>3 DEF NewId
  <2>2. /\ new.id = mlast + 1 /\ new.fact = fact /\ new.by = by /\ new.conf = conf
        /\ new.expires = expires /\ new.vector = "none"
    BY <2>1
  <2>3. IsRow(new)
    BY <1>1, <2>1, <2>2 DEF IsRow
  <2> HIDE DEF new
  <2>4. mrows' = rows \cup {new}
    BY <1>3 DEF new
  <2>5. \A row \in rows : row.fact # fact /\ row.id <= mlast + 1 /\ row.id # mlast + 1
    BY <1>1, <1>3 DEF Of
  <2>6. IsTable(mrows', mlast')
    BY <1>1, <2>1, <2>2, <2>3, <2>4, <2>5 DEF IsTable
  <2>7. Descends(mrows', mlast)
    BY <1>1, <2>2, <2>4 DEF Descends
  <2>8. \A e \in mrows' : (e \in rows /\ e.fact # fact) \/ (e.fact = fact /\ e.expires = expires)
    BY <2>2, <2>4, <2>5
  <2> QED
    BY <2>1, <2>6, <2>7, <2>8
<1> QED
  BY <1>2, <1>3 DEF Upsert

LEMMA AssertKeeps ==
  ASSUME GraphInv, NEW fact \in Triples, AssertFact(fact)
  PROVE  GraphInv'
<1>1. PICK conf \in Confidences, expires \in {0, mclock + 1} :
        LET old == IF Of({fact}) = {} THEN [by |-> NoOne, conf |-> 0]
                                      ELSE CHOOSE row \in Of({fact}) : TRUE
        IN  \/ \E a \in Authors :
                 LET by == [old.by EXCEPT ![a] = Larger(@, conf)]
                 IN  Upsert(mrows, fact, by, Combined(by), expires)
            \/ Upsert(mrows, fact, old.by,
                      IF old.by = NoOne THEN Larger(old.conf, conf) ELSE Combined(old.by),
                      expires)
  BY DEF AssertFact
<1> DEFINE old == IF Of({fact}) = {} THEN [by |-> NoOne, conf |-> 0]
                                     ELSE CHOOSE row \in Of({fact}) : TRUE
<1>2. old.by \in Beliefs /\ Owned(old.conf)
  <2>1. CASE Of({fact}) = {}
    <3>1. old.by = NoOne /\ old.conf = 0
      BY <2>1
    <3>2. NoOne \in Beliefs /\ Owned(0)
      BY GraphAssumption DEF NoOne, Beliefs, Owned
    <3> QED
      BY <3>1, <3>2
  <2>2. CASE Of({fact}) # {}
    BY <2>2 DEF GraphInv, IsTable, IsRow, Of
  <2> QED
    BY <2>1, <2>2
<1> DEFINE found == old.by
           was == old.conf
<1>3. \/ \E a \in Authors : LET by == [found EXCEPT ![a] = Larger(@, conf)]
                            IN  Upsert(mrows, fact, by, Combined(by), expires)
      \/ Upsert(mrows, fact, found, IF found = NoOne THEN Larger(was, conf) ELSE Combined(found),
                expires)
  BY <1>1
<1>4. found \in Beliefs /\ Owned(was)
  BY <1>2
<1> HIDE DEF found, was
<1>5. expires \in Nat /\ Of({fact}) \subseteq mrows
  BY DEF GraphInv, Of
<1>6. \E by \in Beliefs : \E c : Owned(c) /\ Upsert(mrows, fact, by, c, expires)
  <2>1. CASE \E a \in Authors : LET by == [found EXCEPT ![a] = Larger(@, conf)]
                                IN  Upsert(mrows, fact, by, Combined(by), expires)
    <3>1. PICK a \in Authors : LET by == [found EXCEPT ![a] = Larger(@, conf)]
                               IN  Upsert(mrows, fact, by, Combined(by), expires)
      BY <2>1
    <3> DEFINE by == [found EXCEPT ![a] = Larger(@, conf)]
    <3>2. by \in Beliefs
      BY <1>4 DEF Beliefs, Larger
    <3>3. Upsert(mrows, fact, by, Combined(by), expires)
      BY <3>1
    <3> HIDE DEF by
    <3> QED
      BY <3>2, <3>3, CombinedIsOwned
  <2>2. CASE Upsert(mrows, fact, found,
                    IF found = NoOne THEN Larger(was, conf) ELSE Combined(found), expires)
    <3>1. Owned(IF found = NoOne THEN Larger(was, conf) ELSE Combined(found))
      <4>1. Owned(Combined(found)) /\ Owned(was) /\ Owned(conf)
        BY <1>4, CombinedIsOwned DEF Owned
      <4>2. Larger(was, conf) \in {was, conf}
        BY DEF Larger
      <4> QED
        BY <4>1, <4>2
    <3> QED
      BY <1>4, <2>2, <3>1
  <2> QED
    BY <1>3, <2>1, <2>2
<1>7. PICK by \in Beliefs : \E c : Owned(c) /\ Upsert(mrows, fact, by, c, expires)
  BY <1>6
<1>8. /\ mlast' \in Nat /\ mlast <= mlast'
      /\ IsTable(mrows', mlast') /\ Descends(mrows', mlast)
      /\ \A new \in mrows' :
           (new \in mrows /\ new.fact # fact) \/ (new.fact = fact /\ new.expires = expires)
  BY <1>5, <1>7, UpsertWrites
<1>9. TopicsApart(mrows', mtold')
  <2>1. mtold' = mtold \cup {fact} /\ TopicsApart(mrows, mtold)
    BY DEF AssertFact, GraphInv
  <2> QED
    BY <1>8, <2>1 DEF TopicsApart
<1>10. UNCHANGED <<mclock, mjob, mat, marchive, mremoved, membed>>
  BY DEF AssertFact, WriteSame
<1> QED
  BY <1>8, <1>9, <1>10, WriteKeeps

LEMMA ReviewKeeps ==
  ASSUME GraphInv, NEW a \in Authors, RecordReview(a)
  PROVE  GraphInv'
<1>1. PICK fact \in {StrongTopic, WeakTopic}, mastery \in Confidences :
        Upsert(mrows \ Of(Twins(fact)), fact, [NoOne EXCEPT ![a] = mastery], mastery, 0)
  BY DEF RecordReview
<1>2. [NoOne EXCEPT ![a] = mastery] \in Beliefs /\ Owned(mastery) /\ fact \in Triples
  BY GraphAssumption DEF NoOne, Beliefs, Owned
<1>3. PICK rows \in SUBSET mrows, by \in Beliefs, never \in Nat :
        /\ rows = mrows \ Of(Twins(fact)) /\ never = 0
        /\ Upsert(rows, fact, by, mastery, never)
  BY <1>1, <1>2
<1>4. Of({fact}) \subseteq rows
      /\ \A row \in rows : row.fact # fact => row.fact \notin {StrongTopic, WeakTopic}
  BY <1>3 DEF Of, Twins
<1>5. /\ mlast' \in Nat /\ mlast <= mlast'
      /\ IsTable(mrows', mlast') /\ Descends(mrows', mlast)
      /\ \A new \in mrows' :
           (new \in rows /\ new.fact # fact) \/ (new.fact = fact /\ new.expires = never)
  <2>1. \A f \in Triples : Of({f}) \subseteq rows /\ Upsert(rows, f, by, mastery, never) =>
          /\ mlast' \in Nat /\ mlast <= mlast'
          /\ IsTable(mrows', mlast') /\ Descends(mrows', mlast)
          /\ \A new \in mrows' :
               (new \in rows /\ new.fact # f) \/ (new.fact = f /\ new.expires = never)
    BY <1>2, UpsertWrites
  <2> QED
    BY <1>2, <1>3, <1>4, <2>1, Zenon
<1>6. TopicsApart(mrows', mtold')
  <2>1. \A new \in mrows' :
          new.fact \in {StrongTopic, WeakTopic} => new.fact = fact /\ new.expires = 0
    BY <1>3, <1>4, <1>5
  <2>2. \A new, other \in mrows' : new.fact = other.fact => new = other
    BY <1>5 DEF IsTable
  <2> QED
    BY <2>1, <2>2 DEF TopicsApart
<1>7. UNCHANGED <<mclock, mjob, mat, marchive, mremoved, membed>>
  BY DEF RecordReview, WriteSame
<1> QED
  BY <1>5, <1>6, <1>7, WriteKeeps

LEMMA TableParts ==
  ASSUME NEW rows, NEW last, IsTable(rows, last), NEW part \in SUBSET rows
  PROVE  IsTable(part, last)
BY DEF IsTable

(* Reading some rows.                                                      *)
LEMMA ReadRemembers ==
  ASSUME GraphInv, NEW rows \in SUBSET mrows
  PROVE  /\ Remembers(Payload(rows), mrows, mlast)
         /\ \A p \in Payload(rows) : \E row \in rows : p.fact = row.fact
<1>1. /\ \A row \in mrows : row.id \in Nat /\ row.fact \in Triples /\ row.id <= mlast
      /\ \A row, other \in mrows : row.id = other.id => row = other
  BY DEF GraphInv, IsTable, IsRow
<1>2. \A p \in Payload(rows) :
        \E row \in rows : p.id = row.id /\ p.fact = row.fact /\ p \in [id : Nat, fact : Triples]
  BY <1>1 DEF Payload
<1>3. \A p \in Payload(rows) : p.id <= mlast
  BY <1>1, <1>2
<1>4. \A p \in Payload(rows), row \in mrows : p.id = row.id => p.fact = row.fact
  BY <1>1, <1>2
<1>5. Payload(rows) \subseteq [id : Nat, fact : Triples]
  BY <1>2
<1> QED
  BY <1>2, <1>3, <1>4, <1>5 DEF Remembers

LEMMA EmbedKeeps ==
  ASSUME GraphInv, FactsNeedingEmbedding \/ StoreEmbeddings
  PROVE  GraphInv'
<1>1. UNCHANGED <<mclock, mlast, mwrites, mjob, mat, marchive, mremoved, mtold>>
  BY DEF FactsNeedingEmbedding, StoreEmbeddings, EmbedSame
<1>2. CASE FactsNeedingEmbedding
  <2>1. UNCHANGED mrows
    BY <1>2 DEF FactsNeedingEmbedding
  <2>2. Remembers(membed', mrows, mlast)
    <3>1. membed' = Payload({row \in mrows : ~Expired(row, mclock) /\ row.vector = "none"})
      BY <1>2 DEF FactsNeedingEmbedding
    <3>2. {row \in mrows : ~Expired(row, mclock) /\ row.vector = "none"} \in SUBSET mrows
      OBVIOUS
    <3> QED
      BY <3>1, <3>2, ReadRemembers
  <2>3. JobIsTrue' /\ RemovedIsArchived'
    BY <1>1 DEF GraphInv, JobIsTrue, RemovedIsArchived
  <2> QED
    BY <1>1, <2>1, <2>2, <2>3 DEF GraphInv
<1>3. CASE StoreEmbeddings
  <2> DEFINE stored(row) == IF \E e \in membed : e.id = row.id
                            THEN [row EXCEPT !.vector = (CHOOSE e \in membed : e.id = row.id).fact]
                            ELSE row
  <2>1. \A row \in mrows : /\ IsRow(stored(row)) /\ stored(row).id = row.id
                           /\ stored(row).fact = row.fact /\ stored(row).expires = row.expires
    <3> SUFFICES ASSUME NEW row \in mrows
                 PROVE  /\ IsRow(stored(row)) /\ stored(row).id = row.id
                        /\ stored(row).fact = row.fact /\ stored(row).expires = row.expires
      OBVIOUS
    <3>1. IsRow(row)
      BY DEF GraphInv, IsTable
    <3>2. CASE ~ \E e \in membed : e.id = row.id
      BY <3>1, <3>2
    <3>3. CASE \E e \in membed : e.id = row.id
      <4> DEFINE fact == (CHOOSE e \in membed : e.id = row.id).fact
      <4>1. fact = row.fact
        BY <3>3 DEF GraphInv, Remembers
      <4>2. stored(row) = [row EXCEPT !.vector = fact]
        BY <3>3
      <4> HIDE DEF fact, stored
      <4> QED
        BY <3>1, <4>1, <4>2 DEF IsRow
    <3> QED
      BY <3>2, <3>3
  <2>2. mrows' = {stored(row) : row \in mrows} \/ mrows' = mrows
    BY <1>3 DEF StoreEmbeddings
  <2> HIDE DEF stored
  <2>3. IsTable(mrows, mlast) /\ TopicsApart(mrows, mtold)
    BY DEF GraphInv
  <2>4. IsTable({stored(row) : row \in mrows}, mlast)
    BY <2>1, <2>3 DEF IsTable
  <2>5. TopicsApart({stored(row) : row \in mrows}, mtold)
    <3> SUFFICES ASSUME {StrongTopic, WeakTopic} \cap mtold = {}, NEW row \in mrows,
                        NEW other \in mrows,
                        stored(row).fact \in {StrongTopic, WeakTopic},
                        stored(other).fact \in {StrongTopic, WeakTopic}
                 PROVE  stored(row) = stored(other) /\ stored(row).expires = 0
      BY DEF TopicsApart
    <3>1. row.fact \in {StrongTopic, WeakTopic} /\ other.fact \in {StrongTopic, WeakTopic}
      BY <2>1
    <3>2. row = other /\ row.expires = 0
      BY <2>3, <3>1 DEF TopicsApart
    <3> QED
      BY <2>1, <3>2
  <2>6. Descends({stored(row) : row \in mrows}, mlast) /\ Descends(mrows, mlast)
    BY <2>1 DEF Descends
  <2>7. IsTable(mrows', mlast) /\ TopicsApart(mrows', mtold) /\ Descends(mrows', mlast)
    BY <2>2, <2>3, <2>4, <2>5, <2>6
  <2>8. mlast' \in Nat /\ mlast <= mlast'
    BY <1>1 DEF GraphInv
  <2>9. Remembers(mjob.rows, mrows', mlast')
    BY <2>7, <2>8, StillRemembers DEF GraphInv
  <2>10. Remembers(membed', mrows', mlast')
    BY <1>3 DEF StoreEmbeddings, Remembers
  <2>11. JobIsTrue' /\ RemovedIsArchived'
    BY <1>1 DEF GraphInv, JobIsTrue, RemovedIsArchived
  <2> QED
    BY <1>1, <2>7, <2>8, <2>9, <2>10, <2>11 DEF GraphInv
<1> QED
  BY <1>2, <1>3

(* A selection, with what it promises of the facts it takes.               *)
LEMMA SelectKeeps ==
  ASSUME GraphInv, NEW kind, NEW rows \in SUBSET mrows, Selects(kind, rows),
         kind = "curate" => \A row \in rows : row.fact \notin Secret
  PROVE  GraphInv'
<1>1. /\ mat' = "selected" /\ mjob' = [kind |-> kind, now |-> mclock, rows |-> Payload(rows)]
      /\ UNCHANGED <<mrows, marchive, mremoved, mclock, mlast, membed, mtold>>
  BY DEF Selects, CompactSame
<1>2. mjob'.kind = kind /\ mjob'.now = mclock /\ mjob'.rows = Payload(rows)
  BY <1>1
<1>3. Remembers(mjob'.rows, mrows, mlast)
  BY <1>2, ReadRemembers
<1>4. mjob'.kind = "curate" => \A p \in mjob'.rows : p.fact \notin Secret
  BY <1>2, ReadRemembers
<1>5. mjob'.now \in Nat /\ mjob'.now <= mclock
  BY <1>2 DEF GraphInv
<1>6. JobIsTrue'
  BY <1>1, <1>4, <1>5 DEF JobIsTrue
<1>7. RemovedIsArchived'
  BY <1>1 DEF GraphInv, RemovedIsArchived
<1> QED
  BY <1>1, <1>3, <1>6, <1>7 DEF GraphInv

LEMMA SelectionsKeep ==
  ASSUME GraphInv, SelectExpired \/ SelectDuplicates \/ SelectSuperseded
  PROVE  GraphInv'
<1>1. CASE SelectExpired
  <2> DEFINE rows == {row \in mrows : Expired(row, mclock) /\ row.fact \notin Secret}
  <2>1. rows \in SUBSET mrows /\ Selects("apply", rows)
    BY <1>1 DEF SelectExpired
  <2> HIDE DEF rows
  <2> QED
    BY <2>1, SelectKeeps
<1>2. CASE SelectDuplicates
  <2>1. PICK plan \in CuratePlans :
          Selects("curate",
                  UNION {Deletable(group) : group \in {g \in plan : Of({g.survivor}) # {}}})
    BY <1>2 DEF SelectDuplicates
  <2> DEFINE rows == UNION {Deletable(group) : group \in {g \in plan : Of({g.survivor}) # {}}}
  <2>2. rows \in SUBSET mrows /\ \A row \in rows : row.fact \notin Secret
    BY DEF Deletable, Of
  <2>3. Selects("curate", rows)
    BY <2>1
  <2> HIDE DEF rows
  <2> QED
    BY <2>2, <2>3, SelectKeeps
<1>3. CASE SelectSuperseded
  <2> DEFINE rows == {row \in Of(OldDocument) : ~Expired(row, mclock)}
  <2>1. rows \in SUBSET mrows /\ Selects("study", rows)
    BY <1>3 DEF SelectSuperseded, Of
  <2> HIDE DEF rows
  <2> QED
    BY <2>1, SelectKeeps
<1> QED
  BY <1>1, <1>2, <1>3

LEMMA ArchiveKeeps ==
  ASSUME GraphInv, WriteArchive
  PROVE  GraphInv'
<1>1. UNCHANGED <<mrows, mremoved, mclock, mlast, membed, mtold>> /\ marchive \subseteq marchive'
  BY DEF WriteArchive, CompactSame
<1>2. Remembers(mjob'.rows, mrows, mlast)
  <2>1. Remembers(NoJob.rows, mrows, mlast) /\ Remembers(mjob.rows, mrows, mlast)
    BY DEF GraphInv, Remembers, NoJob
  <2> QED
    BY <2>1 DEF WriteArchive
<1>3. JobIsTrue'
  BY <1>1 DEF WriteArchive, GraphInv, JobIsTrue, NoJob
<1>4. RemovedIsArchived'
  BY <1>1 DEF GraphInv, RemovedIsArchived
<1> QED
  BY <1>1, <1>2, <1>3, <1>4 DEF GraphInv

LEMMA DeleteKeeps ==
  ASSUME GraphInv, DeleteRows
  PROVE  GraphInv'
<1>1. /\ UNCHANGED <<marchive, mclock, mlast, membed, mtold>> /\ mat = "archived"
      /\ mat' = "idle" /\ mjob' = NoJob
  BY DEF DeleteRows, CompactSame
<1>2. mrows' \subseteq mrows
  BY DEF DeleteRows
<1>3. IsTable(mrows', mlast) /\ TopicsApart(mrows', mtold)
  BY <1>2, TableParts DEF GraphInv, TopicsApart
<1>4. Remembers(membed, mrows', mlast) /\ Remembers(NoJob.rows, mrows', mlast)
  BY <1>2 DEF GraphInv, Remembers, NoJob
<1>5. JobIsTrue'
  BY <1>1 DEF JobIsTrue, NoJob, GraphInv
<1>6. ASSUME NEW row \in Doomed
      PROVE  /\ [id |-> row.id, fact |-> row.fact] \in marchive
             /\ mjob.kind = "apply" => Expired(row, mclock)
             /\ mjob.kind \in {"apply", "curate"} => row.fact \notin Secret
  <2>1. PICK p \in mjob.rows : p.id = row.id /\ row \in mrows
    BY DEF Doomed, Chosen
  <2>2. p \in [id : Nat, fact : Triples] /\ p.fact = row.fact /\ p \in marchive
    BY <1>1, <2>1 DEF GraphInv, Remembers, JobIsTrue
  <2>3. [id |-> row.id, fact |-> row.fact] = p
    BY <2>1, <2>2
  <2>4. ASSUME mjob.kind = "apply" PROVE Expired(row, mclock) /\ row.fact \notin Secret
    <3>1. Expired(row, mjob.now) /\ row.fact \notin Secret
      BY <2>4 DEF Doomed
    <3>2. row.expires \in Nat /\ mjob.now \in Nat /\ mclock \in Nat /\ mjob.now <= mclock
      BY <2>1 DEF GraphInv, JobIsTrue, IsTable, IsRow
    <3> QED
      BY <3>1, <3>2 DEF Expired
  <2>5. mjob.kind = "curate" => row.fact \notin Secret
    BY <2>1, <2>2 DEF GraphInv, JobIsTrue
  <2> QED
    BY <2>2, <2>3, <2>4, <2>5
<1>7. RemovedIsArchived'
  <2>1. \/ UNCHANGED mremoved
        \/ mremoved' = mremoved \cup {[id |-> row.id, fact |-> row.fact, kind |-> mjob.kind,
                                       live |-> ~Expired(row, mclock)] : row \in Doomed}
    BY DEF DeleteRows
  <2>2. RemovedIsArchived
    BY DEF GraphInv
  <2> SUFFICES ASSUME NEW gone \in mremoved' \ mremoved
               PROVE  /\ [id |-> gone.id, fact |-> gone.fact] \in marchive
                      /\ gone.kind = "apply" => ~gone.live
                      /\ gone.kind \in {"apply", "curate"} => gone.fact \notin Secret
    BY <1>1, <2>1, <2>2 DEF RemovedIsArchived
  <2>3. PICK row \in Doomed :
          gone = [id |-> row.id, fact |-> row.fact, kind |-> mjob.kind,
                  live |-> ~Expired(row, mclock)]
    BY <2>1
  <2>4. /\ gone.id = row.id /\ gone.fact = row.fact /\ gone.kind = mjob.kind
        /\ gone.live = ~Expired(row, mclock)
    BY <2>3
  <2> QED
    BY <1>6, <2>4
<1> QED
  BY <1>1, <1>3, <1>4, <1>5, <1>7 DEF GraphInv

LEMMA GraphStep == GraphInv /\ [GraphNext]_graphVars => GraphInv'
<1> SUFFICES ASSUME GraphInv, [GraphNext]_graphVars PROVE GraphInv'
  OBVIOUS
<1>1. CASE TimeGoesOn \/ UNCHANGED graphVars
  <2>1. UNCHANGED <<mrows, mlast, mjob, mat, marchive, mremoved, membed, mtold>>
    BY <1>1 DEF TimeGoesOn, graphVars
  <2>2. mclock' \in Nat /\ \A n \in Nat : n <= mclock => n <= mclock'
    BY <1>1 DEF TimeGoesOn, graphVars, GraphInv
  <2>3. JobIsTrue' /\ RemovedIsArchived'
    BY <2>1, <2>2 DEF GraphInv, JobIsTrue, RemovedIsArchived
  <2> QED
    BY <2>1, <2>2, <2>3 DEF GraphInv
<1> QED
  BY <1>1, AssertKeeps, ReviewKeeps, EmbedKeeps, SelectionsKeep, ArchiveKeeps, DeleteKeeps
     DEF GraphNext

(* For every set of facts, authors, confidences and plans: a fact stays    *)
(* one row with its own vector, what a compaction removes is archived and  *)
(* neither live nor a credential, and nobody's certainty is made up.       *)
THEOREM MemoryHolds == GraphSpec => []MemoryIsKept
<1>1. GraphSpec => []GraphInv
  BY GraphInitInv, GraphStep, PTL DEF GraphSpec
<1> QED
  BY <1>1, GraphFollows, PTL
================================================================================
