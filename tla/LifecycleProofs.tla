---------------------------- MODULE LifecycleProofs ----------------------------
(***************************************************************************)
(* Proofs about the runners of one agent over their lives: what they spend *)
(* stays in the ledger over crashes, restarts and damaged rows, none of    *)
(* them slips out of the table the killswitch reads, and what they keep    *)
(* about their tool calls is true of the calls. They hold for any number   *)
(* of agents, turns, crashes, incarnations, subprocesses, overlapping      *)
(* spawns, calls and tools, and any ceilings, windows and thresholds.      *)
(***************************************************************************)
EXTENDS Epochs, Incarnations, ToolCalls, CountingLemmas

-----------------------------------------------------------------------------
(* Epochs: the greatest of a bounded set, and what an agent has spent      *)

(* A bounded set of naturals has the maximum MaxOf chooses.                *)
LEMMA MaxOfBounded ==
  ASSUME NEW S \in SUBSET Nat, S # {}, NEW b \in Nat, \A x \in S : x <= b
  PROVE  MaxOf(S) \in S /\ \A y \in S : y <= MaxOf(S)
<1>1. \E x \in S : \A y \in S : y <= x
  BY Greatest
<1> QED
  BY <1>1 DEF MaxOf

(* The greater of two.                                                     *)
LEMMA MaxOfTwo ==
  ASSUME NEW m \in Int, NEW n \in Int
  PROVE  MaxOf({m, n}) \in {m, n} /\ m <= MaxOf({m, n}) /\ n <= MaxOf({m, n})
<1>1. \E x \in {m, n} : \A y \in {m, n} : y <= x
  <2>1. CASE m <= n
    BY <2>1
  <2>2. CASE n <= m
    BY <2>2
  <2> QED
    BY <2>1, <2>2
<1>2. MaxOf({m, n}) \in {m, n} /\ \A y \in {m, n} : y <= MaxOf({m, n})
  BY <1>1 DEF MaxOf
<1> QED
  BY <1>2

Entries == Spenders \X (Nat \ {0}) \X Nat

(* The entries of a ledger that count for some agents.                     *)
Of(ledger, agents) == {e \in ledger : e[1] \in agents}

One(condition) == IF condition THEN 1 ELSE 0

(* What counts for an agent is a number; an entry adds one to its agent's  *)
(* spend and nothing to another's, and less is counted in a smaller ledger.*)
LEMMA SpendOf ==
  ASSUME NEW ledger \in SUBSET Entries, IsFiniteSet(ledger), NEW agents
  PROVE  IsFiniteSet(Of(ledger, agents)) /\ Cardinality(Of(ledger, agents)) \in Nat
<1>1. Of(ledger, agents) \in SUBSET ledger
  BY DEF Of
<1>2. IsFiniteSet(Of(ledger, agents))
  BY <1>1, FS_Subset
<1> QED
  BY <1>2, FS_CardinalityType

LEMMA SpendAdded ==
  ASSUME NEW ledger \in SUBSET Entries, IsFiniteSet(ledger), NEW agents,
         NEW key \in Entries, key \notin ledger
  PROVE  Cardinality(Of(ledger \cup {key}, agents)) =
           Cardinality(Of(ledger, agents)) + One(key[1] \in agents)
<1>1. IsFiniteSet(Of(ledger, agents)) /\ Cardinality(Of(ledger, agents)) \in Nat
  BY SpendOf
<1>2. CASE key[1] \in agents
  <2>1. Of(ledger \cup {key}, agents) = Of(ledger, agents) \cup {key}
    BY <1>2 DEF Of
  <2>2. key \notin Of(ledger, agents)
    BY DEF Of
  <2>3. Cardinality(Of(ledger, agents) \cup {key}) =
          IF key \in Of(ledger, agents) THEN Cardinality(Of(ledger, agents))
          ELSE Cardinality(Of(ledger, agents)) + 1
    BY <1>1, FS_AddElement
  <2> QED
    BY <1>2, <2>1, <2>2, <2>3 DEF One
<1>3. CASE key[1] \notin agents
  <2>1. Of(ledger \cup {key}, agents) = Of(ledger, agents)
    BY <1>3 DEF Of
  <2> QED
    BY <1>1, <1>3, <2>1 DEF One
<1> QED
  BY <1>2, <1>3

LEMMA SpendLost ==
  ASSUME NEW ledger \in SUBSET Entries, IsFiniteSet(ledger), NEW agents,
         NEW kept \in SUBSET ledger
  PROVE  /\ Cardinality(Of(kept, agents)) <= Cardinality(Of(ledger, agents))
         /\ Of(ledger \ kept, agents) # {} =>
              Cardinality(Of(kept, agents)) + 1 <= Cardinality(Of(ledger, agents))
<1>1. IsFiniteSet(Of(ledger, agents)) /\ Cardinality(Of(ledger, agents)) \in Nat
  BY SpendOf
<1>2. Of(kept, agents) \in SUBSET Of(ledger, agents)
  BY DEF Of
<1>3. /\ IsFiniteSet(Of(kept, agents))
      /\ Cardinality(Of(kept, agents)) <= Cardinality(Of(ledger, agents))
      /\ Cardinality(Of(ledger, agents)) = Cardinality(Of(kept, agents))
           => Of(ledger, agents) = Of(kept, agents)
  BY <1>1, <1>2, FS_Subset
<1>4. Cardinality(Of(kept, agents)) \in Nat
  BY <1>3, FS_CardinalityType
<1>5. Of(ledger \ kept, agents) # {} => Of(ledger, agents) # Of(kept, agents)
  BY DEF Of
<1> QED
  BY <1>1, <1>3, <1>4, <1>5

-----------------------------------------------------------------------------
(* Epochs: LedgerIsWhole and EnforcementSurvives                           *)

EpochsType ==
  /\ emeta \in [Spenders -> Nat \cup {Garbled}]
  /\ eissued \in [Spenders -> Nat]
  /\ erunner \in [Spenders -> Nat]
  /\ eturn \in [Spenders -> Nat]
  /\ eusage \in [Spenders -> Nat]
  /\ emade \in Nat
  /\ edropped \in BOOLEAN
  /\ ereported \subseteq Spenders
  /\ eleaked \subseteq Spenders
  /\ eledger \in SUBSET Entries
  /\ IsFiniteSet(eledger)
  /\ esnapshot \in SUBSET eledger

(* No epoch is above the number of runners made, and a runner has the last *)
(* one its process issued for the agent.                                   *)
EpochsBounded ==
  /\ \A a \in Spenders : emeta[a] <= emade /\ eissued[a] <= emade
  /\ \A a \in Spenders : erunner[a] \in {0, eissued[a]}
  /\ \A a \in ereported : erunner[a] > 0
  /\ \A e \in eledger : e[2] <= emade

(* An epoch to come is new: the row, when it can be read, is no lower than *)
(* any epoch issued or charged, and a runner has charged no turn it has    *)
(* not counted.                                                            *)
NextEpochIsNew(a) ==
  /\ emeta[a] # Garbled =>
       /\ eissued[a] <= emeta[a]
       /\ \A e \in eledger : e[1] = a => e[2] <= emeta[a]
  /\ \A e \in eledger : e[1] = a /\ e[2] = erunner[a] => e[3] <= eturn[a]

EpochsAreNew ==
  "meta" \notin efailed => ~edropped /\ \A a \in Spenders : NextEpochIsNew(a)

(* Every recorded token is charged, about to be charged, or known as lost. *)
Accounted(a) ==
  Cardinality(Of(eledger, {a})) + One(a \in ereported) + One(a \in eleaked) <= eusage[a]

UsageIsCovered == "usage" \notin efailed => \A a \in Spenders : Accounted(a)

SnapshotIsLedger == "snapshot" \notin efailed => esnapshot = eledger

(* The inductive invariant of what is spent.                               *)
EpochsInv ==
  EpochsType /\ EpochsBounded /\ EpochsAreNew /\ UsageIsCovered /\ SnapshotIsLedger

LEMMA LedgerFollows == EpochsInv => LedgerIsWhole
<1> SUFFICES ASSUME EpochsInv PROVE LedgerIsWhole
  OBVIOUS
<1>1. NoChargeDropped
  BY DEF EpochsInv, EpochsAreNew, NoChargeDropped
<1>2. LeakIsReported
  <2> SUFFICES ASSUME NEW a \in Spenders, a \in eleaked, "usage" \notin efailed
               PROVE  Reconcile(a) < 0
    BY DEF LeakIsReported
  <2>1. Cardinality(Of(eledger, {a})) \in Nat
    BY SpendOf DEF EpochsInv, EpochsType
  <2>2. Cardinality(Of(eledger, {a})) + One(a \in ereported) + 1 <= eusage[a]
    BY DEF EpochsInv, UsageIsCovered, Accounted, One
  <2>3. eusage[a] \in Nat /\ One(a \in ereported) \in Nat
    BY DEF EpochsInv, EpochsType, One
  <2> QED
    BY <2>1, <2>2, <2>3 DEF Reconcile, Spent, Of
<1> QED
  BY <1>1, <1>2 DEF LedgerIsWhole

LEMMA EpochsInitInv == EpochsInit => EpochsInv
<1> SUFFICES ASSUME EpochsInit PROVE EpochsInv
  OBVIOUS
<1> USE DEF EpochsInit
<1>1. EpochsType
  BY FS_EmptySet DEF EpochsType
<1>2. EpochsBounded
  BY DEF EpochsBounded
<1>3. EpochsAreNew
  BY DEF EpochsAreNew, NextEpochIsNew
<1>4. UsageIsCovered
  <2>1. \A a \in Spenders : Of(eledger, {a}) = {}
    BY DEF Of
  <2> QED
    BY <2>1, FS_EmptySet DEF UsageIsCovered, Accounted, One
<1>5. SnapshotIsLedger
  BY DEF SnapshotIsLedger
<1> QED
  BY <1>1, <1>2, <1>3, <1>4, <1>5 DEF EpochsInv

(* The epoch of a new runner is above its agent's charged epochs and above *)
(* every one its process issued for it, and not above the runners made.    *)
NewEpoch(a, epoch) ==
  /\ epoch \in Nat \ {0}
  /\ epoch <= emade + 1
  /\ eissued[a] < epoch
  /\ "meta" \notin efailed => \A e \in eledger : e[1] = a => e[2] < epoch

LEMMA PriorIsGreatest ==
  ASSUME EpochsInv, NEW a \in Spenders
  PROVE  /\ PriorEpoch(a) \in 0..emade
         /\ \A e \in eledger : e[1] = a => e[2] <= PriorEpoch(a)
<1> DEFINE epochs == {0} \cup {e[2] : e \in {f \in eledger : f[1] = a}}
<1>1. \A e \in eledger : e[2] \in Nat /\ e[2] <= emade
  BY DEF EpochsInv, EpochsType, EpochsBounded, Entries
<1>2. emade \in Nat
  BY DEF EpochsInv, EpochsType
<1>3. epochs \in SUBSET Nat /\ epochs # {} /\ \A x \in epochs : x <= emade
  BY <1>1, <1>2
<1>4. \A e \in eledger : e[1] = a => e[2] \in epochs
  OBVIOUS
<1>5. PriorEpoch(a) = MaxOf(epochs)
  BY DEF PriorEpoch
<1> HIDE DEF epochs
<1>6. MaxOf(epochs) \in epochs /\ \A y \in epochs : y <= MaxOf(epochs)
  BY <1>2, <1>3, MaxOfBounded
<1>7. MaxOf(epochs) \in Nat /\ MaxOf(epochs) <= emade
  BY <1>3, <1>6
<1>8. PriorEpoch(a) \in 0..emade
  BY <1>2, <1>5, <1>7
<1>9. \A e \in eledger : e[1] = a => e[2] <= PriorEpoch(a)
  BY <1>4, <1>5, <1>6, Zenon
<1> QED
  BY <1>8, <1>9

LEMMA MakeRunnerEpoch ==
  ASSUME EpochsInv, NEW a \in Spenders
  PROVE  LET persisted == IF emeta[a] \in {0, Garbled} THEN PriorEpoch(a) ELSE emeta[a]
         IN  NewEpoch(a, MaxOf({persisted, eissued[a]}) + 1)
<1> DEFINE persisted == IF emeta[a] \in {0, Garbled} THEN PriorEpoch(a) ELSE emeta[a]
<1>1. /\ emeta[a] \in Nat \cup {Garbled} /\ emeta[a] <= emade
      /\ eissued[a] \in Nat /\ eissued[a] <= emade /\ emade \in Nat
  BY DEF EpochsInv, EpochsType, EpochsBounded
<1>2. persisted \in 0..emade
  BY <1>1, PriorIsGreatest DEF Garbled
<1>3. "meta" \notin efailed => \A e \in eledger : e[1] = a => e[2] <= persisted
  <2>1. CASE emeta[a] \in {0, Garbled}
    BY <2>1, PriorIsGreatest
  <2>2. CASE emeta[a] \notin {0, Garbled}
    BY <2>2 DEF EpochsInv, EpochsAreNew, NextEpochIsNew
  <2> QED
    BY <2>1, <2>2
<1>4. \A e \in eledger : e[2] \in Nat
  BY DEF EpochsInv, EpochsType, Entries
<1> HIDE DEF persisted
<1>5. /\ MaxOf({persisted, eissued[a]}) \in {persisted, eissued[a]}
      /\ persisted <= MaxOf({persisted, eissued[a]})
      /\ eissued[a] <= MaxOf({persisted, eissued[a]})
  <2>1. persisted \in Int /\ eissued[a] \in Int
    BY <1>1, <1>2
  <2> QED
    BY <2>1, MaxOfTwo, Zenon
<1>6. NewEpoch(a, MaxOf({persisted, eissued[a]}) + 1)
  <2> DEFINE greatest == MaxOf({persisted, eissued[a]})
  <2>1. greatest \in Nat /\ greatest <= emade /\ eissued[a] <= greatest /\ persisted <= greatest
    BY <1>1, <1>2, <1>5
  <2> HIDE DEF greatest
  <2>2. NewEpoch(a, greatest + 1)
    BY <1>1, <1>2, <1>3, <1>4, <2>1 DEF NewEpoch
  <2> QED
    BY <2>2 DEF greatest
<1> QED
  BY <1>6 DEF persisted

LEMMA MakeRunnerKeeps ==
  ASSUME EpochsInv, NEW a \in Spenders, MakeRunner(a)
  PROVE  EpochsInv'
<1>1. PICK epoch :
        /\ NewEpoch(a, epoch) /\ a \notin ereported
        /\ emade' = emade + 1
        /\ eissued' = [eissued EXCEPT ![a] = epoch]
        /\ erunner' = [erunner EXCEPT ![a] = epoch]
        /\ eturn' = [eturn EXCEPT ![a] = 0]
        /\ \/ efailed' = efailed /\ emeta' = [emeta EXCEPT ![a] = epoch]
           \/ efailed' = efailed \cup {"meta"} /\ UNCHANGED emeta
        /\ UNCHANGED <<eledger, esnapshot, eusage, ereported, edropped, eleaked>>
  BY MakeRunnerEpoch DEF MakeRunner, Succeeds, Fails
<1>2. EpochsType
  BY DEF EpochsInv
<1>3. epoch \in Nat \ {0} /\ epoch <= emade + 1 /\ eissued[a] < epoch
  BY <1>1 DEF NewEpoch
<1>4. EpochsType'
  BY <1>1, <1>2, <1>3 DEF EpochsType
<1>5. EpochsBounded'
  <2>1. EpochsBounded /\ \A e \in eledger : e[2] \in Nat
    BY <1>2 DEF EpochsInv, EpochsType, Entries
  <2>2. \A b \in Spenders : emeta'[b] <= emade' /\ eissued'[b] <= emade'
    BY <1>1, <1>2, <1>3, <2>1 DEF EpochsType, EpochsBounded, Garbled
  <2>3. \A b \in Spenders : erunner'[b] \in {0, eissued'[b]}
    BY <1>1, <1>2, <2>1 DEF EpochsType, EpochsBounded
  <2>4. \A b \in ereported' : erunner'[b] > 0
    BY <1>1, <1>2, <2>1 DEF EpochsType, EpochsBounded
  <2>5. \A e \in eledger' : e[2] <= emade'
    BY <1>1, <1>2, <2>1 DEF EpochsType, EpochsBounded
  <2> QED
    BY <2>2, <2>3, <2>4, <2>5 DEF EpochsBounded
<1>6. EpochsAreNew'
  <2> SUFFICES ASSUME "meta" \notin efailed'
               PROVE  ~edropped' /\ \A b \in Spenders : NextEpochIsNew(b)'
    BY DEF EpochsAreNew
  <2>1. /\ "meta" \notin efailed /\ emeta' = [emeta EXCEPT ![a] = epoch]
        /\ ~edropped /\ \A b \in Spenders : NextEpochIsNew(b)
    BY <1>1 DEF EpochsInv, EpochsAreNew
  <2>2. \A e \in eledger : e[1] = a => e[2] < epoch
    BY <1>1, <2>1 DEF NewEpoch
  <2>3. \A e \in eledger : e[2] \in Nat
    BY <1>2 DEF EpochsType, Entries
  <2>4. ASSUME NEW b \in Spenders PROVE NextEpochIsNew(b)'
    <3>1. CASE b = a
      <4>1. emeta'[a] = epoch /\ eissued'[a] = epoch /\ erunner'[a] = epoch /\ eledger' = eledger
        BY <1>1, <1>2, <2>1 DEF EpochsType
      <4> QED
        BY <1>3, <2>2, <2>3, <3>1, <4>1 DEF NextEpochIsNew
    <3>2. CASE b # a
      <4>1. /\ emeta'[b] = emeta[b] /\ eissued'[b] = eissued[b] /\ erunner'[b] = erunner[b]
            /\ eturn'[b] = eturn[b] /\ eledger' = eledger
        BY <1>1, <1>2, <2>1, <3>2 DEF EpochsType
      <4> QED
        BY <2>1, <4>1 DEF NextEpochIsNew
    <3> QED
      BY <3>1, <3>2
  <2> QED
    BY <1>1, <2>1, <2>4
<1>7. UsageIsCovered'
  BY <1>1 DEF EpochsInv, UsageIsCovered, Accounted
<1>8. SnapshotIsLedger'
  BY <1>1 DEF EpochsInv, SnapshotIsLedger
<1> QED
  BY <1>4, <1>5, <1>6, <1>7, <1>8 DEF EpochsInv

LEMMA GarbleKeeps ==
  ASSUME EpochsInv, NEW a \in Spenders, Garble(a)
  PROVE  EpochsInv'
<1> USE DEF Garble, Garbled
<1>1. EpochsType
  BY DEF EpochsInv
<1>2. EpochsType'
  BY <1>1 DEF EpochsType
<1>3. EpochsBounded'
  BY <1>1 DEF EpochsInv, EpochsType, EpochsBounded
<1>4. EpochsAreNew'
  <2>1. \A b \in Spenders : NextEpochIsNew(b) => NextEpochIsNew(b)'
    BY <1>1 DEF EpochsType, NextEpochIsNew
  <2> QED
    BY <2>1 DEF EpochsInv, EpochsAreNew
<1>5. UsageIsCovered'
  BY DEF EpochsInv, UsageIsCovered, Accounted
<1>6. SnapshotIsLedger'
  BY DEF EpochsInv, SnapshotIsLedger
<1> QED
  BY <1>2, <1>3, <1>4, <1>5, <1>6 DEF EpochsInv

LEMMA RecordUsageKeeps ==
  ASSUME EpochsInv, NEW a \in Spenders, RecordUsage(a)
  PROVE  EpochsInv'
<1>1. /\ erunner[a] > 0 /\ a \notin ereported
      /\ ereported' = ereported \cup {a}
      /\ \/ efailed' = efailed /\ eusage' = [eusage EXCEPT ![a] = @ + 1]
         \/ efailed' = efailed \cup {"usage"} /\ UNCHANGED eusage
      /\ UNCHANGED <<emeta, eissued, eledger, esnapshot, erunner, eturn, emade, edropped, eleaked>>
  BY DEF RecordUsage, Succeeds, Fails
<1>2. EpochsType
  BY DEF EpochsInv
<1>3. EpochsType'
  BY <1>1, <1>2 DEF EpochsType
<1>4. EpochsBounded'
  BY <1>1 DEF EpochsInv, EpochsBounded
<1>5. EpochsAreNew'
  BY <1>1 DEF EpochsInv, EpochsAreNew, NextEpochIsNew
<1>6. UsageIsCovered'
  <2> SUFFICES ASSUME "usage" \notin efailed', NEW b \in Spenders PROVE Accounted(b)'
    BY DEF UsageIsCovered
  <2>1. "usage" \notin efailed /\ eusage' = [eusage EXCEPT ![a] = @ + 1] /\ Accounted(b)
    BY <1>1 DEF EpochsInv, UsageIsCovered
  <2>2. Cardinality(Of(eledger, {b})) \in Nat /\ eusage[b] \in Nat
    BY <1>2, SpendOf DEF EpochsType
  <2>3. CASE b = a
    <3>1. eusage'[a] = eusage[a] + 1 /\ One(a \in ereported) = 0 /\ One(a \in ereported)' = 1
      BY <1>1, <1>2, <2>1 DEF EpochsType, One
    <3>2. One(a \in eleaked)' = One(a \in eleaked) /\ One(a \in eleaked) \in Nat /\ eledger' = eledger
      BY <1>1 DEF One
    <3> QED
      BY <2>1, <2>2, <2>3, <3>1, <3>2 DEF Accounted
  <2>4. CASE b # a
    <3>1. eusage'[b] = eusage[b] /\ One(b \in ereported) = One(b \in ereported)'
      BY <1>1, <1>2, <2>1, <2>4 DEF EpochsType, One
    <3>2. One(b \in eleaked)' = One(b \in eleaked) /\ eledger' = eledger
      BY <1>1 DEF One
    <3> QED
      BY <2>1, <2>4, <3>1, <3>2 DEF Accounted
  <2> QED
    BY <2>3, <2>4
<1>7. SnapshotIsLedger'
  BY <1>1 DEF EpochsInv, SnapshotIsLedger
<1> QED
  BY <1>3, <1>4, <1>5, <1>6, <1>7 DEF EpochsInv

(* A charge that the ledger has not seen, and one it takes for a duplicate.*)
Charged(a, key) ==
  /\ a \in ereported
  /\ ereported' = ereported \ {a}
  /\ eturn' = [eturn EXCEPT ![a] = @ + 1]
  /\ eledger' = eledger \cup {key}
  /\ UNCHANGED <<emeta, eissued, eusage, erunner, emade>>

LEMMA ChargeKeeps ==
  ASSUME EpochsInv, NEW a \in Spenders, Charge(a)
  PROVE  EpochsInv'
<1> DEFINE key == <<a, erunner[a], eturn[a] + 1>>
<1>1. /\ Charged(a, key)
      /\ edropped' = (edropped \/ key \in eledger)
      /\ eleaked' = IF key \in eledger THEN eleaked \cup {a} ELSE eleaked
      /\ IF key \in eledger THEN UNCHANGED <<esnapshot, efailed>>
         ELSE \/ efailed' = efailed /\ esnapshot' = eledger'
              \/ efailed' = efailed \cup {"snapshot"} /\ UNCHANGED esnapshot
  BY DEF Charge, Charged, Succeeds, Fails
<1>2. EpochsType /\ EpochsBounded
  BY DEF EpochsInv
<1>3. key \in Entries /\ key[1] = a /\ key[2] = erunner[a] /\ key[3] = eturn[a] + 1
  BY <1>1, <1>2 DEF EpochsType, EpochsBounded, Charged, Entries
<1> HIDE DEF key
<1>4. EpochsType'
  <2>1. IsFiniteSet(eledger')
    BY <1>1, <1>2, FS_AddElement DEF EpochsType, Charged
  <2>2. eledger' \in SUBSET Entries /\ esnapshot' \in SUBSET eledger'
    BY <1>1, <1>2, <1>3 DEF EpochsType, Charged
  <2> QED
    BY <1>1, <1>2, <2>1, <2>2 DEF EpochsType, Charged
<1>5. EpochsBounded'
  <2>1. erunner[a] <= emade
    BY <1>2 DEF EpochsType, EpochsBounded
  <2>2. \A e \in eledger' : e[2] <= emade'
    BY <1>1, <1>2, <1>3, <2>1 DEF EpochsBounded, Charged
  <2> QED
    BY <1>1, <1>2, <2>2 DEF EpochsBounded, Charged
<1>6. EpochsAreNew'
  <2> SUFFICES ASSUME "meta" \notin efailed'
               PROVE  ~edropped' /\ \A b \in Spenders : NextEpochIsNew(b)'
    BY DEF EpochsAreNew
  <2>1. ~edropped /\ \A b \in Spenders : NextEpochIsNew(b)
    BY <1>1 DEF EpochsInv, EpochsAreNew
  <2>2. eturn[a] \in Nat /\ \A e \in eledger : e[3] \in Nat
    BY <1>2 DEF EpochsType, Entries
  <2>3. key \notin eledger
    BY <1>3, <2>1, <2>2 DEF NextEpochIsNew
  <2>4. ASSUME NEW b \in Spenders PROVE NextEpochIsNew(b)'
    <3>1. emeta' = emeta /\ eissued' = eissued /\ erunner' = erunner
      BY <1>1 DEF Charged
    <3>2. CASE b = a
      <4>1. eturn'[a] = eturn[a] + 1
        BY <1>1, <1>2 DEF EpochsType, Charged
      <4>2. emeta[a] # Garbled => erunner[a] <= emeta[a]
        BY <1>2, <2>1 DEF EpochsType, EpochsBounded, NextEpochIsNew, Garbled
      <4>3. emeta[a] # Garbled => \A e \in eledger' : e[1] = a => e[2] <= emeta[a]
        BY <1>1, <1>3, <2>1, <4>2 DEF NextEpochIsNew, Charged
      <4>4. \A e \in eledger' : e[1] = a /\ e[2] = erunner[a] => e[3] <= eturn[a] + 1
        BY <1>1, <1>3, <2>1, <2>2 DEF NextEpochIsNew, Charged
      <4> QED
        BY <2>1, <3>1, <3>2, <4>1, <4>3, <4>4 DEF NextEpochIsNew
    <3>3. CASE b # a
      <4>1. eturn'[b] = eturn[b] /\ \A e \in eledger' : e[1] = b => e \in eledger
        BY <1>1, <1>2, <1>3, <3>3 DEF EpochsType, Charged
      <4> QED
        BY <2>1, <3>1, <3>3, <4>1 DEF NextEpochIsNew
    <3> QED
      BY <3>2, <3>3
  <2> QED
    BY <1>1, <2>1, <2>3, <2>4
<1>7. UsageIsCovered'
  <2> SUFFICES ASSUME "usage" \notin efailed', NEW b \in Spenders PROVE Accounted(b)'
    BY DEF UsageIsCovered
  <2>1. Accounted(b)
    BY <1>1 DEF EpochsInv, UsageIsCovered
  <2>2. /\ Cardinality(Of(eledger, {b})) \in Nat /\ eusage[b] \in Nat /\ eusage' = eusage
        /\ One(b \in ereported) \in Nat /\ One(b \in eleaked) \in Nat
    BY <1>1, <1>2, SpendOf DEF EpochsType, Charged, One
  <2>3. CASE key \in eledger
    <3>1. eledger' = eledger
      BY <1>1, <2>3 DEF Charged
    <3>2. One(b \in ereported)' + One(b \in eleaked)' <= One(b \in ereported) + One(b \in eleaked)
      BY <1>1, <2>3 DEF Charged, One
    <3>3. One(b \in ereported)' \in Nat /\ One(b \in eleaked)' \in Nat
      BY DEF One
    <3> QED
      BY <2>1, <2>2, <3>1, <3>2, <3>3 DEF Accounted
  <2>4. CASE key \notin eledger
    <3>1. Cardinality(Of(eledger', {b})) = Cardinality(Of(eledger, {b})) + One(b = a)
      <4>1. Cardinality(Of(eledger \cup {key}, {b})) =
              Cardinality(Of(eledger, {b})) + One(key[1] \in {b})
        BY <1>2, <1>3, <2>4, SpendAdded DEF EpochsType
      <4>2. One(key[1] \in {b}) = One(b = a)
        BY <1>3 DEF One
      <4> QED
        BY <1>1, <4>1, <4>2 DEF Charged
    <3>2. One(b \in ereported)' + One(b = a) = One(b \in ereported)
      BY <1>1 DEF Charged, One
    <3>3. One(b \in eleaked)' = One(b \in eleaked)
      BY <1>1, <2>4 DEF One
    <3>4. One(b \in ereported)' \in Nat /\ One(b = a) \in Nat
      BY DEF One
    <3> QED
      BY <2>1, <2>2, <3>1, <3>2, <3>3, <3>4 DEF Accounted
  <2> QED
    BY <2>3, <2>4
<1>8. SnapshotIsLedger'
  BY <1>1 DEF EpochsInv, SnapshotIsLedger, Charged
<1> QED
  BY <1>4, <1>5, <1>6, <1>7, <1>8 DEF EpochsInv

LEMMA CancelledUnchargedKeeps ==
  ASSUME EpochsInv, NEW a \in Spenders, CancelledUncharged(a)
  PROVE  EpochsInv'
<1> USE DEF CancelledUncharged
<1>1. EpochsType /\ EpochsBounded
  BY DEF EpochsInv
<1>2. EpochsType'
  BY <1>1 DEF EpochsType
<1>3. EpochsBounded'
  BY <1>1 DEF EpochsType, EpochsBounded
<1>4. EpochsAreNew'
  <2>1. \A e \in eledger : e[2] # 0
    BY <1>1 DEF EpochsType, Entries
  <2>2. \A b \in Spenders : NextEpochIsNew(b) => NextEpochIsNew(b)'
    BY <1>1, <2>1 DEF EpochsType, NextEpochIsNew
  <2> QED
    BY <2>2 DEF EpochsInv, EpochsAreNew
<1>5. UsageIsCovered'
  <2> SUFFICES ASSUME "usage" \notin efailed', NEW b \in Spenders PROVE Accounted(b)'
    BY DEF UsageIsCovered
  <2>1. Accounted(b)
    BY DEF EpochsInv, UsageIsCovered
  <2>2. /\ Cardinality(Of(eledger, {b})) \in Nat /\ eusage[b] \in Nat
        /\ eusage' = eusage /\ eledger' = eledger
    BY <1>1, SpendOf DEF EpochsType
  <2>3. One(b \in ereported)' + One(b \in eleaked)' <= One(b \in ereported) + One(b \in eleaked)
    BY DEF One
  <2>4. /\ One(b \in ereported)' \in Nat /\ One(b \in eleaked)' \in Nat
        /\ One(b \in ereported) \in Nat /\ One(b \in eleaked) \in Nat
    BY DEF One
  <2> QED
    BY <2>1, <2>2, <2>3, <2>4 DEF Accounted
<1>6. SnapshotIsLedger'
  BY DEF EpochsInv, SnapshotIsLedger
<1> QED
  BY <1>2, <1>3, <1>4, <1>5, <1>6 DEF EpochsInv

LEMMA CrashKeeps ==
  ASSUME EpochsInv, Crash
  PROVE  EpochsInv'
<1> USE DEF Crash
<1>1. EpochsType /\ EpochsBounded
  BY DEF EpochsInv
<1>2. esnapshot \in SUBSET eledger /\ eledger \in SUBSET Entries /\ IsFiniteSet(eledger)
  BY <1>1 DEF EpochsType
<1>3. EpochsType'
  <2>1. IsFiniteSet(eledger')
    BY <1>2, FS_Subset
  <2>2. {e[1] : e \in eledger \ esnapshot} \subseteq Spenders
    BY <1>2 DEF Entries
  <2> QED
    BY <1>1, <1>2, <2>1, <2>2 DEF EpochsType
<1>4. EpochsBounded'
  BY <1>1, <1>2 DEF EpochsType, EpochsBounded
<1>5. EpochsAreNew'
  <2>1. \A e \in eledger : e[2] # 0
    BY <1>2 DEF Entries
  <2>2. \A b \in Spenders : NextEpochIsNew(b) => NextEpochIsNew(b)'
    BY <1>1, <1>2, <2>1 DEF EpochsType, NextEpochIsNew, Garbled
  <2> QED
    BY <2>2 DEF EpochsInv, EpochsAreNew
<1>6. UsageIsCovered'
  <2> SUFFICES ASSUME "usage" \notin efailed', NEW b \in Spenders PROVE Accounted(b)'
    BY DEF UsageIsCovered
  <2>1. Accounted(b)
    BY DEF EpochsInv, UsageIsCovered
  <2>2. Cardinality(Of(eledger, {b})) \in Nat /\ eusage[b] \in Nat /\ eusage' = eusage
    BY <1>1, <1>2, SpendOf DEF EpochsType
  <2>3. /\ Cardinality(Of(esnapshot, {b})) <= Cardinality(Of(eledger, {b}))
        /\ Of(eledger \ esnapshot, {b}) # {} =>
             Cardinality(Of(esnapshot, {b})) + 1 <= Cardinality(Of(eledger, {b}))
    BY <1>2, SpendLost
  <2>4. Cardinality(Of(esnapshot, {b})) \in Nat
    <3>1. esnapshot \in SUBSET Entries /\ IsFiniteSet(esnapshot)
      BY <1>2, FS_Subset
    <3> QED
      BY <3>1, SpendOf
  <2>5. b \in eleaked' => b \in eleaked \/ b \in ereported \/ Of(eledger \ esnapshot, {b}) # {}
    BY DEF Of
  <2>6. One(b \in ereported)' = 0 /\ eledger' = esnapshot
    BY DEF One
  <2>7. Cardinality(Of(esnapshot, {b})) + One(b \in eleaked)' <= eusage[b]
    <3>1. CASE b \in eleaked \/ b \in ereported
      BY <2>1, <2>2, <2>3, <2>4, <3>1 DEF Accounted, One
    <3>2. CASE Of(eledger \ esnapshot, {b}) # {}
      <4>1. Cardinality(Of(esnapshot, {b})) + 1 <= Cardinality(Of(eledger, {b}))
        BY <2>3, <3>2
      <4>2. Cardinality(Of(eledger, {b})) <= eusage[b]
        BY <2>1, <2>2 DEF Accounted, One
      <4>3. One(b \in eleaked)' \in {0, 1}
        BY DEF One
      <4> QED
        BY <2>2, <2>4, <4>1, <4>2, <4>3
    <3>3. CASE b \notin eleaked'
      BY <2>1, <2>2, <2>3, <2>4, <3>3 DEF Accounted, One
    <3> QED
      BY <2>5, <3>1, <3>2, <3>3
  <2>8. One(b \in eleaked)' \in Nat
    BY DEF One
  <2> QED
    BY <2>2, <2>4, <2>6, <2>7, <2>8 DEF Accounted
<1>7. SnapshotIsLedger'
  BY DEF SnapshotIsLedger
<1> QED
  BY <1>3, <1>4, <1>5, <1>6, <1>7 DEF EpochsInv

LEMMA EpochsStep == EpochsInv /\ [EpochsNext]_epochsVars => EpochsInv'
<1> SUFFICES ASSUME EpochsInv, [EpochsNext]_epochsVars PROVE EpochsInv'
  OBVIOUS
<1>1. ASSUME NEW a \in Spenders,
             MakeRunner(a) \/ Garble(a) \/ RecordUsage(a) \/ Charge(a) \/ CancelledUncharged(a)
      PROVE  EpochsInv'
  BY <1>1, MakeRunnerKeeps, GarbleKeeps, RecordUsageKeeps, ChargeKeeps, CancelledUnchargedKeeps
<1>2. CASE Crash
  BY <1>2, CrashKeeps
<1>3. CASE UNCHANGED epochsVars
  BY <1>3 DEF epochsVars, EpochsInv, EpochsType, EpochsBounded, EpochsAreNew, NextEpochIsNew,
       UsageIsCovered, Accounted, SnapshotIsLedger
<1> QED
  BY <1>1, <1>2, <1>3 DEF EpochsNext

(* Whatever the ceilings and however often the daemon crashes, restarts an *)
(* agent or finds a damaged row: no turn is dropped as a duplicate unless  *)
(* an epoch could not be written, and a turn missing from the ledger shows *)
(* in the reconciliation unless the usage table is incomplete too.         *)
THEOREM SpendIsWhole == EpochsSpec => []LedgerIsWhole
<1>1. EpochsSpec => []EpochsInv
  BY EpochsInitInv, EpochsStep, PTL DEF EpochsSpec
<1> QED
  BY <1>1, LedgerFollows, PTL

-----------------------------------------------------------------------------

(* The ledger only loses entries over a crash, to an older snapshot.       *)
LEMMA LedgerGrows ==
  ASSUME EpochsInv, [EpochsNext]_epochsVars, "snapshot" \notin efailed'
  PROVE  eledger \subseteq eledger'
<1>1. CASE Crash
  <2>1. "snapshot" \notin efailed
    BY <1>1 DEF Crash
  <2> QED
    BY <1>1, <2>1 DEF Crash, EpochsInv, SnapshotIsLedger
<1>2. ASSUME NEW a \in Spenders,
             MakeRunner(a) \/ Garble(a) \/ RecordUsage(a) \/ Charge(a) \/ CancelledUncharged(a)
      PROVE  eledger \subseteq eledger'
  BY <1>2 DEF MakeRunner, Garble, RecordUsage, Charge, CancelledUncharged
<1>3. CASE UNCHANGED epochsVars
  BY <1>3 DEF epochsVars
<1> QED
  BY <1>1, <1>2, <1>3 DEF EpochsNext

(* More spend is never judged more mildly.                                 *)
LEMMA SeverityRises ==
  ASSUME NEW before \in Nat, NEW after \in Nat, before <= after, NEW ceiling \in Nat
  PROVE  /\ Severity(before, ceiling) \in Nat /\ Severity(after, ceiling) \in Nat
         /\ Severity(before, ceiling) <= Severity(after, ceiling)
BY DEF Severity

LEMMA MaxOfRises ==
  ASSUME NEW m \in Nat, NEW n \in Nat, NEW mm \in Nat, NEW nn \in Nat, m <= mm, n <= nn
  PROVE  MaxOf({m, n}) <= MaxOf({mm, nn})
<1>1. MaxOf({m, n}) \in {m, n}
  <2>1. m \in Int /\ n \in Int
    OBVIOUS
  <2> QED
    BY <2>1, MaxOfTwo, Zenon
<1>2. MaxOf({mm, nn}) \in {mm, nn} /\ mm <= MaxOf({mm, nn}) /\ nn <= MaxOf({mm, nn})
  <2>1. mm \in Int /\ nn \in Int
    OBVIOUS
  <2> QED
    BY <2>1, MaxOfTwo, Zenon
<1> QED
  BY <1>1, <1>2

LEMMA VerdictHolds ==
  ASSUME EpochsInv, EpochsInv', [EpochsNext]_epochsVars, "snapshot" \notin efailed',
         NEW a \in Spenders
  PROVE  Verdict(a)' >= Verdict(a)
<1> DEFINE own == Cardinality(Of(eledger, {a}))
           ownNow == Cardinality(Of(eledger', {a}))
           pool == Cardinality(Of(eledger, Spenders))
           poolNow == Cardinality(Of(eledger', Spenders))
<1>1. Ceiling \in Nat /\ PoolCeiling \in Nat
  BY EpochsAssumption
<1>2. /\ eledger \in SUBSET Entries /\ IsFiniteSet(eledger)
      /\ eledger' \in SUBSET Entries /\ IsFiniteSet(eledger')
  BY DEF EpochsInv, EpochsType
<1>3. own \in Nat /\ ownNow \in Nat /\ pool \in Nat /\ poolNow \in Nat
  BY <1>2, SpendOf
<1>4. own <= ownNow /\ pool <= poolNow
  BY <1>2, LedgerGrows, SpendLost
<1>5. /\ Verdict(a) = MaxOf({Severity(own, Ceiling), Severity(pool, PoolCeiling)})
      /\ Verdict(a)' = MaxOf({Severity(ownNow, Ceiling), Severity(poolNow, PoolCeiling)})
  BY DEF Verdict, Spent, Of
<1> HIDE DEF own, ownNow, pool, poolNow
<1>6. /\ Severity(own, Ceiling) \in Nat /\ Severity(ownNow, Ceiling) \in Nat
      /\ Severity(own, Ceiling) <= Severity(ownNow, Ceiling)
      /\ Severity(pool, PoolCeiling) \in Nat /\ Severity(poolNow, PoolCeiling) \in Nat
      /\ Severity(pool, PoolCeiling) <= Severity(poolNow, PoolCeiling)
  BY <1>1, <1>3, <1>4, SeverityRises
<1>7. MaxOf({Severity(own, Ceiling), Severity(pool, PoolCeiling)})
        <= MaxOf({Severity(ownNow, Ceiling), Severity(poolNow, PoolCeiling)})
  BY <1>6, MaxOfRises
<1>8. Verdict(a)' \in Nat /\ Verdict(a) \in Nat
  <2>1. ASSUME NEW m \in Nat, NEW n \in Nat PROVE MaxOf({m, n}) \in Nat
    <3>1. m \in Int /\ n \in Int
      OBVIOUS
    <3>2. MaxOf({m, n}) \in {m, n}
      BY <3>1, MaxOfTwo, Zenon
    <3> QED
      BY <3>2
  <2> QED
    BY <1>5, <1>6, <2>1
<1> QED
  BY <1>5, <1>7, <1>8

(* For every agent, pool and ceiling: as long as no snapshot was lost, the *)
(* brake an agent is under never loosens, crash and restart included.      *)
THEOREM BrakeHolds == EpochsSpec => EnforcementSurvives
<1>1. EpochsInv /\ EpochsInv' /\ [EpochsNext]_epochsVars
        => [\A a \in Spenders : "snapshot" \notin efailed' => Verdict(a)' >= Verdict(a)]_epochsVars
  BY VerdictHolds
<1>2. EpochsSpec => []EpochsInv
  BY EpochsInitInv, EpochsStep, PTL DEF EpochsSpec
<1> QED
  BY <1>1, <1>2, PTL DEF EpochsSpec, EnforcementSurvives

-----------------------------------------------------------------------------
(* Incarnations: NoOrphanRunner and RegistryKeepsApart                     *)

States == {"none", "made", "running", "leaving", "stopped", "ended"}

(* Between its making and the reap at its end.                             *)
Unfinished(k) == iat[k] \in {"made", "running", "leaving"}

(* The inductive invariant. An unfinished incarnation is the one in the    *)
(* table, unless a restart replaced it; a registered subprocess belongs to *)
(* an incarnation that has still to reap; and a process that is alive is   *)
(* registered or was forgotten alive.                                      *)
IncarnationsInv ==
  /\ iat \in [Incs -> States]
  /\ iproc \in [Pids -> {"none", "alive", "immune", "dying", "dead"}]
  /\ iowner \in [Pids -> Incs \cup {0}]
  /\ ibucket \subseteq Pids
  /\ \A k \in Incs : Unfinished(k) => k = itable \/ k \in ireplaced
  /\ \A p \in ibucket : iowner[p] \in Incs /\ iat[iowner[p]] \in {"running", "leaving"}
  /\ \A p \in Pids : Alive(p) => p \in ibucket \/ p \in iforgotten

LEMMA OrphansFollow == IncarnationsInv => NoOrphanRunner
BY DEF IncarnationsInv, NoOrphanRunner, Unfinished, Live

LEMMA IncarnationsInitInv == IncarnationsInit => IncarnationsInv
BY DEF IncarnationsInit, IncarnationsInv, Unfinished, Alive, States

(* A new incarnation runs or is made, and takes the place of a finished    *)
(* one or of one that is counted as replaced.                              *)
ComesUp(k) ==
  /\ iat[k] = "none"
  /\ \E state \in {"made", "running"} : iat' = [iat EXCEPT ![k] = state]
  /\ itable' = k
  /\ ireplaced \subseteq ireplaced'
  /\ \A j \in Incs : j = itable /\ Unfinished(j) => j \in ireplaced'
  /\ UNCHANGED Processes

LEMMA ComesUpKeeps ==
  ASSUME IncarnationsInv, NEW k \in Incs, ComesUp(k)
  PROVE  IncarnationsInv'
<1> USE DEF ComesUp, Processes
<1>1. iat' \in [Incs -> States]
  BY DEF IncarnationsInv, States
<1>2. \A j \in Incs : j # k => iat'[j] = iat[j]
  BY DEF IncarnationsInv
<1>3. \A j \in Incs : Unfinished(j)' => j = itable' \/ j \in ireplaced'
  BY <1>2 DEF IncarnationsInv, Unfinished
<1>4. \A p \in ibucket' : iowner'[p] \in Incs /\ iat'[iowner'[p]] \in {"running", "leaving"}
  BY <1>2 DEF IncarnationsInv
<1>5. \A p \in Pids : Alive(p)' => p \in ibucket' \/ p \in iforgotten'
  BY DEF IncarnationsInv, Alive
<1> QED
  BY <1>1, <1>3, <1>4, <1>5 DEF IncarnationsInv

LEMMA MakingComesUp ==
  ASSUME IncarnationsInv, NEW k \in Incs,
         StartAgent(k) \/ RestartMake(k) \/ \E s \in Spawners : SpawnReserve(s, k)
  PROVE  ComesUp(k)
<1>1. CASE StartAgent(k)
  BY <1>1 DEF StartAgent, Fresh, Vacant, Unfinished, ComesUp
<1>2. CASE \E s \in Spawners : SpawnReserve(s, k)
  BY <1>2 DEF SpawnReserve, Reserved, Fresh, Vacant, Unfinished, ComesUp
<1>3. CASE RestartMake(k)
  <2>1. \A j \in Incs : j = itable /\ Unfinished(j) => j # irestart /\ iat[j] \notin {"stopped", "ended"}
    BY <1>3 DEF RestartMake, Drained, Unfinished
  <2> QED
    BY <1>3, <2>1 DEF RestartMake, Fresh, ComesUp
<1> QED
  BY <1>1, <1>2, <1>3

(* An incarnation moves on and its subprocesses stay as they are: it may   *)
(* begin to run, leave its loop, or end; or only stops and waits change.   *)
MovesOn ==
  /\ \A k \in Incs :
       \/ iat'[k] = iat[k]
       \/ iat[k] = "made" /\ iat'[k] \in {"running", "ended"}
       \/ iat[k] = "running" /\ iat'[k] = "leaving"
       \/ iat[k] = "stopped" /\ iat'[k] = "ended"
  /\ iat' \in [Incs -> States]
  /\ \A k \in Incs : k = itable /\ Unfinished(k)' => k = itable'
  /\ ireplaced \subseteq ireplaced'
  /\ UNCHANGED <<iproc, iowner, ibucket, iforgotten>>

LEMMA MovesOnKeeps ==
  ASSUME IncarnationsInv, MovesOn
  PROVE  IncarnationsInv'
<1> USE DEF MovesOn
<1>1. \A k \in Incs : Unfinished(k)' => Unfinished(k)
  BY DEF Unfinished
<1>2. \A k \in Incs : Unfinished(k)' => k = itable' \/ k \in ireplaced'
  BY <1>1 DEF IncarnationsInv
<1>3. \A p \in ibucket' : iowner'[p] \in Incs /\ iat'[iowner'[p]] \in {"running", "leaving"}
  BY DEF IncarnationsInv
<1>4. \A p \in Pids : Alive(p)' => p \in ibucket' \/ p \in iforgotten'
  BY DEF IncarnationsInv, Alive
<1> QED
  BY <1>2, <1>3, <1>4 DEF IncarnationsInv

(* Subprocesses are spawned, signalled or die, the registry of the name    *)
(* follows, and no incarnation moves except one that reaps.                *)
LEMMA ProcessesKeep ==
  ASSUME IncarnationsInv,
         \/ \E k \in Incs, p \in Pids : SpawnTool(k, p)
         \/ \E p \in Pids : ToolEnds(p) \/ Dies(p)
         \/ QuiesceReap \/ QuiesceReport
  PROVE  IncarnationsInv'
<1> USE DEF Runners, Quiescing
<1>1. ASSUME NEW k \in Incs, NEW p \in Pids, SpawnTool(k, p) PROVE IncarnationsInv'
  <2>1. \A q \in Pids : q # p => iproc'[q] = iproc[q] /\ iowner'[q] = iowner[q]
    BY <1>1 DEF SpawnTool, IncarnationsInv
  <2>2. iowner'[p] = k /\ iat'[k] = "running"
    BY <1>1 DEF SpawnTool, IncarnationsInv
  <2>3. /\ iat' = iat /\ itable' = itable /\ ireplaced' = ireplaced /\ iforgotten' = iforgotten
        /\ ibucket' = ibucket \cup {p}
        /\ iproc' \in [Pids -> {"none", "alive", "immune", "dying", "dead"}]
        /\ iowner' \in [Pids -> Incs \cup {0}]
    BY <1>1 DEF SpawnTool, IncarnationsInv
  <2>4. \A q \in ibucket' : iowner'[q] \in Incs /\ iat'[iowner'[q]] \in {"running", "leaving"}
    BY <2>1, <2>2, <2>3 DEF IncarnationsInv
  <2>5. \A q \in Pids : Alive(q)' => q \in ibucket' \/ q \in iforgotten'
    BY <2>1, <2>3 DEF IncarnationsInv, Alive
  <2> QED
    BY <2>3, <2>4, <2>5 DEF IncarnationsInv, Unfinished
<1>2. ASSUME NEW p \in Pids, ToolEnds(p) \/ Dies(p) PROVE IncarnationsInv'
  <2>1. /\ iproc' = [iproc EXCEPT ![p] = "dead"] /\ ibucket \ {p} \subseteq ibucket' /\ ibucket' \subseteq ibucket
        /\ iat' = iat /\ itable' = itable /\ ireplaced' = ireplaced /\ iowner' = iowner
        /\ iforgotten' = iforgotten
    BY <1>2 DEF ToolEnds, Dies
  <2>2. \A q \in Pids : Alive(q)' => q \in ibucket' \/ q \in iforgotten'
    BY <2>1 DEF IncarnationsInv, Alive
  <2> QED
    BY <2>1, <2>2 DEF IncarnationsInv, Unfinished
<1>3. CASE QuiesceReap
  <2>1. \A q \in Pids : Alive(q)' => Alive(q)
    BY <1>3 DEF QuiesceReap, Signalled, Alive
  <2>2. iproc' \in [Pids -> {"none", "alive", "immune", "dying", "dead"}]
    BY <1>3 DEF QuiesceReap, Signalled, IncarnationsInv
  <2> QED
    BY <1>3, <2>1, <2>2 DEF QuiesceReap, IncarnationsInv, Unfinished
<1>4. CASE QuiesceReport
  <2>1. /\ \A q \in Pids : Alive(q)' => Alive(q)
        /\ iproc' \in [Pids -> {"none", "alive", "immune", "dying", "dead"}]
    BY <1>4 DEF QuiesceReport, Alive, IncarnationsInv
  <2> QED
    BY <1>4, <2>1 DEF QuiesceReport, IncarnationsInv, Unfinished
<1> QED
  BY <1>1, <1>2, <1>3, <1>4

LEMMA ReapKeeps ==
  ASSUME IncarnationsInv, NEW k \in Incs, ReapAndForget(k)
  PROVE  IncarnationsInv'
<1> USE DEF ReapAndForget
<1>1. \A q \in Pids : Alive(q)' => Alive(q)
  BY DEF Signalled, CgroupKilled, Alive
<1>2. iproc' \in [Pids -> {"none", "alive", "immune", "dying", "dead"}]
  BY DEF Signalled, CgroupKilled, IncarnationsInv
<1>3. iat' \in [Incs -> States] /\ \A j \in Incs : Unfinished(j)' => Unfinished(j)
  BY DEF IncarnationsInv, Unfinished, States
<1> QED
  BY <1>1, <1>2, <1>3 DEF IncarnationsInv

LEMMA IncarnationsStep == IncarnationsInv /\ [IncarnationsNext]_incarnationsVars => IncarnationsInv'
<1> SUFFICES ASSUME IncarnationsInv, [IncarnationsNext]_incarnationsVars PROVE IncarnationsInv'
  OBVIOUS
<1>1. ASSUME NEW k \in Incs,
             StartAgent(k) \/ RestartMake(k) \/ \E s \in Spawners : SpawnReserve(s, k)
      PROVE  IncarnationsInv'
  BY <1>1, MakingComesUp, ComesUpKeeps
<1>2. ASSUME NEW s \in Spawners, SpawnStart(s) \/ SpawnRollback(s) PROVE IncarnationsInv'
  <2>1. MovesOn
    BY <1>2 DEF SpawnStart, SpawnRollback, Reserved, Processes, MovesOn, IncarnationsInv, States,
         Unfinished
  <2> QED
    BY <2>1, MovesOnKeeps
<1>3. ASSUME NEW k \in Incs, LeaveLoop(k) \/ TaskEnds(k) PROVE IncarnationsInv'
  <2>1. MovesOn
    BY <1>3 DEF LeaveLoop, TaskEnds, Processes, MovesOn, IncarnationsInv, States
  <2> QED
    BY <2>1, MovesOnKeeps
<1>4. CASE Stop \/ RestartStop \/ ProbeCgroups \/ QuiesceBegin \/ QuiesceCancel
           \/ UNCHANGED incarnationsVars
  <2>1. MovesOn
    BY <1>4 DEF Stop, RestartStop, ProbeCgroups, QuiesceBegin, QuiesceCancel, incarnationsVars,
         Processes, Runners, MovesOn, IncarnationsInv
  <2> QED
    BY <2>1, MovesOnKeeps
<1> QED
  BY <1>1, <1>2, <1>3, <1>4, ProcessesKeep, ReapKeeps DEF IncarnationsNext

(* However starts, spawns, stops and restarts of one name overlap, every   *)
(* live runner is the one in the table, or a restart replaced it.          *)
THEOREM RunnersAreInReach == IncarnationsSpec => []NoOrphanRunner
<1>1. IncarnationsSpec => []IncarnationsInv
  BY IncarnationsInitInv, IncarnationsStep, PTL DEF IncarnationsSpec
<1> QED
  BY <1>1, OrphansFollow, PTL

-----------------------------------------------------------------------------

LEMMA ReapIsOwn ==
  ASSUME IncarnationsInv, [IncarnationsNext]_incarnationsVars
  PROVE  ReapsOnlyItsOwn
<1> SUFFICES ASSUME NEW k \in Incs, NEW p \in Pids, iat[k] = "leaving", iat'[k] = "stopped",
                    p \in ibucket, iowner[p] # k
             PROVE  {iowner[p], k} \cap ireplaced # {}
  BY DEF ReapsOnlyItsOwn
<1>1. Unfinished(k) /\ Unfinished(iowner[p]) /\ iowner[p] \in Incs
  BY DEF IncarnationsInv, Unfinished
<1> QED
  BY <1>1 DEF IncarnationsInv

LEMMA ReportIsRight ==
  ASSUME IncarnationsInv, [IncarnationsNext]_incarnationsVars
  PROVE  QuiescentIsProven
<1> SUFFICES ASSUME ireport' # ireport, ireport' \in {"proven", "forced"},
                    NEW p \in Pids, Alive(p)
             PROVE  p \in iforgotten
  BY DEF QuiescentIsProven
<1>1. QuiesceReport
  BY DEF IncarnationsNext, incarnationsVars, StartAgent, RestartMake, LeaveLoop, ReapAndForget,
     TaskEnds, SpawnReserve, SpawnTool, SpawnStart, SpawnRollback, ToolEnds, Dies, Stop,
     RestartStop, ProbeCgroups, QuiesceBegin, QuiesceCancel, QuiesceReap, Quiescing
<1>2. Survivors = {}
  BY <1>1 DEF QuiesceReport
<1> QED
  BY <1>2 DEF Survivors, IncarnationsInv

(* The registry of a name keeps its incarnations apart, whoever quiesces,  *)
(* reaps and ends in whatever order, with cgroups and without.             *)
THEOREM RegistryIsKept == IncarnationsSpec => RegistryKeepsApart
<1>1. IncarnationsInv /\ [IncarnationsNext]_incarnationsVars
        => [ReapsOnlyItsOwn /\ QuiescentIsProven]_incarnationsVars
  BY ReapIsOwn, ReportIsRight
<1>2. IncarnationsSpec => []IncarnationsInv
  BY IncarnationsInitInv, IncarnationsStep, PTL DEF IncarnationsSpec
<1> QED
  BY <1>1, <1>2, PTL DEF IncarnationsSpec, RegistryKeepsApart

-----------------------------------------------------------------------------
(* ToolCalls: ToolCallsHold                                                *)

UseRecords ==
  [name : Names, st : {"starting", "running", "ok", "error", "refused", "unpopped", "lost"}]

(* The rows of this agent, and the keys there are.                         *)
Own == {row \in lrows : row.agent = "self"}
ToolKeys == {BareOf[name] : name \in Names}

(* What the ring holds of a key, and what it may hold at most: the calls   *)
(* that count, with one whose refusal has not taken its entry away yet.    *)
Held(key) == {u \in lring : Key(u) = key}
Counted(key) ==
  {u \in DOMAIN luses : Key(u) = key /\ (luses[u].st # "refused" \/ ldoing.use = u)}

(* A refusal has taken an entry of this key out of the ring.               *)
WasRefused(key) ==
  \E u \in DOMAIN luses : Key(u) = key /\ luses[u].st = "refused" /\ ldoing.use # u

(* The row that a call of this name is about to get.                       *)
Begins(key) ==
  IF ldoing.at = "start" /\ PrettyOf[luses[ldoing.use].name] = key THEN 1 ELSE 0

ToolType ==
  /\ luses \in Seq(UseRecords)
  /\ ldoing = Idle \/ ldoing \in [use : DOMAIN luses, at : {"start", "finish", "pop"}]
  /\ lring \subseteq DOMAIN luses /\ lindex \subseteq DOMAIN luses
  /\ linflight \subseteq DOMAIN luses
  /\ lfirst \in Nat /\ lnow \in Nat

(* Where each call is: one begins or ends at a time, and a running one is  *)
(* in flight or was not recorded.                                          *)
StagesInv ==
  /\ \A u \in DOMAIN luses :
       /\ luses[u].st = "starting" => ldoing = [use |-> u, at |-> "start"]
       /\ luses[u].st = "refused" => /\ "refused" \in Results[luses[u].name]
                                     /\ Native => ldoing.use = u
       /\ luses[u].st = "running" => u \in linflight \cup ldropped
  /\ ldoing.at = "start" => luses[ldoing.use].st = "starting"
  /\ ldoing.at \in {"finish", "pop"} => luses[ldoing.use].st \in {"ok", "error", "refused"}
  /\ LongToolsSurvive

(* Each call has one row at most, which keeps its name.                    *)
RowRecords ==
  [use : Nat, agent : {"self", "other"}, tool : {PrettyOf[name] : name \in Names},
   at : Nat, outcome : {"none", "ok", "error"}]

RowsShape ==
  /\ lrows \subseteq RowRecords
  /\ \A row \in Own :
       /\ row.use \in DOMAIN luses /\ luses[row.use].st # "starting"
       /\ row.tool = PrettyOf[luses[row.use].name]
  /\ \A row, other \in Own : row.use = other.use => row = other
  /\ \A row \in lrows \ Own : row.use = 0

RowsInv ==
  /\ RowsShape
  /\ \A row \in Own : ldoing.at = "pop" /\ row.use = ldoing.use /\ row.outcome = "none" =>
       row.use \in ldropped
  /\ LedgerTellsOutcome

(* The ring stays below the threshold and holds nothing twice.             *)
RingCounts ==
  \A key \in ToolKeys : /\ Cardinality(Held(key)) < LoopThreshold
                        /\ Cardinality(Held(key)) <= Cardinality(Counted(key))

RingInv ==
  /\ \A u \in lring : Key(u) \notin Polling
  /\ RingCounts
  /\ \A key \in lreported : Asked(key)
  /\ NoFalseQuestion

(* A run of calls that is not asked about yet is in the ring.              *)
ToldInv ==
  \A key \in ToolKeys : ~Asked(key) /\ ~WasRefused(key) =>
    \A u \in DOMAIN luses : (\A v \in Since(u) : Key(v) = key) => Since(u) \subseteq lring

(* Rows in the window, with the one to come, were asked about in time.     *)
RecentInv ==
  \A name \in Names : LET key == BareOf[name] IN
    /\ PrettyOf[name] = key /\ key \notin Polling
    /\ CountRecent(key) + Begins(key) >= LoopThreshold
    => Asked(key) \/ key \in lblind

ToolInv == ToolType /\ StagesInv /\ RowsInv /\ RingInv /\ ToldInv /\ RecentInv

-----------------------------------------------------------------------------
(* How the calls change *)

(* The calls stay the calls they are.                                      *)
SameCalls ==
  /\ luses' \in Seq(UseRecords) /\ DOMAIN luses' = DOMAIN luses
  /\ \A u \in DOMAIN luses : luses'[u].name = luses[u].name /\ Key(u)' = Key(u)

LEMMA CallNumbers == ToolType => DOMAIN luses = 1..Len(luses) /\ Len(luses) \in Nat
BY LenProperties DEF ToolType

LEMMA CallsUnchanged == ToolType /\ UNCHANGED luses => SameCalls
BY DEF ToolType, SameCalls, Key

LEMMA SetStateMoves ==
  ASSUME ToolType, NEW u \in DOMAIN luses, NEW st, luses' = SetState(u, st),
         st \in {"starting", "running", "ok", "error", "refused", "unpopped", "lost"}
  PROVE  /\ SameCalls
         /\ \A v \in DOMAIN luses : luses'[v].st = IF v = u THEN st ELSE luses[v].st
<1> DEFINE call == [luses[u] EXCEPT !.st = st]
<1>1. luses \in Seq(UseRecords) /\ u \in 1..Len(luses) /\ Len(luses) \in Nat
  BY CallNumbers DEF ToolType
<1>2. luses[u] \in UseRecords
  BY <1>1, ElementOfSeq
<1>3. call \in UseRecords /\ call.name = luses[u].name /\ call.st = st
  BY <1>2 DEF UseRecords
<1>4. luses' = [luses EXCEPT ![u] = call]
  BY DEF SetState
<1> HIDE DEF call
<1>5. /\ luses' \in Seq(UseRecords) /\ Len(luses') = Len(luses)
      /\ \A v \in 1..Len(luses) : luses'[v] = IF v = u THEN call ELSE luses[v]
  BY <1>1, <1>3, <1>4, ExceptSeq
<1>6. DOMAIN luses = 1..Len(luses) /\ DOMAIN luses' = 1..Len(luses)
  BY <1>1, <1>5, LenProperties
<1> QED
  BY <1>3, <1>5, <1>6 DEF SameCalls, Key

LEMMA TurnMoves ==
  ASSUME ToolType, TurnIsOver
  PROVE  /\ SameCalls
         /\ \A v \in DOMAIN luses : luses'[v].st =
              IF luses[v].st \in {"starting", "running"} THEN "lost"
              ELSE IF v = ldoing.use /\ luses[v].st = "refused" THEN "unpopped"
              ELSE luses[v].st
<1> DEFINE call(v) == IF v \in Underway THEN [luses[v] EXCEPT !.st = "lost"]
                      ELSE IF v = ldoing.use /\ luses[v].st = "refused"
                        THEN [luses[v] EXCEPT !.st = "unpopped"] ELSE luses[v]
<1>1. luses \in Seq(UseRecords) /\ DOMAIN luses = 1..Len(luses) /\ Len(luses) \in Nat
  BY CallNumbers DEF ToolType
<1>2. luses' = [v \in 1..Len(luses) |-> call(v)]
  BY <1>1 DEF TurnIsOver
<1>3. ASSUME NEW v \in 1..Len(luses)
      PROVE  /\ call(v) \in UseRecords /\ call(v).name = luses[v].name
             /\ call(v).st = IF luses[v].st \in {"starting", "running"} THEN "lost"
                             ELSE IF v = ldoing.use /\ luses[v].st = "refused" THEN "unpopped"
                             ELSE luses[v].st
  <2>1. luses[v] \in UseRecords
    BY <1>1, ElementOfSeq
  <2>2. v \in Underway <=> luses[v].st \in {"starting", "running"}
    BY <1>1 DEF Underway
  <2> QED
    BY <2>1, <2>2 DEF UseRecords
<1> HIDE DEF call
<1>4. luses' \in Seq(UseRecords) /\ DOMAIN luses' = 1..Len(luses)
  BY <1>1, <1>2, <1>3
<1>5. \A v \in 1..Len(luses) : luses'[v] = call(v)
  BY <1>2
<1> QED
  BY <1>1, <1>3, <1>4, <1>5 DEF SameCalls, Key

(* A call joins the others.                                                *)
LEMMA CallJoins ==
  ASSUME ToolType, NEW name \in Names,
         luses' = Append(luses, [name |-> name, st |-> "starting"])
  PROVE  /\ luses' \in Seq(UseRecords) /\ Len(luses) + 1 \notin DOMAIN luses
         /\ DOMAIN luses' = DOMAIN luses \cup {Len(luses) + 1}
         /\ \A v \in DOMAIN luses : luses'[v] = luses[v] /\ Key(v)' = Key(v)
         /\ luses'[Len(luses) + 1] = [name |-> name, st |-> "starting"]
         /\ \A v : v = Len(luses) + 1 => Key(v)' = BareOf[name]
<1> DEFINE call == [name |-> name, st |-> "starting"]
<1>1. luses \in Seq(UseRecords) /\ DOMAIN luses = 1..Len(luses) /\ Len(luses) \in Nat
  BY CallNumbers DEF ToolType
<1>2. call \in UseRecords /\ call.name = name
  BY DEF UseRecords
<1> HIDE DEF call
<1>3. /\ luses' \in Seq(UseRecords) /\ Len(luses') = Len(luses) + 1
      /\ luses'[Len(luses) + 1] = call
      /\ \A v \in 1..Len(luses) : luses'[v] = luses[v]
  BY <1>1, <1>2 DEF call
<1>4. DOMAIN luses' = 1..(Len(luses) + 1)
  BY <1>3, LenProperties
<1>5. 1..(Len(luses) + 1) = (1..Len(luses)) \cup {Len(luses) + 1}
      /\ Len(luses) + 1 \notin 1..Len(luses)
  BY <1>1
<1>6. /\ \A v \in DOMAIN luses : Key(v)' = Key(v)
      /\ \A v : v = Len(luses) + 1 => Key(v)' = BareOf[name]
  BY <1>1, <1>2, <1>3 DEF Key
<1>7. luses'[Len(luses) + 1] = [name |-> name, st |-> "starting"]
  BY <1>3 DEF call
<1> QED
  BY <1>1, <1>3, <1>4, <1>5, <1>6, <1>7

(* What a full deque or dict keeps is what it held, or the new call.       *)
LEMMA EnteredAmong ==
  ASSUME NEW S, NEW u, NEW n
  PROVE  Entered(S, u, n) \subseteq S \cup {u}
BY DEF Entered

LEMMA ToolTypeStep ==
  ASSUME ToolType, StagesInv, [ToolNext]_toolVars
  PROVE  ToolType'
<1> USE DEF toolVars
<1>0. luses \in Seq(UseRecords) /\ DOMAIN luses = 1..Len(luses) /\ Len(luses) \in Nat
  BY CallNumbers DEF ToolType
<1>1. ASSUME NEW name \in Names, ToolCallArrives(name)
      PROVE  ToolType'
  <2> DEFINE use == Len(luses) + 1
  <2>1. /\ luses' = Append(luses, [name |-> name, st |-> "starting"])
        /\ ldoing' = [use |-> use, at |-> "start"]
        /\ UNCHANGED <<linflight, lnow, lfirst>>
        /\ lring' = {} \/ lring' = Entered(lring, use, LoopWindow) \/ lring' = lring
        /\ lindex' = Entered(lindex, use, MaxTracked) \/ lindex' = lindex
    BY <1>1 DEF ToolCallArrives, CheckLoop
  <2>2. luses' \in Seq(UseRecords) /\ DOMAIN luses' = DOMAIN luses \cup {use}
    BY <2>1, CallJoins
  <2> HIDE DEF use
  <2>3. lring' \subseteq DOMAIN luses' /\ lindex' \subseteq DOMAIN luses'
    BY <2>1, <2>2, EnteredAmong DEF ToolType
  <2> QED
    BY <2>1, <2>2, <2>3 DEF ToolType
<1>2. CASE ActionStarts
  <2>1. ldoing.use \in DOMAIN luses
    BY <1>2 DEF ActionStarts, ToolType, Idle
  <2>2. SameCalls
    BY <1>2, <2>1, SetStateMoves DEF ActionStarts
  <2>3. /\ ldoing' = Idle /\ UNCHANGED <<lring, lindex, lnow, lfirst>>
        /\ linflight' = Entered(linflight, ldoing.use, MaxTracked) \/ linflight' = linflight
    BY <1>2 DEF ActionStarts
  <2>4. linflight' \subseteq DOMAIN luses
    BY <2>1, <2>3, EnteredAmong DEF ToolType
  <2> QED
    BY <2>2, <2>3, <2>4 DEF ToolType, SameCalls
<1>3. ASSUME NEW u \in DOMAIN luses, ResultArrives(u)
      PROVE  ToolType'
  <2>1. PICK out \in Results[luses[u].name] :
          /\ luses' = SetState(u, out)
          /\ ldoing' = IF u \in linflight THEN [use |-> u, at |-> "finish"]
                       ELSE AfterFinish(u, out)
    BY <1>3 DEF ResultArrives
  <2>2. luses[u].name \in Names
    <3>1. luses[u] \in UseRecords
      BY <1>0, <1>3, ElementOfSeq
    <3> QED
      BY <3>1 DEF UseRecords
  <2>3. out \in {"ok", "error", "refused"}
    BY <2>1, <2>2, ToolCallsAssumption
  <2>4. SameCalls
    BY <2>1, <2>3, SetStateMoves
  <2>5. ldoing' = Idle \/ ldoing' \in [use : DOMAIN luses, at : {"start", "finish", "pop"}]
    BY <2>1 DEF AfterFinish
  <2>6. linflight' = linflight \ {u} /\ UNCHANGED <<lring, lindex, lnow, lfirst>>
    BY <1>3 DEF ResultArrives
  <2> QED
    BY <2>4, <2>5, <2>6 DEF ToolType, SameCalls
<1>4. CASE ActionFinishes
  <2>1. ldoing.use \in DOMAIN luses
    BY <1>4 DEF ActionFinishes, ToolType, Idle
  <2>2. ldoing' = Idle \/ ldoing' \in [use : DOMAIN luses, at : {"start", "finish", "pop"}]
    BY <1>4, <2>1 DEF ActionFinishes, AfterFinish
  <2> QED
    BY <1>4, <2>2 DEF ActionFinishes, ToolType
<1>5. CASE LoopEntryPops
  <2>1. ldoing.use \in DOMAIN luses
    BY <1>5 DEF LoopEntryPops, ToolType, Idle
  <2>2. SameCalls
    <3>1. luses' = luses \/ luses' = SetState(ldoing.use, "unpopped")
      BY <1>5 DEF LoopEntryPops
    <3> QED
      BY <2>1, <3>1, SetStateMoves, CallsUnchanged
  <2>3. lring' \subseteq lring /\ lindex' \subseteq lindex
    BY <1>5 DEF LoopEntryPops, PopRefused, DropLatest
  <2>4. ldoing' = Idle /\ UNCHANGED <<linflight, lnow, lfirst>>
    BY <1>5 DEF LoopEntryPops
  <2> QED
    BY <2>2, <2>3, <2>4 DEF ToolType, SameCalls
<1>6. CASE TurnIsOver /\ UNCHANGED <<lring, lindex, linflight, lnow, lfirst>>
  <2>1. ldoing' = Idle
    BY <1>6 DEF TurnIsOver
  <2> QED
    BY <1>6, <2>1, TurnMoves DEF ToolType, SameCalls
<1>7. CASE ProcessRestarts
  <2>1. /\ TurnIsOver /\ ldoing' = Idle /\ lring' = {} /\ lindex' = {} /\ linflight' = {}
        /\ lfirst' \in Nat /\ lnow' = lnow
    BY <1>0, <1>7 DEF ProcessRestarts, TurnIsOver
  <2> QED
    BY <2>1, TurnMoves DEF ToolType, SameCalls
<1>8. CASE ClockTicks
  BY <1>8 DEF ClockTicks, ToolType
<1>9. CASE UNCHANGED toolVars
  BY <1>9 DEF ToolType
<1> QED
  BY <1>1, <1>2, <1>3, <1>4, <1>5, <1>6, <1>7, <1>8, <1>9
     DEF ToolNext, TurnStops, WatchdogCuts

(* Between two messages no call begins or ends.                            *)
LEMMA NothingGoes ==
  ASSUME ToolType, StagesInv, ldoing = Idle
  PROVE  \A v \in DOMAIN luses : luses[v].st # "starting" /\ ldoing.use # v
<1>1. \A v \in DOMAIN luses : v # 0
  BY CallNumbers
<1>2. ldoing.use = 0
  BY DEF Idle
<1>3. \A v \in DOMAIN luses : ldoing # [use |-> v, at |-> "start"]
  BY <1>1, <1>2
<1> QED
  BY <1>1, <1>2, <1>3 DEF StagesInv

LEMMA StagesStep ==
  ASSUME ToolType, StagesInv, [ToolNext]_toolVars
  PROVE  StagesInv'
<1> USE DEF toolVars
<1>0. /\ luses \in Seq(UseRecords) /\ DOMAIN luses = 1..Len(luses) /\ Len(luses) \in Nat
      /\ \A u \in DOMAIN luses : luses[u].st \in {"starting", "running", "ok", "error",
                                                  "refused", "unpopped", "lost"}
  <2>1. \A u \in 1..Len(luses) : luses[u] \in UseRecords
    BY ElementOfSeq DEF ToolType
  <2> QED
    BY <2>1, CallNumbers DEF ToolType, UseRecords
<1>1. ASSUME NEW name \in Names, ToolCallArrives(name)
      PROVE  StagesInv'
  <2>1. PICK use : use = Len(luses) + 1
    OBVIOUS
  <2>2. /\ luses' = Append(luses, [name |-> name, st |-> "starting"])
        /\ ldoing = Idle /\ ldoing' = [use |-> use, at |-> "start"]
        /\ UNCHANGED <<linflight, lcut, ldropped>>
    BY <1>1, <2>1 DEF ToolCallArrives
  <2>3. /\ DOMAIN luses' = DOMAIN luses \cup {use} /\ use \notin DOMAIN luses
        /\ \A v \in DOMAIN luses : luses'[v] = luses[v]
        /\ luses'[use].st = "starting"
    BY <2>1, <2>2, CallJoins
  <2>4. \A v \in DOMAIN luses : luses[v].st # "starting" /\ ldoing.use # v
    BY <1>0, <2>2, NothingGoes
  <2>5. \A v \in DOMAIN luses : ~(luses[v].st = "refused" /\ Native)
    BY <2>4 DEF StagesInv
  <2>6. LongToolsSurvive'
    BY <2>2, <2>3 DEF StagesInv, LongToolsSurvive, ToolType
  <2> QED
    BY <2>2, <2>3, <2>4, <2>5, <2>6 DEF StagesInv
<1>2. CASE ActionStarts
  <2>1. PICK u \in DOMAIN luses : ldoing.use = u
    BY <1>2 DEF ActionStarts, ToolType, Idle
  <2>2. luses[u].st = "starting" /\ ldoing.at = "start"
    BY <1>2, <2>1 DEF ActionStarts, StagesInv
  <2>3. /\ SameCalls
        /\ \A v \in DOMAIN luses : luses'[v].st = IF v = u THEN "running" ELSE luses[v].st
    BY <1>2, <2>1, SetStateMoves DEF ActionStarts
  <2>4. ldoing' = Idle /\ lcut' = lcut /\ ldropped \subseteq ldropped'
    BY <1>2 DEF ActionStarts
  <2>5. /\ linflight' \subseteq linflight \cup {u}
        /\ linflight \cup {u} \subseteq linflight' \cup ldropped'
    <3>1. CASE /\ linflight' = Entered(linflight, u, MaxTracked)
               /\ ldropped' = ldropped \cup ((linflight \cup {u}) \ linflight')
      BY <3>1, EnteredAmong
    <3>2. CASE linflight' = linflight /\ ldropped' = ldropped \cup {u}
      BY <3>2
    <3> QED
      BY <1>2, <2>1, <3>1, <3>2 DEF ActionStarts
  <2>6. /\ \A v \in DOMAIN luses : luses[v].st = "starting" => v = u
        /\ \A v \in DOMAIN luses : ~(luses[v].st = "refused" /\ Native)
    BY <2>1, <2>2 DEF StagesInv
  <2>7. LongToolsSurvive'
    BY <2>3, <2>4, <2>5 DEF StagesInv, LongToolsSurvive, ToolType
  <2>8. \A v \in DOMAIN luses : luses'[v].st = "running" => v \in linflight' \cup ldropped'
    BY <2>3, <2>4, <2>5 DEF StagesInv
  <2> QED
    BY <2>3, <2>4, <2>6, <2>7, <2>8 DEF StagesInv, SameCalls, Idle
<1>3. ASSUME NEW u \in DOMAIN luses, ResultArrives(u)
      PROVE  StagesInv'
  <2>1. PICK out \in Results[luses[u].name] :
          /\ luses' = SetState(u, out)
          /\ ldoing' = IF u \in linflight THEN [use |-> u, at |-> "finish"]
                       ELSE AfterFinish(u, out)
    BY <1>3 DEF ResultArrives
  <2>2. out \in {"ok", "error", "refused"}
    <3>1. luses[u] \in UseRecords
      BY <1>0, <1>3, ElementOfSeq
    <3> QED
      BY <2>1, <3>1, ToolCallsAssumption DEF UseRecords
  <2>3. /\ SameCalls
        /\ \A v \in DOMAIN luses : luses'[v].st = IF v = u THEN out ELSE luses[v].st
    BY <2>1, <2>2, SetStateMoves
  <2>4. ldoing = Idle /\ luses[u].st = "running" /\ linflight' = linflight \ {u}
        /\ UNCHANGED <<lcut, ldropped>>
    BY <1>3 DEF ResultArrives
  <2>5. \A v \in DOMAIN luses : luses[v].st # "starting" /\ ~(luses[v].st = "refused" /\ Native)
    BY <2>4, NothingGoes DEF StagesInv
  <2>6. /\ ldoing'.at # "start" /\ (ldoing'.at \in {"finish", "pop"} => ldoing'.use = u)
        /\ out = "refused" => ldoing'.use = u
    BY <2>1 DEF AfterFinish, Idle
  <2>7. LongToolsSurvive'
    BY <2>3, <2>4 DEF StagesInv, LongToolsSurvive, ToolType
  <2>8. \A v \in DOMAIN luses : luses'[v].st = "running" => v \in linflight' \cup ldropped'
    BY <2>2, <2>3, <2>4 DEF StagesInv
  <2>9. \A v \in DOMAIN luses : luses'[v].st = "refused" =>
          "refused" \in Results[luses'[v].name] /\ (Native => ldoing'.use = v)
    <3> SUFFICES ASSUME NEW v \in DOMAIN luses, luses'[v].st = "refused"
                 PROVE  "refused" \in Results[luses'[v].name] /\ (Native => ldoing'.use = v)
      OBVIOUS
    <3>1. CASE v = u
      BY <2>1, <2>3, <2>6, <3>1 DEF SameCalls
    <3>2. CASE v # u
      BY <2>3, <2>5, <3>2 DEF SameCalls, StagesInv
    <3> QED
      BY <3>1, <3>2
  <2> QED
    BY <2>2, <2>3, <2>5, <2>6, <2>7, <2>8, <2>9 DEF StagesInv, SameCalls
<1>4. CASE ActionFinishes
  <2>1. /\ ldoing.at = "finish" /\ ldoing' = AfterFinish(ldoing.use, luses[ldoing.use].st)
        /\ UNCHANGED <<luses, linflight, lcut>> /\ ldropped \subseteq ldropped'
    BY <1>4 DEF ActionFinishes
  <2>2. ldoing.use \in DOMAIN luses
    BY <2>1 DEF ToolType, Idle
  <2>3. LongToolsSurvive'
    BY <2>1 DEF StagesInv, LongToolsSurvive
  <2>4. \A v \in DOMAIN luses : /\ luses[v].st # "starting"
                                /\ luses[v].st = "refused" /\ Native => ldoing'.use = v
    BY <2>1 DEF StagesInv, AfterFinish
  <2>5. /\ ldoing'.at # "start"
        /\ ldoing'.at \in {"finish", "pop"} => ldoing'.use = ldoing.use
    BY <2>1 DEF AfterFinish, Idle
  <2> QED
    BY <2>1, <2>2, <2>3, <2>4, <2>5 DEF StagesInv
<1>5. CASE LoopEntryPops
  <2>1. PICK u \in DOMAIN luses : ldoing.use = u
    BY <1>5 DEF LoopEntryPops, ToolType, Idle
  <2>2. ldoing.at = "pop" /\ ldoing' = Idle /\ UNCHANGED <<linflight, lcut, ldropped>>
    BY <1>5 DEF LoopEntryPops
  <2>3. /\ SameCalls
        /\ \A v \in DOMAIN luses : luses'[v].st =
             IF v = u /\ luses[u].st = "refused" /\ (Native \/ u \notin lindex)
             THEN "unpopped" ELSE luses[v].st
    <3>1. CASE luses[u].st = "refused" /\ (Native \/ u \notin lindex)
      <4>1. luses' = SetState(u, "unpopped")
        BY <1>5, <2>1, <3>1 DEF LoopEntryPops
      <4> QED
        BY <3>1, <4>1, SetStateMoves
    <3>2. CASE ~(luses[u].st = "refused" /\ (Native \/ u \notin lindex))
      <4>1. luses' = luses
        BY <1>5, <2>1, <3>2 DEF LoopEntryPops
      <4> QED
        BY <3>2, <4>1, CallsUnchanged
    <3> QED
      BY <3>1, <3>2
  <2>4. luses[u].st \in {"ok", "error", "refused"}
    BY <2>1, <2>2 DEF StagesInv
  <2>5. LongToolsSurvive'
    BY <2>2, <2>3, <2>4 DEF StagesInv, LongToolsSurvive, ToolType
  <2>6. \A v \in DOMAIN luses : luses[v].st # "starting" /\
          (luses[v].st = "refused" /\ Native => v = u)
    BY <2>1, <2>2 DEF StagesInv
  <2> QED
    BY <2>2, <2>3, <2>4, <2>5, <2>6 DEF StagesInv, SameCalls, Idle
<1>6. ASSUME TurnIsOver, linflight' \subseteq linflight,
             lcut' \subseteq lcut \cup (IF IsIdle THEN Underway ELSE {})
      PROVE  StagesInv'
  <2>1. /\ SameCalls
        /\ \A v \in DOMAIN luses : luses'[v].st =
             IF luses[v].st \in {"starting", "running"} THEN "lost"
             ELSE IF v = ldoing.use /\ luses[v].st = "refused" THEN "unpopped"
             ELSE luses[v].st
    BY <1>6, TurnMoves
  <2>2. ldoing' = Idle /\ ldropped \subseteq ldropped'
    BY <1>6 DEF TurnIsOver
  <2>3. lcut' \subseteq ldropped'
    <3>1. CASE ~IsIdle
      BY <1>6, <2>2, <3>1 DEF StagesInv, LongToolsSurvive
    <3>2. CASE IsIdle
      <4>1. Underway \subseteq ldropped
        BY <3>2 DEF IsIdle, Underway, StagesInv, Idle
      <4> QED
        BY <1>6, <2>2, <3>2, <4>1 DEF StagesInv, LongToolsSurvive
    <3> QED
      BY <3>1, <3>2
  <2>4. \A u \in linflight' : luses'[u].st \in {"running", "lost"}
    BY <1>6, <2>1 DEF StagesInv, LongToolsSurvive, ToolType
  <2>5. \A v \in DOMAIN luses : luses'[v].st \notin {"starting", "running"} /\
          (luses'[v].st = "refused" => luses[v].st = "refused" /\ v # ldoing.use)
    BY <1>0, <2>1
  <2> QED
    BY <2>1, <2>2, <2>3, <2>4, <2>5 DEF StagesInv, SameCalls, LongToolsSurvive, Idle
<1>7. ASSUME UNCHANGED <<luses, ldoing, linflight, ldropped, lcut>>
      PROVE  StagesInv'
  BY <1>7 DEF StagesInv, LongToolsSurvive
<1> QED
  BY <1>1, <1>2, <1>3, <1>4, <1>5, <1>6, <1>7
     DEF ToolNext, TurnStops, WatchdogCuts, ProcessRestarts, ClockTicks

-----------------------------------------------------------------------------
(* The rows *)

LEMMA RowsKeepShape ==
  ASSUME ToolType, RowsShape, luses' \in Seq(UseRecords), DOMAIN luses \subseteq DOMAIN luses',
         \A v \in DOMAIN luses : luses'[v].name = luses[v].name,
         \A v \in DOMAIN luses : luses'[v].st = "starting" => luses[v].st = "starting",
         lrows' = lrows
  PROVE  RowsShape'
BY DEF RowsShape, Own

LEMMA RowBegins ==
  ASSUME ToolType, RowsShape, SameCalls, NEW u \in DOMAIN luses,
         \A v \in DOMAIN luses :
           luses'[v].st = "starting" => luses[v].st = "starting" /\ v # u,
         luses[u].st = "starting", lrows' = Started(u)
  PROVE  /\ RowsShape'
         /\ \A row \in Own' : (row \in Own /\ row.use # u) \/ (row.use = u /\ row.outcome = "none")
<1> DEFINE new == [use |-> u, agent |-> "self", tool |-> PrettyOf[luses[u].name], at |-> lnow,
                   outcome |-> "none"]
<1>1. new \in RowRecords
  <2>1. luses[u] \in UseRecords /\ u \in Nat /\ lnow \in Nat
    BY CallNumbers, ElementOfSeq DEF ToolType
  <2> QED
    BY <2>1 DEF RowRecords, UseRecords
<1>2. new.use = u /\ new.agent = "self" /\ new.tool = PrettyOf[luses[u].name] /\ new.outcome = "none"
  OBVIOUS
<1>3. lrows' = lrows \cup {new}
  BY DEF Started
<1> HIDE DEF new
<1>4. Own' = Own \cup {new}
  BY <1>2, <1>3 DEF Own
<1>5. \A row \in Own : row.use # u
  BY DEF RowsShape
<1>6. \A row \in lrows' \ Own' : row.use = 0
  BY <1>3, <1>4 DEF RowsShape
<1>7. \A row, other \in Own' : row.use = other.use => row = other
  BY <1>2, <1>4, <1>5 DEF RowsShape
<1>8. \A row \in Own : /\ row.use \in DOMAIN luses' /\ luses'[row.use].st # "starting"
                        /\ row.tool = PrettyOf[luses'[row.use].name]
  BY DEF RowsShape, SameCalls
<1>9. /\ new.use \in DOMAIN luses' /\ luses'[new.use].st # "starting"
      /\ new.tool = PrettyOf[luses'[new.use].name]
  BY <1>2 DEF SameCalls
<1>10. lrows' \subseteq RowRecords
  BY <1>1, <1>3 DEF RowsShape
<1>11. RowsShape'
  BY <1>4, <1>6, <1>7, <1>8, <1>9, <1>10 DEF RowsShape
<1>12. \A row \in Own' : row \in Own \/ row = new
  BY <1>4
<1>13. \A row \in Own' : (row \in Own /\ row.use # u) \/ (row.use = u /\ row.outcome = "none")
  <2> SUFFICES ASSUME NEW row \in Own'
               PROVE  (row \in Own /\ row.use # u) \/ (row.use = u /\ row.outcome = "none")
    OBVIOUS
  <2>1. CASE row \in Own
    BY <1>5, <2>1
  <2>2. CASE row = new
    BY <1>2, <2>2
  <2> QED
    BY <1>12, <2>1, <2>2
<1> QED
  BY <1>11, <1>13

LEMMA RowEnds ==
  ASSUME ToolType, RowsShape, SameCalls, NEW u \in DOMAIN luses,
         \A v \in DOMAIN luses : luses'[v].st = "starting" => luses[v].st = "starting",
         lrows' = Finish(u)
  PROVE  /\ RowsShape'
         /\ \A row \in Own' : \/ row \in Own /\ row.use # u
                              \/ row.use = u /\ row.outcome = Outcome(u)
         /\ \A row \in Own' : \E old \in Own :
              old.use = row.use /\ old.tool = row.tool /\ old.at = row.at
<1> DEFINE after(row) == IF row.use = u THEN [row EXCEPT !.outcome = Outcome(u)] ELSE row
<1>1. ASSUME NEW row \in lrows
      PROVE  /\ after(row) \in RowRecords
             /\ after(row).use = row.use /\ after(row).agent = row.agent
             /\ after(row).tool = row.tool /\ after(row).at = row.at
             /\ row.use # u => after(row) = row
             /\ row.use = u => after(row).outcome = Outcome(u)
  <2>1. row \in RowRecords /\ Outcome(u) \in {"none", "ok", "error"}
    BY DEF RowsShape, Outcome
  <2> QED
    BY <2>1 DEF RowRecords
<1>2. lrows' = {after(row) : row \in lrows}
  BY DEF Finish
<1> HIDE DEF after
<1>3. \A row \in lrows' : \E old \in lrows : row = after(old)
  BY <1>2
<1>4. \A row \in Own' : \E old \in Own : row = after(old)
  BY <1>1, <1>3 DEF Own
<1>5. \A row \in lrows' \ Own' : \E old \in lrows \ Own : row = after(old)
  BY <1>1, <1>2 DEF Own
<1>6. lrows' \subseteq RowRecords
  BY <1>1, <1>3
<1>7. \A row \in Own' : \/ row \in Own /\ row.use # u
                        \/ row.use = u /\ row.outcome = Outcome(u)
  BY <1>1, <1>4 DEF Own
<1>8. \A row, other \in Own' : row.use = other.use => row = other
  <2> SUFFICES ASSUME NEW row \in Own', NEW other \in Own', row.use = other.use
               PROVE  row = other
    OBVIOUS
  <2>1. PICK a \in Own : row = after(a)
    BY <1>4
  <2>2. PICK b \in Own : other = after(b)
    BY <1>4
  <2>3. a.use = b.use
    BY <1>1, <2>1, <2>2 DEF Own
  <2> QED
    BY <2>1, <2>2, <2>3 DEF RowsShape
<1>9. \A row \in Own' : \E old \in Own :
        old.use = row.use /\ old.tool = row.tool /\ old.at = row.at
  BY <1>1, <1>4 DEF Own
<1>10. \A row \in lrows' \ Own' : row.use = 0
  BY <1>1, <1>5 DEF RowsShape
<1>11. \A row \in Own' : /\ row.use \in DOMAIN luses' /\ luses'[row.use].st # "starting"
                         /\ row.tool = PrettyOf[luses'[row.use].name]
  BY <1>9 DEF RowsShape, SameCalls
<1> QED
  BY <1>6, <1>7, <1>8, <1>9, <1>10, <1>11 DEF RowsShape

LEMMA RowsStep ==
  ASSUME ToolType, StagesInv, RowsInv, [ToolNext]_toolVars
  PROVE  RowsInv'
<1> USE DEF toolVars
<1>0. /\ RowsShape /\ LedgerTellsOutcome
      /\ \A row \in Own : /\ row.use \in DOMAIN luses /\ row \in lrows /\ row.agent = "self"
                          /\ luses[row.use].st # "starting"
      /\ luses \in Seq(UseRecords)
  BY DEF RowsInv, RowsShape, Own, ToolType
<1>1. ASSUME NEW name \in Names, ToolCallArrives(name)
      PROVE  RowsInv'
  <2>1. PICK use : use = Len(luses) + 1
    OBVIOUS
  <2>2. /\ luses' = Append(luses, [name |-> name, st |-> "starting"])
        /\ ldoing = Idle /\ ldoing' = [use |-> use, at |-> "start"]
        /\ UNCHANGED <<lrows, ldropped>>
    BY <1>1, <2>1 DEF ToolCallArrives
  <2>3. /\ luses' \in Seq(UseRecords) /\ DOMAIN luses \subseteq DOMAIN luses'
        /\ \A v \in DOMAIN luses : luses'[v] = luses[v]
    BY <2>1, <2>2, CallJoins
  <2>4. \A v \in DOMAIN luses : luses[v].st # "starting" /\ ldoing.use # v
    BY <2>2, NothingGoes
  <2>5. RowsShape'
    BY <1>0, <2>2, <2>3, RowsKeepShape
  <2>6. LedgerTellsOutcome'
    BY <1>0, <2>2, <2>3, <2>4 DEF LedgerTellsOutcome, Outcome, Underway, Own
  <2> QED
    BY <2>2, <2>5, <2>6 DEF RowsInv
<1>2. CASE ActionStarts
  <2>1. PICK u \in DOMAIN luses : ldoing.use = u
    BY <1>2 DEF ActionStarts, ToolType, Idle
  <2>2. luses[u].st = "starting"
    BY <1>2, <2>1 DEF ActionStarts, StagesInv
  <2>3. /\ SameCalls
        /\ \A v \in DOMAIN luses : luses'[v].st = IF v = u THEN "running" ELSE luses[v].st
    BY <1>2, <2>1, SetStateMoves DEF ActionStarts
  <2>4. ldoing' = Idle /\ ldropped \subseteq ldropped'
    BY <1>2 DEF ActionStarts
  <2>5. /\ RowsShape'
        /\ \A row \in Own' : (row \in Own /\ row.use # u) \/ (row.use = u /\ row.outcome = "none")
    <3>1. CASE lrows' = Started(u)
      BY <1>0, <2>2, <2>3, <3>1, RowBegins
    <3>2. CASE lrows' = lrows
      <4>1. RowsShape'
        BY <1>0, <2>3, <3>2, RowsKeepShape DEF SameCalls
      <4> QED
        BY <1>0, <2>2, <3>2, <4>1 DEF Own
    <3> QED
      BY <1>2, <2>1, <3>1, <3>2 DEF ActionStarts
  <2>6. LedgerTellsOutcome'
    BY <1>0, <2>1, <2>3, <2>4, <2>5 DEF LedgerTellsOutcome, Outcome, Underway, Own, SameCalls
  <2> QED
    BY <2>4, <2>5, <2>6 DEF RowsInv, Idle
<1>3. ASSUME NEW u \in DOMAIN luses, ResultArrives(u)
      PROVE  RowsInv'
  <2>1. PICK out \in Results[luses[u].name] :
          /\ luses' = SetState(u, out)
          /\ ldoing' = IF u \in linflight THEN [use |-> u, at |-> "finish"]
                       ELSE AfterFinish(u, out)
    BY <1>3 DEF ResultArrives
  <2>2. out \in {"ok", "error", "refused"}
    <3>1. luses[u] \in UseRecords
      BY <1>0, <1>3, ElementOfSeq
    <3> QED
      BY <2>1, <3>1, ToolCallsAssumption DEF UseRecords
  <2>3. /\ SameCalls
        /\ \A v \in DOMAIN luses : luses'[v].st = IF v = u THEN out ELSE luses[v].st
    BY <2>1, <2>2, SetStateMoves
  <2>4. ldoing = Idle /\ luses[u].st = "running" /\ UNCHANGED <<lrows, ldropped>>
    BY <1>3 DEF ResultArrives
  <2>5. ldoing'.use = u \/ u \in ldropped
    BY <2>1, <2>4 DEF AfterFinish, StagesInv
  <2>6. ldoing'.at = "pop" => ldoing'.use = u /\ u \in ldropped
    BY <2>1, <2>4 DEF AfterFinish, StagesInv, Idle
  <2>7. RowsShape'
    BY <1>0, <2>2, <2>3, <2>4, RowsKeepShape DEF SameCalls
  <2>8. LedgerTellsOutcome'
    <3>1. \A v \in DOMAIN luses : ldoing.use # v
      BY <2>4, NothingGoes
    <3> QED
      BY <1>0, <2>3, <2>4, <2>5, <3>1
         DEF LedgerTellsOutcome, Outcome, Underway, Own, SameCalls
  <2> QED
    BY <2>4, <2>6, <2>7, <2>8 DEF RowsInv
<1>4. CASE ActionFinishes
  <2>1. PICK u \in DOMAIN luses : ldoing.use = u
    BY <1>4 DEF ActionFinishes, ToolType, Idle
  <2>2. /\ ldoing.at = "finish" /\ ldoing' = AfterFinish(u, luses[u].st) /\ luses' = luses
        /\ luses[u].st \in {"ok", "error", "refused"}
    BY <1>4, <2>1 DEF ActionFinishes, StagesInv
  <2>3. SameCalls
    BY <2>2, CallsUnchanged
  <2>4. /\ RowsShape' /\ ldropped \subseteq ldropped'
        /\ \/ \A row \in Own' : (row \in Own /\ row.use # u) \/
                                (row.use = u /\ row.outcome = Outcome(u))
           \/ u \in ldropped' /\ \A row \in Own' : row \in Own
    <3>1. CASE lrows' = Finish(u) /\ ldropped' = ldropped
      <4>1. /\ RowsShape'
            /\ \A row \in Own' : \/ row \in Own /\ row.use # u
                                 \/ row.use = u /\ row.outcome = Outcome(u)
        BY <1>0, <2>2, <2>3, <3>1, RowEnds
      <4> QED
        BY <3>1, <4>1
    <3>2. CASE lrows' = lrows /\ ldropped' = ldropped \cup {u}
      <4>1. RowsShape'
        BY <1>0, <2>2, <2>3, <3>2, RowsKeepShape DEF SameCalls
      <4> QED
        BY <3>2, <4>1 DEF Own
    <3> QED
      BY <1>4, <2>1, <3>1, <3>2 DEF ActionFinishes
  <2>5. ldoing'.at = "pop" => ldoing'.use = u
    BY <2>2 DEF AfterFinish, Idle
  <2>6. \A row \in Own' : row.outcome # "none" \/ row.use # u \/ u \in ldropped'
    BY <2>4 DEF Outcome
  <2>7. LedgerTellsOutcome'
    <3> SUFFICES ASSUME NEW row \in Own'
                 PROVE  \/ /\ row.outcome = Outcome(row.use)
                           /\ luses[row.use].st \in {"ok", "error", "refused", "unpopped"}
                        \/ /\ row.outcome = "none"
                           /\ \/ row.use \in Underway \cup ldropped'
                              \/ luses[row.use].st = "lost"
      BY <2>2 DEF LedgerTellsOutcome, Own, Outcome, Underway
    <3>1. CASE row \in Own /\ (row.use # u \/ u \in ldropped')
      BY <1>0, <2>1, <2>4, <3>1 DEF LedgerTellsOutcome
    <3>2. CASE row.use = u /\ row.outcome = Outcome(u)
      BY <2>2, <3>2
    <3> QED
      BY <2>4, <3>1, <3>2
  <2> QED
    BY <2>4, <2>5, <2>6, <2>7 DEF RowsInv
<1>5. CASE LoopEntryPops
  <2>1. PICK u \in DOMAIN luses : ldoing.use = u
    BY <1>5 DEF LoopEntryPops, ToolType, Idle
  <2>2. ldoing.at = "pop" /\ ldoing' = Idle /\ UNCHANGED <<lrows, ldropped>>
    BY <1>5 DEF LoopEntryPops
  <2>3. /\ SameCalls
        /\ \A v \in DOMAIN luses : luses'[v].st = luses[v].st \/
             (luses[v].st = "refused" /\ luses'[v].st = "unpopped")
    <3>1. CASE luses[u].st = "refused" /\ (Native \/ u \notin lindex)
      <4>1. luses' = SetState(u, "unpopped")
        BY <1>5, <2>1, <3>1 DEF LoopEntryPops
      <4> QED
        BY <3>1, <4>1, SetStateMoves
    <3>2. CASE ~(luses[u].st = "refused" /\ (Native \/ u \notin lindex))
      <4>1. luses' = luses
        BY <1>5, <2>1, <3>2 DEF LoopEntryPops
      <4> QED
        BY <4>1, CallsUnchanged
    <3> QED
      BY <3>1, <3>2
  <2>4. RowsShape'
    BY <1>0, <2>2, <2>3, RowsKeepShape DEF SameCalls
  <2>5. \A row \in Own : row.use = u /\ row.outcome = "none" => u \in ldropped
    BY <2>1, <2>2 DEF RowsInv
  <2>6. LedgerTellsOutcome'
    BY <1>0, <2>1, <2>2, <2>3, <2>5
       DEF LedgerTellsOutcome, Outcome, Underway, Own, SameCalls
  <2> QED
    BY <2>2, <2>4, <2>6 DEF RowsInv, Idle
<1>6. CASE TurnIsOver
  <2>1. /\ SameCalls
        /\ \A v \in DOMAIN luses : luses'[v].st =
             IF luses[v].st \in {"starting", "running"} THEN "lost"
             ELSE IF v = ldoing.use /\ luses[v].st = "refused" THEN "unpopped"
             ELSE luses[v].st
    BY <1>6, TurnMoves
  <2>2. /\ ldoing' = Idle /\ ldropped \subseteq ldropped'
        /\ \A row \in Own : row.use = ldoing.use => row.use \in ldropped'
    BY <1>0, <1>6, NothingGoes DEF TurnIsOver
  <2>3. \A v \in DOMAIN luses : luses'[v].st # "starting"
    BY <2>1
  <2>4. PICK u : u = ldoing.use
    OBVIOUS
  <2>5. /\ RowsShape'
        /\ \A row \in Own' :
             \/ row \in Own
             \/ row.use = u /\ luses[u].st = "starting" /\ row.outcome = "none"
             \/ /\ row.use = u /\ row.outcome = Outcome(u)
                /\ luses[u].st \in {"ok", "error", "refused"}
    <3>1. CASE lrows' = lrows
      <4>1. RowsShape'
        BY <1>0, <2>1, <2>3, <3>1, RowsKeepShape DEF SameCalls
      <4> QED
        BY <3>1, <4>1 DEF Own
    <3>2. CASE ldoing.at = "start" /\ lrows' = Started(u)
      <4>1. u \in DOMAIN luses /\ luses[u].st = "starting"
        BY <2>4, <3>2 DEF ToolType, StagesInv, Idle
      <4> QED
        BY <1>0, <2>1, <2>3, <3>2, <4>1, RowBegins
    <3>3. CASE ldoing.at = "finish" /\ lrows' = Finish(u)
      <4>1. u \in DOMAIN luses /\ luses[u].st \in {"ok", "error", "refused"}
        BY <2>4, <3>3 DEF ToolType, StagesInv, Idle
      <4>2. /\ RowsShape'
            /\ \A row \in Own' : \/ row \in Own /\ row.use # u
                                 \/ row.use = u /\ row.outcome = Outcome(u)
        BY <1>0, <2>1, <2>3, <3>3, <4>1, RowEnds
      <4> QED
        BY <4>1, <4>2
    <3> QED
      BY <1>6, <2>4, <3>1, <3>2, <3>3 DEF TurnIsOver
  <2>6. LedgerTellsOutcome'
    <3> SUFFICES ASSUME NEW row \in Own'
                 PROVE  \/ /\ row.outcome = Outcome(row.use)'
                           /\ luses'[row.use].st \in {"ok", "error", "refused", "unpopped"}
                        \/ /\ row.outcome = "none"
                           /\ row.use \in ldropped' \/ luses'[row.use].st = "lost"
      BY DEF LedgerTellsOutcome, Own
    <3>1. row.use \in DOMAIN luses
      BY <2>1, <2>5 DEF RowsShape, SameCalls
    <3>2. CASE row \in Own
      <4>1. \/ row.outcome = Outcome(row.use) /\ luses[row.use].st \in {"ok", "error", "refused", "unpopped"}
            \/ /\ row.outcome = "none"
               /\ \/ row.use \in Underway \cup {ldoing.use} \cup ldropped
                  \/ luses[row.use].st = "lost"
        BY <1>0, <3>2 DEF LedgerTellsOutcome
      <4>2. row.use \in Underway => luses'[row.use].st = "lost"
        BY <2>1 DEF Underway
      <4>3. Outcome(row.use) = Outcome(row.use)' \/ luses[row.use].st \in {"starting", "running"}
        BY <2>1, <3>1 DEF Outcome
      <4> QED
        BY <2>1, <2>2, <3>1, <3>2, <4>1, <4>2, <4>3
    <3>3. CASE row.use = u /\ luses[u].st = "starting" /\ row.outcome = "none"
      BY <2>1, <3>1, <3>3
    <3>4. CASE row.use = u /\ row.outcome = Outcome(u) /\ luses[u].st \in {"ok", "error", "refused"}
      BY <2>1, <3>1, <3>4 DEF Outcome
    <3> QED
      BY <2>5, <3>2, <3>3, <3>4
  <2> QED
    BY <2>2, <2>5, <2>6 DEF RowsInv, Idle
<1>7. CASE UNCHANGED <<luses, ldoing, lrows, ldropped>>
  <2>1. RowsShape'
    BY <1>0, <1>7, RowsKeepShape
  <2> QED
    BY <1>7, <2>1 DEF RowsInv, LedgerTellsOutcome, Outcome, Underway, Own
<1> QED
  BY <1>1, <1>2, <1>3, <1>4, <1>5, <1>6, <1>7
     DEF ToolNext, TurnStops, WatchdogCuts, ProcessRestarts, ClockTicks

-----------------------------------------------------------------------------
(* The ring *)

LEMMA CallsAreFinite ==
  ASSUME ToolType
  PROVE  /\ IsFiniteSet(DOMAIN luses) /\ IsFiniteSet(lring)
         /\ \A key : IsFiniteSet(Held(key)) /\ IsFiniteSet(Counted(key))
<1>1. IsFiniteSet(DOMAIN luses)
  BY CallNumbers, FS_Interval
<1>2. IsFiniteSet(lring)
  BY <1>1, FS_Subset DEF ToolType
<1>3. ASSUME NEW key
      PROVE  IsFiniteSet(Held(key)) /\ IsFiniteSet(Counted(key))
  <2>1. Held(key) \subseteq DOMAIN luses /\ Counted(key) \subseteq DOMAIN luses
    BY DEF Held, Counted, ToolType
  <2> QED
    BY <1>1, <2>1, FS_Subset
<1> QED
  BY <1>1, <1>2, <1>3

(* A ring that takes nothing in stays as it was, if no call ceases to count. *)
LEMMA RingShrinks ==
  ASSUME ToolType, RingCounts, SameCalls, lring' \subseteq lring,
         NEW key \in ToolKeys, Counted(key) \subseteq Counted(key)'
  PROVE  /\ Cardinality(Held(key)') < LoopThreshold
         /\ Cardinality(Held(key)') <= Cardinality(Counted(key)')
<1>1. Held(key)' \subseteq Held(key)
  BY DEF Held, SameCalls, ToolType
<1>2. /\ IsFiniteSet(Held(key)) /\ IsFiniteSet(Counted(key)')
  <2>1. Counted(key)' \subseteq DOMAIN luses
    BY DEF Counted, SameCalls
  <2> QED
    BY <2>1, CallsAreFinite, FS_Subset
<1>3. /\ Cardinality(Held(key)') <= Cardinality(Held(key))
      /\ Cardinality(Counted(key)) <= Cardinality(Counted(key)')
      /\ Cardinality(Held(key)) \in Nat /\ Cardinality(Held(key)') \in Nat
      /\ Cardinality(Counted(key)) \in Nat /\ Cardinality(Counted(key)') \in Nat
  BY <1>1, <1>2, PartCounts
<1>4. /\ Cardinality(Held(key)) < LoopThreshold
      /\ Cardinality(Held(key)) <= Cardinality(Counted(key))
  BY DEF RingCounts
<1>5. LoopThreshold \in Nat
  BY ToolCallsAssumption
<1> QED
  BY <1>3, <1>4, <1>5

(* Rows are of calls that were made and not refused, between two messages.  *)
LEMMA RecentAreReal ==
  ASSUME ToolType, StagesInv, RowsInv, ldoing = Idle, NEW name \in Names
  PROVE  /\ Real(BareOf[name]) \in Nat /\ CountRecent(BareOf[name]) \in Nat
         /\ CountRecent(BareOf[name]) <= Real(BareOf[name])
<1> DEFINE key == BareOf[name]
           rows == {row \in lrows : /\ row.tool = key /\ row.at >= lnow - CrossWindow
                                    /\ row.agent = "self"}
           calls == {u \in DOMAIN luses : Key(u) = key /\ luses[u].st # "refused"}
<1>1. \A row \in rows : row \in Own
  BY DEF Own
<1>2. ASSUME NEW row \in rows
      PROVE  row.use \in calls
  <2>1. PICK u \in DOMAIN luses : row.use = u /\ PrettyOf[luses[u].name] = key
    BY <1>1 DEF RowsInv, RowsShape
  <2>2. luses[u].name \in Names
    <3>1. luses[u] \in UseRecords
      BY CallNumbers, ElementOfSeq DEF ToolType
    <3> QED
      BY <3>1 DEF UseRecords
  <2>3. /\ BareOf[luses[u].name] = key
        /\ Native \/ "refused" \notin Results[luses[u].name]
    BY <2>1, <2>2, ToolCallsAssumption
  <2>4. luses[u].st # "refused"
    <3>1. ldoing.use # u
      BY NothingGoes
    <3> QED
      BY <2>3, <3>1 DEF StagesInv
  <2> QED
    BY <2>1, <2>3, <2>4 DEF Key
<1>3. IsFiniteSet(calls)
  BY CallsAreFinite, FS_Subset
<1>4. \A x, y \in rows : x.use = y.use => x = y
  BY <1>1 DEF RowsInv, RowsShape
<1> HIDE DEF rows, calls
<1>5. Cardinality(rows) \in Nat /\ Cardinality(calls) \in Nat
      /\ Cardinality(rows) <= Cardinality(calls)
  BY <1>2, <1>3, <1>4, CountInto
<1> QED
  BY <1>5 DEF Real, CountRecent, rows, calls

(* A call comes, of a key that can loop: what the ring holds then.          *)
LEMMA RingTakes ==
  ASSUME ToolType, StagesInv, RowsInv, RingInv, NEW name \in Names,
         NEW use, use = Len(luses) + 1,
         ldoing = Idle, ldoing' = [use |-> use, at |-> "start"],
         luses' = Append(luses, [name |-> name, st |-> "starting"]),
         BareOf[name] \notin Polling, CheckLoop(BareOf[name], use)
  PROVE  RingInv'
<1> DEFINE mine == BareOf[name]
           ring == Entered(lring, use, LoopWindow)
           alike == {u \in ring : u = use \/ Key(u) = mine}
<1>0. /\ LoopThreshold \in Nat /\ LoopThreshold >= 2
      /\ mine \in ToolKeys
  BY ToolCallsAssumption DEF ToolKeys
<1>1. /\ DOMAIN luses' = DOMAIN luses \cup {use} /\ use \notin DOMAIN luses
      /\ \A v \in DOMAIN luses : luses'[v] = luses[v] /\ Key(v)' = Key(v)
      /\ luses'[use].st = "starting" /\ Key(use)' = mine
  BY CallJoins
<1>2. \A v \in DOMAIN luses : luses[v].st # "starting" /\ ldoing.use # v
  BY NothingGoes
<1>3. ring \subseteq lring \cup {use}
  BY EnteredAmong
<1>4. alike \in SUBSET (Held(mine) \cup {use})
  BY <1>3 DEF Held
<1>5. /\ Counted(mine) = {u \in DOMAIN luses : Key(u) = mine /\ luses[u].st # "refused"}
      /\ Counted(mine)' = Counted(mine) \cup {use} /\ use \notin Counted(mine)
  <2>1. Counted(mine) = {u \in DOMAIN luses : Key(u) = mine /\ luses[u].st # "refused"}
    BY <1>2 DEF Counted
  <2>2. \A u : u \in Counted(mine)' <=> u \in Counted(mine) \cup {use}
    BY <1>1, <2>1 DEF Counted
  <2>3. use \notin Counted(mine)
    BY <1>1 DEF Counted
  <2> QED
    BY <2>1, <2>2, <2>3
<1>6. /\ Cardinality(Counted(mine)) = Real(mine) /\ Real(mine) \in Nat
      /\ Cardinality(Counted(mine)') = Real(mine) + 1
  <2>1. IsFiniteSet(Counted(mine))
    BY CallsAreFinite
  <2> QED
    BY <1>5, <2>1, FS_AddElement, FS_CardinalityType DEF Real
<1> HIDE DEF alike, ring
<1>7. /\ Cardinality(alike) \in Nat /\ Cardinality(alike) <= Real(mine) + 1
  <2>1. IsFiniteSet(Held(mine))
    BY CallsAreFinite
  <2>2. /\ Cardinality(alike) \in Nat /\ Cardinality(Held(mine)) \in Nat
        /\ Cardinality(alike) <= Cardinality(Held(mine)) + 1
    BY <1>4, <2>1, CountOneMore
  <2>3. Cardinality(Held(mine)) <= Real(mine)
    BY <1>0, <1>6 DEF RingInv, RingCounts
  <2> QED
    BY <1>6, <2>2, <2>3
<1>8. /\ \A q \in lasked' : q.calls >= LoopThreshold
      /\ \A key \in lreported' : \E q \in lasked' : q.key = key
  <2>1. \/ lreported' = lreported /\ lasked' = lasked
        \/ Report(mine) /\ Real(mine) + 1 >= LoopThreshold
    <3>1. CASE Cardinality(alike) >= LoopThreshold /\ Report(mine)
      BY <1>0, <1>6, <1>7, <3>1
    <3>2. CASE CountRecent(mine) + 1 >= LoopThreshold /\ Report(mine)
      BY <1>0, <3>2, RecentAreReal
    <3> QED
      BY <3>1, <3>2 DEF CheckLoop, alike, ring
  <2>2. /\ \A q \in lasked : q.calls >= LoopThreshold
        /\ \A key \in lreported : \E q \in lasked : q.key = key
    BY DEF RingInv, NoFalseQuestion, Asked
  <2>3. CASE Report(mine) /\ Real(mine) + 1 >= LoopThreshold
    <3>1. \E q \in lasked' : q.key = mine
      <4>1. CASE mine \in lreported
        BY <2>2, <2>3, <4>1 DEF Report
      <4>2. CASE mine \notin lreported
        <5>1. [key |-> mine, calls |-> Real(mine) + 1] \in lasked'
          BY <2>3, <4>2 DEF Report
        <5>2. [key |-> mine, calls |-> Real(mine) + 1].key = mine
          OBVIOUS
        <5> QED
          BY <5>1, <5>2
      <4> QED
        BY <4>1, <4>2
    <3>2. \A q \in lasked' : q \in lasked \/ q.calls = Real(mine) + 1
      BY <2>3 DEF Report
    <3>3. lreported' = lreported \cup {mine} /\ lasked \subseteq lasked'
      BY <2>3 DEF Report
    <3> QED
      BY <2>2, <2>3, <3>1, <3>2, <3>3
  <2> QED
    BY <2>1, <2>2, <2>3
<1>9. lring' = {} \/ (lring' = ring /\ Cardinality(alike) < LoopThreshold)
  <2>1. lring' = IF Cardinality(alike) >= LoopThreshold THEN {} ELSE ring
    BY DEF CheckLoop, alike, ring
  <2> QED
    BY <1>0, <1>7, <2>1
<1>10. \A u \in lring' : Key(u)' \notin Polling
  <2>1. \A u \in lring' : u = use \/ u \in lring
    BY <1>3, <1>9
  <2> QED
    BY <1>1, <2>1 DEF RingInv, ToolType
<1>11. ASSUME NEW key \in ToolKeys
       PROVE  /\ Cardinality(Held(key)') < LoopThreshold
              /\ Cardinality(Held(key)') <= Cardinality(Counted(key)')
  <2>0. /\ IsFiniteSet(Counted(key)') /\ Cardinality(Counted(key)') \in Nat
        /\ Cardinality(Counted(key)) \in Nat
        /\ Cardinality(Counted(key)) <= Cardinality(Counted(key)')
    <3>1. Counted(key) \subseteq Counted(key)'
      BY <1>1, <1>2 DEF Counted
    <3>2. Counted(key)' \subseteq DOMAIN luses \cup {use}
      BY <1>1 DEF Counted
    <3>3. IsFiniteSet(Counted(key)')
      BY <3>2, CallsAreFinite, FS_AddElement, FS_Subset
    <3> QED
      BY <3>1, <3>3, PartCounts
  <2>1. CASE lring' = {}
    <3>1. Held(key)' = {}
      BY <2>1 DEF Held
    <3> QED
      BY <1>0, <2>0, <3>1, FS_EmptySet
  <2>2. CASE lring' = ring /\ Cardinality(alike) < LoopThreshold /\ key = mine
    <3>1. Held(key)' = alike
      <4>1. \A u \in ring : Key(u)' = mine <=> u = use \/ Key(u) = mine
        BY <1>1, <1>3 DEF ToolType
      <4> QED
        BY <2>2, <4>1 DEF Held, alike
    <3> QED
      BY <1>6, <1>7, <2>2, <3>1
  <2>3. CASE lring' = ring /\ key # mine
    <3>1. Held(key)' \subseteq Held(key)
      BY <1>1, <1>3, <2>3 DEF Held, ToolType
    <3>2. IsFiniteSet(Held(key))
      BY CallsAreFinite
    <3>3. /\ Cardinality(Held(key)') <= Cardinality(Held(key))
          /\ Cardinality(Held(key)) \in Nat /\ Cardinality(Held(key)') \in Nat
      BY <3>1, <3>2, PartCounts
    <3>4. /\ Cardinality(Held(key)) < LoopThreshold
          /\ Cardinality(Held(key)) <= Cardinality(Counted(key))
      BY DEF RingInv, RingCounts
    <3> QED
      BY <1>0, <2>0, <3>3, <3>4
  <2> QED
    BY <1>9, <2>1, <2>2, <2>3
<1> QED
  BY <1>8, <1>10, <1>11 DEF RingInv, RingCounts, NoFalseQuestion, Asked

(* A refused call takes the latest entry of its key along.                  *)
LEMMA RingGives ==
  ASSUME ToolType, RingInv, NEW u \in DOMAIN luses, ldoing.use = u, ldoing' = Idle,
         luses[u].st = "refused", luses' = luses, lring' = DropLatest(lring, Key(u)),
         UNCHANGED <<lreported, lasked>>
  PROVE  RingInv'
<1> PICK mine : mine = Key(u)
  OBVIOUS
<1>1. \A v : Key(v)' = Key(v)
  BY DEF Key
<1>2. lring' \subseteq lring
  BY DEF DropLatest
<1>3. SameCalls
  BY CallsUnchanged
<1>4. ASSUME NEW key \in ToolKeys
      PROVE  /\ Cardinality(Held(key)') < LoopThreshold
             /\ Cardinality(Held(key)') <= Cardinality(Counted(key)')
  <2>1. CASE key # mine
    <3>1. Counted(key) \subseteq Counted(key)'
      BY <1>1, <2>1 DEF Counted
    <3> QED
      BY <1>2, <1>3, <3>1, RingShrinks DEF RingInv
  <2>2. CASE key = mine
    <3>0. /\ IsFiniteSet(Held(key)) /\ IsFiniteSet(Counted(key))
          /\ Cardinality(Held(key)) \in Nat /\ Cardinality(Counted(key)) \in Nat
          /\ LoopThreshold \in Nat /\ LoopThreshold >= 2
          /\ Cardinality(Held(key)) < LoopThreshold
          /\ Cardinality(Held(key)) <= Cardinality(Counted(key))
      BY CallsAreFinite, FS_CardinalityType, ToolCallsAssumption DEF RingInv, RingCounts
    <3>1. Counted(key)' = Counted(key) \ {u} /\ u \in Counted(key)
      <4>1. u \in Counted(key)
        BY <2>2 DEF Counted
      <4>2. \A v : v \in Counted(key)' <=> v \in Counted(key) \ {u}
        <5>1. \A v \in DOMAIN luses : ldoing'.use # v
          BY CallNumbers DEF Idle
        <5> QED
          BY <1>1, <2>2, <5>1 DEF Counted
      <4> QED
        BY <4>1, <4>2
    <3>2. Cardinality(Counted(key)') = Cardinality(Counted(key)) - 1
      <4>1. Cardinality(Counted(key) \ {u}) = Cardinality(Counted(key)) - 1
        BY <3>0, <3>1, FS_RemoveElement
      <4> QED
        BY <3>1, <4>1
    <3>3. CASE Held(key) = {}
      <4>1. Held(key)' = {}
        BY <1>1, <1>2, <3>3 DEF Held
      <4>2. Cardinality(Counted(key)) # 0
        BY <3>0, <3>1, FS_EmptySet
      <4> QED
        BY <3>0, <3>2, <4>1, <4>2, FS_EmptySet
    <3>4. CASE Held(key) # {}
      <4>1. Held(key) \in SUBSET Nat /\ \A v \in Held(key) : v <= Len(luses)
        BY CallNumbers DEF Held, ToolType
      <4>2. PICK last \in Held(key) : \A v \in Held(key) : v <= last
        BY <3>4, <4>1, CallNumbers, Greatest
      <4>3. Held(key)' \subseteq Held(key) \ {last}
        <5>1. \A v \in lring' : ~(Key(v) = mine /\ \A w \in lring : Key(w) = mine => w <= v)
          BY DEF DropLatest
        <5>2. last \notin lring'
          BY <2>2, <4>2, <5>1 DEF Held
        <5> QED
          BY <1>1, <1>2, <5>2 DEF Held
      <4>4. /\ IsFiniteSet(Held(key) \ {last})
            /\ Cardinality(Held(key) \ {last}) = Cardinality(Held(key)) - 1
        BY <3>0, <4>2, FS_RemoveElement
      <4>5. /\ Cardinality(Held(key)') <= Cardinality(Held(key) \ {last})
            /\ Cardinality(Held(key)') \in Nat
        BY <4>3, <4>4, PartCounts
      <4> QED
        BY <3>0, <3>2, <4>4, <4>5
    <3> QED
      BY <3>3, <3>4
  <2> QED
    BY <2>1, <2>2
<1> QED
  BY <1>1, <1>2, <1>4 DEF RingInv, RingCounts, NoFalseQuestion, Asked

(* Nothing enters the ring, and what counts goes on counting.               *)
LEMMA RingStays ==
  ASSUME ToolType, RingInv, SameCalls, lring' \subseteq lring,
         lreported' \subseteq lreported, lasked' = lasked,
         \A v \in DOMAIN luses : luses[v].st # "refused" \/ ldoing.use = v =>
           luses'[v].st # "refused" \/ ldoing'.use = v
  PROVE  RingInv'
<1>1. \A key \in ToolKeys : Counted(key) \subseteq Counted(key)'
  BY DEF Counted, SameCalls
<1>2. RingCounts'
  BY <1>1, RingShrinks DEF RingInv, RingCounts
<1>3. \A u \in lring' : Key(u)' \notin Polling
  BY DEF RingInv, SameCalls, ToolType
<1> QED
  BY <1>2, <1>3 DEF RingInv, NoFalseQuestion, Asked

LEMMA RingStep ==
  ASSUME ToolType, StagesInv, RowsInv, RingInv, [ToolNext]_toolVars
  PROVE  RingInv'
<1> USE DEF toolVars
<1>0. luses \in Seq(UseRecords) /\ \A v \in DOMAIN luses : v # 0
  BY CallNumbers DEF ToolType
<1>1. ASSUME NEW name \in Names, ToolCallArrives(name)
      PROVE  RingInv'
  <2>1. PICK use : use = Len(luses) + 1
    OBVIOUS
  <2>2. /\ luses' = Append(luses, [name |-> name, st |-> "starting"])
        /\ ldoing = Idle /\ ldoing' = [use |-> use, at |-> "start"]
    BY <1>1, <2>1 DEF ToolCallArrives
  <2>3. CASE BareOf[name] \notin Polling /\ CheckLoop(BareOf[name], use)
    BY <2>1, <2>2, <2>3, RingTakes
  <2>4. CASE UNCHANGED <<lring, lreported, lasked>>
    <3>1. /\ DOMAIN luses' = DOMAIN luses \cup {use} /\ use \notin DOMAIN luses
          /\ \A v \in DOMAIN luses : luses'[v] = luses[v] /\ Key(v)' = Key(v)
      BY <2>1, <2>2, CallJoins
    <3>2. \A v \in DOMAIN luses : ldoing.use # v
      BY <2>2, NothingGoes
    <3>3. ASSUME NEW key \in ToolKeys
          PROVE  /\ Cardinality(Held(key)') < LoopThreshold
                 /\ Cardinality(Held(key)') <= Cardinality(Counted(key)')
      <4>1. Held(key)' = Held(key)
        BY <2>4, <3>1 DEF Held, ToolType
      <4>2. /\ Counted(key) \subseteq Counted(key)' /\ Counted(key)' \subseteq DOMAIN luses \cup {use}
        BY <3>1, <3>2 DEF Counted
      <4>3. IsFiniteSet(Counted(key)')
        BY <4>2, CallsAreFinite, FS_AddElement, FS_Subset
      <4>4. /\ Cardinality(Counted(key)) \in Nat /\ Cardinality(Counted(key)') \in Nat
            /\ Cardinality(Counted(key)) <= Cardinality(Counted(key)')
        BY <4>2, <4>3, PartCounts
      <4>5. Cardinality(Held(key)) \in Nat
        BY CallsAreFinite, FS_CardinalityType
      <4>6. /\ Cardinality(Held(key)) < LoopThreshold
            /\ Cardinality(Held(key)) <= Cardinality(Counted(key))
        BY DEF RingInv, RingCounts
      <4> QED
        BY <4>1, <4>4, <4>5, <4>6
    <3>4. \A u \in lring' : Key(u)' \notin Polling
      BY <2>4, <3>1 DEF RingInv, ToolType
    <3> QED
      BY <2>4, <3>3, <3>4 DEF RingInv, RingCounts, NoFalseQuestion, Asked
  <2> QED
    BY <1>1, <2>1, <2>3, <2>4 DEF ToolCallArrives
<1>2. CASE ActionStarts
  <2>1. PICK u \in DOMAIN luses : ldoing.use = u
    BY <1>2 DEF ActionStarts, ToolType, Idle
  <2>2. luses[u].st = "starting"
    BY <1>2, <2>1 DEF ActionStarts, StagesInv
  <2>3. /\ SameCalls
        /\ \A v \in DOMAIN luses : luses'[v].st = IF v = u THEN "running" ELSE luses[v].st
    BY <1>2, <2>1, SetStateMoves DEF ActionStarts
  <2>4. UNCHANGED <<lring, lreported, lasked>>
    BY <1>2 DEF ActionStarts
  <2> QED
    BY <2>1, <2>3, <2>4, RingStays
<1>3. ASSUME NEW u \in DOMAIN luses, ResultArrives(u)
      PROVE  RingInv'
  <2>1. PICK out \in Results[luses[u].name] :
          /\ luses' = SetState(u, out)
          /\ ldoing' = IF u \in linflight THEN [use |-> u, at |-> "finish"]
                       ELSE AfterFinish(u, out)
    BY <1>3 DEF ResultArrives
  <2>2. out \in {"ok", "error", "refused"}
    <3>1. luses[u] \in UseRecords
      BY <1>0, <1>3, ElementOfSeq
    <3> QED
      BY <2>1, <3>1, ToolCallsAssumption DEF UseRecords
  <2>3. /\ SameCalls
        /\ \A v \in DOMAIN luses : luses'[v].st = IF v = u THEN out ELSE luses[v].st
    BY <2>1, <2>2, SetStateMoves
  <2>4. ldoing = Idle /\ UNCHANGED <<lring, lreported, lasked>>
    BY <1>3 DEF ResultArrives
  <2>5. out = "refused" => ldoing'.use = u
    BY <2>1 DEF AfterFinish
  <2>6. \A v \in DOMAIN luses : ldoing.use # v
    BY <2>4, NothingGoes
  <2> QED
    BY <2>3, <2>4, <2>5, <2>6, RingStays
<1>4. CASE ActionFinishes
  <2>1. PICK u \in DOMAIN luses : ldoing.use = u
    BY <1>4 DEF ActionFinishes, ToolType, Idle
  <2>2. /\ ldoing' = AfterFinish(u, luses[u].st) /\ luses' = luses
        /\ UNCHANGED <<lring, lreported, lasked>>
    BY <1>4, <2>1 DEF ActionFinishes
  <2>3. luses[u].st = "refused" => ldoing'.use = u
    BY <2>2 DEF AfterFinish
  <2>4. SameCalls
    BY <2>2, CallsUnchanged
  <2> QED
    BY <2>1, <2>2, <2>3, <2>4, RingStays
<1>5. CASE LoopEntryPops
  <2>1. PICK u \in DOMAIN luses : ldoing.use = u
    BY <1>5 DEF LoopEntryPops, ToolType, Idle
  <2>2. ldoing' = Idle /\ UNCHANGED <<lreported, lasked>>
    BY <1>5 DEF LoopEntryPops
  <2>3. CASE luses[u].st = "refused" /\ ~Native /\ u \in lindex
    <3>1. luses' = luses /\ lring' = DropLatest(lring, Key(u))
      BY <1>5, <2>1, <2>3 DEF LoopEntryPops, PopRefused
    <3> QED
      BY <2>1, <2>2, <2>3, <3>1, RingGives
  <2>4. CASE luses[u].st = "refused" /\ (Native \/ u \notin lindex)
    <3>1. luses' = SetState(u, "unpopped") /\ lring' \subseteq lring
      BY <1>5, <2>1, <2>4 DEF LoopEntryPops, PopRefused
    <3>2. /\ SameCalls
          /\ \A v \in DOMAIN luses : luses'[v].st = IF v = u THEN "unpopped" ELSE luses[v].st
      BY <3>1, SetStateMoves
    <3> QED
      BY <2>1, <2>2, <3>1, <3>2, RingStays
  <2>5. CASE luses[u].st # "refused"
    <3>1. luses' = luses /\ lring' = lring
      BY <1>5, <2>1, <2>5 DEF LoopEntryPops
    <3>2. SameCalls
      BY <3>1, CallsUnchanged
    <3> QED
      BY <2>1, <2>2, <2>5, <3>1, <3>2, RingStays
  <2> QED
    BY <2>3, <2>4, <2>5
<1>6. ASSUME TurnIsOver, lring' \subseteq lring, lreported' \subseteq lreported, lasked' = lasked
      PROVE  RingInv'
  <2>1. /\ SameCalls
        /\ \A v \in DOMAIN luses : luses'[v].st =
             IF luses[v].st \in {"starting", "running"} THEN "lost"
             ELSE IF v = ldoing.use /\ luses[v].st = "refused" THEN "unpopped"
             ELSE luses[v].st
    BY <1>6, TurnMoves
  <2>2. \A v \in DOMAIN luses : luses[v].st # "refused" \/ ldoing.use = v =>
           luses'[v].st # "refused"
    BY <2>1
  <2> QED
    BY <1>6, <2>1, <2>2, RingStays
<1>7. CASE UNCHANGED <<luses, ldoing, lring, lreported, lasked>>
  <2>1. SameCalls
    BY <1>7, CallsUnchanged
  <2> QED
    BY <1>7, <2>1, RingStays
<1> QED
  BY <1>1, <1>2, <1>3, <1>4, <1>5, <1>6, <1>7
     DEF ToolNext, TurnStops, WatchdogCuts, ProcessRestarts, ClockTicks

-----------------------------------------------------------------------------
(* Loops are told of *)

(* A full deque drops its oldest.                                           *)
LEMMA EnteredDrops ==
  ASSUME NEW S \in SUBSET Nat, IsFiniteSet(S), NEW u \in Nat, NEW n \in Nat
  PROVE  \/ Entered(S, u, n) = S \cup {u}
         \/ \E m \in S \cup {u} : /\ \A d \in S \cup {u} : m <= d
                                  /\ Entered(S, u, n) = (S \cup {u}) \ {m}
                                  /\ Cardinality(Entered(S, u, n)) >= n
<1> DEFINE all == S \cup {u}
           number == [x \in Nat |-> x]
           m == CHOOSE c \in all : \A d \in all : c <= d
<1>1. CASE Cardinality(all) <= n
  <2>1. IsFiniteSet(all) /\ Cardinality(all) \in Nat
    BY FS_AddElement, FS_CardinalityType
  <2> QED
    BY <1>1, <2>1 DEF Entered
<1>2. CASE Cardinality(all) > n
  <2>1. IsFiniteSet(all) /\ Cardinality(all) \in Nat
    BY FS_AddElement, FS_CardinalityType
  <2>2. \A x \in all : number[x] \in Nat /\ number[x] = x
    OBVIOUS
  <2>3. all # {}
    OBVIOUS
  <2> HIDE DEF number
  <2>4. \E x \in all : \A y \in all : number[x] <= number[y]
    <3> HIDE DEF all
    <3> QED
      BY <2>2, <2>3, Least
  <2>5. \E x \in all : \A y \in all : x <= y
    BY <2>2, <2>4
  <2>6. m \in all /\ \A d \in all : m <= d
    BY <2>5
  <2>7. Entered(S, u, n) = all \ {m}
    BY <1>2 DEF Entered
  <2> HIDE DEF m
  <2>8. Cardinality(all \ {m}) = Cardinality(all) - 1
    <3> HIDE DEF all
    <3> QED
      BY <2>1, <2>6, FS_RemoveElement
  <2> HIDE DEF all
  <2>9. Cardinality(all \ {m}) >= n
    BY <1>2, <2>1, <2>8
  <2> QED
    BY <2>6, <2>7, <2>9 DEF all
<1>3. Cardinality(all) \in Nat
  BY FS_AddElement, FS_CardinalityType
<1> QED
  BY <1>1, <1>2, <1>3

(* Nothing leaves the ring, and what was refused remains so.                *)
LEMMA ToldStays ==
  ASSUME ToolType, ToldInv, SameCalls, lasked' = lasked, lfirst' = lfirst,
         lring' = lring,
         \A v \in DOMAIN luses : luses[v].st = "refused" /\ ldoing.use # v =>
           luses'[v].st = "refused" /\ ldoing'.use # v
  PROVE  ToldInv'
<1> SUFFICES ASSUME NEW key \in ToolKeys, ~Asked(key)', ~WasRefused(key)',
                    NEW u \in DOMAIN luses', \A v \in Since(u)' : Key(v)' = key
             PROVE  Since(u)' \subseteq lring'
  BY DEF ToldInv
<1>1. Since(u)' = Since(u)
  BY DEF Since, SameCalls
<1>2. \A v \in Since(u) : Key(v) = key
  BY <1>1 DEF Since, SameCalls
<1>3. ~WasRefused(key)
  BY DEF WasRefused, SameCalls
<1>4. ~Asked(key)
  BY DEF Asked
<1>5. u \in DOMAIN luses
  BY DEF SameCalls
<1> QED
  BY <1>1, <1>2, <1>3, <1>4, <1>5 DEF ToldInv

(* A refused call takes entries of its own key along.                       *)
LEMMA ToldGives ==
  ASSUME ToolType, ToldInv, NEW u \in DOMAIN luses, ldoing.use = u, ldoing' = Idle,
         luses[u].st = "refused", luses' = luses, lring' = DropLatest(lring, Key(u)),
         UNCHANGED <<lasked, lfirst>>
  PROVE  ToldInv'
<1> PICK mine : mine = Key(u)
  OBVIOUS
<1>0. (\A v : Key(v)' = Key(v)) /\ \A v \in DOMAIN luses : ldoing'.use # v
  BY CallNumbers DEF Key, Idle
<1> SUFFICES ASSUME NEW key \in ToolKeys, ~Asked(key)', ~WasRefused(key)',
                    NEW w \in DOMAIN luses', \A v \in Since(w)' : Key(v)' = key
             PROVE  Since(w)' \subseteq lring'
  BY DEF ToldInv
<1>1. Since(w)' = Since(w)
  BY <1>0 DEF Since
<1>2. \A v \in Since(w) : Key(v) = key
  BY <1>0, <1>1
<1>3. key # mine
  BY <1>0 DEF WasRefused
<1>4. ~WasRefused(key)
  BY <1>0 DEF WasRefused
<1>5. Since(w) \subseteq lring
  BY <1>2, <1>4 DEF ToldInv, Asked
<1>6. \A v \in lring : Key(v) # mine => v \in lring'
  BY DEF DropLatest
<1> QED
  BY <1>1, <1>2, <1>3, <1>5, <1>6

(* A call that can loop comes, and the ring drops its oldest: if that were  *)
(* of the run, all the ring would be.                                       *)
LEMMA ToldTakes ==
  ASSUME ToolType, StagesInv, RingInv, ToldInv, NEW name \in Names,
         NEW use, use = Len(luses) + 1,
         ldoing = Idle, ldoing' = [use |-> use, at |-> "start"],
         luses' = Append(luses, [name |-> name, st |-> "starting"]),
         BareOf[name] \notin Polling, CheckLoop(BareOf[name], use), lfirst' = lfirst
  PROVE  ToldInv'
<1> DEFINE mine == BareOf[name]
           ring == Entered(lring, use, LoopWindow)
           alike == {u \in ring : u = use \/ Key(u) = mine}
<1>0. /\ LoopThreshold \in Nat /\ LoopWindow \in Nat /\ LoopWindow >= LoopThreshold
      /\ lring \in SUBSET Nat /\ use \in Nat /\ IsFiniteSet(lring)
      /\ lring \subseteq DOMAIN luses /\ lfirst \in Nat
      /\ \A v \in DOMAIN luses : v \in Nat /\ v < use
  BY CallNumbers, CallsAreFinite, ToolCallsAssumption DEF ToolType
<1>1. /\ DOMAIN luses' = DOMAIN luses \cup {use} /\ use \notin DOMAIN luses
      /\ \A v \in DOMAIN luses : luses'[v] = luses[v] /\ Key(v)' = Key(v)
      /\ luses'[use].st = "starting" /\ Key(use)' = mine
  BY CallJoins
<1>2. \A v \in DOMAIN luses : ldoing.use # v
  BY NothingGoes
<1> SUFFICES ASSUME NEW key \in ToolKeys, ~Asked(key)', ~WasRefused(key)',
                    NEW u \in DOMAIN luses', \A v \in Since(u)' : Key(v)' = key
             PROVE  Since(u)' \subseteq lring'
  BY DEF ToldInv
<1>3. /\ \A v \in DOMAIN luses : v \in Since(u)' <=> v \in Since(u)
      /\ use \in Since(u)' <=> use >= u /\ use >= lfirst
      /\ Since(u)' \subseteq DOMAIN luses \cup {use} /\ Since(u) \subseteq DOMAIN luses
  BY <1>1 DEF Since
<1>4. CASE use \notin Since(u)'
  <2>1. Since(u)' = {}
    <3>1. u <= use
      BY <1>0, <1>1
    <3>2. ~(use >= lfirst)
      BY <1>0, <1>1, <1>3, <1>4, <3>1
    <3>3. \A v \in DOMAIN luses : v \notin Since(u)
      BY <1>0, <3>2 DEF Since
    <3> QED
      BY <1>3, <1>4, <3>3
  <2> QED
    BY <2>1
<1>5. CASE use \in Since(u)'
  <2>1. key = mine
    BY <1>1, <1>5
  <2>2. ~Asked(key) /\ ~WasRefused(key)
    <3>1. \A q \in lasked : q \in lasked'
      BY DEF CheckLoop, Report
    <3>2. ~Asked(key)
      BY <3>1 DEF Asked
    <3>3. ~WasRefused(key)
      BY <1>1, <1>2 DEF WasRefused
    <3> QED
      BY <3>2, <3>3
  <2>3. ~(Cardinality(alike) >= LoopThreshold) /\ lring' = ring
    <3>1. ~Report(mine)
      <4> SUFFICES ASSUME Report(mine) PROVE FALSE
        OBVIOUS
      <4>1. mine \notin lreported
        BY <2>1, <2>2 DEF RingInv
      <4>2. [key |-> mine, calls |-> Real(mine) + 1] \in lasked'
        BY <4>1 DEF Report
      <4>3. [key |-> mine, calls |-> Real(mine) + 1].key = mine
        OBVIOUS
      <4> QED
        BY <2>1, <4>2, <4>3 DEF Asked
    <3> QED
      BY <3>1 DEF CheckLoop
  <2>4. Since(u) \subseteq lring
    <3>1. CASE u \in DOMAIN luses
      <4>1. \A v \in Since(u) : Key(v) = key
        BY <1>1, <1>3
      <4> QED
        BY <2>2, <3>1, <4>1 DEF ToldInv
    <3>2. CASE u = use
      BY <1>0, <3>2 DEF Since
    <3> QED
      BY <1>1, <3>1, <3>2
  <2>5. Since(u)' \subseteq lring \cup {use}
    BY <1>3, <2>4
  <2>6. CASE ring = lring \cup {use}
    BY <2>3, <2>5, <2>6
  <2>7. ASSUME NEW m \in lring \cup {use}, \A d \in lring \cup {use} : m <= d,
               ring = (lring \cup {use}) \ {m}, Cardinality(ring) >= LoopWindow,
               m \in Since(u)'
        PROVE  FALSE
    <3>1. m \in Nat /\ m >= u /\ m >= lfirst /\ u \in Nat
      BY <1>0, <1>1, <2>7 DEF Since
    <3>2. \A d \in lring \cup {use} : d \in Nat /\ d >= u /\ d >= lfirst
      BY <1>0, <2>7, <3>1
    <3>3. \A d \in lring : d \in Since(u)
      BY <1>0, <3>2 DEF Since, RingInv
    <3>4. \A d \in lring : Key(d) = mine
      BY <1>0, <1>1, <1>3, <2>1, <3>3
    <3>5. alike = ring
      BY <2>7, <3>4
    <3>6. IsFiniteSet(ring)
      <4>1. IsFiniteSet(lring \cup {use})
        BY <1>0, FS_AddElement
      <4> QED
        BY <2>7, <4>1, FS_Subset
    <3>7. Cardinality(ring) \in Nat
      BY <3>6, FS_CardinalityType
    <3> HIDE DEF alike, ring
    <3> QED
      BY <1>0, <2>3, <2>7, <3>5, <3>7
  <2>8. \/ ring = lring \cup {use}
        \/ \E m \in lring \cup {use} : /\ \A d \in lring \cup {use} : m <= d
                                       /\ ring = (lring \cup {use}) \ {m}
                                       /\ Cardinality(ring) >= LoopWindow
    BY <1>0, EnteredDrops
  <2> HIDE DEF ring, alike
  <2> QED
    BY <2>3, <2>5, <2>6, <2>7, <2>8
<1> QED
  BY <1>4, <1>5

LEMMA ToldStep ==
  ASSUME ToolType, StagesInv, RingInv, ToldInv, [ToolNext]_toolVars
  PROVE  ToldInv'
<1> USE DEF toolVars
<1>0. luses \in Seq(UseRecords) /\ \A v \in DOMAIN luses : v # 0
  BY CallNumbers DEF ToolType
<1>1. ASSUME NEW name \in Names, ToolCallArrives(name)
      PROVE  ToldInv'
  <2>1. PICK use : use = Len(luses) + 1
    OBVIOUS
  <2>2. /\ luses' = Append(luses, [name |-> name, st |-> "starting"])
        /\ ldoing = Idle /\ ldoing' = [use |-> use, at |-> "start"] /\ lfirst' = lfirst
    BY <1>1, <2>1 DEF ToolCallArrives
  <2>3. CASE BareOf[name] \notin Polling /\ CheckLoop(BareOf[name], use)
    BY <2>1, <2>2, <2>3, ToldTakes
  <2>4. CASE BareOf[name] \in Polling /\ UNCHANGED <<lring, lreported, lasked>>
    <3>1. /\ DOMAIN luses' = DOMAIN luses \cup {use} /\ use \notin DOMAIN luses
          /\ \A v \in DOMAIN luses : luses'[v] = luses[v] /\ Key(v)' = Key(v)
          /\ Key(use)' \in Polling
      BY <2>1, <2>2, <2>4, CallJoins
    <3>2. \A v \in DOMAIN luses : ldoing.use # v
      BY <2>2, NothingGoes
    <3> SUFFICES ASSUME NEW key \in ToolKeys, ~Asked(key)', ~WasRefused(key)',
                        NEW u \in DOMAIN luses', \A v \in Since(u)' : Key(v)' = key
                 PROVE  Since(u)' \subseteq lring'
      BY DEF ToldInv
    <3>3. \A v : v \in Since(u)' <=> v \in Since(u)
      BY <2>2, <3>1 DEF Since
    <3>4. \A v \in Since(u) : Key(v) = key
      BY <3>1, <3>3 DEF Since
    <3>5. ~Asked(key) /\ ~WasRefused(key)
      BY <2>2, <2>4, <3>1, <3>2 DEF Asked, WasRefused
    <3>6. CASE u \in DOMAIN luses
      BY <2>4, <3>3, <3>4, <3>5, <3>6 DEF ToldInv
    <3>7. CASE u = use
      <4>1. \A v \in DOMAIN luses : ~(v >= use)
        BY <2>1, CallNumbers
      <4>2. \A v : v \notin Since(u)
        BY <3>7, <4>1 DEF Since
      <4> QED
        BY <3>3, <4>2
    <3> QED
      BY <3>1, <3>6, <3>7
  <2> QED
    BY <1>1, <2>1, <2>3, <2>4 DEF ToolCallArrives
<1>2. CASE ActionStarts
  <2>1. PICK u \in DOMAIN luses : ldoing.use = u
    BY <1>2 DEF ActionStarts, ToolType, Idle
  <2>2. luses[u].st = "starting"
    BY <1>2, <2>1 DEF ActionStarts, StagesInv
  <2>3. /\ SameCalls
        /\ \A v \in DOMAIN luses : luses'[v].st = IF v = u THEN "running" ELSE luses[v].st
    BY <1>2, <2>1, SetStateMoves DEF ActionStarts
  <2>4. UNCHANGED <<lring, lfirst, lasked>> /\ ldoing' = Idle
    BY <1>2 DEF ActionStarts
  <2>5. \A v \in DOMAIN luses : ldoing'.use # v
    BY <1>0, <2>4 DEF Idle
  <2> QED
    BY <2>2, <2>3, <2>4, <2>5, ToldStays
<1>3. ASSUME NEW u \in DOMAIN luses, ResultArrives(u)
      PROVE  ToldInv'
  <2>1. PICK out \in Results[luses[u].name] :
          /\ luses' = SetState(u, out)
          /\ ldoing' = IF u \in linflight THEN [use |-> u, at |-> "finish"]
                       ELSE AfterFinish(u, out)
    BY <1>3 DEF ResultArrives
  <2>2. out \in {"ok", "error", "refused"}
    <3>1. luses[u] \in UseRecords
      BY <1>0, <1>3, ElementOfSeq
    <3> QED
      BY <2>1, <3>1, ToolCallsAssumption DEF UseRecords
  <2>3. /\ SameCalls
        /\ \A v \in DOMAIN luses : luses'[v].st = IF v = u THEN out ELSE luses[v].st
    BY <2>1, <2>2, SetStateMoves
  <2>4. luses[u].st = "running" /\ UNCHANGED <<lring, lfirst, lasked>>
    BY <1>3 DEF ResultArrives
  <2>5. ldoing'.use = u \/ \A v \in DOMAIN luses : ldoing'.use # v
    BY <1>0, <2>1 DEF AfterFinish, Idle
  <2>6. \A v \in DOMAIN luses : luses[v].st = "refused" /\ ldoing.use # v =>
           luses'[v].st = "refused" /\ ldoing'.use # v
    BY <2>3, <2>4, <2>5
  <2> QED
    BY <2>3, <2>4, <2>6, ToldStays
<1>4. CASE ActionFinishes
  <2>1. PICK u \in DOMAIN luses : ldoing.use = u
    BY <1>4 DEF ActionFinishes, ToolType, Idle
  <2>2. /\ ldoing' = AfterFinish(u, luses[u].st) /\ luses' = luses
        /\ UNCHANGED <<lring, lfirst, lasked>>
    BY <1>4, <2>1 DEF ActionFinishes
  <2>3. ldoing'.use = u \/ \A v \in DOMAIN luses : ldoing'.use # v
    BY <1>0, <2>2 DEF AfterFinish, Idle
  <2>4. SameCalls
    BY <2>2, CallsUnchanged
  <2>5. \A v \in DOMAIN luses : luses[v].st = "refused" /\ ldoing.use # v =>
           luses'[v].st = "refused" /\ ldoing'.use # v
    BY <2>1, <2>2, <2>3
  <2> QED
    BY <2>2, <2>4, <2>5, ToldStays
<1>5. CASE LoopEntryPops
  <2>1. PICK u \in DOMAIN luses : ldoing.use = u
    BY <1>5 DEF LoopEntryPops, ToolType, Idle
  <2>2. ldoing' = Idle /\ UNCHANGED <<lfirst, lasked>>
    BY <1>5 DEF LoopEntryPops
  <2>3. \A v \in DOMAIN luses : ldoing'.use # v
    BY <1>0, <2>2 DEF Idle
  <2>4. CASE luses[u].st = "refused" /\ ~Native /\ u \in lindex
    <3>1. luses' = luses /\ lring' = DropLatest(lring, Key(u))
      BY <1>5, <2>1, <2>4 DEF LoopEntryPops, PopRefused
    <3> QED
      BY <2>1, <2>2, <2>4, <3>1, ToldGives
  <2>5. CASE luses[u].st = "refused" /\ (Native \/ u \notin lindex)
    <3>1. luses' = SetState(u, "unpopped") /\ lring' = lring
      BY <1>5, <2>1, <2>5 DEF LoopEntryPops, PopRefused
    <3>2. /\ SameCalls
          /\ \A v \in DOMAIN luses : luses'[v].st = IF v = u THEN "unpopped" ELSE luses[v].st
      BY <3>1, SetStateMoves
    <3> QED
      BY <2>1, <2>2, <2>3, <3>1, <3>2, ToldStays
  <2>6. CASE luses[u].st # "refused"
    <3>1. luses' = luses /\ lring' = lring
      BY <1>5, <2>1, <2>6 DEF LoopEntryPops
    <3>2. SameCalls
      BY <3>1, CallsUnchanged
    <3> QED
      BY <2>2, <2>3, <3>1, <3>2, ToldStays
  <2> QED
    BY <2>4, <2>5, <2>6
<1>6. CASE TurnIsOver /\ UNCHANGED <<lring, lasked, lfirst>>
  <2>1. /\ SameCalls
        /\ \A v \in DOMAIN luses : luses'[v].st =
             IF luses[v].st \in {"starting", "running"} THEN "lost"
             ELSE IF v = ldoing.use /\ luses[v].st = "refused" THEN "unpopped"
             ELSE luses[v].st
    BY <1>6, TurnMoves
  <2>2. \A v \in DOMAIN luses : ldoing'.use # v
    BY <1>0, <1>6 DEF TurnIsOver, Idle
  <2>3. \A v \in DOMAIN luses : luses[v].st = "refused" /\ ldoing.use # v =>
           luses'[v].st = "refused" /\ ldoing'.use # v
    BY <2>1, <2>2
  <2> QED
    BY <1>6, <2>1, <2>3, ToldStays
<1>7. CASE ProcessRestarts
  <2>1. SameCalls /\ lfirst' = Len(luses) + 1
    BY <1>7, TurnMoves DEF ProcessRestarts
  <2>2. \A v \in DOMAIN luses : ~(v >= lfirst')
    BY <2>1, CallNumbers
  <2>3. \A u : Since(u)' = {}
    BY <2>1, <2>2 DEF Since, SameCalls
  <2> QED
    BY <2>3 DEF ToldInv
<1>8. CASE UNCHANGED <<luses, ldoing, lring, lasked, lfirst>>
  <2>1. SameCalls
    BY <1>8, CallsUnchanged
  <2> QED
    BY <1>8, <2>1, ToldStays
<1> QED
  BY <1>1, <1>2, <1>3, <1>4, <1>5, <1>6, <1>7, <1>8
     DEF ToolNext, TurnStops, WatchdogCuts, ClockTicks

-----------------------------------------------------------------------------
(* The rows of the window *)

Recent(key) ==
  {row \in lrows : /\ row.tool = key /\ row.at >= lnow - CrossWindow /\ row.agent = "self"}

LEMMA RecentIsFinite ==
  ASSUME ToolType, RowsShape, NEW key
  PROVE  /\ IsFiniteSet(Recent(key)) /\ CountRecent(key) \in Nat
         /\ CountRecent(key) = Cardinality(Recent(key))
<1>1. \A x \in Recent(key) : x.use \in DOMAIN luses
  BY DEF Recent, Own, RowsShape
<1>2. \A x, y \in Recent(key) : x.use = y.use => x = y
  BY DEF Recent, Own, RowsShape
<1>3. IsFiniteSet(DOMAIN luses)
  BY CallsAreFinite
<1>4. IsFiniteSet(Recent(key))
  BY <1>1, <1>2, <1>3, CountInto
<1> QED
  BY <1>4, FS_CardinalityType DEF CountRecent, Recent

LEMMA BeginsCounts == \A key : Begins(key) \in {0, 1}
BY DEF Begins

(* The rows, with the one to come, grow no more numerous.                   *)
LEMMA RecentStays ==
  ASSUME RecentInv, lasked \subseteq lasked', lblind \subseteq lblind',
         \A key \in ToolKeys :
           /\ CountRecent(key) + Begins(key) \in Nat
           /\ CountRecent(key)' + Begins(key)' \in Nat
           /\ CountRecent(key)' + Begins(key)' <= CountRecent(key) + Begins(key)
  PROVE  RecentInv'
<1> SUFFICES ASSUME NEW name \in Names, PrettyOf[name] = BareOf[name],
                    BareOf[name] \notin Polling,
                    CountRecent(BareOf[name])' + Begins(BareOf[name])' >= LoopThreshold
             PROVE  Asked(BareOf[name])' \/ BareOf[name] \in lblind'
  BY DEF RecentInv
<1>1. PICK key \in ToolKeys : key = BareOf[name]
  BY DEF ToolKeys
<1>2. CountRecent(key) + Begins(key) >= LoopThreshold
  <2>1. LoopThreshold \in Nat
    BY ToolCallsAssumption
  <2> QED
    BY <1>1, <2>1
<1> QED
  BY <1>1, <1>2 DEF RecentInv, Asked

LEMMA RecentStep ==
  ASSUME ToolType, StagesInv, RowsInv, RingInv, RecentInv, [ToolNext]_toolVars,
         ToolType', RowsInv', RingInv'
  PROVE  RecentInv'
<1> USE DEF toolVars
<1>0. /\ RowsShape /\ RowsShape' /\ lnow \in Nat
      /\ \A key : CountRecent(key) \in Nat /\ Begins(key) \in {0, 1}
  BY RecentIsFinite, BeginsCounts DEF RowsInv, ToolType
<1>1. ASSUME NEW call \in Names, ToolCallArrives(call)
      PROVE  RecentInv'
  <2>1. PICK use : use = Len(luses) + 1
    OBVIOUS
  <2>2. /\ luses' = Append(luses, [name |-> call, st |-> "starting"])
        /\ ldoing = Idle /\ ldoing' = [use |-> use, at |-> "start"]
        /\ UNCHANGED <<lrows, lnow>>
    BY <1>1, <2>1 DEF ToolCallArrives
  <2>3. luses'[use].name = call
    BY <2>1, <2>2, CallJoins
  <2> SUFFICES ASSUME NEW name \in Names, PrettyOf[name] = BareOf[name],
                      BareOf[name] \notin Polling,
                      CountRecent(BareOf[name])' + Begins(BareOf[name])' >= LoopThreshold
               PROVE  Asked(BareOf[name])' \/ BareOf[name] \in lblind'
    BY DEF RecentInv
  <2>4. PICK key : key = BareOf[name]
    OBVIOUS
  <2>5. /\ CountRecent(key)' = CountRecent(key) /\ Begins(key) = 0
        /\ Begins(key)' = IF PrettyOf[call] = key THEN 1 ELSE 0
    BY <2>2, <2>3 DEF CountRecent, Begins, Idle
  <2>6. lasked \subseteq lasked' /\ lblind \subseteq lblind'
    BY <1>1 DEF ToolCallArrives, CheckLoop, Report
  <2>7. CASE PrettyOf[call] # key
    <3>1. CountRecent(key) + Begins(key) >= LoopThreshold
      BY <2>4, <2>5, <2>7
    <3> QED
      BY <2>4, <2>6, <3>1 DEF RecentInv, Asked
  <2>8. CASE PrettyOf[call] = key
    <3>1. BareOf[call] = key
      BY <2>4, <2>8, ToolCallsAssumption
    <3>2. CountRecent(key) + 1 >= LoopThreshold
      BY <2>4, <2>5, <2>8
    <3>3. CheckLoop(key, use)
      BY <1>1, <2>1, <2>4, <3>1 DEF ToolCallArrives
    <3>4. key \in lreported' \/ key \in lblind'
      BY <3>2, <3>3 DEF CheckLoop, Report
    <3>5. key \in lreported' => Asked(key)'
      BY DEF RingInv, Asked
    <3> QED
      BY <2>4, <3>4, <3>5
  <2> QED
    BY <2>7, <2>8
<1>2. ASSUME NEW u \in DOMAIN luses, ldoing = [use |-> u, at |-> "start"], lrows' = Started(u),
             ldoing' = Idle, UNCHANGED <<lasked, lblind, lnow>>
      PROVE  RecentInv'
  <2>1. ASSUME NEW key \in ToolKeys
        PROVE  /\ CountRecent(key) + Begins(key) \in Nat
               /\ CountRecent(key)' + Begins(key)' \in Nat
               /\ CountRecent(key)' + Begins(key)' <= CountRecent(key) + Begins(key)
    <3>1. PICK new : new = [use |-> u, agent |-> "self", tool |-> PrettyOf[luses[u].name],
                            at |-> lnow, outcome |-> "none"]
      OBVIOUS
    <3>2. new.tool = PrettyOf[luses[u].name] /\ lrows' = lrows \cup {new}
      BY <1>2, <3>1 DEF Started
    <3>3. Begins(key)' = 0 /\ Begins(key) = IF PrettyOf[luses[u].name] = key THEN 1 ELSE 0
      BY <1>2 DEF Begins, Idle
    <3>4. IsFiniteSet(Recent(key)) /\ CountRecent(key) = Cardinality(Recent(key))
          /\ CountRecent(key)' = Cardinality(Recent(key)')
      BY <1>0, RecentIsFinite DEF CountRecent, Recent
    <3>5. Recent(key)' \in SUBSET (Recent(key) \cup {new})
      BY <1>2, <3>2 DEF Recent
    <3>6. CASE PrettyOf[luses[u].name] = key
      <4>1. /\ Cardinality(Recent(key)') \in Nat
            /\ Cardinality(Recent(key)') <= Cardinality(Recent(key)) + 1
        BY <3>4, <3>5, CountOneMore
      <4> QED
        BY <1>0, <3>3, <3>4, <3>6, <4>1
    <3>7. CASE PrettyOf[luses[u].name] # key
      <4>1. Recent(key)' = Recent(key)
        BY <1>2, <3>2, <3>7 DEF Recent
      <4> QED
        BY <1>0, <3>3, <3>4, <4>1, <3>7
    <3> QED
      BY <3>6, <3>7
  <2> QED
    BY <1>2, <2>1, RecentStays
<1>3. ASSUME UNCHANGED <<lrows, lasked, lblind, lnow>>, ldoing'.at # "start"
      PROVE  RecentInv'
  <2>1. ASSUME NEW key \in ToolKeys
        PROVE  /\ CountRecent(key) + Begins(key) \in Nat
               /\ CountRecent(key)' + Begins(key)' \in Nat
               /\ CountRecent(key)' + Begins(key)' <= CountRecent(key) + Begins(key)
    <3>1. CountRecent(key)' = CountRecent(key) /\ Begins(key)' = 0
      BY <1>3 DEF CountRecent, Begins
    <3> QED
      BY <1>0, <3>1
  <2> QED
    BY <1>3, <2>1, RecentStays
<1>4. ASSUME NEW u \in DOMAIN luses, lrows' = Finish(u), ldoing'.at # "start", SameCalls,
             \A v \in DOMAIN luses : luses'[v].st = "starting" => luses[v].st = "starting",
             UNCHANGED <<lasked, lblind, lnow>>
      PROVE  RecentInv'
  <2>1. \A row \in Own' : \E old \in Own :
          old.use = row.use /\ old.tool = row.tool /\ old.at = row.at
    BY <1>0, <1>4, RowEnds
  <2>2. ASSUME NEW key \in ToolKeys
        PROVE  /\ CountRecent(key) + Begins(key) \in Nat
               /\ CountRecent(key)' + Begins(key)' \in Nat
               /\ CountRecent(key)' + Begins(key)' <= CountRecent(key) + Begins(key)
    <3>1. IsFiniteSet(Recent(key)) /\ CountRecent(key) = Cardinality(Recent(key))
          /\ CountRecent(key)' = Cardinality(Recent(key)')
      BY <1>0, RecentIsFinite DEF CountRecent, Recent
    <3>2. \A x \in Recent(key)' : \E y \in Recent(key) : y.use = x.use
      BY <1>4, <2>1 DEF Recent, Own
    <3>3. \A x, y \in Recent(key)' : x.use = y.use => x = y
      BY <1>0 DEF Recent, Own, RowsShape
    <3>4. /\ Cardinality(Recent(key)') \in Nat
          /\ Cardinality(Recent(key)') <= Cardinality(Recent(key))
      BY <3>1, <3>2, <3>3, CountAmong
    <3>5. Begins(key)' = 0
      BY <1>4 DEF Begins
    <3> QED
      BY <1>0, <3>1, <3>4, <3>5
  <2> QED
    BY <1>4, <2>2, RecentStays
<1>5. CASE ActionStarts
  <2>1. PICK u \in DOMAIN luses : ldoing = [use |-> u, at |-> "start"]
    BY <1>5 DEF ActionStarts, ToolType, Idle
  <2>2. ldoing' = Idle /\ UNCHANGED <<lasked, lblind, lnow>> /\ ldoing.use = u
    BY <1>5, <2>1 DEF ActionStarts
  <2>3. CASE lrows' = Started(u)
    BY <1>2, <2>1, <2>2, <2>3
  <2>4. CASE lrows' = lrows
    BY <1>3, <2>2, <2>4 DEF Idle
  <2> QED
    BY <1>5, <2>2, <2>3, <2>4 DEF ActionStarts
<1>6. ASSUME NEW u \in DOMAIN luses, ResultArrives(u)
      PROVE  RecentInv'
  <2>1. UNCHANGED <<lrows, lasked, lblind, lnow>> /\ ldoing'.at # "start"
    BY <1>6 DEF ResultArrives, AfterFinish, Idle
  <2> QED
    BY <1>3, <2>1
<1>7. CASE ActionFinishes
  <2>1. PICK u \in DOMAIN luses : ldoing.use = u
    BY <1>7 DEF ActionFinishes, ToolType, Idle
  <2>2. /\ ldoing'.at # "start" /\ luses' = luses /\ UNCHANGED <<lasked, lblind, lnow>>
        /\ lrows' = lrows \/ lrows' = Finish(u)
    BY <1>7, <2>1 DEF ActionFinishes, AfterFinish, Idle
  <2>3. SameCalls
    BY <2>2, CallsUnchanged
  <2> QED
    BY <1>3, <1>4, <2>2, <2>3
<1>8. CASE LoopEntryPops
  <2>1. UNCHANGED <<lrows, lasked, lblind, lnow>> /\ ldoing'.at # "start"
    BY <1>8 DEF LoopEntryPops, Idle
  <2> QED
    BY <1>3, <2>1
<1>9. CASE TurnIsOver /\ UNCHANGED <<lasked, lblind, lnow>>
  <2>1. /\ ldoing' = Idle /\ Idle.at # "start" /\ SameCalls
        /\ \A v \in DOMAIN luses : luses'[v].st # "starting"
    <3>1. ldoing' = Idle /\ Idle.at # "start"
      BY <1>9 DEF TurnIsOver, Idle
    <3>2. SameCalls /\ \A v \in DOMAIN luses : luses'[v].st # "starting"
      BY <1>9, TurnMoves
    <3> QED
      BY <3>1, <3>2
  <2>2. CASE lrows' = lrows
    BY <1>3, <1>9, <2>1, <2>2
  <2>3. CASE ldoing.at = "start" /\ lrows' = Started(ldoing.use)
    <3>1. PICK u \in DOMAIN luses : ldoing = [use |-> u, at |-> "start"]
      BY <2>3 DEF ToolType, Idle
    <3>2. lrows' = Started(u)
      BY <2>3, <3>1
    <3> QED
      BY <1>2, <1>9, <2>1, <3>1, <3>2
  <2>4. CASE ldoing.at = "finish" /\ lrows' = Finish(ldoing.use)
    <3>1. PICK u \in DOMAIN luses : u = ldoing.use
      BY <2>4 DEF ToolType, Idle
    <3>2. lrows' = Finish(u)
      BY <2>4, <3>1
    <3> QED
      BY <1>4, <1>9, <2>1, <3>2
  <2> QED
    BY <1>9, <2>2, <2>3, <2>4 DEF TurnIsOver
<1>10. CASE ClockTicks
  <2>1. /\ lnow' = lnow + 1 /\ UNCHANGED <<luses, ldoing, lrows, lasked, lblind>>
    BY <1>10 DEF ClockTicks
  <2>2. ASSUME NEW key \in ToolKeys
        PROVE  /\ CountRecent(key) + Begins(key) \in Nat
               /\ CountRecent(key)' + Begins(key)' \in Nat
               /\ CountRecent(key)' + Begins(key)' <= CountRecent(key) + Begins(key)
    <3>1. IsFiniteSet(Recent(key)) /\ CountRecent(key) = Cardinality(Recent(key))
          /\ CountRecent(key)' = Cardinality(Recent(key)')
      BY <1>0, RecentIsFinite DEF CountRecent, Recent
    <3>2. \A row \in lrows : row.at \in Nat
      BY <1>0 DEF RowsShape, RowRecords
    <3>3. Recent(key)' \subseteq Recent(key)
      <4>1. CrossWindow \in Nat
        BY ToolCallsAssumption
      <4>2. \A row \in lrows : row.at >= lnow' - CrossWindow => row.at >= lnow - CrossWindow
        BY <1>0, <2>1, <3>2, <4>1
      <4> QED
        BY <2>1, <4>2 DEF Recent
    <3>4. /\ Cardinality(Recent(key)') \in Nat
          /\ Cardinality(Recent(key)') <= Cardinality(Recent(key))
      BY <3>1, <3>3, PartCounts
    <3>5. Begins(key)' = Begins(key)
      BY <2>1 DEF Begins
    <3> QED
      BY <1>0, <3>1, <3>4, <3>5
  <2> QED
    BY <2>1, <2>2, RecentStays
<1>11. CASE UNCHANGED toolVars
  BY <1>11 DEF RecentInv, CountRecent, Begins, Asked
<1> QED
  BY <1>1, <1>5, <1>6, <1>7, <1>8, <1>9, <1>10, <1>11
     DEF ToolNext, TurnStops, WatchdogCuts, ProcessRestarts

-----------------------------------------------------------------------------

LEMMA ToolInvInit == ToolInit => ToolInv
<1> SUFFICES ASSUME ToolInit PROVE ToolInv
  OBVIOUS
<1>1. /\ luses = <<>> /\ ldoing = Idle /\ lring = {} /\ lindex = {} /\ linflight = {}
      /\ lreported = {} /\ lasked = {} /\ lcut = {} /\ lnow = 1 /\ lfirst = 1
      /\ DOMAIN luses = {}
  BY DEF ToolInit
<1>2. ToolType
  BY <1>1 DEF ToolType
<1>3. StagesInv
  BY <1>1 DEF StagesInv, LongToolsSurvive, Idle
<1>4. /\ \A row \in lrows : row \in RowRecords /\ row.agent = "other" /\ row.use = 0
      /\ Own = {}
  <2>1. \A row \in lrows : \E name \in Names :
          row = [use |-> 0, agent |-> "other", tool |-> PrettyOf[name], at |-> 1,
                 outcome |-> "none"]
    BY ToolCallsAssumption DEF ToolInit
  <2>2. \A row \in lrows : row \in RowRecords /\ row.agent = "other" /\ row.use = 0
    BY <2>1 DEF RowRecords
  <2> QED
    BY <2>2 DEF Own
<1>5. RowsInv
  BY <1>4 DEF RowsInv, RowsShape, LedgerTellsOutcome
<1>6. LoopThreshold \in Nat /\ LoopThreshold >= 2
  BY ToolCallsAssumption
<1>7. RingInv
  <2>1. \A key : Held(key) = {} /\ Counted(key) = {}
    BY <1>1 DEF Held, Counted
  <2>2. Cardinality({}) = 0
    BY FS_EmptySet
  <2>3. RingCounts
    BY <1>6, <2>1, <2>2 DEF RingCounts
  <2> QED
    BY <1>1, <2>3 DEF RingInv, NoFalseQuestion
<1>8. ToldInv
  BY <1>1 DEF ToldInv
<1>9. RecentInv
  <2>1. \A key : Recent(key) = {}
    BY <1>4 DEF Recent, Own
  <2>2. \A key : CountRecent(key) = 0
    <3>1. \A key : CountRecent(key) = Cardinality(Recent(key))
      BY DEF CountRecent, Recent
    <3> QED
      BY <2>1, <3>1, FS_EmptySet
  <2>3. \A key : Begins(key) = 0
    BY <1>1 DEF Begins, Idle
  <2>4. \A key : ~(CountRecent(key) + Begins(key) >= LoopThreshold)
    BY <1>6, <2>2, <2>3
  <2> QED
    BY <2>4 DEF RecentInv
<1> QED
  BY <1>2, <1>3, <1>5, <1>7, <1>8, <1>9 DEF ToolInv

LEMMA ToolInvStep == ToolInv /\ [ToolNext]_toolVars => ToolInv'
<1> SUFFICES ASSUME ToolInv, [ToolNext]_toolVars PROVE ToolInv'
  OBVIOUS
<1>1. ToolType /\ StagesInv /\ RowsInv /\ RingInv /\ ToldInv /\ RecentInv
  BY DEF ToolInv
<1>2. ToolType' /\ StagesInv'
  BY <1>1, ToolTypeStep, StagesStep
<1>3. RowsInv' /\ RingInv' /\ ToldInv'
  BY <1>1, RowsStep, RingStep, ToldStep
<1>4. RecentInv'
  BY <1>1, <1>2, <1>3, RecentStep
<1> QED
  BY <1>2, <1>3, <1>4 DEF ToolInv

LEMMA ToolInvTells == ToolInv => ToolCallsHold
<1> SUFFICES ASSUME ToolInv PROVE ToolCallsHold
  OBVIOUS
<1>1. /\ ToolType /\ StagesInv /\ RowsInv /\ RingInv /\ ToldInv /\ RecentInv
      /\ LoopThreshold \in Nat
  BY ToolCallsAssumption DEF ToolInv
<1>2. ASSUME NEW u \in DOMAIN luses, \A v \in Since(u) : Key(v) = Key(u),
             Cardinality(Since(u)) >= LoopThreshold, ~Asked(Key(u)),
             \A v \in DOMAIN luses : ~(Key(v) = Key(u) /\ luses[v].st = "refused")
      PROVE  FALSE
  <2>1. PICK key \in ToolKeys : key = Key(u)
    <3>1. luses[u] \in UseRecords
      BY <1>1, CallNumbers, ElementOfSeq DEF ToolType
    <3> QED
      BY <3>1 DEF ToolKeys, Key, UseRecords
  <2>2. Since(u) \subseteq Held(key)
    BY <1>1, <1>2, <2>1 DEF ToldInv, WasRefused, Held
  <2>3. /\ Cardinality(Since(u)) \in Nat /\ Cardinality(Held(key)) \in Nat
        /\ Cardinality(Since(u)) <= Cardinality(Held(key))
    BY <1>1, <2>2, CallsAreFinite, PartCounts
  <2>4. Cardinality(Held(key)) < LoopThreshold
    BY <1>1 DEF RingInv, RingCounts
  <2> QED
    BY <1>1, <1>2, <2>3, <2>4
<1>3. ASSUME NEW name \in Names, PrettyOf[name] = BareOf[name], BareOf[name] \notin Polling,
             CountRecent(BareOf[name]) >= LoopThreshold
      PROVE  Asked(BareOf[name]) \/ BareOf[name] \in lblind
  <2>1. PICK key : key = BareOf[name]
    OBVIOUS
  <2>2. CountRecent(key) \in Nat /\ Begins(key) \in {0, 1}
    BY <1>1, RecentIsFinite, BeginsCounts DEF RowsInv
  <2>3. CountRecent(key) + Begins(key) >= LoopThreshold
    BY <1>1, <1>3, <2>1, <2>2
  <2> QED
    BY <1>1, <1>3, <2>1, <2>3 DEF RecentInv
<1>4. LoopIsTold
  BY <1>2, <1>3 DEF LoopIsTold
<1> QED
  BY <1>1, <1>4 DEF ToolCallsHold, RingInv, StagesInv, RowsInv

(* Whatever the order of messages and results, and wherever a turn or the   *)
(* process ends, no loop question is asked without a loop, a loop is asked  *)
(* about, a running tool keeps its turn, and a row has its own call's       *)
(* outcome.                                                                 *)
THEOREM ToolCallsAreTrue == ToolSpec => []ToolCallsHold
<1>1. ToolInit => ToolInv
  BY ToolInvInit
<1>2. ToolInv /\ [ToolNext]_toolVars => ToolInv'
  BY ToolInvStep
<1>3. ToolInv => ToolCallsHold
  BY ToolInvTells
<1> QED
  BY <1>1, <1>2, <1>3, PTL DEF ToolSpec
================================================================================
