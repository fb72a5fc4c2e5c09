-------------------------------- MODULE Epochs --------------------------------
(***************************************************************************)
(* Incarnations of an agent and what they spend                            *)
(* (daemon/_runner_factory.py, daemon/_budget.py): every runner made gets  *)
(* an epoch that must be new across daemon restarts, since the spend       *)
(* ledger drops a second charge of one (agent, epoch, turn).               *)
(*                                                                         *)
(* A turn that completes is written to the usage table, off the loop and   *)
(* best effort, and then charged; the ledger is snapshot after each charge *)
(* by the skin. The daemon may crash between any two steps. Every turn     *)
(* reports one token.                                                      *)
(***************************************************************************)
EXTENDS Integers, FiniteSets

CONSTANTS
  Spenders,          \* agents; all of them are in the engagement pool
  Ceiling, PoolCeiling,      \* in tokens, 0 for none
  MaxMade, MaxTurns, MaxCrashes      \* bounds

ASSUME EpochsAssumption ==
  {Ceiling, PoolCeiling, MaxMade, MaxTurns, MaxCrashes} \subseteq Nat

VARIABLES
  emeta,             \* of each agent: the persisted epoch, 0 for none, Garbled
  eissued,           \* _runner_epochs: the highest epoch of this process
  eledger,           \* {<<agent, epoch, turn>>}
  esnapshot,         \* the ledger as last persisted
  eusage,            \* of each agent: tokens in the usage table
  erunner,           \* of each agent: the epoch of its runner, 0 for none
  eturn,             \* of each agent: _budget_turn_seq
  ereported,         \* agents whose turn is recorded and not yet charged
  emade, eturns, ecrashes,   \* counters, for the bounds
  efailed,           \* writes that failed once: meta, snapshot, usage
  edropped,          \* history: a charge was taken for a duplicate
  eleaked            \* history: agents with a turn no ledger counts

epochsVars == <<emeta, eissued, eledger, esnapshot, eusage, erunner, eturn, ereported,
                emade, eturns, ecrashes, efailed, edropped, eleaked>>

Garbled == -1

EpochsInit ==
  /\ emeta = [a \in Spenders |-> 0] /\ eissued = [a \in Spenders |-> 0]
  /\ eledger = {} /\ esnapshot = {} /\ eusage = [a \in Spenders |-> 0]
  /\ erunner = [a \in Spenders |-> 0] /\ eturn = [a \in Spenders |-> 0]
  /\ ereported = {} /\ emade = 0 /\ eturns = 0 /\ ecrashes = 0
  /\ efailed = {} /\ edropped = FALSE /\ eleaked = {}

MaxOf(s) == CHOOSE x \in s : \A y \in s : y <= x

\* A write that succeeds, or that fails and is logged; each kind fails once.
Fails(kind) == kind \notin efailed /\ efailed' = efailed \cup {kind}
Succeeds == UNCHANGED efailed

-----------------------------------------------------------------------------
(* Spend and verdicts *)

Spent(agents) == Cardinality({e \in eledger : e[1] \in agents})

\* evaluate_budget with on_exhaustion = pause: 0 ok, 1 warn, 3 over.
Severity(spent, ceiling) ==
  CASE ceiling = 0             -> 0
    [] spent >= ceiling        -> 3
    [] 5 * spent >= 4 * ceiling -> 1
    [] OTHER                   -> 0

\* Mutant: the brake knows the turns its own runner completed.
Verdict_Current(a) ==
  MaxOf({Severity(Cardinality({e \in eledger : e[1] = a /\ e[2] = erunner[a]}), Ceiling),
         Severity(Spent(Spenders), PoolCeiling)})

\* budget_verdict: of the agent's own rule and the pool's, the more restrictive.
Verdict(a) ==
  MaxOf({Severity(Spent({a}), Ceiling), Severity(Spent(Spenders), PoolCeiling)})

\* Mutant: what is compared is the spend of the runner that is up.
Reconcile_Current(a) ==
  Cardinality({e \in eledger : e[1] = a /\ e[2] = erunner[a]}) - eturn[a]

\* budget_reconcile: ledger less usage; negative is spend no ceiling saw.
Reconcile(a) == Spent({a}) - eusage[a]

-----------------------------------------------------------------------------
(* Epochs *)

\* Mutant: the counter the epochs had before they were durable.
PriorEpoch_None(a) == 0

\* _prior_ledger_epoch: only asked when the row is missing or garbled.
PriorEpoch(a) == MaxOf({0} \cup {e[2] : e \in {f \in eledger : f[1] = a}})

\* _allocate_runner_epoch, of the runner a start or a restart makes.
MakeRunner(a) ==
  LET persisted == IF emeta[a] \in {0, Garbled} THEN PriorEpoch(a) ELSE emeta[a]
      epoch     == MaxOf({persisted, eissued[a]}) + 1
  IN  /\ emade < MaxMade /\ a \notin ereported
      /\ emade' = emade + 1
      /\ eissued' = [eissued EXCEPT ![a] = epoch]
      /\ erunner' = [erunner EXCEPT ![a] = epoch]
      /\ eturn' = [eturn EXCEPT ![a] = 0]
      /\ \/ Succeeds /\ emeta' = [emeta EXCEPT ![a] = epoch]
         \/ Fails("meta") /\ UNCHANGED emeta
      /\ UNCHANGED <<eledger, esnapshot, eusage, ereported, eturns, ecrashes, edropped, eleaked>>

\* The row is damaged on disk; the next process reads it.
Garble(a) ==
  /\ emeta[a] > 0 /\ "garbled" \notin efailed
  /\ efailed' = efailed \cup {"garbled"}
  /\ emeta' = [emeta EXCEPT ![a] = Garbled]
  /\ UNCHANGED <<eissued, eledger, esnapshot, eusage, erunner, eturn, ereported, emade,
                 eturns, ecrashes, edropped, eleaked>>

-----------------------------------------------------------------------------
(* Turns *)

\* A turn completes: record_usage in a thread, then the line of its end.
RecordUsage(a) ==
  /\ erunner[a] > 0 /\ a \notin ereported /\ eturns < MaxTurns
  /\ eturns' = eturns + 1
  /\ ereported' = ereported \cup {a}
  /\ \/ Succeeds /\ eusage' = [eusage EXCEPT ![a] = @ + 1]
     \/ Fails("usage") /\ UNCHANGED eusage
  /\ UNCHANGED <<emeta, eissued, eledger, esnapshot, erunner, eturn, emade, ecrashes,
                 edropped, eleaked>>

\* budget_charge: idempotent by its key, and persisted when it changed.
Charge(a) ==
  LET key == <<a, erunner[a], eturn[a] + 1>>
  IN  /\ a \in ereported
      /\ ereported' = ereported \ {a}
      /\ eturn' = [eturn EXCEPT ![a] = @ + 1]
      /\ eledger' = eledger \cup {key}
      /\ edropped' = (edropped \/ key \in eledger)
      /\ eleaked' = IF key \in eledger THEN eleaked \cup {a} ELSE eleaked
      /\ IF key \in eledger THEN UNCHANGED <<esnapshot, efailed>>
         ELSE \/ Succeeds /\ esnapshot' = eledger'
              \/ Fails("snapshot") /\ UNCHANGED esnapshot
      /\ UNCHANGED <<emeta, eissued, eusage, erunner, emade, eturns, ecrashes>>

\* The runner is cancelled between the two, and the turn is never charged.
CancelledUncharged(a) ==
  /\ a \in ereported
  /\ ereported' = ereported \ {a}
  /\ erunner' = [erunner EXCEPT ![a] = 0]
  /\ eleaked' = eleaked \cup {a}
  /\ UNCHANGED <<emeta, eissued, eledger, esnapshot, eusage, eturn, emade, eturns,
                 ecrashes, efailed, edropped>>

\* The daemon goes down and up: what is in memory is lost.
Crash ==
  /\ ecrashes < MaxCrashes
  /\ ecrashes' = ecrashes + 1
  /\ eissued' = [a \in Spenders |-> 0]
  /\ eledger' = esnapshot
  /\ erunner' = [a \in Spenders |-> 0]
  /\ eturn' = [a \in Spenders |-> 0]
  /\ ereported' = {}
  /\ eleaked' = eleaked \cup ereported \cup {e[1] : e \in eledger \ esnapshot}
  /\ UNCHANGED <<emeta, esnapshot, eusage, emade, eturns, efailed, edropped>>

EpochsNext ==
  \/ \E a \in Spenders :
       MakeRunner(a) \/ Garble(a) \/ RecordUsage(a) \/ Charge(a) \/ CancelledUncharged(a)
  \/ Crash

EpochsSpec == EpochsInit /\ [][EpochsNext]_epochsVars

-----------------------------------------------------------------------------
(* What the operator relies on *)

(* "Spend laundered by restart" does not happen: as long as no write of an  *)
(* epoch has failed, no turn is dropped as a duplicate, over crashes,       *)
(* restarts, damaged rows and lost snapshots.                               *)
NoChargeDropped == "meta" \notin efailed => ~edropped

(* Enforcement follows the ledger and not the process: while every snapshot *)
(* was written, no verdict ever softens, least of all over a restart.       *)
EnforcementSurvives ==
  [][\A a \in Spenders : "snapshot" \notin efailed' =>
       Verdict(a)' >= Verdict(a)]_epochsVars

(* A turn that no ceiling saw is a turn the operator can see: while the     *)
(* usage table is complete, the reconciliation of its agent is negative.    *)
LeakIsReported ==
  \A a \in Spenders : a \in eleaked /\ "usage" \notin efailed => Reconcile(a) < 0

(* Spend is in the ledger, or its absence shows.                            *)
LedgerIsWhole == NoChargeDropped /\ LeakIsReported
=============================================================================
