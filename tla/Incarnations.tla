----------------------------- MODULE Incarnations -----------------------------
(***************************************************************************)
(* The runners that serve one agent name, one after the other, and the     *)
(* tool subprocesses registered under that name: start_agent and restart   *)
(* (daemon/_runner_factory.py), spawn_template (bus/_lifecycle.py), the    *)
(* end of _run and quiesce (daemon/runner.py), daemon/proc_registry.py and *)
(* daemon/cgroups.py.                                                      *)
(*                                                                         *)
(* An incarnation is made, runs, leaves its loop (it then fails futures    *)
(* and disconnects), reaps and forgets the subprocesses of its name, is    *)
(* "stopped", and its task ends. A wedged one ignores its cancellation.    *)
(* The registry is keyed by the name, so all incarnations share a bucket.  *)
(***************************************************************************)
EXTENDS Naturals, FiniteSets

CONSTANTS
  MaxIncarnations,   \* bound
  Pids,              \* tool subprocesses, each spawned once
  Spawners           \* calls of spawn_template that may overlap

ASSUME IncarnationsAssumption == MaxIncarnations \in Nat \ {0}

VARIABLES
  itable,            \* runners[name], 0 for none
  iat,               \* of each incarnation: none, made, running, leaving, stopped, ended
  istop,             \* incarnations with _stop_requested
  ispawning,         \* of each spawner, the runner it has reserved, 0 for none
  irestart,          \* the incarnation a restart waits for, 0 for none
  ireplaced,    \* history: unfinished ones a restart of another replaced
  iproc,             \* of each pid: none, alive, immune, dying, dead
  iowner,            \* of each pid, the incarnation that spawned it
  ibucket,           \* pids registered under the name
  iforgotten,        \* history: pids the bucket was cleared of
  icgroup,           \* Tier 2: unknown, unavailable, available
  iquiesce,          \* idle, waiting, cancelled, signalled
  isubject,          \* the incarnation being quiesced
  ireport            \* the last report: none, proven, forced, unverified

incarnationsVars ==
  <<itable, iat, istop, ispawning, irestart, ireplaced, iproc, iowner, ibucket,
    iforgotten, icgroup, iquiesce, isubject, ireport>>

Incs == 1..MaxIncarnations

IncarnationsInit ==
  /\ itable = 0 /\ iat = [k \in Incs |-> "none"] /\ istop = {}
  /\ ispawning = [s \in Spawners |-> 0] /\ irestart = 0 /\ ireplaced = {}
  /\ iproc = [p \in Pids |-> "none"] /\ iowner = [p \in Pids |-> 0]
  /\ ibucket = {} /\ iforgotten = {} /\ icgroup = "unknown"
  /\ iquiesce = "idle" /\ isubject = 0 /\ ireport = "none"

Processes == <<iproc, iowner, ibucket, iforgotten, icgroup>>
Quiescing == <<iquiesce, isubject, ireport>>

Fresh(k) == iat[k] = "none" /\ \A j \in 1..(k - 1) : iat[j] # "none"
Live(k) == iat[k] \in {"made", "running"} /\ k \notin istop
Alive(p) == iproc[p] \in {"alive", "immune", "dying"}

\* What start_agent and spawn_template ask before they make a runner.
Vacant == \A k \in Incs : k = itable => iat[k] \in {"stopped", "ended"}

-----------------------------------------------------------------------------
(* Coming up *)

\* start_agent has no await before the task exists.
StartAgent(k) ==
  /\ Vacant /\ Fresh(k)
  /\ iat' = [iat EXCEPT ![k] = "running"]
  /\ itable' = k
  /\ UNCHANGED <<istop, ispawning, irestart, ireplaced>>
  /\ UNCHANGED Processes /\ UNCHANGED Quiescing

\* Mutant: the runner is put in the table when it has been started.
Reserved_Late(k) == itable

\* The slot is taken with the check, before the bypass is recorded.
Reserved(k) == k

SpawnReserve(s, k) ==
  /\ ispawning[s] = 0
  /\ Vacant /\ Fresh(k)
  /\ iat' = [iat EXCEPT ![k] = "made"]
  /\ ispawning' = [ispawning EXCEPT ![s] = k]
  /\ itable' = Reserved(k)
  /\ UNCHANGED <<istop, irestart, ireplaced>>
  /\ UNCHANGED Processes /\ UNCHANGED Quiescing

SpawnStart(s) ==
  LET k == ispawning[s]
  IN  /\ k # 0 /\ iat[k] = "made"
      /\ iat' = [iat EXCEPT ![k] = "running"]
      /\ ispawning' = [ispawning EXCEPT ![s] = 0]
      /\ itable' = IF Reserved(k) = k THEN itable ELSE k
      /\ UNCHANGED <<istop, irestart, ireplaced>>
      /\ UNCHANGED Processes /\ UNCHANGED Quiescing

\* The audit failed, or a stop was seen after it: only the own slot is freed.
SpawnRollback(s) ==
  LET k == ispawning[s]
  IN  /\ k # 0 /\ iat[k] = "made"
      /\ iat' = [iat EXCEPT ![k] = "ended"]
      /\ ispawning' = [ispawning EXCEPT ![s] = 0]
      /\ itable' = IF itable = k THEN 0 ELSE itable
      /\ UNCHANGED <<istop, irestart, ireplaced>>
      /\ UNCHANGED Processes /\ UNCHANGED Quiescing

\* stop(): an operator's, the killswitch's.
Stop ==
  /\ itable # 0 /\ itable \notin istop
  /\ istop' = istop \cup {itable}
  /\ UNCHANGED <<itable, iat, ispawning, irestart, ireplaced>>
  /\ UNCHANGED Processes /\ UNCHANGED Quiescing

\* _restart_one_agent: stop, then wait for the task to end.
RestartStop ==
  /\ irestart = 0
  /\ \E k \in Incs : k = itable /\ iat[k] \in {"running", "leaving"}
  /\ istop' = istop \cup {itable}
  /\ irestart' = itable
  /\ UNCHANGED <<itable, iat, ispawning, ireplaced>>
  /\ UNCHANGED Processes /\ UNCHANGED Quiescing

\* Mutant: the restart does not wait for the old one.
Drained_Not(k) == TRUE

\* The wait is bounded by a cancellation, which is awaited too.
Drained(k) == iat[k] = "ended"

\* Then the table is overwritten, whoever is in it by now.
RestartMake(k) ==
  /\ irestart # 0 /\ Drained(irestart)
  /\ Fresh(k)
  /\ iat' = [iat EXCEPT ![k] = "running"]
  /\ itable' = k
  /\ irestart' = 0
  /\ ireplaced' =
       ireplaced \cup {j \in Incs \ {irestart} : j = itable /\ iat[j] \notin {"stopped", "ended"}}
  /\ UNCHANGED <<istop, ispawning>>
  /\ UNCHANGED Processes /\ UNCHANGED Quiescing

-----------------------------------------------------------------------------
(* Going down *)

\* The loop ends: stopped, idle for too long, crashed or cancelled.
LeaveLoop(k) ==
  /\ iat[k] = "running"
  /\ iat' = [iat EXCEPT ![k] = "leaving"]
  /\ UNCHANGED <<itable, istop, ispawning, irestart, ireplaced>>
  /\ UNCHANGED Processes /\ UNCHANGED Quiescing

\* A signal to every registered process: one that is not ours to signal stays.
Signalled(bucket) ==
  [p \in Pids |-> IF p \in bucket /\ iproc[p] = "alive" THEN "dying" ELSE iproc[p]]

\* cgroup.kill is not refused by a process's user, and reaches all of them.
CgroupKilled(procs) ==
  [p \in Pids |-> IF procs[p] \in {"alive", "immune"} THEN "dying" ELSE procs[p]]

\* After disconnect: the bucket is reaped and forgotten, the status is stopped.
ReapAndForget(k) ==
  /\ iat[k] = "leaving"
  /\ iat' = [iat EXCEPT ![k] = "stopped"]
  /\ iproc' = IF icgroup = "available" THEN CgroupKilled(Signalled(ibucket))
              ELSE Signalled(ibucket)
  /\ iforgotten' = iforgotten \cup ibucket
  /\ ibucket' = {}
  /\ UNCHANGED <<itable, istop, ispawning, irestart, ireplaced, iowner, icgroup>>
  /\ UNCHANGED Quiescing

\* The last line is logged.
TaskEnds(k) ==
  /\ iat[k] = "stopped"
  /\ iat' = [iat EXCEPT ![k] = "ended"]
  /\ UNCHANGED <<itable, istop, ispawning, irestart, ireplaced>>
  /\ UNCHANGED Processes /\ UNCHANGED Quiescing

-----------------------------------------------------------------------------
(* Tool subprocesses *)

Runners == <<itable, iat, istop, ispawning, irestart, ireplaced>>

SpawnTool(k, p) ==
  /\ iat[k] = "running" /\ iproc[p] = "none"
  /\ \E state \in {"alive", "immune"} : iproc' = [iproc EXCEPT ![p] = state]
  /\ iowner' = [iowner EXCEPT ![p] = k]
  /\ ibucket' = ibucket \cup {p}
  /\ UNCHANGED <<iforgotten, icgroup>> /\ UNCHANGED Runners /\ UNCHANGED Quiescing

\* A tool whose process ended deregisters it; a signalled one just dies.
ToolEnds(p) ==
  /\ iproc[p] \in {"alive", "immune"} /\ iat[iowner[p]] = "running"
  /\ iproc' = [iproc EXCEPT ![p] = "dead"]
  /\ ibucket' = ibucket \ {p}
  /\ UNCHANGED <<iowner, iforgotten, icgroup>> /\ UNCHANGED Runners /\ UNCHANGED Quiescing

Dies(p) ==
  /\ iproc[p] = "dying"
  /\ iproc' = [iproc EXCEPT ![p] = "dead"]
  /\ UNCHANGED <<iowner, ibucket, iforgotten, icgroup>>
  /\ UNCHANGED Runners /\ UNCHANGED Quiescing

\* CgroupReaper.init at boot.
ProbeCgroups ==
  /\ icgroup = "unknown" /\ itable = 0
  /\ icgroup' \in {"unavailable", "available"}
  /\ UNCHANGED <<iproc, iowner, ibucket, iforgotten>>
  /\ UNCHANGED Runners /\ UNCHANGED Quiescing

-----------------------------------------------------------------------------
(* quiesce *)

QuiesceBegin ==
  /\ iquiesce = "idle" /\ itable \in {k \in istop : iat[k] # "made"}
  /\ iquiesce' = "waiting" /\ isubject' = itable
  /\ UNCHANGED ireport /\ UNCHANGED Runners /\ UNCHANGED Processes

\* The grace period is over: the task is cancelled, which a wedged one ignores.
QuiesceCancel ==
  /\ iquiesce = "waiting" /\ iat[isubject] # "ended"
  /\ iquiesce' = "cancelled"
  /\ UNCHANGED <<isubject, ireport>> /\ UNCHANGED Runners /\ UNCHANGED Processes

\* The report begins: every registered process is signalled.
QuiesceReap ==
  /\ iquiesce \in {"waiting", "cancelled"}
  /\ iquiesce = "waiting" => iat[isubject] = "ended"
  /\ iproc' = Signalled(ibucket)
  /\ iquiesce' = "signalled"
  /\ UNCHANGED <<isubject, ireport, iowner, ibucket, iforgotten, icgroup>>
  /\ UNCHANGED Runners

\* Mutant: the bucket is forgotten before its survivors are counted.
Survivors_Forgotten == {}

\* live_survivors
Survivors == {p \in ibucket : Alive(p)}

\* After a moment: who is still there, and the bucket is forgotten whatever the
\* answer. With Tier 2 the group is killed as well, and after another moment what
\* is left of it is a survivor; without, only the bucket is known.
QuiesceReport ==
  LET members == IF icgroup = "available" THEN {p \in Pids : Alive(p)} ELSE {}
  IN  /\ iquiesce = "signalled"
      /\ \E left \in SUBSET members, accounted \in BOOLEAN :   \* the model's own process
           /\ iproc' = [p \in Pids |-> IF p \in left THEN "dying"
                                       ELSE IF p \in members THEN "dead" ELSE iproc[p]]
           /\ ireport' = IF Survivors # {} \/ left # {} \/ ~accounted THEN "unverified"
                         ELSE IF iat[isubject] = "ended" THEN "proven" ELSE "forced"
      /\ iforgotten' = iforgotten \cup ibucket
      /\ ibucket' = {}
      /\ iquiesce' = "idle"
      /\ UNCHANGED <<isubject, iowner, icgroup>> /\ UNCHANGED Runners

IncarnationsNext ==
  \/ \E k \in Incs :
       \/ StartAgent(k) \/ RestartMake(k) \/ LeaveLoop(k) \/ ReapAndForget(k) \/ TaskEnds(k)
       \/ \E s \in Spawners : SpawnReserve(s, k)
       \/ \E p \in Pids : SpawnTool(k, p)
  \/ \E s \in Spawners : SpawnStart(s) \/ SpawnRollback(s)
  \/ \E p \in Pids : ToolEnds(p) \/ Dies(p)
  \/ Stop \/ RestartStop \/ ProbeCgroups
  \/ QuiesceBegin \/ QuiesceCancel \/ QuiesceReap \/ QuiesceReport

IncarnationsSpec == IncarnationsInit /\ [][IncarnationsNext]_incarnationsVars

-----------------------------------------------------------------------------
(* What the operator relies on *)

(* No live runner is out of the killswitch's reach: overlapping spawns and  *)
(* starts never put one live runner in another's place. Only a restart can, *)
(* when an agent was started while it waited for the old task to end.       *)
NoOrphanRunner ==
  \A k \in Incs : Live(k) => k = itable \/ k \in ireplaced

(* An ending runner reaps by name: it never signals the subprocess of       *)
(* another incarnation, unless a restart has replaced one of the two.       *)
ReapsOnlyItsOwn ==
  \A k \in Incs, p \in Pids :
     iat[k] = "leaving" /\ iat'[k] = "stopped" /\ p \in ibucket =>
       iowner[p] = k \/ {iowner[p], k} \cap ireplaced # {}

(* A report other than unverified is right about every process the runner   *)
(* spawned: it is gone, or the registry had forgotten it before (an ending   *)
(* _run and an earlier report both clear it of processes still alive).      *)
QuiescentIsProven ==
  ireport' # ireport /\ ireport' \in {"proven", "forced"} =>
     \A p \in Pids : iowner[p] = isubject => ~Alive(p) \/ p \in iforgotten

(* The registry of an agent's name tells its incarnations apart: neither    *)
(* reaping at the end of one nor a report on one goes by another's state.    *)
RegistryKeepsApart == [][ReapsOnlyItsOwn /\ QuiescentIsProven]_incarnationsVars
=============================================================================
