------------------------------ MODULE ToolCalls ------------------------------
(***************************************************************************)
(* What a runner keeps about its tool calls (daemon/runner.py: _check_loop, *)
(* _action_ledger_start, _action_ledger_finish, the pop of a refused call,  *)
(* the idle watchdog; memory/actions.py: ActionLedger): the ring of recent  *)
(* calls that tells a loop, the map of calls in flight that tells a quiet   *)
(* turn from a long tool, and the rows of the ledger, the one part that     *)
(* outlives the process.                                                    *)
(*                                                                         *)
(* The messages of a turn are processed in order, but the results of two    *)
(* calls may come in any order, and a turn may end, by the watchdog, an     *)
(* interrupt or the crash of the process, at any await. A name with its     *)
(* arguments is one value: Bare is the key of a loop, Pretty the name the   *)
(* ledger gets. Calls are numbered as they come, so that the deque and the  *)
(* dicts, which keep their entries in order, are sets of calls here.        *)
(***************************************************************************)
EXTENDS Integers, FiniteSets, Sequences

CONSTANTS
  Names,                  \* tool names, as the backend gives them
  BareOf,                 \* [Names -> ...]: without mcp__server__
  PrettyOf,               \* [Names -> ...]: _prettify_tool_name
  Polling,                \* bare names of the ignored patterns
  Results,                \* [Names -> SUBSET {"ok", "error", "refused"}]: refused is an
                          \* error for a pending question
  Shared,                 \* names that other agents have called as well
  Native,                 \* the backend reports its tools as native actions
  LoopThreshold, LoopWindow,           \* loop_detection_threshold, loop_detection_window
  CrossWindow,            \* cross_job_loop_window_minutes, in ticks
  MaxTracked,             \* 256
  MaxUses, MaxNow, MaxTroubles            \* bounds: calls, time, and
                          \* failures of the ledger and restarts together

ASSUME ToolCallsAssumption ==
  /\ Results \in [Names -> SUBSET {"ok", "error", "refused"}]
  /\ Shared \subseteq Names /\ Native \in BOOLEAN
  /\ LoopWindow \in Nat /\ LoopThreshold \in 2..LoopWindow     \* 1 and less disable it
  /\ {CrossWindow, MaxTracked, MaxUses, MaxNow, MaxTroubles} \subseteq Nat
  \* No server.tool is the bare name of another tool; and the tools of the bus, which
  \* alone refuse for a pending question, have a server in their names, but for a
  \* backend with native actions.
  /\ \A name, other \in Names : PrettyOf[name] = BareOf[other] =>
       BareOf[name] = BareOf[other] /\ (Native \/ "refused" \notin Results[name])

VARIABLES
  luses,                  \* the calls of this agent, by number: [name, st]
  ldoing,                 \* the call whose message is being processed, and how far
  lring,                  \* _recent_tool_calls: the calls whose keys it holds
  lindex,                 \* _loop_ring_index: calls
  linflight,              \* _inflight_actions: calls
  lreported,              \* _loop_reported
  lrows,                  \* the actions table: [use, agent, tool, at, outcome]
  lnow, lrun,             \* the clock; the process
  lhitches,               \* reads and writes of the ledger that failed
  lasked,                 \* history: [key, calls] of the loop questions that were filed
  lblind,                 \* history: keys for which the count failed
  lfirst,                 \* history: the first call of this process
  lcut,                   \* history: calls that ran when the watchdog cut their turn
  ldropped                \* history: calls without an entry, for a failure or for the cap

toolVars == <<luses, ldoing, lring, lindex, linflight, lreported, lrows, lnow, lrun,
              lhitches, lasked, lblind, lfirst, lcut, ldropped>>

Idle == [use |-> 0, at |-> "none"]
Key(u) == BareOf[luses[u].name]
Trouble == lhitches + lrun <= MaxTroubles

ToolInit ==
  /\ luses = <<>> /\ ldoing = Idle
  /\ lring = {} /\ lindex = {} /\ linflight = {} /\ lreported = {}
  /\ lrows \in SUBSET {[use |-> 0, agent |-> "other", tool |-> PrettyOf[name], at |-> 1,
                        outcome |-> "none"] : name \in Shared}
  /\ lnow = 1 /\ lrun = 1 /\ lhitches = 0
  /\ lasked = {} /\ lblind = {} /\ lfirst = 1 /\ lcut = {} /\ ldropped = {}

\* A deque or a dict takes the call u; beyond n entries it drops its oldest.
Entered(S, u, n) ==
  LET all == S \cup {u}
  IN  IF Cardinality(all) > n THEN all \ {CHOOSE c \in all : \A d \in all : c <= d} ELSE all

-----------------------------------------------------------------------------
(* The ledger *)

\* Mutant: the rows of every agent count.
CountRecent_All(tool) ==
  Cardinality({row \in lrows : row.tool = tool /\ row.at >= lnow - CrossWindow})

CountRecent(tool) ==
  Cardinality({row \in lrows : /\ row.tool = tool /\ row.at >= lnow - CrossWindow
                               /\ row.agent = "self"})

-----------------------------------------------------------------------------
(* A call begins *)

\* The calls of the agent under this key, but for those that were refused: what a
\* loop is made of.
Real(key) ==
  Cardinality({u \in DOMAIN luses : Key(u) = key /\ luses[u].st # "refused"})

\* on_loop, once per key and process.
Report(key) ==
  /\ lreported' = lreported \cup {key}
  /\ lasked' = IF key \in lreported THEN lasked
               ELSE lasked \cup {[key |-> key, calls |-> Real(key) + 1]}

\* _check_loop: the ring first, then the ledger, which does not hold this call yet.
CheckLoop(key, use) ==
  LET ring == Entered(lring, use, LoopWindow)
      looping == Cardinality({u \in ring : u = use \/ Key(u) = key}) >= LoopThreshold
  IN  /\ lring' = IF looping THEN {} ELSE ring
      /\ lindex' = Entered(lindex, use, MaxTracked)
      /\ \/ looping /\ Report(key) /\ UNCHANGED <<lblind, lhitches>>
         \/ /\ ~looping /\ UNCHANGED <<lblind, lhitches>>
            /\ IF CountRecent(key) + 1 >= LoopThreshold THEN Report(key)
               ELSE UNCHANGED <<lreported, lasked>>
         \/ /\ ~looping /\ Trouble
            /\ lhitches' = lhitches + 1 /\ lblind' = lblind \cup {key}
            /\ UNCHANGED <<lreported, lasked>>

ToolCallArrives(name) ==
  LET key == BareOf[name]  use == Len(luses) + 1
  IN  /\ ldoing = Idle /\ use <= MaxUses
      /\ luses' = Append(luses, [name |-> name, st |-> "starting"])
      /\ ldoing' = [use |-> use, at |-> "start"]
      /\ \/ key \notin Polling /\ CheckLoop(key, use)
         \/ key \in Polling /\ UNCHANGED <<lring, lindex, lblind, lhitches, lreported, lasked>>
      /\ UNCHANGED <<linflight, lrows, lnow, lrun, lfirst, lcut, ldropped>>

Started(u) ==
  lrows \cup {[use |-> u, agent |-> "self", tool |-> PrettyOf[luses[u].name], at |-> lnow,
               outcome |-> "none"]}

SetState(u, st) == [luses EXCEPT ![u].st = st]

\* _action_ledger_start: the row, in a thread, and then the entry; a failure is
\* swallowed and leaves neither.
ActionStarts ==
  LET u == ldoing.use
  IN  /\ ldoing.at = "start"
      /\ ldoing' = Idle /\ luses' = SetState(u, "running")
      /\ \/ /\ lrows' = Started(u)
            /\ linflight' = Entered(linflight, u, MaxTracked)
            /\ ldropped' = ldropped \cup ((linflight \cup {u}) \ linflight')
            /\ UNCHANGED lhitches
         \/ /\ Trouble /\ lhitches' = lhitches + 1
            /\ ldropped' = ldropped \cup {u}
            /\ UNCHANGED <<lrows, linflight>>
      /\ UNCHANGED <<lring, lindex, lreported, lnow, lrun, lasked, lblind,
                     lfirst, lcut>>

-----------------------------------------------------------------------------
(* Its result *)

\* Only an error may have been a gate's refusal.
AfterFinish(u, out) == IF out = "ok" THEN Idle ELSE [use |-> u, at |-> "pop"]

\* The entry goes before the row is written.
ResultArrives(u) ==
  /\ ldoing = Idle /\ luses[u].st = "running"
  /\ linflight' = linflight \ {u}
  /\ \E out \in Results[luses[u].name] :
       /\ luses' = SetState(u, out)
       /\ ldoing' = IF u \in linflight THEN [use |-> u, at |-> "finish"]
                    ELSE AfterFinish(u, out)
  /\ UNCHANGED <<lring, lindex, lreported, lrows, lnow, lrun, lhitches,
                 lasked, lblind, lfirst, lcut, ldropped>>

Outcome(u) == IF luses[u].st = "ok" THEN "ok" ELSE "error"

\* Mutant: the row that the call's tool began last.
Finished_Latest(u) ==
  {IF row.agent = "self" /\ row.tool = PrettyOf[luses[u].name] /\ \A other \in lrows :
        other.tool = row.tool /\ other.agent = "self" => other.use <= row.use
   THEN [row EXCEPT !.outcome = Outcome(u)] ELSE row : row \in lrows}

Finish(u) ==
  {IF row.use = u THEN [row EXCEPT !.outcome = Outcome(u)] ELSE row : row \in lrows}

\* record_finish, in a thread; a failure leaves the row as it was begun.
ActionFinishes ==
  /\ ldoing.at = "finish"
  /\ ldoing' = AfterFinish(ldoing.use, luses[ldoing.use].st)
  /\ \/ lrows' = Finish(ldoing.use) /\ UNCHANGED <<lhitches, ldropped>>
     \/ /\ Trouble /\ lhitches' = lhitches + 1
        /\ ldropped' = ldropped \cup {ldoing.use}
        /\ UNCHANGED lrows
  /\ UNCHANGED <<luses, lring, lindex, linflight, lreported, lnow, lrun, 
                 lasked, lblind, lfirst, lcut>>

\* Without the latest entry of a key.
DropLatest(ring, key) ==
  ring \ {u \in ring : Key(u) = key /\ \A v \in ring : Key(v) = key => v <= u}

\* Mutant: a refused call stays in the ring.
PopRefused_Not(u) == lring

\* A call that a gate refused does not count towards a loop.
PopRefused(u) == IF u \in lindex THEN DropLatest(lring, Key(u)) ELSE lring

\* _pop_loop_entry_on_gate_refusal, for an error that is not a native action's. A
\* refused call is unpopped when this does not find it.
LoopEntryPops ==
  LET u == ldoing.use
  IN  /\ ldoing.at = "pop"
      /\ ldoing' = Idle
      /\ lring' = IF luses[u].st = "refused" /\ ~Native THEN PopRefused(u) ELSE lring
      /\ lindex' = IF ~Native THEN lindex \ {u} ELSE lindex
      /\ luses' = IF luses[u].st = "refused" /\ (Native \/ u \notin lindex)
                  THEN SetState(u, "unpopped") ELSE luses
      /\ UNCHANGED <<linflight, lreported, lrows, lnow, lrun, lhitches, lasked, lblind,
                     lfirst, lcut, ldropped>>

-----------------------------------------------------------------------------
(* The turn, the watchdog and the process *)

Underway == {u \in DOMAIN luses : luses[u].st \in {"starting", "running"}}

\* The turn is over for its calls; a row whose thread is at work is written or not.
TurnIsOver ==
  /\ ldoing' = Idle
  /\ luses' = [u \in DOMAIN luses |->
                 IF u \in Underway THEN [luses[u] EXCEPT !.st = "lost"]
                 ELSE IF u = ldoing.use /\ luses[u].st = "refused"
                   THEN [luses[u] EXCEPT !.st = "unpopped"] ELSE luses[u]]
  /\ lrows' \in IF ldoing.at = "start" THEN {lrows, Started(ldoing.use)}
                ELSE IF ldoing.at = "finish" THEN {lrows, Finish(ldoing.use)}
                ELSE {lrows}
  /\ ldropped' = IF ldoing = Idle THEN ldropped ELSE ldropped \cup {ldoing.use}

\* It completes, or an interrupt, the hard cap or an error ends it.
TurnStops ==
  /\ TurnIsOver
  /\ UNCHANGED <<lring, lindex, linflight, lreported, lnow, lrun, lhitches,
                 lasked, lblind, lfirst, lcut>>

\* Mutant: the watchdog looks at the clock only.
IsIdle_Quiet == ldoing = Idle

\* No event for prompt_timeout, and no tool in flight.
IsIdle == ldoing = Idle /\ linflight = {}

WatchdogCuts ==
  /\ IsIdle
  /\ lcut' = lcut \cup Underway
  /\ TurnIsOver
  /\ UNCHANGED <<lring, lindex, linflight, lreported, lnow, lrun, lhitches,
                 lasked, lblind, lfirst>>

\* The process crashes, and the supervisor starts it again: a new runner, the same
\* ledger.
ProcessRestarts ==
  /\ Trouble /\ lrun' = lrun + 1
  /\ TurnIsOver
  /\ lring' = {} /\ lindex' = {} /\ linflight' = {} /\ lreported' = {}
  /\ lfirst' = Len(luses) + 1
  /\ UNCHANGED <<lnow, lhitches, lasked, lblind, lcut>>

ClockTicks ==
  /\ lnow < MaxNow /\ lnow' = lnow + 1
  /\ UNCHANGED <<luses, ldoing, lring, lindex, linflight, lreported, lrows, lrun,
                 lhitches, lasked, lblind, lfirst, lcut, ldropped>>

ToolNext ==
  \/ \E name \in Names : ToolCallArrives(name)
  \/ \E u \in DOMAIN luses : ResultArrives(u)
  \/ ActionStarts \/ ActionFinishes \/ LoopEntryPops
  \/ TurnStops \/ WatchdogCuts \/ ProcessRestarts \/ ClockTicks

ToolSpec == ToolInit /\ [][ToolNext]_toolVars

-----------------------------------------------------------------------------
(* What the operator and the agents rely on *)

Asked(key) == \E q \in lasked : q.key = key

\* The calls from u on, of this process, that the ring is meant for.
Since(u) == {v \in DOMAIN luses : v >= u /\ v >= lfirst /\ Key(v) \notin Polling}

(* A loop question is about a loop of this agent: it made the call that     *)
(* often, other agents' calls apart, and those which a gate refused and it   *)
(* was right to repeat, whatever was in flight beside them.                  *)
NoFalseQuestion == \A q \in lasked : q.calls >= LoopThreshold

(* And a loop is told of: calls in a row of one process, none of which a    *)
(* gate refused, or, for a tool whose name has no server in it, as many rows *)
(* in the window, of whatever process.                                      *)
LoopIsTold ==
  /\ \A u \in DOMAIN luses : LET key == Key(u) IN
       (\A v \in Since(u) : Key(v) = key) /\ Cardinality(Since(u)) >= LoopThreshold =>
          Asked(key) \/ \E v \in DOMAIN luses : Key(v) = key /\ luses[v].st = "refused"
  /\ \A name \in Names : LET key == BareOf[name] IN
       PrettyOf[name] = key /\ key \notin Polling /\ CountRecent(key) >= LoopThreshold =>
         Asked(key) \/ key \in lblind

(* The watchdog never cuts a turn off while a tool of it runs, however long *)
(* it takes and whichever other call ended meanwhile, unless the tool's     *)
(* start was not recorded; and it waits only for a call that runs, or whose *)
(* result never came.                                                       *)
LongToolsSurvive ==
  /\ lcut \subseteq ldropped
  /\ \A u \in linflight : luses[u].st \in {"running", "lost"}

(* A row says ok or error only of its own call, whatever the order of the   *)
(* results; it says nothing only while the call runs, or for ever when its  *)
(* result never came or could not be written.                               *)
LedgerTellsOutcome ==
  \A row \in lrows : row.agent = "self" =>
    \/ row.outcome = Outcome(row.use) /\ luses[row.use].st \in {"ok", "error", "refused", "unpopped"}
    \/ row.outcome = "none" /\ \/ row.use \in Underway \cup {ldoing.use} \cup ldropped
                               \/ luses[row.use].st = "lost"

(* The four together.                                                       *)
ToolCallsHold == NoFalseQuestion /\ LoopIsTold /\ LongToolsSurvive /\ LedgerTellsOutcome

(* "The SAME agent repeating it across runs still fires", for the ledger is *)
(* "the only check that sees run 2": as many calls of one key in the window, *)
(* by their rows, none of them refused, are asked about.                    *)
CrossRunLoopIsTold ==
  \A key \in {BareOf[name] : name \in Names} \ (Polling \cup lblind) :
    Cardinality({row \in lrows : /\ row.agent = "self" /\ row.at >= lnow - CrossWindow
                                 /\ Key(row.use) = key /\ luses[row.use].st # "refused"})
      >= LoopThreshold => Asked(key)
=============================================================================
