------------------------------ MODULE CodexSession ------------------------------
(***************************************************************************)
(* The codex backends of one runner (codex.py, with what daemon/runner.py  *)
(* does around connect and disconnect): each starts a codex CLI in a       *)
(* thread, puts its pid into the registry of the runner's processes, holds *)
(* a credential for the tool gateway, and is the witness of the killswitch *)
(* that its CLI is gone. A failed attach makes the runner try again with a *)
(* new backend. Calls of the client run in threads, which a cancellation   *)
(* of the runner does not reach.                                           *)
(*                                                                         *)
(* External: start leaves a CLI that is alive or raises; close ends it, or *)
(* raises and may leave it; the CLI ends by itself at no time.             *)
(***************************************************************************)
EXTENDS Integers, Sequences

CONSTANTS MaxBackends, MaxCodexTurns     \* _MAX_GATEWAY_ATTACH_RETRIES + 1; bound

ASSUME CodexAssumption == MaxBackends \in Nat \ {0} /\ MaxCodexTurns \in Nat

VARIABLES
  xrun,               \* the runner's task: connecting, up, ending, ended
  xcur,               \* the current backend
  xstep,              \* where its connect or disconnect stands
  xchild,             \* of each backend: none, alive, dead
  xseen,              \* its pid can be resolved
  xthread,            \* it has a thread id
  xclosed,            \* disconnect has begun
  xreg,               \* backends whose pid is in the registry
  xpast,              \* history: backends with a pid whose connect went past its registration
  xtoken,             \* of each backend: none, live, revoked
  xlate,              \* backends with a call that outlives its cancellation: start, close
  xquiesced,          \* the last report: none, proven, unproven
  xturn, xturns,      \* a turn is on; turns begun
  xusage,             \* _usage: the turn it is of, 0 for none
  xbilled             \* history: of each finished turn, the turn whose usage was reported

codexVars == <<xrun, xcur, xstep, xchild, xseen, xthread, xclosed, xreg, xpast, xtoken, xlate,
               xquiesced, xturn, xturns, xusage, xbilled>>

Backends == 1..MaxBackends

CodexInit ==
  /\ xrun = "connecting" /\ xcur = 1 /\ xstep = "start"
  /\ xchild = [b \in Backends |-> "none"] /\ xseen = [b \in Backends |-> FALSE]
  /\ xthread = [b \in Backends |-> FALSE] /\ xclosed = [b \in Backends |-> FALSE]
  /\ xreg = {} /\ xpast = {} /\ xlate = {} /\ xquiesced = "none"
  /\ xtoken = [b \in Backends |-> IF b = 1 THEN "live" ELSE "none"]
  /\ xturn = FALSE /\ xturns = 0 /\ xusage = 0 /\ xbilled = <<>>

TurnSame == UNCHANGED <<xturn, xturns, xusage, xbilled>>
CurrentBackend(f, v) == [f EXCEPT ![xcur] = v]
CliAlive(b) == xchild[b] = "alive"

-----------------------------------------------------------------------------
(* connect *)

Connecting(step) == xrun = "connecting" /\ xstep = step

\* client.start in its thread, and back on the loop.
ClientStarted ==
  /\ Connecting("start")
  /\ xchild' = CurrentBackend(xchild, "alive") /\ \E found \in BOOLEAN : xseen' = CurrentBackend(xseen, found)
  /\ xstep' = "register"
  /\ UNCHANGED <<xrun, xcur, xthread, xclosed, xreg, xpast, xtoken, xlate, xquiesced>> /\ TurnSame

\* Mutant: the pid is registered at the end of connect only.
RegisterChild_Late == xreg' = IF xstep = "attach" /\ xseen[xcur] THEN xreg \cup {xcur} ELSE xreg

RegisterChild ==
  xreg' = IF xstep = "register" /\ xseen[xcur] THEN xreg \cup {xcur} ELSE xreg

\* The pid is registered, the client initialized, the account read, the thread
\* started, the gateway attached.
ConnectStep ==
  /\ \/ Connecting("register") /\ xstep' = "account" /\ UNCHANGED <<xrun, xthread>>
     \/ /\ Connecting("account") /\ xstep' = "attach"
        /\ xthread' = CurrentBackend(xthread, TRUE) /\ UNCHANGED xrun
     \/ Connecting("attach") /\ xstep' = "none" /\ xrun' = "up" /\ UNCHANGED xthread
  /\ RegisterChild
  /\ xpast' = IF xstep = "register" /\ xseen[xcur] THEN xpast \cup {xcur} ELSE xpast
  /\ UNCHANGED <<xcur, xchild, xseen, xclosed, xtoken, xlate, xquiesced>> /\ TurnSame

\* No CLI, no account, no thread: the runner's finally disconnects. It also does
\* so when the loop ends or the task is cancelled; then a start that has begun
\* goes on in its thread.
GoesDown ==
  /\ xrun \in {"connecting", "up"}
  /\ xrun' = "ending" /\ xstep' = "cancel"
  /\ xlate' = IF Connecting("start") THEN xlate \cup {xcur} ELSE xlate
  /\ UNCHANGED <<xcur, xchild, xseen, xthread, xclosed, xreg, xpast, xtoken, xquiesced>> /\ TurnSame

\* close ends the CLI, or fails; when it was cancelled it still ends it later.
Closed(b, ok) ==
  xchild' = [xchild EXCEPT ![b] = IF ok /\ @ = "alive" THEN "dead" ELSE @]

\* The bus tools did not arrive: the credential is revoked, the client closed,
\* and there is another attempt or none.
ConnectFails ==
  /\ Connecting("attach")
  /\ \E ok \in BOOLEAN : Closed(xcur, ok)
  /\ \/ /\ xcur < MaxBackends
        /\ xcur' = xcur + 1 /\ xstep' = "start"
        /\ xtoken' = [xtoken EXCEPT ![xcur] = "revoked", ![xcur + 1] = "live"]
        /\ UNCHANGED xrun
     \/ /\ xcur = MaxBackends
        /\ xrun' = "ending" /\ xstep' = "cancel"
        /\ xtoken' = CurrentBackend(xtoken, "revoked") /\ UNCHANGED xcur
  /\ UNCHANGED <<xseen, xthread, xclosed, xreg, xpast, xlate, xquiesced>> /\ TurnSame

\* The thread of an abandoned call comes to its end.
LateCall(b) ==
  /\ b \in xlate
  /\ xlate' = xlate \ {b}
  /\ \/ /\ xchild[b] = "none" /\ xchild' = [xchild EXCEPT ![b] = "alive"]
        /\ \E found \in BOOLEAN : xseen' = [xseen EXCEPT ![b] = found]
     \/ xchild[b] = "none" /\ UNCHANGED <<xchild, xseen>>
     \/ xchild[b] # "none" /\ Closed(b, TRUE) /\ UNCHANGED xseen
  /\ UNCHANGED <<xrun, xcur, xstep, xthread, xclosed, xreg, xpast, xtoken, xquiesced>> /\ TurnSame

-----------------------------------------------------------------------------
(* A turn *)

Up == xrun = "up" /\ xthread[xcur]

SessionSame == UNCHANGED <<xrun, xcur, xstep, xchild, xseen, xthread, xclosed, xreg, xpast, xtoken,
                           xlate, xquiesced>>

Query ==
  /\ Up /\ ~xturn /\ xturns < MaxCodexTurns
  /\ xturn' = TRUE /\ xturns' = xturns + 1
  /\ UNCHANGED <<xusage, xbilled>> /\ SessionSame

\* thread/tokenUsage/updated: the last slice is this turn's.
UsageUpdated ==
  /\ Up /\ xturn
  /\ xusage' = xturns
  /\ UNCHANGED <<xturn, xturns, xbilled>> /\ SessionSame

\* turn/completed, whatever its status, reports _usage; an error or a lost
\* transport ends the stream and reports none.
TurnEnds ==
  /\ Up /\ xturn
  /\ xturn' = FALSE
  /\ \E completed \in BOOLEAN : xbilled' = Append(xbilled, IF completed THEN xusage ELSE 0)
  /\ UNCHANGED <<xturns, xusage>> /\ SessionSame

-----------------------------------------------------------------------------
(* disconnect *)

\* What stands in which order: interrupt, close, the registry, the credential.
\* Mutant: the pid leaves the registry before the CLI is closed.
Deregister_First(ok) == xreg' = xreg \ {xcur}

Deregister(ok) == xreg' = IF ok THEN xreg \ {xcur} ELSE xreg

DisconnectBegins ==
  /\ xrun = "ending" /\ xstep = "cancel"
  /\ xclosed' = CurrentBackend(xclosed, TRUE) /\ xstep' = "close"
  /\ UNCHANGED <<xrun, xcur, xchild, xseen, xthread, xreg, xpast, xtoken, xlate, xquiesced>> /\ TurnSame

\* A close that raises skips the rest of disconnect.
DisconnectEnds ==
  /\ xrun = "ending" /\ xstep = "close"
  /\ \E ok \in BOOLEAN :
       /\ Closed(xcur, ok) /\ Deregister(ok)
       /\ xtoken' = IF ok THEN CurrentBackend(xtoken, "revoked") ELSE xtoken
  /\ xstep' = "reap"
  /\ UNCHANGED <<xrun, xcur, xseen, xthread, xclosed, xpast, xlate, xquiesced>> /\ TurnSame

ReapRegistered(reaped) ==
  xchild' = [b \in Backends |-> IF b \in reaped /\ CliAlive(b) THEN "dead" ELSE xchild[b]]

\* The runner's finally reaps what is registered and forgets it.
RunEnds ==
  /\ xrun = "ending" /\ xstep = "reap"
  /\ xrun' = "ended" /\ xstep' = "none"
  /\ ReapRegistered(xreg) /\ xreg' = {}
  /\ UNCHANGED <<xcur, xseen, xthread, xclosed, xpast, xtoken, xlate, xquiesced>> /\ TurnSame

\* A cancellation in disconnect leaves the finally; a close that has begun goes on.
DisconnectLeft ==
  /\ xrun = "ending" /\ xstep = "close"
  /\ xrun' = "ended" /\ xstep' = "none"
  /\ \E closing \in BOOLEAN : xlate' = IF closing THEN xlate \cup {xcur} ELSE xlate
  /\ UNCHANGED <<xcur, xchild, xseen, xthread, xclosed, xreg, xpast, xtoken, xquiesced>> /\ TurnSame

\* child_pid: absent, unknown (raises), or there.
ChildPid(b) ==
  CASE xclosed[b] \/ ~xthread[b] -> "absent"
    [] OTHER -> IF xseen[b] THEN "there" ELSE "unknown"

\* The quiescence report: it asks the current backend, then reaps and forgets.
Quiesce ==
  /\ xquiesced = "none"
  /\ LET proven == /\ ChildPid(xcur) = "absent" \/ (ChildPid(xcur) = "there" /\ ~CliAlive(xcur))
                   /\ xrun = "ended"
     IN  xquiesced' = IF proven THEN "proven" ELSE "unproven"
  /\ ReapRegistered(xreg) /\ xreg' = {}
  /\ UNCHANGED <<xrun, xcur, xstep, xseen, xthread, xclosed, xpast, xtoken, xlate>> /\ TurnSame

CodexNext ==
  \/ ClientStarted \/ ConnectStep \/ GoesDown \/ ConnectFails
  \/ \E b \in Backends : LateCall(b)
  \/ Query \/ UsageUpdated \/ TurnEnds
  \/ DisconnectBegins \/ DisconnectEnds \/ RunEnds \/ DisconnectLeft \/ Quiesce

CodexSpec == CodexInit /\ [][CodexNext]_codexVars

-----------------------------------------------------------------------------
(* What the killswitch and the accounts rely on *)

(* From the registration of its pid on, a CLI that lives is in the registry, *)
(* where the reap finds it: when child_pid calls it absent, when a close has *)
(* failed or was cancelled, and when a retry has put another backend in its  *)
(* place. So none lives after the report says proven.                        *)
AbsenceIsAccounted ==
  /\ \A b \in xpast : CliAlive(b) => b \in xreg
  /\ xquiesced = "proven" => \A b \in xpast : ~CliAlive(b)

(* 'Per-turn slice ("last") drives the input/output/cache accounting the    *)
(* runner sums each turn': what a turn reports is its own. A turn that has    *)
(* no update reports the last one's again: see README, section 6.            *)
UsageIsOwn == \A i \in 1..Len(xbilled) : xbilled[i] \in {0, i}
=============================================================================
