--------------------------- MODULE ConnectionProofs ---------------------------
(***************************************************************************)
(* Proofs about what an agent is connected to: the CLI processes of its    *)
(* codex backends, the credentials of its tool gateway, and the calls of a *)
(* worker's session. They hold for any number of backends, owners,         *)
(* requests, calls and tasks, and any bound on them.                       *)
(***************************************************************************)
EXTENDS CodexSession, McpGateway, WorkerSession, TLAPS

-----------------------------------------------------------------------------
(* CodexSession: AbsenceIsAccounted                                        *)

(* The inductive invariant. A backend that is past its registration has    *)
(* had a CLI, so no thread left behind starts another in its name; one     *)
(* that is still to start its CLI is not past it; and a report that said   *)
(* proven was made of a runner that has ended, which starts nothing more.  *)
CodexInv ==
  /\ xcur \in Backends
  /\ xchild \in [Backends -> {"none", "alive", "dead"}]
  /\ xpast \subseteq Backends
  /\ \A b \in xpast : b <= xcur /\ xchild[b] # "none"
  /\ Connecting("start") => xcur \notin xpast
  /\ xrun = "connecting" /\ xstep # "start" => xchild[xcur] # "none"
  /\ xquiesced = "proven" => xrun = "ended"
  /\ AbsenceIsAccounted

(* What the invariant reads.                                               *)
codexRead == <<xrun, xcur, xstep, xchild, xreg, xpast, xquiesced>>

(* A step that touches none of that keeps the invariant: the turns of the  *)
(* session, and the first half of disconnect.                              *)
LEMMA CodexUntouched ==
  ASSUME CodexInv, UNCHANGED codexRead
  PROVE  CodexInv'
BY DEF CodexInv, codexRead, AbsenceIsAccounted, CliAlive, Connecting, Backends

(* A CLI ends, or stays as it was.                                         *)
LEMMA ClosedCli ==
  ASSUME CodexInv, NEW b \in Backends, NEW ok \in BOOLEAN, Closed(b, ok)
  PROVE  /\ xchild' \in [Backends -> {"none", "alive", "dead"}]
         /\ \A d \in Backends : xchild'[d] = xchild[d] \/ (xchild[d] = "alive" /\ xchild'[d] = "dead")
         /\ ok => xchild'[b] # "alive"
BY DEF CodexInv, Closed

(* The reap leaves no registered CLI alive, and touches no other.          *)
LEMMA ReapedCli ==
  ASSUME CodexInv, ReapRegistered(xreg)
  PROVE  /\ xchild' \in [Backends -> {"none", "alive", "dead"}]
         /\ \A d \in Backends : xchild'[d] = IF d \in xreg /\ xchild[d] = "alive" THEN "dead" ELSE xchild[d]
BY DEF CodexInv, ReapRegistered, CliAlive

LEMMA CodexInit_Inv == CodexInit => CodexInv
BY CodexAssumption DEF CodexInit, CodexInv, AbsenceIsAccounted, Backends, Connecting

(* The start of a CLI is the first step of its backend, and the            *)
(* registration the next.                                                  *)
LEMMA ConnectKeeps ==
  ASSUME CodexInv, ClientStarted \/ ConnectStep
  PROVE  CodexInv'
<1> USE DEF Backends, Connecting
<1>1. CASE ClientStarted
  <2>1. /\ xchild' = [xchild EXCEPT ![xcur] = "alive"]
        /\ Connecting("start") /\ xrun' = xrun /\ xstep' = "register"
        /\ UNCHANGED <<xcur, xreg, xpast, xquiesced>>
    BY <1>1 DEF ClientStarted, CurrentBackend
  <2> QED BY <2>1 DEF CodexInv, AbsenceIsAccounted, CliAlive
<1>2. CASE ConnectStep
  <2>1. /\ UNCHANGED <<xcur, xchild, xquiesced>> /\ xrun = "connecting" /\ xstep' # "start"
        /\ xrun' \in {"connecting", "up"}
        /\ xstep \in {"register", "account", "attach"}
    BY <1>2 DEF ConnectStep
  <2>2. \/ xpast' = xpast /\ xreg' = xreg
        \/ xpast' = xpast \cup {xcur} /\ xreg' = xreg \cup {xcur}
    BY <1>2 DEF ConnectStep, RegisterChild
  <2>3. xchild[xcur] # "none" /\ xquiesced # "proven"
    BY <2>1 DEF CodexInv
  <2>4. /\ xcur' \in Backends /\ xpast' \subseteq Backends
        /\ xchild' \in [Backends -> {"none", "alive", "dead"}]
        /\ \A b \in xpast' : b <= xcur' /\ xchild'[b] # "none"
    <3>1. \A b \in xpast : b <= xcur /\ xchild[b] # "none"
      BY DEF CodexInv
    <3>2. xcur \in Backends /\ xcur <= xcur
      BY CodexAssumption DEF CodexInv
    <3> QED BY <2>1, <2>2, <2>3, <3>1, <3>2 DEF CodexInv
  <2>5. AbsenceIsAccounted'
    BY <2>1, <2>2, <2>3 DEF CodexInv, AbsenceIsAccounted, CliAlive
  <2> QED BY <2>1, <2>3, <2>4, <2>5 DEF CodexInv
<1> QED BY <1>1, <1>2

LEMMA CodexStep == CodexInv /\ [CodexNext]_codexVars => CodexInv'
<1> SUFFICES ASSUME CodexInv, [CodexNext]_codexVars PROVE CodexInv'
  OBVIOUS
<1> USE DEF Backends, Connecting
<1>1. CASE ClientStarted \/ ConnectStep
  BY <1>1, ConnectKeeps
<1>2. CASE GoesDown
  BY <1>2 DEF GoesDown, CodexInv, AbsenceIsAccounted, CliAlive
<1>3. CASE ConnectFails
  <2>1. PICK ok \in BOOLEAN : Closed(xcur, ok)
    BY <1>3 DEF ConnectFails
  <2>2. xcur \in Backends
    BY DEF CodexInv
  <2>3. /\ xchild' \in [Backends -> {"none", "alive", "dead"}]
        /\ \A d \in Backends : xchild'[d] = xchild[d] \/ (xchild[d] = "alive" /\ xchild'[d] = "dead")
    BY <2>1, <2>2, ClosedCli
  <2>4. /\ UNCHANGED <<xreg, xpast, xquiesced>> /\ xrun = "connecting"
        /\ \/ xcur < MaxBackends /\ xcur' = xcur + 1 /\ xstep' = "start" /\ xrun' = xrun
           \/ xrun' = "ending" /\ xcur' = xcur
    BY <1>3 DEF ConnectFails
  <2> QED BY <2>3, <2>4, CodexAssumption DEF CodexInv, AbsenceIsAccounted, CliAlive
<1>4. ASSUME NEW b \in Backends, LateCall(b) PROVE CodexInv'
  <2>1. UNCHANGED <<xrun, xcur, xstep, xreg, xpast, xquiesced>>
    BY <1>4 DEF LateCall
  <2>2. CASE xchild[b] = "none"
    <3>1. xchild' = [xchild EXCEPT ![b] = "alive"] \/ xchild' = xchild
      BY <1>4, <2>2 DEF LateCall
    <3> QED BY <2>1, <2>2, <3>1 DEF CodexInv, AbsenceIsAccounted, CliAlive
  <2>3. CASE xchild[b] # "none"
    <3>1. Closed(b, TRUE)
      BY <1>4, <2>3 DEF LateCall
    <3>2. /\ xchild' \in [Backends -> {"none", "alive", "dead"}]
          /\ \A d \in Backends : xchild'[d] = xchild[d] \/ (xchild[d] = "alive" /\ xchild'[d] = "dead")
      BY <3>1, ClosedCli
    <3> QED BY <2>1, <3>2 DEF CodexInv, AbsenceIsAccounted, CliAlive
  <2> QED BY <2>2, <2>3
<1>5. CASE Query \/ UsageUpdated \/ TurnEnds
  BY <1>5, CodexUntouched DEF Query, UsageUpdated, TurnEnds, SessionSame, codexRead
<1>6. CASE DisconnectBegins
  BY <1>6 DEF DisconnectBegins, CodexInv, AbsenceIsAccounted, CliAlive
<1>7. CASE DisconnectEnds
  <2>1. PICK ok \in BOOLEAN : Closed(xcur, ok) /\ Deregister(ok)
    BY <1>7 DEF DisconnectEnds
  <2>2. xcur \in Backends
    BY DEF CodexInv
  <2>3. /\ xchild' \in [Backends -> {"none", "alive", "dead"}]
        /\ \A d \in Backends : xchild'[d] = xchild[d] \/ (xchild[d] = "alive" /\ xchild'[d] = "dead")
        /\ ok => xchild'[xcur] # "alive"
    BY <2>1, <2>2, ClosedCli
  <2>4. xreg' = IF ok THEN xreg \ {xcur} ELSE xreg
    BY <2>1 DEF Deregister
  <2>5. UNCHANGED <<xrun, xcur, xpast, xquiesced>> /\ xrun = "ending"
    BY <1>7 DEF DisconnectEnds
  <2> QED BY <2>3, <2>4, <2>5 DEF CodexInv, AbsenceIsAccounted, CliAlive
<1>8. CASE RunEnds
  <2>1. ReapRegistered(xreg) /\ xreg' = {} /\ xrun' = "ended" /\ UNCHANGED <<xcur, xpast, xquiesced>>
    BY <1>8 DEF RunEnds
  <2> QED BY <2>1, ReapedCli DEF CodexInv, AbsenceIsAccounted, CliAlive
<1>9. CASE DisconnectLeft
  BY <1>9 DEF DisconnectLeft, CodexInv, AbsenceIsAccounted, CliAlive
<1>10. CASE Quiesce
  <2>1. ReapRegistered(xreg) /\ xreg' = {} /\ UNCHANGED <<xrun, xcur, xstep, xpast>>
    BY <1>10 DEF Quiesce
  <2>2. xquiesced' = "proven" => xrun = "ended"
    BY <1>10 DEF Quiesce
  <2> QED BY <2>1, <2>2, ReapedCli DEF CodexInv, AbsenceIsAccounted, CliAlive
<1>11. CASE UNCHANGED codexVars
  BY <1>11, CodexUntouched DEF codexVars, codexRead
<1> QED BY <1>1, <1>2, <1>3, <1>4, <1>5, <1>6, <1>7, <1>8, <1>9, <1>10, <1>11 DEF CodexNext

(* Every CLI that is past its registration is in the registry as long as   *)
(* it lives, and none lives once the killswitch has been told that the     *)
(* runner is gone (codex.py, child_pid; _process_registry.py).             *)
THEOREM CodexAbsence == CodexSpec => []AbsenceIsAccounted
<1>1. CodexInv => AbsenceIsAccounted
  BY DEF CodexInv
<1> QED BY <1>1, CodexInit_Inv, CodexStep, PTL DEF CodexSpec
-----------------------------------------------------------------------------
(* McpGateway: CredentialBoundary                                          *)

Futures == {"none", "queued", "running", "stopping", "ended"}
RequestRecords == [st : {"new", "found", "refused", "scheduled", "ended"}, tok : Nat, fut : Futures]

(* The inductive invariant. A catalog is never both offered and revoked,   *)
(* only a scheduled call has a handler that may still begin or go on, and  *)
(* a server that is set listens.                                           *)
GatewayInv ==
  /\ gowner \in Seq(Owners) /\ gcat \subseteq Tokens /\ grevoked \subseteq Tokens
  /\ greq \in [HttpCalls -> RequestRecords]
  /\ gcat \cap grevoked = {}
  /\ grevoking # 0 => grevoking \in grevoked
  /\ \A r \in HttpCalls : greq[r].fut \in {"queued", "running"} => greq[r].st = "scheduled"
  /\ gserver => glistening
  /\ gcat # {} => gserver
  /\ CredentialBoundary

(* A credential keeps its owner when another is issued.                    *)
LEMMA OwnersKept ==
  ASSUME GatewayInv, NEW o \in Owners, gowner' = Append(gowner, o)
  PROVE  /\ gowner' \in Seq(Owners) /\ Len(gowner) \in Nat /\ Len(gowner') = Len(gowner) + 1
         /\ gowner'[Len(gowner) + 1] = o
         /\ \A t \in Tokens : t \in Tokens' /\ gowner'[t] = gowner[t]
         /\ Tokens' = Tokens \cup {Len(gowner) + 1} /\ Len(gowner) + 1 \notin Tokens
BY DEF GatewayInv, Tokens

(* What a request may become at one step: its handler may be cancelled.    *)
LEMMA CancelledRequest ==
  ASSUME GatewayInv, NEW rs \in SUBSET HttpCalls, Cancel(rs)
  PROVE  /\ greq' \in [HttpCalls -> RequestRecords]
         /\ \A r \in HttpCalls :
              /\ greq'[r].tok = greq[r].tok /\ greq'[r].st = greq[r].st
              /\ greq'[r].fut = IF r \in rs THEN CancelFuture(greq[r].fut) ELSE greq[r].fut
              /\ r \in rs => greq'[r].fut \notin {"queued", "running"}
<1>1. \A f \in Futures : CancelFuture(f) \in Futures \ {"queued", "running"}
  BY DEF CancelFuture, Futures
<1>2. \A r \in HttpCalls :
        greq'[r] = IF r \in rs THEN [greq[r] EXCEPT !.fut = CancelFuture(greq[r].fut)] ELSE greq[r]
  BY DEF Cancel
<1>3. \A r \in HttpCalls : greq[r] \in RequestRecords
  BY DEF GatewayInv
<1> QED BY <1>1, <1>2, <1>3 DEF RequestRecords, Cancel

LEMMA GatewayInit_Inv == GatewayInit => GatewayInv
BY DEF GatewayInit, GatewayInv, Tokens, RequestRecords, Futures, CredentialBoundary, NoToolAfterRevoke,
       CredentialServes

(* A step that changes only which handlers are cancelled, or none.         *)
LEMMA CancelKeeps ==
  ASSUME GatewayInv, NEW rs \in SUBSET HttpCalls, Cancel(rs),
         UNCHANGED <<gowner, grevoked>>, gcat' \subseteq gcat,
         grevoking' = grevoking \/ (grevoking' = 0 /\ Pending(grevoking) \subseteq rs),
         (gserver' = gserver /\ glistening' = glistening) \/ (gcat' = {} /\ ~gserver')
  PROVE  GatewayInv'
<1>1. /\ greq' \in [HttpCalls -> RequestRecords]
      /\ \A r \in HttpCalls :
              /\ greq'[r].tok = greq[r].tok /\ greq'[r].st = greq[r].st
              /\ greq'[r].fut = IF r \in rs THEN CancelFuture(greq[r].fut) ELSE greq[r].fut
              /\ r \in rs => greq'[r].fut \notin {"queued", "running"}
  BY CancelledRequest
<1>2. NoToolAfterRevoke'
  <2> SUFFICES ASSUME NEW r \in HttpCalls, greq'[r].tok \in grevoked' \ {grevoking'},
                      greq'[r].fut \in {"queued", "running"}
               PROVE  FALSE
    BY DEF NoToolAfterRevoke
  <2>1. r \notin rs /\ greq[r].fut \in {"queued", "running"}
    BY <1>1
  <2>2. greq[r].tok \in grevoked
    BY <1>1
  <2>3. greq[r].tok = grevoking
    BY <2>1, <2>2 DEF GatewayInv, CredentialBoundary, NoToolAfterRevoke
  <2>4. r \in Pending(grevoking)
    BY <2>1, <2>3 DEF GatewayInv, Pending
  <2> QED BY <1>1, <2>1, <2>3, <2>4
<1>3. CredentialServes'
  BY DEF GatewayInv, CredentialBoundary, CredentialServes
<1>4. /\ gowner' \in Seq(Owners) /\ gcat' \subseteq Tokens' /\ grevoked' \subseteq Tokens'
      /\ gcat' \cap grevoked' = {}
      /\ grevoking' # 0 => grevoking' \in grevoked'
      /\ gserver' => glistening'
      /\ gcat' # {} => gserver'
  <2>1. gowner' \in Seq(Owners) /\ gcat' \subseteq Tokens' /\ grevoked' \subseteq Tokens'
        /\ gcat' \cap grevoked' = {}
    BY DEF GatewayInv, Tokens
  <2>2. grevoking' # 0 => grevoking' \in grevoked'
    BY DEF GatewayInv
  <2>3. gserver' => glistening'
    BY DEF GatewayInv
  <2>4. gcat' # {} => gserver'
    BY DEF GatewayInv
  <2> QED BY <2>1, <2>2, <2>3, <2>4
<1>5. \A r \in HttpCalls : greq'[r].fut \in {"queued", "running"} => greq'[r].st = "scheduled"
  BY <1>1 DEF GatewayInv
<1> QED BY <1>1, <1>2, <1>3, <1>4, <1>5 DEF GatewayInv, CredentialBoundary

(* The first half of revoke takes a credential out and names it.           *)
LEMMA RevokeKeeps ==
  ASSUME GatewayInv, LoopIsFree, NEW t \in Tokens,
         Revoke(t) \/ UNCHANGED <<gcat, grevoked, grevoking>>,
         UNCHANGED <<gowner, glistening, gserver, greq>>
  PROVE  GatewayInv'
<1>1. CASE UNCHANGED <<gcat, grevoked, grevoking>>
  BY <1>1 DEF GatewayInv, CredentialBoundary, NoToolAfterRevoke, CredentialServes, Tokens
<1>2. CASE Revoke(t)
  <2>1. gcat' = gcat \ {t} /\ grevoked' = (IF t \in gcat THEN grevoked \cup {t} ELSE grevoked)
        /\ grevoking' = (IF t \in gcat THEN t ELSE 0) /\ grevoking = 0
    BY <1>2 DEF Revoke, LoopIsFree
  <2>2. NoToolAfterRevoke'
    BY <2>1 DEF GatewayInv, CredentialBoundary, NoToolAfterRevoke, Tokens
  <2>3. CredentialServes'
    BY <2>1 DEF GatewayInv, CredentialBoundary, CredentialServes
  <2> QED BY <2>1, <2>2, <2>3 DEF GatewayInv, CredentialBoundary, Tokens
<1> QED BY <1>1, <1>2

(* A request's own step: where it goes depends on its catalog only.        *)
LEMMA RequestKeeps ==
  ASSUME GatewayInv, NEW r \in HttpCalls, NEW q \in RequestRecords,
         greq' = [greq EXCEPT ![r] = q],
         UNCHANGED <<gowner, gcat, grevoked, grevoking, glistening, gserver>>,
         q.fut \in {"queued", "running"} =>
           /\ q.st = "scheduled"
           /\ q.tok \notin grevoked
                \/ (q.tok = greq[r].tok /\ greq[r].fut \in {"queued", "running"})
  PROVE  GatewayInv'
<1>1. /\ greq' \in [HttpCalls -> RequestRecords]
      /\ \A s \in HttpCalls : greq'[s] = IF s = r THEN q ELSE greq[s]
  BY DEF GatewayInv
<1>2. NoToolAfterRevoke'
  BY <1>1 DEF GatewayInv, CredentialBoundary, NoToolAfterRevoke
<1>3. CredentialServes'
  BY DEF GatewayInv, CredentialBoundary, CredentialServes
<1> QED BY <1>1, <1>2, <1>3 DEF GatewayInv, CredentialBoundary, Tokens

LEMMA IssueKeeps ==
  ASSUME GatewayInv, NEW o \in Owners, Issue(o)
  PROVE  GatewayInv'
<1>1. /\ gowner' = Append(gowner, o) /\ gcat' = (gcat \ Superseded(o)) \cup {Len(gowner) + 1}
      /\ gserver' = TRUE /\ glistening' = (IF gserver THEN glistening ELSE TRUE)
      /\ UNCHANGED <<grevoked, grevoking, greq>>
  BY DEF Issue
<1>2. /\ gowner' \in Seq(Owners) /\ gowner'[Len(gowner) + 1] = o
      /\ \A t \in Tokens : t \in Tokens' /\ gowner'[t] = gowner[t]
      /\ Tokens' = Tokens \cup {Len(gowner) + 1} /\ Len(gowner) + 1 \notin Tokens
  BY <1>1, OwnersKept
<1>3. CredentialServes'
  <2>1. glistening'
    BY <1>1 DEF GatewayInv
  <2>2. \A t \in gcat' : t = Len(gowner) + 1 \/ (t \in gcat /\ t \in Tokens /\ gowner[t] # o)
    BY <1>1 DEF Superseded, GatewayInv
  <2>3. \A t, u \in gcat : gowner[t] = gowner[u] => t = u
    BY DEF GatewayInv, CredentialBoundary, CredentialServes
  <2> QED BY <1>2, <2>1, <2>2, <2>3 DEF CredentialServes
<1>4. NoToolAfterRevoke'
  BY <1>1 DEF GatewayInv, CredentialBoundary, NoToolAfterRevoke
<1>5. gcat' \cap grevoked' = {} /\ gcat' \subseteq Tokens' /\ grevoked' \subseteq Tokens'
  BY <1>1, <1>2 DEF GatewayInv
<1>6. gserver' => glistening'
  BY <1>1 DEF GatewayInv
<1> QED BY <1>1, <1>2, <1>3, <1>4, <1>5, <1>6 DEF GatewayInv, CredentialBoundary

LEMMA GatewayStep == GatewayInv /\ [GatewayNext]_gatewayVars => GatewayInv'
<1> SUFFICES ASSUME GatewayInv, [GatewayNext]_gatewayVars PROVE GatewayInv'
  OBVIOUS
<1>1. ASSUME NEW o \in Owners, Issue(o) PROVE GatewayInv'
  BY <1>1, IssueKeeps
<1>2. ASSUME NEW t \in Tokens, Attached(t) \/ AttachFails(t) \/ Disconnect(t) PROVE GatewayInv'
  BY <1>2, RevokeKeeps DEF Attached, AttachFails, Disconnect
<1>3. CASE RevokeCancels
  <2>1. /\ Cancel(Pending(grevoking)) /\ grevoking' = 0
        /\ UNCHANGED <<gowner, gcat, grevoked, gserver, glistening>>
    BY <1>3 DEF RevokeCancels, AfterRevoke
  <2>2. Pending(grevoking) \in SUBSET HttpCalls
    BY DEF Pending
  <2> QED BY <2>1, <2>2, CancelKeeps
<1>4. CASE Close
  <2> DEFINE rs == UNION {Pending(t) : t \in gcat}
  <2>1. Cancel(rs) /\ UNCHANGED <<gowner, grevoked, grevoking>> /\ gcat' = {} /\ gserver' = FALSE
    BY <1>4 DEF Close
  <2>2. rs \in SUBSET HttpCalls
    BY DEF Pending
  <2> HIDE DEF rs
  <2> QED BY <2>1, <2>2, CancelKeeps
<1>5. ASSUME NEW r \in HttpCalls, NEW t \in Tokens, Lookup(r, t) PROVE GatewayInv'
  <2> DEFINE q == [st |-> IF t \in gcat THEN "found" ELSE "refused", tok |-> t, fut |-> "none"]
  <2>1. greq' = [greq EXCEPT ![r] = q]
        /\ UNCHANGED <<gowner, gcat, grevoked, grevoking, glistening, gserver>>
    BY <1>5 DEF Lookup
  <2>2. q \in RequestRecords /\ q.fut = "none"
    BY DEF RequestRecords, Futures, Tokens
  <2> HIDE DEF q
  <2> QED BY <2>1, <2>2, RequestKeeps
<1>6. ASSUME NEW r \in HttpCalls,
             ListTools(r) \/ CallTool(r) \/ GiveUpOnTool(r) \/ Respond(r)
               \/ HandlerStarts(r) \/ HandlerEnds(r)
      PROVE  GatewayInv'
  <2>1. greq[r] \in RequestRecords /\ greq \in [HttpCalls -> RequestRecords]
        /\ (greq[r].fut \in {"queued", "running"} => greq[r].st = "scheduled")
    BY DEF GatewayInv
  <2>2. UNCHANGED <<gowner, gcat, grevoked, grevoking, glistening, gserver>>
    BY <1>6 DEF ListTools, CallTool, GiveUpOnTool, Respond, HandlerStarts, HandlerEnds
  <2>3. CASE ListTools(r)
    <3> DEFINE q == [greq[r] EXCEPT !.st = "ended"]
    <3>1. greq' = [greq EXCEPT ![r] = q] /\ greq[r].st = "found"
      BY <2>3 DEF ListTools
    <3>2. q \in RequestRecords /\ q.fut = greq[r].fut
      BY <2>1 DEF RequestRecords
    <3> HIDE DEF q
    <3> QED BY <2>1, <2>2, <3>1, <3>2, RequestKeeps
  <2>4. CASE CallTool(r)
    <3> DEFINE q == IF Schedulable(greq[r].tok)
                    THEN [greq[r] EXCEPT !.st = "scheduled", !.fut = "queued"]
                    ELSE [greq[r] EXCEPT !.st = "refused"]
    <3>1. greq' = [greq EXCEPT ![r] = q] /\ greq[r].st = "found"
      BY <2>4 DEF CallTool
    <3>2. q \in RequestRecords /\ q.tok = greq[r].tok
      BY <2>1 DEF RequestRecords, Futures
    <3>3. \/ q.fut = greq[r].fut
          \/ q.fut = "queued" /\ q.st = "scheduled" /\ q.tok \notin grevoked
      BY <2>1 DEF RequestRecords, Schedulable
    <3> HIDE DEF q
    <3> QED BY <2>1, <2>2, <3>1, <3>2, <3>3, RequestKeeps
  <2>5. CASE GiveUpOnTool(r)
    <3> DEFINE q == [greq[r] EXCEPT !.st = "ended", !.fut = CancelFuture(greq[r].fut)]
    <3>1. greq' = [greq EXCEPT ![r] = q]
      BY <2>5 DEF GiveUpOnTool
    <3>2. CancelFuture(greq[r].fut) \in Futures \ {"queued", "running"}
      BY <2>1 DEF RequestRecords, Futures, CancelFuture
    <3>3. q \in RequestRecords /\ q.fut \notin {"queued", "running"}
      BY <2>1, <3>2 DEF RequestRecords
    <3> HIDE DEF q
    <3> QED BY <2>1, <2>2, <3>1, <3>3, RequestKeeps
  <2>6. CASE Respond(r)
    <3> DEFINE q == [greq[r] EXCEPT !.st = "ended"]
    <3>1. greq' = [greq EXCEPT ![r] = q] /\ greq[r].fut = "ended"
      BY <2>6 DEF Respond
    <3>2. q \in RequestRecords /\ q.fut = greq[r].fut
      BY <2>1 DEF RequestRecords
    <3> HIDE DEF q
    <3> QED BY <2>1, <2>2, <3>1, <3>2, RequestKeeps
  <2>7. CASE HandlerStarts(r) \/ HandlerEnds(r)
    <3> PICK f \in {"running", "ended"} :
          /\ greq' = [greq EXCEPT ![r].fut = f]
          /\ f = "running" => greq[r].fut = "queued"
      BY <2>7 DEF HandlerStarts, HandlerEnds
    <3> DEFINE q == [greq[r] EXCEPT !.fut = f]
    <3>1. greq' = [greq EXCEPT ![r] = q]
      BY <2>1
    <3>2. q \in RequestRecords /\ q.fut = f /\ q.tok = greq[r].tok /\ q.st = greq[r].st
      BY <2>1 DEF RequestRecords, Futures
    <3> HIDE DEF q
    <3> QED BY <2>1, <2>2, <3>1, <3>2, RequestKeeps
  <2> QED BY <1>6, <2>3, <2>4, <2>5, <2>6, <2>7
<1>7. ASSUME NEW r \in HttpCalls, LoopDeadline(r) PROVE GatewayInv'
  <2>1. Cancel({r}) /\ UNCHANGED <<gowner, gcat, grevoked, grevoking, glistening, gserver>>
    BY <1>7 DEF LoopDeadline
  <2> QED BY <2>1, CancelKeeps
<1>8. CASE UNCHANGED gatewayVars
  BY <1>8 DEF gatewayVars, GatewayInv, CredentialBoundary, NoToolAfterRevoke, CredentialServes, Tokens
<1> QED BY <1>1, <1>2, <1>3, <1>4, <1>5, <1>6, <1>7, <1>8 DEF GatewayNext

(* A credential of the tool gateway works from its issue to its            *)
(* revocation, whatever request thread holds its catalog meanwhile         *)
(* (codex_mcp.py: issue, revoke, close and do_POST).                       *)
THEOREM GatewayBoundary == GatewaySpec => []CredentialBoundary
<1>1. GatewayInv => CredentialBoundary
  BY DEF GatewayInv
<1> QED BY <1>1, GatewayInit_Inv, GatewayStep, PTL DEF GatewaySpec
-----------------------------------------------------------------------------
(* WorkerSession: StopGuarantee                                            *)

(* The inductive invariant. A call that runs and that no terminate() has   *)
(* cancelled is the one _inflight holds for its id, and the session is     *)
(* open; one that has been cancelled and still runs is being waited for.   *)
WorkerInv ==
  /\ wqueue \in Seq(Messages)
  /\ winflight \in [CallIds -> Tasks \cup {0}]
  /\ wcall \in [Tasks -> CallIds]
  /\ wat \in [Tasks -> {"none", "created", "hung", "finished", "gone"}]
  /\ wreader = "waiting" => wterminated
  /\ wack = "clean" => wterminated
  /\ \A t \in wstopped : t \in Tasks /\ wat[t] # "none"
  /\ \A i \in CallIds : winflight[i] # 0 => wat[winflight[i]] # "none"
  /\ \A t \in Tasks : Running(t) /\ t \notin wstopped =>
       ~wterminated /\ winflight[wcall[t]] = t
  /\ \A t \in wstopped : Running(t) => wreader = "waiting" /\ t \in wawaited
  /\ HonestAck

LEMMA StopFollows == WorkerInv => StopGuarantee
BY DEF WorkerInv, StopGuarantee, StopReachesEveryCall

LEMMA WorkerInit_Inv == WorkerInit => WorkerInv
<1> SUFFICES ASSUME WorkerInit PROVE WorkerInv
  OBVIOUS
<1>1. (CHOOSE i \in CallIds : TRUE) \in CallIds
  BY WorkerAssumption
<1> QED BY <1>1 DEF WorkerInit, WorkerInv, HonestAck, Running

(* What one feed decodes is a queue of messages.                           *)
LEMMA FeedKeeps ==
  ASSUME WorkerInv, Feed
  PROVE  WorkerInv'
<1>1. PICK frames \in {<<m>> : m \in Messages} \cup {<<m, n>> : m, n \in Messages} :
        wqueue' = Decoded(frames)
  BY DEF Feed
<1>2. frames \in Seq(Messages)
  <2>1. CASE \E m \in Messages : frames = <<m>>
    BY <2>1
  <2>2. CASE \E m, n \in Messages : frames = <<m, n>>
    BY <2>2
  <2> QED BY <1>1, <2>1, <2>2
<1>3. wqueue' \in Seq(Messages)
  BY <1>1, <1>2 DEF Decoded
<1>4. UNCHANGED <<wreader, wterminated, winflight, wawaited, wcall, wat, wstopped, wack>>
  BY DEF Feed
<1> QED BY <1>3, <1>4 DEF WorkerInv, HonestAck, Running

(* A task is created for an id that has none, and in an open session only. *)
LEMMA HandleCallKeeps ==
  ASSUME WorkerInv, HandleCall
  PROVE  WorkerInv'
<1> DEFINE i == Head(wqueue).id
<1>1. Head(wqueue) \in Messages /\ Tail(wqueue) \in Seq(Messages) /\ Head(wqueue).type = "call"
  <2>1. wqueue \in Seq(Messages) /\ wqueue # <<>> /\ Head(wqueue).type = "call"
    BY DEF HandleCall, Reading, WorkerInv
  <2> QED BY <2>1
<1>2. i \in CallIds
  BY <1>1 DEF Messages
<1>3. /\ wqueue' = Tail(wqueue)
      /\ UNCHANGED <<wreader, wterminated, wawaited, wstopped, wack>>
  BY DEF HandleCall
<1>4. CASE MayRun(i)
  <2>1. PICK t \in Tasks : /\ wat[t] = "none"
                           /\ wat' = [wat EXCEPT ![t] = "created"]
                           /\ wcall' = [wcall EXCEPT ![t] = i]
                           /\ winflight' = [winflight EXCEPT ![i] = t]
    BY <1>4 DEF HandleCall
  <2>2. ~wterminated /\ winflight[i] = 0 /\ 0 \notin Tasks
    BY <1>4 DEF MayRun, Tasks
  <2> HIDE DEF i
  <2>3. /\ winflight' \in [CallIds -> Tasks \cup {0}] /\ wcall' \in [Tasks -> CallIds]
        /\ wat' \in [Tasks -> {"none", "created", "hung", "finished", "gone"}]
        /\ t \notin wstopped
    BY <1>2, <2>1 DEF WorkerInv
  <2>4. \A u \in Tasks : u # t => wat'[u] = wat[u] /\ wcall'[u] = wcall[u]
    BY <2>1 DEF WorkerInv
  <2>5. wat'[t] = "created" /\ wcall'[t] = i /\ winflight'[i] = t
    BY <1>2, <2>1 DEF WorkerInv
  <2>6. \A k \in CallIds : k # i => winflight'[k] = winflight[k]
    BY <1>2, <2>1 DEF WorkerInv
  <2>7. \A u \in Tasks : Running(u)' /\ u \notin wstopped' =>
          ~wterminated' /\ winflight'[wcall'[u]] = u
    BY <1>2, <1>3, <2>1, <2>2, <2>3, <2>4, <2>5, <2>6 DEF WorkerInv, Running
  <2>8. \A u \in wstopped' : u \in Tasks /\ wat'[u] # "none" /\ (Running(u)' => wreader' = "waiting" /\ u \in wawaited')
    BY <1>3, <2>3, <2>4 DEF WorkerInv, Running
  <2>9. \A k \in CallIds : winflight'[k] # 0 => wat'[winflight'[k]] # "none"
    BY <2>1, <2>3, <2>4, <2>5, <2>6 DEF WorkerInv
  <2> QED BY <1>1, <1>3, <2>2, <2>3, <2>7, <2>8, <2>9 DEF WorkerInv, HonestAck
<1>5. CASE ~MayRun(i)
  <2>1. UNCHANGED <<wat, wcall, winflight>>
    BY <1>5 DEF HandleCall
  <2> QED BY <1>1, <1>3, <2>1 DEF WorkerInv, HonestAck, Running
<1> QED BY <1>4, <1>5

(* The snapshot takes every call that runs: none is left outside it.       *)
LEMMA TerminateKeeps ==
  ASSUME WorkerInv, Terminate
  PROVE  WorkerInv'
<1> DEFINE taken == {winflight[i] : i \in CallIds} \ {0}
<1>1. /\ wreader = "idle" /\ wqueue \in Seq(Messages) /\ wqueue # <<>> /\ wqueue' = Tail(wqueue)
      /\ wterminated' = TRUE /\ winflight' = [i \in CallIds |-> 0] /\ wstopped' = wstopped \cup taken
      /\ wawaited' = taken /\ wreader' = "waiting" /\ UNCHANGED <<wcall, wat, wack>>
  BY DEF Terminate, Reading, WorkerInv
<1>2. taken \subseteq Tasks /\ \A t \in taken : wat[t] # "none"
  BY DEF WorkerInv
<1>3. \A t \in Tasks : Running(t) => t \in taken
  <2>1. 0 \notin Tasks
    BY DEF Tasks
  <2> QED BY <1>1, <2>1 DEF WorkerInv
<1> HIDE DEF taken
<1>4. wqueue' \in Seq(Messages)
  BY <1>1
<1>5. winflight' \in [CallIds -> Tasks \cup {0}]
  BY <1>1
<1> QED BY <1>1, <1>2, <1>3, <1>4, <1>5 DEF WorkerInv, HonestAck, Running

(* All calls that were waited for are gone, and no other one runs.         *)
LEMMA AcknowledgeKeeps ==
  ASSUME WorkerInv, Acknowledge
  PROVE  WorkerInv'
<1>1. /\ wreader = "waiting" /\ \A t \in wawaited : wat[t] = "gone"
      /\ wreader' = "idle" /\ wawaited' = {}
      /\ UNCHANGED <<wqueue, wterminated, winflight, wcall, wat, wstopped>>
  BY DEF Acknowledge, Gathered
<1>2. \A t \in Tasks : ~Running(t)
  BY <1>1 DEF WorkerInv, Running
<1> QED BY <1>1, <1>2 DEF WorkerInv, HonestAck, Running

(* A step of a call's own: it goes on, or comes to its end.                *)
LEMMA CallKeeps ==
  ASSUME WorkerInv, NEW t \in Tasks, CallFrame,
         \/ wat' = wat
         \/ /\ wat[t] = "created" /\ wat' = [wat EXCEPT ![t] = "hung"]
         \/ wat[t] # "none" /\ wat' = [wat EXCEPT ![t] = "finished"]
  PROVE  WorkerInv'
<1>1. UNCHANGED <<wqueue, wreader, wterminated, winflight, wawaited, wcall, wstopped, wack>>
  BY DEF CallFrame
<1>2. wat' \in [Tasks -> {"none", "created", "hung", "finished", "gone"}]
  BY DEF WorkerInv
<1>3. \A u \in Tasks : /\ wat'[u] = "none" <=> wat[u] = "none"
                       /\ Running(u)' => Running(u)
  BY DEF WorkerInv, Running
<1> QED BY <1>1, <1>2, <1>3 DEF WorkerInv, HonestAck

LEMMA DoneKeeps ==
  ASSUME WorkerInv, NEW t \in Tasks, Done(t)
  PROVE  WorkerInv'
<1>1. /\ wat[t] = "finished" /\ wat' = [wat EXCEPT ![t] = "gone"]
      /\ winflight' = IF winflight[wcall[t]] = t
                      THEN [winflight EXCEPT ![wcall[t]] = 0] ELSE winflight
      /\ UNCHANGED <<wqueue, wreader, wterminated, wawaited, wcall, wstopped, wack>>
  BY DEF Done
<1>2. wat' \in [Tasks -> {"none", "created", "hung", "finished", "gone"}]
  BY <1>1 DEF WorkerInv
<1>3. /\ winflight' \in [CallIds -> Tasks \cup {0}]
      /\ \A i \in CallIds : winflight'[i] = winflight[i] \/ (winflight[i] = t /\ winflight'[i] = 0)
  BY <1>1 DEF WorkerInv
<1>4. \A u \in Tasks : /\ u # t => wat'[u] = wat[u]
                       /\ wat'[t] = "gone"
  BY <1>1 DEF WorkerInv
<1>5. \A u \in Tasks : Running(u)' => Running(u) /\ u # t
  BY <1>4 DEF Running
<1>6. \A u \in Tasks : Running(u)' /\ u \notin wstopped' => ~wterminated' /\ winflight'[wcall'[u]] = u
  BY <1>1, <1>3, <1>5 DEF WorkerInv
<1>7. \A i \in CallIds : winflight'[i] # 0 => wat'[winflight'[i]] # "none"
  BY <1>3, <1>4 DEF WorkerInv
<1>8. \A u \in wstopped' : u \in Tasks /\ wat'[u] # "none" /\ (Running(u)' => wreader' = "waiting" /\ u \in wawaited')
  BY <1>1, <1>4, <1>5 DEF WorkerInv
<1>9. HonestAck'
  BY <1>1, <1>5 DEF WorkerInv, HonestAck
<1> QED BY <1>1, <1>2, <1>3, <1>6, <1>7, <1>8, <1>9 DEF WorkerInv

LEMMA WorkerStep == WorkerInv /\ [WorkerNext]_workerVars => WorkerInv'
<1> SUFFICES ASSUME WorkerInv, [WorkerNext]_workerVars PROVE WorkerInv'
  OBVIOUS
<1>1. CASE HandleOther
  <2>1. wqueue' \in Seq(Messages)
    BY <1>1 DEF HandleOther, Reading, WorkerInv
  <2> QED BY <1>1, <2>1 DEF HandleOther, WorkerInv, HonestAck, Running
<1>2. CASE GraceOver
  BY <1>2 DEF GraceOver, WorkerInv, HonestAck, Running
<1>3. ASSUME NEW t \in Tasks,
             Start(t) \/ CancelledUnstarted(t) \/ Cancelled(t) \/ Swallow(t) \/ Release(t)
      PROVE  WorkerInv'
  BY <1>3, CallKeeps DEF Start, CancelledUnstarted, Cancelled, Swallow, Release
<1>4. CASE UNCHANGED workerVars
  BY <1>4 DEF workerVars, WorkerInv, HonestAck, Running
<1> QED BY <1>1, <1>2, <1>3, <1>4, FeedKeeps, HandleCallKeeps, TerminateKeeps, AcknowledgeKeeps,
           DoneKeeps DEF WorkerNext

(* Once a session is terminated every call that runs has been cancelled,   *)
(* and none runs after an acknowledgement that says quiesced               *)
(* (worker_protocol, terminate_session).                                   *)
THEOREM WorkerStops == WorkerSpec => []StopGuarantee
BY WorkerInit_Inv, WorkerStep, StopFollows, PTL DEF WorkerSpec
=============================================================================
