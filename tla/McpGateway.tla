------------------------------ MODULE McpGateway ------------------------------
(***************************************************************************)
(* The MCP gateway a Codex agent reaches the bus tools through             *)
(* (codex_mcp.py), and the backends that hold its credentials (codex.py).  *)
(*                                                                         *)
(* Two kinds of threads: the daemon's loop issues and revokes credentials  *)
(* and runs the tool handlers; every HTTP request has a thread of its own. *)
(* A request looks up the catalog of its bearer token and uses that object *)
(* afterwards, whatever happens to the token meanwhile.                    *)
(*                                                                         *)
(* A credential is named by its number. Rejected requests (bad path, bad   *)
(* JSON, unknown method or tool) change nothing and are left out.          *)
(***************************************************************************)
EXTENDS Integers, Sequences, FiniteSets

CONSTANTS
  Owners,             \* agents with a Codex backend
  HttpCalls,          \* HTTP requests
  MaxTokens           \* bound: credentials issued

ASSUME GatewayAssumption == MaxTokens \in Nat

VARIABLES
  gowner,             \* of each credential issued: its owner, in the order issued
  gcat,               \* _catalogs: the tokens
  grevoked,           \* catalogs whose revoked flag is set
  gattached,          \* catalogs whose attach_event is set
  gback,              \* of each credential: the backend that holds it
  grevoking,          \* the loop is inside revoke, between its two halves; 0 if not
  glistening,         \* the server's socket accepts requests
  gserver,            \* _server is set
  greq                \* of each request: [st, tok, fut]

gatewayVars == <<gowner, gcat, grevoked, gattached, gback, grevoking, glistening, gserver, greq>>

Tokens == 1..Len(gowner)
Pending(t) == {r \in HttpCalls : greq[r].st = "scheduled" /\ greq[r].tok = t}

GatewayInit ==
  /\ gowner = <<>> /\ gcat = {} /\ grevoked = {} /\ gattached = {} /\ gback = <<>>
  /\ grevoking = 0 /\ glistening = FALSE /\ gserver = FALSE
  /\ greq = [r \in HttpCalls |-> [st |-> "new", tok |-> 0, fut |-> "none"]]

\* Future.cancel: a handler that has not begun never runs, one that runs is
\* interrupted at its next await.
CancelFuture(f) == CASE f = "queued" -> "ended" [] f = "running" -> "stopping" [] OTHER -> f
Cancel(rs) ==
  greq' = [r \in HttpCalls |->
             IF r \in rs THEN [greq[r] EXCEPT !.fut = CancelFuture(@)] ELSE greq[r]]

-----------------------------------------------------------------------------
(* The loop *)

LoopIsFree == grevoking = 0

\* Mutant: the catalogs of the owner's earlier backends stay.
Superseded_None(o) == {}

\* Tokens of the owner that were never revoked.
Superseded(o) == {t \in gcat : gowner[t] = o}

\* create_backend: issue, which starts the server if need be. A superseded
\* catalog is only dropped: its flag and its pending calls are left alone.
Issue(o) ==
  /\ LoopIsFree /\ Len(gowner) < MaxTokens
  /\ gowner' = Append(gowner, o) /\ gback' = Append(gback, "connecting")
  /\ gcat' = (gcat \ Superseded(o)) \cup {Len(gowner) + 1}
  /\ gserver' = TRUE
  /\ glistening' = IF gserver THEN glistening ELSE TRUE
  /\ UNCHANGED <<grevoked, gattached, grevoking, greq>>

\* First half of revoke, under the lock; on an unknown token it is a no-op.
Revoke(t) ==
  /\ gcat' = gcat \ {t}
  /\ grevoked' = IF t \in gcat THEN grevoked \cup {t} ELSE grevoked
  /\ grevoking' = IF t \in gcat THEN t ELSE 0

\* The attach check of connect: codex fetched the schemas, or the start fails
\* and gives the credential back.
Attached(t) ==
  /\ LoopIsFree /\ gback[t] = "connecting" /\ t \in gattached
  /\ gback' = [gback EXCEPT ![t] = "ready"]
  /\ UNCHANGED <<gowner, gcat, grevoked, gattached, grevoking, glistening, gserver, greq>>

AttachFails(t) ==
  /\ LoopIsFree /\ gback[t] = "connecting"
  /\ Revoke(t) /\ gback' = [gback EXCEPT ![t] = "closed"]
  /\ UNCHANGED <<gowner, gattached, glistening, gserver, greq>>

\* disconnect ends with revoke, unless it is cancelled at one of its awaits.
Disconnect(t) ==
  /\ LoopIsFree /\ gback[t] \in {"connecting", "ready"}
  /\ \/ Revoke(t) /\ gback' = [gback EXCEPT ![t] = "closed"]
     \/ gback' = [gback EXCEPT ![t] = "left"] /\ UNCHANGED <<gcat, grevoked, grevoking>>
  /\ UNCHANGED <<gowner, gattached, glistening, gserver, greq>>

\* Mutant: the server stops with its last credential, and stays referenced.
AfterRevoke_Stops == glistening' = (gcat # {})

\* The server outlives its credentials.
AfterRevoke == UNCHANGED glistening

\* Second half of revoke: what was pending when the flag was set is cancelled.
RevokeCancels ==
  /\ grevoking # 0
  /\ Cancel(Pending(grevoking)) /\ grevoking' = 0 /\ AfterRevoke
  /\ UNCHANGED <<gowner, gcat, grevoked, gattached, gback, gserver>>

\* The loop starts a scheduled handler, and a handler returns or is stopped.
HandlerStarts(r) ==
  /\ LoopIsFree /\ greq[r].fut = "queued"
  /\ greq' = [greq EXCEPT ![r].fut = "running"]
  /\ UNCHANGED <<gowner, gcat, grevoked, gattached, gback, grevoking, glistening, gserver>>

HandlerEnds(r) ==
  /\ LoopIsFree /\ greq[r].fut \in {"running", "stopping"}
  /\ greq' = [greq EXCEPT ![r].fut = "ended"]
  /\ UNCHANGED <<gowner, gcat, grevoked, gattached, gback, grevoking, glistening, gserver>>

\* The handler's deadline on the loop.
LoopDeadline(r) ==
  /\ LoopIsFree /\ greq[r].fut = "running"
  /\ Cancel({r})
  /\ UNCHANGED <<gowner, gcat, grevoked, gattached, gback, grevoking, glistening, gserver>>

\* close, at the daemon's end.
Close ==
  /\ LoopIsFree /\ gserver
  /\ gserver' = FALSE /\ glistening' = FALSE /\ gcat' = {}
  /\ Cancel(UNION {Pending(t) : t \in gcat})
  /\ UNCHANGED <<gowner, grevoked, gattached, gback, grevoking>>

-----------------------------------------------------------------------------
(* A request's thread *)

\* do_POST: the token names a catalog, or the request is refused.
Lookup(r, t) ==
  /\ greq[r].st = "new" /\ glistening
  /\ greq' = [greq EXCEPT ![r] =
       [st |-> IF t \in gcat THEN "found" ELSE "refused", tok |-> t, fut |-> "none"]]
  /\ UNCHANGED <<gowner, gcat, grevoked, gattached, gback, grevoking, glistening, gserver>>

\* tools/list
ListTools(r) ==
  /\ greq[r].st = "found"
  /\ gattached' = gattached \cup {greq[r].tok}
  /\ greq' = [greq EXCEPT ![r].st = "ended"]
  /\ UNCHANGED <<gowner, gcat, grevoked, gback, grevoking, glistening, gserver>>

\* Mutant: the flag is not read again under the lock.
Schedulable_Always(t) == TRUE
Schedulable(t) == t \notin grevoked

\* tools/call: the flag, the scheduling and the registration in one section.
CallTool(r) ==
  /\ greq[r].st = "found"
  /\ greq' = [greq EXCEPT ![r] =
       IF Schedulable(greq[r].tok) THEN [@ EXCEPT !.st = "scheduled", !.fut = "queued"]
       ELSE [@ EXCEPT !.st = "refused"]]
  /\ UNCHANGED <<gowner, gcat, grevoked, gattached, gback, grevoking, glistening, gserver>>

\* The client hung up, or the thread's own deadline passed.
GiveUpOnTool(r) ==
  /\ greq[r].st = "scheduled" /\ greq[r].fut # "ended"
  /\ greq' = [greq EXCEPT ![r] = [greq[r] EXCEPT !.st = "ended", !.fut = CancelFuture(@)]]
  /\ UNCHANGED <<gowner, gcat, grevoked, gattached, gback, grevoking, glistening, gserver>>

\* The result is written; the call leaves pending.
Respond(r) ==
  /\ greq[r].st = "scheduled" /\ greq[r].fut = "ended"
  /\ greq' = [greq EXCEPT ![r].st = "ended"]
  /\ UNCHANGED <<gowner, gcat, grevoked, gattached, gback, grevoking, glistening, gserver>>

GatewayNext ==
  \/ \E o \in Owners : Issue(o)
  \/ \E t \in Tokens : Attached(t) \/ AttachFails(t) \/ Disconnect(t)
  \/ RevokeCancels \/ Close
  \/ \E r \in HttpCalls :
       \/ \E t \in Tokens : Lookup(r, t)
       \/ ListTools(r) \/ CallTool(r) \/ GiveUpOnTool(r) \/ Respond(r)
       \/ HandlerStarts(r) \/ HandlerEnds(r) \/ LoopDeadline(r)

GatewaySpec == GatewayInit /\ [][GatewayNext]_gatewayVars

-----------------------------------------------------------------------------
(* Properties *)

\* Once revoke has returned, no handler of that agent waits to run or runs
\* uncancelled: a request that found the catalog before is either refused by the
\* flag or was pending and cancelled.
NoToolAfterRevoke ==
  \A r \in HttpCalls :
    greq[r].tok \in grevoked \ {grevoking} => greq[r].fut \notin {"queued", "running"}

\* A credential in the catalogs leads to a server that listens, and an owner has
\* one at most, whatever its earlier backends left behind.
CredentialServes ==
  /\ gcat # {} => glistening
  /\ \A t, u \in gcat : gowner[t] = gowner[u] => t = u

\* A credential works from its issue to its revocation, and no longer.
CredentialBoundary == NoToolAfterRevoke /\ CredentialServes

=============================================================================
