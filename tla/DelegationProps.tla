----------------------------- MODULE DelegationProps -----------------------------
(***************************************************************************)
(* What delegation promises: agents never wait for each other in a circle, *)
(* the operator sees every call that is outstanding, and nobody works for  *)
(* a caller that has given up.                                             *)
(***************************************************************************)
EXTENDS Delegation

(* Every variable keeps to its values.                                     *)
TypeOK ==
  /\ phase \in [Calls -> Outstanding \cup {"unused", "returned"}]
  /\ caller \in [Calls -> Agents \cup {Gone}]
  /\ target \in [Calls -> Agents \cup {Gone}]
  /\ by \in [Calls -> Calls \cup {Root, Gone}]
  /\ depth \in [Calls -> 0..MAX_DELEGATION_DEPTH]
  /\ registered \subseteq Calls /\ swept \subseteq Calls
  /\ fut \in [Calls -> {"pending", "approved", "denied", "cancelled",
                        "replied", "error"}]
  /\ stale \subseteq Calls /\ questions \subseteq Calls
  /\ count \in [Agents \X Agents -> Int]
  /\ runner \in [Agents -> {"running", "stopping", "stopped"}]
  /\ serving \in [Agents -> Calls \cup {Root, Idle}]
  /\ queue \in [Agents -> Seq(Calls)]
  /\ cut \subseteq Agents /\ stopping \subseteq Calls

-----------------------------------------------------------------------------
(* Circular waits *)

(* A finite graph has no cycle when every nonempty set of its nodes has    *)
(* one that no edge leaves within the set.                                 *)
Acyclic(E) ==
  \A S \in SUBSET Agents :
    S # {} => \E a \in S : \A b \in S : <<a, b>> \notin E

(* "Cycles are refused at submit" (_questions.py 664-666): the calls in    *)
(* the registry never form a cycle, whatever gates, cancels, restarts and  *)
(* timeouts come between the checks of different calls.                    *)
RegistryAcyclic == Acyclic(Edges(registered))

(* A turn that waits for the reply to a call it made.                      *)
Waiting(c) == phase[c] = "reply" /\ fut[c] = "pending" /\ by[c] # Gone

(* What that is for: no agents wait for each other in a circle, which      *)
(* would last until the wait windows are over (delegation_graph.py 1-9,    *)
(* "an unresolved call in any state ties up the caller's coroutine and     *)
(* counts toward cycles").                                                 *)
NoCircularWait == Acyclic(Edges({c \in Calls : Waiting(c)}))

(* Every call returns (FairSpec), even where no reply ever times out: the  *)
(* waits come to an end by themselves because they are no circle.          *)
EveryCallReturns == \A c \in Calls : Live(c) ~> ~Live(c)

-----------------------------------------------------------------------------
(* The registry *)

(* A call is in the registry exactly while it is outstanding ("lives only  *)
(* while the bus tool's await is outstanding - registered on entry,        *)
(* resolved on any return path", _helpers.py 446-449), but for the calls   *)
(* the operator's cancel has dropped.                                      *)
RegistryIsExact ==
  /\ \A c \in registered : Live(c)
  /\ \A c \in Calls : Live(c) => c \in registered \cup swept

(* The depth that admission bounds really counts the nesting: a call made  *)
(* for a job is deeper than the call that job was submitted for, as long   *)
(* as both are in the registry.                                            *)
DepthCountsNesting ==
  \A c, d \in registered : by[c] = d => depth[c] > depth[d]

(* What a job has led to: the calls its turn made, and those made for them. *)
Descendants(c) ==
  {e \in Calls :
     \A S \in SUBSET Calls :
       (c \in S /\ \A d \in Calls : by[d] \in S => d \in S) => e \in S}

(* "So cancelling one call tears down everything it spawned" (             *)
(* _questions.py 644-654): no call outlives in the registry the one whose  *)
(* job made it, however deep the ladder, although the cascade knows agents *)
(* only and not which job made a call.                                     *)
CancelTakesSpawned ==
  [][\A c, d \in registered : by[d] = c /\ c \in swept' \ swept => d \in swept']_vars

(* And nothing else (finding 5 of the README): the calls that go with a     *)
(* cancelled call are those that its own job led to.                       *)
CancelSparesOthers ==
  [][\A c \in registered : BusCancel({c}) =>
        registered \ registered' \subseteq Descendants(c)]_vars

-----------------------------------------------------------------------------
(* Children *)

Held(c) == \E a \in Agents : serving[a] = c \/ c \in Items(queue[a])

(* A caller that awaits a reply awaits a job that some runner holds: no    *)
(* stop, restart or cancel between the fetch of the runner, the submit and *)
(* the reply loses the job without settling its future.                    *)
AwaitedJobIsHeld ==
  \A c \in Calls : phase[c] = "reply" /\ fut[c] = "pending" => Held(c)

(* No child goes on for a caller that is gone: a job whose call is over is *)
(* already interrupted, or its cancel_job is under way ("so it doesn't     *)
(* keep burning tokens after its caller stopped waiting", _delegation.py   *)
(* 1041-1049).                                                             *)
NoOrphanJobs ==
  \A c \in Calls : phase[c] = "returned" /\ Held(c) =>
    c \in stopping \/ \E a \in cut : serving[a] = c

=============================================================================
