---------------------------- MODULE WorkerSession ----------------------------
(***************************************************************************)
(* The worker's end of a hub connection (worker_protocol): the frames of   *)
(* one feed are decoded together, then handled one after the other; a call *)
(* runs as a task of its own, and terminate_session cancels every call in  *)
(* flight, waits for them for a grace period, and acknowledges with        *)
(* whether they all finished.                                              *)
(*                                                                         *)
(* The session's lock is never contended: no holder awaits, so each of its *)
(* critical sections is one step. A call's handler is its caller's: it may *)
(* wait for long, and may swallow a cancellation.                          *)
(***************************************************************************)
EXTENDS Naturals, Sequences

CONSTANTS
  CallIds,
  MaxCalls,          \* bound: calls accepted
  MaxFeeds           \* bound: feeds of at most two frames each

ASSUME WorkerAssumption == CallIds # {} /\ {MaxCalls, MaxFeeds} \subseteq Nat

VARIABLES
  wfeeds,            \* feeds so far
  wqueue,            \* decoded messages of this feed, not yet handled
  wreader,           \* "idle", or "waiting" inside terminate()
  wterminated,
  winflight,         \* _inflight: of each id, its task, 0 for none
  wawaited,          \* the tasks terminate() gathers
  wclean,            \* _terminate_clean
  wtimed_out,        \* the grace period of this terminate() is over
  wjobs,             \* ids with a row in jobs
  wcall,             \* of each task, its id
  wat,               \* of each task: none, created, hung, finished, gone
  wcancels,          \* tasks with a cancellation to be thrown in
  wstopped,          \* history: tasks some terminate() has cancelled
  wanswers,          \* of each task, the replies it sent
  wack               \* replies to terminate: none, clean, unclean

workerVars == <<wfeeds, wqueue, wreader, wterminated, winflight, wawaited, wclean,
                wtimed_out, wjobs, wcall, wat, wcancels, wstopped, wanswers, wack>>

Tasks == 1..MaxCalls
Messages == [type : {"call"}, id : CallIds] \cup [type : {"terminate", "list_jobs", "other"}]
                \cup [type : {"malformed"}]

WorkerInit ==
  /\ wfeeds = 0 /\ wqueue = <<>> /\ wreader = "idle" /\ wterminated = FALSE
  /\ winflight = [i \in CallIds |-> 0] /\ wawaited = {} /\ wclean = TRUE
  /\ wtimed_out = FALSE /\ wjobs = {}
  /\ wcall = [t \in Tasks |-> CHOOSE i \in CallIds : TRUE]
  /\ wat = [t \in Tasks |-> "none"] /\ wcancels = {} /\ wstopped = {}
  /\ wanswers = [t \in Tasks |-> 0] /\ wack = "none"

-----------------------------------------------------------------------------
(* The reader *)

\* A frame that cannot be parsed raises out of feed(), and the messages that
\* the same feed decoded before it are lost with it.
Decoded(frames) ==
  IF \E i \in 1..Len(frames) : frames[i].type = "malformed" THEN <<>> ELSE frames

Feed ==
  /\ wfeeds < MaxFeeds /\ wqueue = <<>> /\ wreader = "idle"
  /\ \E frames \in {<<m>> : m \in Messages} \cup {<<m, n>> : m, n \in Messages} :
       wqueue' = Decoded(frames)
  /\ wfeeds' = wfeeds + 1
  /\ UNCHANGED <<wreader, wterminated, winflight, wawaited, wclean, wtimed_out, wjobs,
                 wcall, wat, wcancels, wstopped, wanswers, wack>>

Reading(type) == wreader = "idle" /\ wqueue # <<>> /\ Head(wqueue).type = type

\* Mutant: a second call takes the slot of the first.
MayRun_Reused(i) == ~wterminated

\* A call is refused after terminate, and while its id is in flight.
MayRun(i) == ~wterminated /\ winflight[i] = 0

\* One critical section: check, create the task, register it.
HandleCall ==
  /\ Reading("call")
  /\ LET i == Head(wqueue).id
     IN  IF MayRun(i)
         THEN \E t \in Tasks :
                /\ wat[t] = "none" /\ \A u \in 1..(t - 1) : wat[u] # "none"
                /\ wat' = [wat EXCEPT ![t] = "created"]
                /\ wcall' = [wcall EXCEPT ![t] = i]
                /\ winflight' = [winflight EXCEPT ![i] = t]
         ELSE UNCHANGED <<wat, wcall, winflight>>       \* an error is sent
  /\ wqueue' = Tail(wqueue)
  /\ UNCHANGED <<wfeeds, wreader, wterminated, wawaited, wclean, wtimed_out, wjobs,
                 wcancels, wstopped, wanswers, wack>>

\* ping, list_jobs and what is refused are answered on the spot.
HandleOther ==
  /\ Reading("other") \/ Reading("list_jobs")
  /\ wqueue' = Tail(wqueue)
  /\ UNCHANGED <<wfeeds, wreader, wterminated, winflight, wawaited, wclean, wtimed_out,
                 wjobs, wcall, wat, wcancels, wstopped, wanswers, wack>>

\* Up to gather(): the calls in flight are taken, forgotten and cancelled.
Terminate ==
  LET taken == {winflight[i] : i \in CallIds} \ {0}
  IN  /\ Reading("terminate")
      /\ wqueue' = Tail(wqueue)
      /\ wterminated' = TRUE
      /\ winflight' = [i \in CallIds |-> 0]
      /\ wcancels' = wcancels \cup {t \in taken : wat[t] # "finished"}
      /\ wstopped' = wstopped \cup taken
      /\ wawaited' = taken
      /\ wreader' = "waiting" /\ wtimed_out' = FALSE
      /\ UNCHANGED <<wfeeds, wclean, wjobs, wcall, wat, wanswers, wack>>

\* wait_for gives up: it cancels the gather, which cancels each call again, and
\* then still awaits them all.
GraceOver ==
  LET left == {t \in wawaited : wat[t] \notin {"finished", "gone"}}
  IN  /\ wreader = "waiting" /\ ~wtimed_out /\ left # {}
      /\ wtimed_out' = TRUE
      /\ wcancels' = wcancels \cup left
      /\ UNCHANGED <<wfeeds, wqueue, wreader, wterminated, winflight, wawaited, wclean,
                     wjobs, wcall, wat, wstopped, wanswers, wack>>

\* Mutant: the first call to end ends the wait (gather without return_exceptions).
Gathered_First == wawaited = {} \/ \E t \in wawaited : wat[t] = "gone"

Gathered == \A t \in wawaited : wat[t] = "gone"

\* The rest of terminate(), and its acknowledgement.
Acknowledge ==
  /\ wreader = "waiting" /\ Gathered
  /\ wclean' = IF wawaited = {} THEN wclean ELSE ~wtimed_out
  /\ wjobs' = {}
  /\ wack' = IF wclean' THEN "clean" ELSE "unclean"
  /\ wreader' = "idle" /\ wawaited' = {}
  /\ UNCHANGED <<wfeeds, wqueue, wterminated, winflight, wtimed_out, wcall, wat,
                 wcancels, wstopped, wanswers>>

-----------------------------------------------------------------------------
(* A call: _run_call and its handler *)

CallFrame == UNCHANGED <<wfeeds, wqueue, wreader, wterminated, winflight, wawaited, wclean,
                         wtimed_out, wcall, wstopped, wack>>

\* The first step of the task: a quick tool answers, another one is listed and waits.
Start(t) ==
  /\ wat[t] = "created" /\ t \notin wcancels
  /\ \/ /\ wat' = [wat EXCEPT ![t] = "finished"]
        /\ wanswers' = [wanswers EXCEPT ![t] = @ + 1]
        /\ UNCHANGED wjobs
     \/ /\ wat' = [wat EXCEPT ![t] = "hung"]
        /\ wjobs' = wjobs \cup {wcall[t]}
        /\ UNCHANGED wanswers
  /\ UNCHANGED wcancels /\ CallFrame

\* A task cancelled before its first step never enters _run_call: no reply.
CancelledUnstarted(t) ==
  /\ wat[t] = "created" /\ t \in wcancels
  /\ wat' = [wat EXCEPT ![t] = "finished"]
  /\ wcancels' = wcancels \ {t}
  /\ UNCHANGED <<wjobs, wanswers>> /\ CallFrame

\* The handler lets the cancellation through, and "cancelled" is sent.
Cancelled(t) ==
  /\ wat[t] = "hung" /\ t \in wcancels
  /\ wat' = [wat EXCEPT ![t] = "finished"]
  /\ wcancels' = wcancels \ {t}
  /\ wjobs' = wjobs \ {wcall[t]}
  /\ wanswers' = [wanswers EXCEPT ![t] = @ + 1]
  /\ CallFrame

Swallow(t) ==
  /\ wat[t] = "hung" /\ t \in wcancels
  /\ wcancels' = wcancels \ {t}
  /\ UNCHANGED <<wat, wjobs, wanswers>> /\ CallFrame

\* release_hang, or the end of what the handler waited for: a reply or an error.
\* The row in jobs stays.
Release(t) ==
  /\ wat[t] = "hung" /\ t \notin wcancels
  /\ wat' = [wat EXCEPT ![t] = "finished"]
  /\ wanswers' = [wanswers EXCEPT ![t] = @ + 1]
  /\ UNCHANGED <<wjobs, wcancels>> /\ CallFrame

\* The done callbacks: _inflight forgets this task, by identity, and a gather
\* counts it.
Done(t) ==
  /\ wat[t] = "finished"
  /\ wat' = [wat EXCEPT ![t] = "gone"]
  /\ winflight' = IF winflight[wcall[t]] = t
                  THEN [winflight EXCEPT ![wcall[t]] = 0] ELSE winflight
  /\ UNCHANGED <<wfeeds, wqueue, wreader, wterminated, wawaited, wclean, wtimed_out,
                 wjobs, wcall, wcancels, wstopped, wanswers, wack>>

WorkerNext ==
  \/ Feed \/ HandleCall \/ HandleOther \/ Terminate \/ GraceOver \/ Acknowledge
  \/ \E t \in Tasks :
       Start(t) \/ CancelledUnstarted(t) \/ Cancelled(t) \/ Swallow(t) \/ Release(t) \/ Done(t)

WorkerSpec == WorkerInit /\ [][WorkerNext]_workerVars

-----------------------------------------------------------------------------
(* What the hub relies on *)

Running(t) == wat[t] \in {"created", "hung"}

(* "The STOP guarantee": once the session is terminated, no call runs that *)
(* terminate() has not cancelled; none registers after its snapshot, and   *)
(* none is orphaned from it by another of its id.                          *)
StopReachesEveryCall == wterminated => \A t \in Tasks : Running(t) => t \in wstopped

(* The acknowledgement is honest: after one that says quiesced, no call    *)
(* runs, and none ever starts.                                             *)
HonestAck == wack = "clean" => \A t \in Tasks : ~Running(t)

(* A STOP reaches every call, and what it reports of them is so.           *)
StopGuarantee == StopReachesEveryCall /\ HonestAck
=============================================================================
