------------------------------- MODULE EventHub -------------------------------
(***************************************************************************)
(* The daemon-wide stream of events (daemon/_event_hub.py): a bounded ring *)
(* that a late subscriber replays, and a bounded mailbox per subscriber    *)
(* that drops its oldest event when it is full. A subscriber that drains   *)
(* nothing over evict_after publishes, and for long enough, is evicted.    *)
(*                                                                         *)
(* publish, subscribe and unsubscribe are synchronous, so each is one      *)
(* step. Event n stands for the n-th published event; its (agent, epoch,   *)
(* seq) is unique, as is the negative seq of an eviction notice. A         *)
(* consumer remembers what it has seen, to dedupe, across connections.     *)
(***************************************************************************)
EXTENDS Integers, Sequences, FiniteSets

CONSTANTS
  Observers,
  MaxPublished,      \* bound: events
  RingSize, QueueSize, EvictAfter

ASSUME HubAssumption ==
  /\ MaxPublished \in Nat
  /\ {RingSize, QueueSize, EvictAfter} \subseteq Nat \ {0}

VARIABLES
  published,         \* events so far
  ring,
  subs,              \* the queues publish() delivers to
  mailbox,           \* of each observer: its asyncio.Queue
  full_streak,
  starving,          \* observers starving for evict_min_seconds or longer
  sentinel_seq,
  connected,         \* observers that hold a queue, evicted or not
  seen,              \* of each observer: what it dedupes against
  joined,            \* history: first event its connection promised
  idle_for           \* history: publishes since it last read anything

hubVars == <<published, ring, subs, mailbox, full_streak, starving, sentinel_seq,
             connected, seen, joined, idle_for>>

HubInit ==
  /\ published = 0 /\ ring = <<>> /\ subs = {}
  /\ mailbox = [o \in Observers |-> <<>>]
  /\ full_streak = [o \in Observers |-> 0] /\ starving = {}
  /\ sentinel_seq = 0 /\ connected = {}
  /\ seen = [o \in Observers |-> {}] /\ joined = [o \in Observers |-> 0]
  /\ idle_for = [o \in Observers |-> 0]

-----------------------------------------------------------------------------

\* The last n items: a bounded deque and a drop-oldest queue keep these.
Newest(s, n) == IF Len(s) <= n THEN s ELSE SubSeq(s, Len(s) - n + 1, Len(s))

\* Mutant: a full queue refuses the new event, as a runner's own tail does.
Deliver_DropNewest(o, e) ==
  IF Len(mailbox[o]) = QueueSize THEN mailbox[o] ELSE Append(mailbox[o], e)

\* Room is made for the event at the cost of the oldest.
Deliver(o, e) == Newest(Append(mailbox[o], e), QueueSize)

\* Mutant: progress of a consumer does not clear its trouble.
Streak_Sticky(o) ==
  IF Len(mailbox[o]) = QueueSize THEN full_streak[o] + 1 ELSE full_streak[o]

\* A queue that is full at put time was not drained since the last publish.
Streak(o) == IF Len(mailbox[o]) = QueueSize THEN full_streak[o] + 1 ELSE 0

Evicted == {o \in subs : Streak(o) >= EvictAfter /\ o \in starving}

\* Mutant: every notice has the same key.
Notice_Same(k) == -1

Notice(k) == -k

\* Starvation by the clock starts with the streak, so a queue that was full
\* once may be found starving at the next publish.
TimePasses(o) ==
  /\ o \in subs /\ full_streak[o] > 0 /\ o \notin starving
  /\ starving' = starving \cup {o}
  /\ UNCHANGED <<published, ring, subs, mailbox, full_streak, sentinel_seq,
                 connected, seen, joined, idle_for>>

\* An evicted subscriber finds one notice instead of its backlog. The order of
\* two evictions in one publish is the order of subscription, here any order.
PublishEvent ==
  /\ published < MaxPublished
  /\ published' = published + 1
  /\ ring' = Newest(Append(ring, published'), RingSize)
  /\ \E rank \in [Evicted -> 1..Cardinality(Evicted)] :
       /\ \A o, p \in Evicted : o # p => rank[o] # rank[p]
       /\ mailbox' = [o \in Observers |->
            IF o \in Evicted THEN <<Notice(sentinel_seq + rank[o])>>
            ELSE IF o \in subs THEN Deliver(o, published')
            ELSE mailbox[o]]
  /\ sentinel_seq' = sentinel_seq + Cardinality(Evicted)
  /\ full_streak' = [o \in Observers |-> IF o \in subs \ Evicted THEN Streak(o) ELSE 0]
  /\ starving' = {o \in starving \ Evicted : Streak(o) > 0}
  /\ subs' = subs \ Evicted
  /\ idle_for' = [o \in Observers |-> IF o \in subs THEN idle_for[o] + 1 ELSE 0]
  /\ UNCHANGED <<connected, seen, joined>>

\* The ring is replayed to the new subscriber, before anything live.
Subscribe(o) ==
  /\ o \notin connected
  /\ connected' = connected \cup {o}
  /\ subs' = subs \cup {o}
  /\ mailbox' = [mailbox EXCEPT ![o] = <<>>]
  /\ seen' = [seen EXCEPT ![o] = @ \cup {ring[i] : i \in 1..Len(ring)}]
  /\ joined' = [joined EXCEPT ![o] = published - Len(ring) + 1]
  /\ idle_for' = [idle_for EXCEPT ![o] = 0]
  /\ UNCHANGED <<published, ring, full_streak, starving, sentinel_seq>>

\* What is queued is given up; an evicted subscriber may do it as well.
Unsubscribe(o) ==
  /\ o \in connected
  /\ connected' = connected \ {o}
  /\ subs' = subs \ {o}
  /\ mailbox' = [mailbox EXCEPT ![o] = <<>>]
  /\ full_streak' = [full_streak EXCEPT ![o] = 0]
  /\ starving' = starving \ {o}
  /\ UNCHANGED <<published, ring, sentinel_seq, seen, joined, idle_for>>

\* q.get() of a consumer.
Read(o) ==
  /\ o \in connected /\ mailbox[o] # <<>>
  /\ mailbox' = [mailbox EXCEPT ![o] = Tail(@)]
  /\ seen' = [seen EXCEPT ![o] = @ \cup {Head(mailbox[o])}]
  /\ idle_for' = [idle_for EXCEPT ![o] = 0]
  /\ UNCHANGED <<published, ring, subs, full_streak, starving, sentinel_seq,
                 connected, joined>>

HubNext ==
  \/ PublishEvent
  \/ \E o \in Observers :
       TimePasses(o) \/ Subscribe(o) \/ Unsubscribe(o) \/ Read(o)

HubSpec == HubInit /\ [][HubNext]_hubVars

-----------------------------------------------------------------------------
(* What observers rely on *)

MailSet(o) == {mailbox[o][i] : i \in 1..Len(mailbox[o])}

(* A subscriber converges to live: of everything since the first event of  *)
(* its replay, it has seen an event, has it queued, or the event is older  *)
(* than all it has queued and a whole queue of newer ones was kept for it. *)
(* Replay and live meet without a gap, and no overflow makes a hole in the *)
(* middle of the backlog.                                                  *)
OnlyOldestDropped ==
  \A o \in subs :
    LET kept == MailSet(o) \cup seen[o]
    IN  \A e \in (joined[o]..published) \ kept :
          /\ \A m \in MailSet(o) : e < m
          /\ Cardinality({k \in kept : k > e}) >= QueueSize

(* "A wrongly-evicted-but-alive consumer SEES the eviction": while it      *)
(* holds the dead queue, the notice is the next thing it reads, and one    *)
(* that its dedupe does not suppress; or it has read it.                   *)
EvictionIsNoticed ==
  \A o \in connected \ subs :
    mailbox[o] # <<>> => Head(mailbox[o]) < 0 /\ Head(mailbox[o]) \notin seen[o]

(* So nothing is lost silently, out of the middle or by an eviction.       *)
NoSilentLoss == OnlyOldestDropped /\ EvictionIsNoticed

(* Only a consumer that drained nothing over evict_after publishes is      *)
(* evicted, never one that makes any progress between them.                *)
EvictsOnlyIdle ==
  [][\A o \in subs \cap connected' : o \notin subs' => idle_for'[o] > EvictAfter]_hubVars
=============================================================================
