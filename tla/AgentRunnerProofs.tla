--------------------------- MODULE AgentRunnerProofs ---------------------------
(***************************************************************************)
(* What holds of AgentRunner for every number of jobs, every budget and    *)
(* every combination of its failures.                                      *)
(***************************************************************************)
EXTENDS AgentRunnerProps, CountingLemmas

-----------------------------------------------------------------------------
(* Sequences *)

(* A queue.get() splits the queue into the item it returns and the rest.   *)
LEMMA TailElements ==
  ASSUME NEW S, NEW s \in Seq(S), s # <<>>
  PROVE  /\ Head(s) \in S /\ Tail(s) \in Seq(S)
         /\ Elements(s) = {Head(s)} \cup Elements(Tail(s))
<1>1. /\ Head(s) = s[1] /\ Tail(s) \in Seq(S) /\ Len(s) \in Nat \ {0}
      /\ Len(Tail(s)) = Len(s) - 1
      /\ \A i \in 1..Len(Tail(s)) : Tail(s)[i] = s[i + 1]
  OBVIOUS
<1>2. Head(s) \in S
  BY <1>1
<1>3. ASSUME NEW e \in Elements(s)
      PROVE  e \in {Head(s)} \cup Elements(Tail(s))
  <2>1. PICK i \in 1..Len(s) : e = s[i]
    BY <1>3 DEF Elements
  <2>2. CASE i = 1
    BY <2>1, <2>2, <1>1
  <2>3. CASE i # 1
    <3>1. i - 1 \in 1..Len(Tail(s)) /\ Tail(s)[i - 1] = s[i]
      BY <2>1, <2>3, <1>1
    <3>2. QED
      BY <2>1, <3>1 DEF Elements
  <2>4. QED
    BY <2>2, <2>3
<1>4. {Head(s)} \cup Elements(Tail(s)) \subseteq Elements(s)
  <2>1. Head(s) \in Elements(s)
    BY <1>1 DEF Elements
  <2>2. \A i \in 1..Len(Tail(s)) : i + 1 \in 1..Len(s)
    BY <1>1
  <2>3. Elements(Tail(s)) \subseteq Elements(s)
    BY <1>1, <2>2 DEF Elements
  <2>4. QED
    BY <2>1, <2>3
<1>5. QED
  BY <1>1, <1>2, <1>3, <1>4

(* put_nowait adds its item and nothing else.                              *)
LEMMA AppendElements ==
  ASSUME NEW S, NEW s \in Seq(S), NEW e \in S
  PROVE  /\ Append(s, e) \in Seq(S)
         /\ Append(s, e) # <<>>
         /\ Elements(Append(s, e)) = Elements(s) \cup {e}
<1> DEFINE t == Append(s, e)
<1>1. /\ t \in Seq(S) /\ Len(t) = Len(s) + 1 /\ t[Len(s) + 1] = e
      /\ \A i \in 1..Len(s) : t[i] = s[i]
      /\ Len(s) \in Nat
  OBVIOUS
<1>2. Elements(t) \subseteq Elements(s) \cup {e}
  <2>1. \A i \in 1..Len(t) : i = Len(s) + 1 \/ i \in 1..Len(s)
    BY <1>1
  <2>2. QED
    BY <1>1, <2>1 DEF Elements
<1>3. Elements(s) \cup {e} \subseteq Elements(t)
  <2>1. \A i \in 1..Len(s) : i \in 1..Len(t)
    BY <1>1
  <2>2. Len(s) + 1 \in 1..Len(t)
    BY <1>1
  <2>3. QED
    BY <1>1, <2>1, <2>2 DEF Elements
<1>4. t # <<>>
  BY <1>1
<1>5. QED
  BY <1>1, <1>2, <1>3, <1>4

(* cancel_job's drain loses no item but the one it drops.                  *)
LEMMA WithoutElements ==
  ASSUME NEW S, NEW s \in Seq(S), NEW k \in 1..Len(s)
  PROVE  /\ Without(s, k) \in Seq(S)
         /\ Elements(Without(s, k)) \subseteq Elements(s)
         /\ \A e \in Elements(s) : e # s[k] => e \in Elements(Without(s, k))
<1> DEFINE t == Without(s, k)
<1>1. Len(s) \in Nat /\ k \in Nat /\ 1 <= k /\ k <= Len(s)
  OBVIOUS
<1>2. /\ t \in Seq(S) /\ Len(t) = Len(s) - 1
      /\ \A i \in 1..(k - 1) : t[i] = s[i]
      /\ \A i \in k..(Len(s) - 1) : t[i] = s[i + 1]
  BY Removal DEF Without, Removed
<1> HIDE DEF t
<1>3. Elements(t) \subseteq Elements(s)
  <2>1. ASSUME NEW i \in 1..Len(t) PROVE t[i] \in Elements(s)
    <3>1. CASE i \in 1..(k - 1)
      BY <1>1, <1>2, <3>1 DEF Elements
    <3>2. CASE i \in k..(Len(s) - 1)
      <4>1. i + 1 \in 1..Len(s)
        BY <1>1, <3>2
      <4>2. QED
        BY <1>2, <3>2, <4>1 DEF Elements
    <3>3. QED
      BY <1>1, <1>2, <3>1, <3>2
  <2>2. QED
    BY <2>1 DEF Elements
<1>4. ASSUME NEW e \in Elements(s), e # s[k] PROVE e \in Elements(t)
  <2>1. PICK i \in 1..Len(s) : e = s[i]
    BY <1>4 DEF Elements
  <2>2. CASE i < k
    <3>1. i \in 1..(k - 1) /\ i \in 1..Len(t)
      BY <1>1, <1>2, <2>2
    <3>2. QED
      BY <1>2, <2>1, <3>1 DEF Elements
  <2>3. CASE i > k
    <3>1. i - 1 \in k..(Len(s) - 1) /\ i - 1 \in 1..Len(t) /\ (i - 1) + 1 = i
      BY <1>1, <1>2, <2>3
    <3>2. QED
      BY <1>2, <2>1, <3>1 DEF Elements
  <2>4. QED
    BY <1>1, <1>4, <2>1, <2>2, <2>3
<1>5. QED
  BY <1>2, <1>3, <1>4 DEF t

-----------------------------------------------------------------------------
(* Types *)

(* For the provers: the two values of a flag.                              *)
LEMMA Flags == \A x : x = FALSE \/ x = TRUE => x \in BOOLEAN
BY Zenon

Futures == {"none", "pending", "result", "error", "cancelled"}

(* The drain and cancel_job only turn pending futures into errors.         *)
LEMMA FailType ==
  ASSUME future \in [Jobs -> Futures], NEW S
  PROVE  Fail(S) \in [Jobs -> Futures]
BY DEF Fail, Futures

LEMMA JobsAreEntries ==
  /\ Jobs \subseteq Entries /\ STEER_WAKE \in Entries /\ SHUTDOWN \in Entries
  /\ NoJob \notin Jobs /\ STEER_WAKE \notin Jobs /\ SHUTDOWN \notin Jobs
  /\ STEER_WAKE # SHUTDOWN
BY RunnerAssumption DEF Jobs, Entries, NoJob

(* Whatever is put into the queue, it stays a queue of entries.            *)
LEMMA PutType ==
  ASSUME TypeOK, NEW e \in Entries
  PROVE  Append(queue, e) \in Seq(Entries)
BY AppendElements DEF TypeOK

(* Leaving the loop keeps every variable in its type.                      *)
LEMMA ExitType ==
  ASSUME TypeOK, ExitLoop
  PROVE  TypeOK'
<1>1. future' \in [Jobs -> Futures]
  BY FailType DEF TypeOK, ExitLoop, FailPendingFutures, Futures
<1>2. queue' \in Seq(Entries)
  BY DEF ExitLoop, FailPendingFutures
<1>3. QED
  BY <1>1, <1>2, Flags DEF TypeOK, ExitLoop, ProcessEnds, Pcs, calls, budget,
       Futures

(* StartJob alone decides these four.                                      *)
LEMMA StartType ==
  ASSUME TypeOK, NEW j \in Jobs, StartJob(j)
  PROVE  /\ current' \in Jobs \cup {NoJob} /\ status' = "busy"
         /\ pc' \in Pcs /\ job_error' \in BOOLEAN /\ turn_active' \in BOOLEAN
         /\ timed' \in BOOLEAN
BY DEF TypeOK, StartJob, Pcs

LEMMA TypeStep == TypeOK /\ [Next]_vars => TypeOK'
<1> SUFFICES ASSUME TypeOK, [Next]_vars
             PROVE  TypeOK'
  OBVIOUS
<1> USE Flags DEF Pcs, control, work, replies, turnVars, calls, budget, vars
<1>1. CASE UNCHANGED vars
  BY <1>1 DEF TypeOK
<1>2. CASE Connected
  BY <1>2 DEF TypeOK, Connected
<1>3. CASE AttachRetry
  BY <1>3 DEF TypeOK, AttachRetry, MAX_GATEWAY_ATTACH_RETRIES
<1>4. CASE ConnectFails
  BY <1>4, FailType DEF TypeOK, ConnectFails, FailPendingFutures, Futures
<1>5. CASE ArmBudgetFromLedger
  BY <1>5 DEF TypeOK, ArmBudgetFromLedger
<1>6. CASE StopSeen
  BY <1>6, ExitType DEF TypeOK, StopSeen
<1>7. CASE TakeSteer
  BY <1>7, TailElements, StartType, JobsAreEntries DEF TypeOK, TakeSteer
<1>8. CASE AwaitWork
  BY <1>8, RunnerAssumption DEF TypeOK, AwaitWork, IdleTimer
<1>9. CASE TakeJob
  BY <1>9, TailElements, StartType, JobsAreEntries DEF TypeOK, TakeJob,
       GetReturns
<1>10. CASE TakeWake
  BY <1>10, TailElements DEF TypeOK, TakeWake, GetReturns
<1>11. CASE TakeShutdown
  BY <1>11, ExitType DEF TypeOK, TakeShutdown
<1>12. CASE IdleTimerFires
  BY <1>12 DEF TypeOK, IdleTimerFires
<1>13. CASE LeaveIdle
  BY <1>13, ExitType DEF TypeOK, LeaveIdle
<1>14. ASSUME NEW cost \in TurnCosts, TurnCompletes(cost)
      PROVE  TypeOK'
  BY <1>14, RunnerAssumption DEF TypeOK, TurnCompletes, Charged
<1>15. CASE ProviderError
  BY <1>15 DEF TypeOK, ProviderError
<1>16. CASE StreamEnds
  BY <1>16 DEF TypeOK, StreamEnds
<1>17. ASSUME NEW silent \in BOOLEAN, PhaseEnds(silent)
      PROVE  TypeOK'
  BY <1>17 DEF TypeOK, PhaseEnds, Nudges
<1>18. CASE TurnFails
  BY <1>18 DEF TypeOK, TurnFails
<1>19. CASE WatchdogEndsStoppingRunner
  BY <1>19, ExitType DEF TypeOK, WatchdogEndsStoppingRunner
<1>20. CASE TurnOver
  BY <1>20 DEF TypeOK, TurnOver, ProcessEnds
<1>21. CASE AuthRecovery
  BY <1>21 DEF TypeOK, AuthRecovery, ProcessEnds, MAX_AUTH_RECOVERIES
<1>22. CASE Reconnected
  BY <1>22 DEF TypeOK, Reconnected
<1>23. CASE ReconnectFails
  BY <1>23 DEF TypeOK, ReconnectFails
<1>24. CASE JobDone
  <2>1. future' \in [Jobs -> {"none", "pending", "result", "error", "cancelled"}]
    BY <1>24 DEF TypeOK, JobDone
  <2>2. status' \in {"idle", "budget_parked"}
    BY <1>24 DEF JobDone, RestStatus
  <2>3. QED
    BY <1>24, <2>1, <2>2 DEF TypeOK, JobDone
<1>25. CASE StoreFails
  BY <1>25, ExitType DEF TypeOK, StoreFails
<1>26. CASE Disconnected
  BY <1>26 DEF TypeOK, Disconnected
<1>27. CASE TaskCancelled
  BY <1>27, ExitType DEF TypeOK, TaskCancelled
<1>28. CASE DisconnectCancelled
  BY <1>28 DEF TypeOK, DisconnectCancelled
<1>29. ASSUME NEW awaited \in BOOLEAN, Submit(awaited)
      PROVE  TypeOK'
  <2>1. /\ next_job_id \in Jobs /\ next_job_id' \in 1..(MaxJobs + 1)
        /\ UNCHANGED <<control, steer_lane, current, job_error, turnVars, calls,
                       budget>>
    BY <1>29, RunnerAssumption DEF TypeOK, Submit, Jobs
  <2>2. future' \in [Jobs -> {"none", "pending", "result", "error", "cancelled"}]
    BY <1>29 DEF TypeOK, Submit
  <2>3. queue' \in Seq(Entries)
    <3>1. queue' = Append(queue, next_job_id) \/ UNCHANGED queue
      BY <1>29 DEF Submit
    <3>2. QED
      BY <3>1, <2>1, PutType, JobsAreEntries DEF TypeOK
  <2>4. QED
    BY <2>1, <2>2, <2>3 DEF TypeOK
<1>30. ASSUME NEW interrupt \in BOOLEAN, Steer(interrupt)
      PROVE  TypeOK'
  BY <1>30, RunnerAssumption, AppendElements, JobsAreEntries DEF TypeOK, Steer,
       Nudged, Jobs
<1>31. ASSUME NEW kill \in BOOLEAN, Stop(kill)
      PROVE  TypeOK'
  <2>1. /\ stops' \in 0..MaxStops /\ stop_requested' \in BOOLEAN
        /\ UNCHANGED <<pc, status, exited_by, steer_lane, current, next_job_id,
                       replies, turnVars, interrupted_job_id, steering, budget>>
    BY <1>31, RunnerAssumption DEF TypeOK, Stop
  <2>2. queue' \in Seq(Entries) /\ stopping' \in Nat
    <3>1. \/ stopping' = stopping + 1 /\ UNCHANGED queue
          \/ queue' = Append(queue, SHUTDOWN) /\ UNCHANGED stopping
      BY <1>31 DEF Stop, Nudged
    <3>2. Append(queue, SHUTDOWN) \in Seq(Entries)
      BY PutType, JobsAreEntries
    <3>3. queue \in Seq(Entries) /\ stopping \in Nat
      BY DEF TypeOK
    <3>4. QED
      BY <3>1, <3>2, <3>3
  <2>3. QED
    BY <2>1, <2>2 DEF TypeOK
<1>32. ASSUME NEW j \in Jobs, CallerGivesUp(j)
      PROVE  TypeOK'
  BY <1>32 DEF TypeOK, CallerGivesUp
<1>33. ASSUME NEW j \in Jobs, CancelCurrent(j)
      PROVE  TypeOK'
  BY <1>33 DEF TypeOK, CancelCurrent
<1>34. ASSUME NEW j \in Jobs, CancelQueued(j)
      PROVE  TypeOK'
  BY <1>34, FailType, WithoutElements DEF TypeOK, CancelQueued, Futures
<1>35. CASE SteerInterruptReturns
  BY <1>35 DEF TypeOK, SteerInterruptReturns
<1>36. CASE StopInterruptReturns
  BY <1>36, AppendElements, JobsAreEntries DEF TypeOK, StopInterruptReturns,
       Nudged
<1>37. CASE BudgetResume
  BY <1>37, AppendElements, JobsAreEntries DEF TypeOK, BudgetResume, Nudged
<1>38. QED
  BY <1>1, <1>2, <1>3, <1>4, <1>5, <1>6, <1>7, <1>8, <1>9, <1>10, <1>11, <1>12,
       <1>13, <1>14, <1>15, <1>16, <1>17, <1>18, <1>19, <1>20, <1>21, <1>22,
       <1>23, <1>24, <1>25, <1>26, <1>27, <1>28, <1>29, <1>30, <1>31, <1>32,
       <1>33, <1>34, <1>35, <1>36, <1>37
     DEF Next, RunLoop, Failures, Requests

(* Every variable keeps to its values.                                     *)
THEOREM TypeCorrect == Spec => []TypeOK
<1>1. Init => TypeOK
  BY RunnerAssumption, Flags DEF Init, TypeOK, Pcs, Jobs, Entries, NoJob
<1>2. QED
  BY <1>1, TypeStep, PTL DEF Spec

-----------------------------------------------------------------------------
(* Who holds the control *)

LEMMA ExitControl ==
  ASSUME TypeOK, ControlInv, LoopAlive, ExitLoop
  PROVE  ControlInv'
BY DEF TypeOK, ControlInv, ExitLoop, calls, budget, Serving, LoopAlive,
     GateTracksLedger, ParkIsReported, Exhausted

LEMMA ControlStep == TypeOK /\ ControlInv /\ [Next]_vars => ControlInv'
<1> SUFFICES ASSUME TypeOK, ControlInv, [Next]_vars
             PROVE  ControlInv'
  OBVIOUS
<1> USE DEF Serving, LoopAlive, GateTracksLedger, ParkIsReported, Exhausted,
     control, work, replies, turnVars, calls, budget, vars
<1>1. CASE UNCHANGED vars
  BY <1>1 DEF ControlInv
<1>2. CASE Connected
  BY <1>2 DEF ControlInv, Connected
<1>3. CASE AttachRetry
  BY <1>3 DEF ControlInv, AttachRetry
<1>4. CASE ConnectFails
  BY <1>4 DEF ControlInv, ConnectFails, FailPendingFutures
<1>5. CASE ArmBudgetFromLedger
  BY <1>5 DEF ControlInv, ArmBudgetFromLedger
<1>6. CASE StopSeen
  BY <1>6, ExitControl DEF StopSeen, LoopAlive
<1>7. CASE TakeSteer
  <2>1. Head(steer_lane) \in Jobs
    BY <1>7, TailElements DEF TypeOK, TakeSteer
  <2>2. QED
    BY <1>7, <2>1, JobsAreEntries DEF ControlInv, TakeSteer, StartJob
<1>8. CASE AwaitWork
  BY <1>8, RunnerAssumption DEF ControlInv, AwaitWork, IdleTimer
<1>9. CASE TakeJob
  BY <1>9, JobsAreEntries DEF ControlInv, TakeJob, StartJob, GetReturns
<1>10. CASE TakeWake
  BY <1>10 DEF ControlInv, TakeWake, GetReturns
<1>11. CASE TakeShutdown
  BY <1>11, ExitControl DEF TakeShutdown, LoopAlive, GetReturns
<1>12. CASE IdleTimerFires
  BY <1>12 DEF ControlInv, IdleTimerFires
<1>13. CASE LeaveIdle
  BY <1>13, ExitControl DEF LeaveIdle, LoopAlive
<1>14. ASSUME NEW cost \in TurnCosts, TurnCompletes(cost)
      PROVE  ControlInv'
  BY <1>14 DEF ControlInv, TurnCompletes
<1>15. CASE ProviderError
  BY <1>15 DEF ControlInv, ProviderError
<1>16. CASE StreamEnds
  BY <1>16 DEF ControlInv, StreamEnds
<1>17. ASSUME NEW silent \in BOOLEAN, PhaseEnds(silent)
      PROVE  ControlInv'
  BY <1>17 DEF ControlInv, PhaseEnds
<1>18. CASE TurnFails
  BY <1>18 DEF ControlInv, TurnFails, InProcess
<1>19. CASE WatchdogEndsStoppingRunner
  BY <1>19, ExitControl DEF WatchdogEndsStoppingRunner, LoopAlive, InProcess
<1>20. CASE TurnOver
  BY <1>20 DEF ControlInv, TurnOver
<1>21. CASE AuthRecovery
  BY <1>21 DEF ControlInv, AuthRecovery
<1>22. CASE Reconnected
  BY <1>22 DEF ControlInv, Reconnected
<1>23. CASE ReconnectFails
  BY <1>23 DEF ControlInv, ReconnectFails
<1>24. CASE JobDone
  BY <1>24 DEF ControlInv, JobDone, RestStatus, NoJob
<1>25. CASE StoreFails
  BY <1>25, ExitControl DEF StoreFails, LoopAlive
<1>26. CASE Disconnected
  BY <1>26 DEF ControlInv, Disconnected
<1>27. CASE TaskCancelled
  BY <1>27, ExitControl DEF TaskCancelled, LoopAlive
<1>28. CASE DisconnectCancelled
  BY <1>28 DEF ControlInv, DisconnectCancelled
<1>29. ASSUME NEW awaited \in BOOLEAN, Submit(awaited)
      PROVE  ControlInv'
  BY <1>29 DEF ControlInv, Submit
<1>30. ASSUME NEW interrupt \in BOOLEAN, Steer(interrupt)
      PROVE  ControlInv'
  BY <1>30 DEF ControlInv, Steer
<1>31. ASSUME NEW kill \in BOOLEAN, Stop(kill)
      PROVE  ControlInv'
  BY <1>31 DEF ControlInv, Stop
<1>32. ASSUME NEW j \in Jobs, CallerGivesUp(j)
      PROVE  ControlInv'
  BY <1>32 DEF ControlInv, CallerGivesUp
<1>33. ASSUME NEW j \in Jobs, CancelCurrent(j)
      PROVE  ControlInv'
  BY <1>33 DEF ControlInv, CancelCurrent
<1>34. ASSUME NEW j \in Jobs, CancelQueued(j)
      PROVE  ControlInv'
  BY <1>34 DEF ControlInv, CancelQueued
<1>35. CASE SteerInterruptReturns
  BY <1>35 DEF ControlInv, SteerInterruptReturns
<1>36. CASE StopInterruptReturns
  BY <1>36 DEF ControlInv, StopInterruptReturns
<1>37. CASE BudgetResume
  BY <1>37 DEF ControlInv, BudgetResume
<1>38. QED
  BY <1>1, <1>2, <1>3, <1>4, <1>5, <1>6, <1>7, <1>8, <1>9, <1>10, <1>11, <1>12,
       <1>13, <1>14, <1>15, <1>16, <1>17, <1>18, <1>19, <1>20, <1>21, <1>22,
       <1>23, <1>24, <1>25, <1>26, <1>27, <1>28, <1>29, <1>30, <1>31, <1>32,
       <1>33, <1>34, <1>35, <1>36, <1>37
     DEF Next, RunLoop, Failures, Requests

-----------------------------------------------------------------------------
(* What the queue carries *)

(* The drain answers whoever it finds waiting, and nobody else.            *)
LEMMA FailAnswers ==
  ASSUME NEW S, NEW j \in Jobs
  PROVE  /\ Fail(S)[j] = "pending" => future[j] = "pending" /\ j \notin S
         /\ future[j] = "none" => Fail(S)[j] = "none"
BY DEF Fail

LEMMA NothingInEmpty == Elements(<<>>) = {}
BY DEF Elements

(* put_nowait, seen from the queue.                                        *)
LEMMA PutElements ==
  ASSUME TypeOK, NEW e \in Entries
  PROVE  Elements(Append(queue, e)) = Elements(queue) \cup {e}
BY AppendElements DEF TypeOK

(* get() returns: the rest of the queue holds all but the item taken.      *)
LEMMA GetElements ==
  ASSUME TypeOK, queue # <<>>
  PROVE  /\ Head(queue) \in Entries
         /\ Elements(queue) = {Head(queue)} \cup Elements(Tail(queue))
BY TailElements DEF TypeOK

LEMMA ExitQueue ==
  ASSUME TypeOK, ControlInv, QueueInv, pc \notin {"teardown", "done"}, ExitLoop
  PROVE  QueueInv'
<1>1. /\ queue' = <<>> /\ future' = Fail({current} \cup Elements(queue))
      /\ pc' = "teardown"
      /\ UNCHANGED <<stop_requested, next_job_id, stopping>>
  BY DEF ExitLoop, FailPendingFutures, calls
<1>2. \A j \in Jobs : future[j] = "pending" => j \in {current} \cup Elements(queue)
  BY DEF QueueInv, NoStrandedCaller, ControlInv, LoopAlive
<1>3. \A j \in Jobs : future'[j] # "pending" /\ (future[j] = "none" => future'[j] = "none")
  BY <1>1, <1>2, FailAnswers
<1>4. QED
  BY <1>1, <1>3, NothingInEmpty DEF QueueInv, NoStrandedCaller,
       NeverSleepsOnWork, LoopAlive

LEMMA QueueStep == TypeOK /\ ControlInv /\ QueueInv /\ [Next]_vars => QueueInv'
<1> SUFFICES ASSUME TypeOK, ControlInv, QueueInv, [Next]_vars
             PROVE  QueueInv'
  OBVIOUS
<1> USE DEF NoStrandedCaller, NeverSleepsOnWork, LoopAlive, control, work,
     replies, turnVars, calls, budget, vars
<1>1. CASE UNCHANGED vars
  BY <1>1 DEF QueueInv
<1>2. CASE Connected
  BY <1>2 DEF QueueInv, Connected
<1>3. CASE AttachRetry
  BY <1>3 DEF QueueInv, AttachRetry
<1>4. CASE ConnectFails
  <2>1. /\ queue' = <<>> /\ future' = Fail({current} \cup Elements(queue))
        /\ pc' = "teardown" /\ pc = "connecting"
        /\ UNCHANGED <<stop_requested, next_job_id, stopping>>
    BY <1>4 DEF ConnectFails, FailPendingFutures
  <2>2. \A j \in Jobs : future[j] = "pending" => j \in {current} \cup Elements(queue)
    BY <2>1 DEF QueueInv, ControlInv
  <2>3. \A j \in Jobs : future'[j] # "pending"
                       /\ (future[j] = "none" => future'[j] = "none")
    BY <2>1, <2>2, FailAnswers
  <2>4. QED
    BY <2>1, <2>3, NothingInEmpty DEF QueueInv
<1>5. CASE ArmBudgetFromLedger
  BY <1>5 DEF QueueInv, ArmBudgetFromLedger
<1>6. CASE StopSeen
  BY <1>6, ExitQueue DEF StopSeen
<1>7. CASE TakeSteer
  <2>1. /\ pc = "loop" /\ pc' \in {"turn", "final"} /\ current = NoJob
        /\ UNCHANGED <<queue, future, next_job_id, stop_requested, stopping>>
        /\ UNCHANGED exited_by
    BY <1>7 DEF TakeSteer, StartJob, ControlInv, Serving
  <2>2. \A j \in Jobs : j # NoJob
    BY JobsAreEntries
  <2>3. QED
    BY <2>1, <2>2 DEF QueueInv
<1>8. CASE AwaitWork
  BY <1>8 DEF QueueInv, AwaitWork, IdleTimer
<1>9. CASE TakeJob
  <2>1. /\ pc \in {"wait", "loop"} /\ pc' \in {"turn", "final"} /\ current = NoJob
        /\ queue # <<>> /\ current' = Head(queue) /\ queue' = Tail(queue)
        /\ UNCHANGED <<exited_by, future, next_job_id, stop_requested, stopping>>
    BY <1>9 DEF TakeJob, StartJob, GetReturns, ControlInv, Serving
  <2>2. Elements(queue) = {current'} \cup Elements(queue')
    BY <2>1, GetElements
  <2>3. \A j \in Jobs : j # NoJob
    BY JobsAreEntries
  <2>4. QED
    BY <2>1, <2>2, <2>3 DEF QueueInv
<1>10. CASE TakeWake
  <2>1. /\ pc \in {"wait", "loop"} /\ pc' = "loop"
        /\ queue # <<>> /\ Head(queue) = STEER_WAKE /\ queue' = Tail(queue)
        /\ UNCHANGED <<exited_by, current, future, next_job_id, stop_requested,
                       stopping>>
    BY <1>10 DEF TakeWake, GetReturns
  <2>2. Elements(queue) = {STEER_WAKE} \cup Elements(queue')
    BY <2>1, GetElements
  <2>3. QED
    BY <2>1, <2>2, JobsAreEntries DEF QueueInv
<1>11. CASE TakeShutdown
  BY <1>11, ExitQueue DEF TakeShutdown, GetReturns
<1>12. CASE IdleTimerFires
  BY <1>12 DEF QueueInv, IdleTimerFires
<1>13. CASE LeaveIdle
  BY <1>13, ExitQueue DEF LeaveIdle
<1>14. ASSUME NEW cost \in TurnCosts, TurnCompletes(cost)
      PROVE  QueueInv'
  BY <1>14 DEF QueueInv, TurnCompletes
<1>15. CASE ProviderError
  BY <1>15 DEF QueueInv, ProviderError
<1>16. CASE StreamEnds
  BY <1>16 DEF QueueInv, StreamEnds
<1>17. ASSUME NEW silent \in BOOLEAN, PhaseEnds(silent)
      PROVE  QueueInv'
  BY <1>17 DEF QueueInv, PhaseEnds
<1>18. CASE TurnFails
  BY <1>18 DEF QueueInv, TurnFails, InProcess
<1>19. CASE WatchdogEndsStoppingRunner
  BY <1>19, ExitQueue DEF WatchdogEndsStoppingRunner, InProcess
<1>20. CASE TurnOver
  BY <1>20 DEF QueueInv, TurnOver
<1>21. CASE AuthRecovery
  BY <1>21 DEF QueueInv, AuthRecovery
<1>22. CASE Reconnected
  BY <1>22 DEF QueueInv, Reconnected
<1>23. CASE ReconnectFails
  BY <1>23 DEF QueueInv, ReconnectFails
<1>24. CASE JobDone
  <2>1. /\ pc = "final" /\ pc' = "loop" /\ current' = NoJob
        /\ \A j \in Jobs : /\ j = current => future'[j] # "pending"
                           /\ j # current => future'[j] = future[j]
                           /\ future[j] = "none" => future'[j] = "none"
        /\ UNCHANGED <<exited_by, queue, next_job_id, stop_requested, stopping>>
    BY <1>24 DEF JobDone, TypeOK
  <2>2. ASSUME exited_by' # "other", NEW j \in Jobs, future'[j] = "pending"
        PROVE  j \in Elements(queue)
    <3>1. j # current /\ future[j] = "pending"
      BY <2>1, <2>2
    <3>2. QED
      BY <2>1, <2>2, <3>1 DEF QueueInv
  <2>3. QED
    BY <2>1, <2>2 DEF QueueInv
<1>25. CASE StoreFails
  BY <1>25, ExitQueue DEF StoreFails
<1>26. CASE Disconnected
  BY <1>26 DEF QueueInv, Disconnected
<1>27. CASE TaskCancelled
  BY <1>27, ExitQueue DEF TaskCancelled
<1>28. CASE DisconnectCancelled
  BY <1>28 DEF QueueInv, DisconnectCancelled
<1>29. ASSUME NEW awaited \in BOOLEAN, Submit(awaited)
      PROVE  QueueInv'
  <2>1. /\ next_job_id \in Jobs /\ next_job_id' = next_job_id + 1
        /\ UNCHANGED <<pc, exited_by, current, steer_lane, stop_requested, stopping,
                       timed, budget_parked>>
    BY <1>29 DEF Submit
  <2>2. \A j \in Jobs : /\ j # next_job_id => future'[j] = future[j]
                        /\ j >= next_job_id' => j >= next_job_id /\ j # next_job_id
    <3>1. \A j \in Jobs : j # next_job_id => future'[j] = future[j]
      BY <1>29 DEF Submit, TypeOK
    <3>2. QED
      BY <2>1, <3>1 DEF Jobs
  <2>3. CASE Refusing
    <3>1. queue' = queue /\ future'[next_job_id] # "pending"
      BY <1>29, <2>1, <2>3 DEF Submit, TypeOK
    <3>2. NoStrandedCaller'
      BY <2>1, <2>2, <3>1 DEF QueueInv
    <3>3. QED
      BY <2>1, <2>2, <3>1, <3>2 DEF QueueInv
  <2>4. CASE ~Refusing
    <3>1. queue' = Append(queue, next_job_id) /\ ~stop_requested
      BY <1>29, <2>4 DEF Submit, Refusing
    <3>2. Elements(queue') = Elements(queue) \cup {next_job_id}
      BY <2>1, <3>1, PutElements, JobsAreEntries
    <3>3. exited_by # "other" => LoopAlive
      BY <3>1 DEF ControlInv, TypeOK
    <3>4. NoStrandedCaller'
      BY <2>1, <2>2, <3>2, <3>3 DEF QueueInv
    <3>5. QED
      BY <2>1, <2>2, <3>1, <3>2, <3>4, JobsAreEntries DEF QueueInv
  <2>5. QED
    BY <2>3, <2>4
<1>30. ASSUME NEW interrupt \in BOOLEAN, Steer(interrupt)
      PROVE  QueueInv'
  <2>1. /\ next_job_id \in Jobs /\ next_job_id' = next_job_id + 1
        /\ queue' = Append(queue, STEER_WAKE)
        /\ UNCHANGED <<pc, exited_by, current, future, stop_requested, stopping>>
    BY <1>30 DEF Steer, Nudged
  <2>2. \A j \in Jobs : j >= next_job_id' => j >= next_job_id
    BY <2>1 DEF Jobs
  <2>3. Elements(queue') = Elements(queue) \cup {STEER_WAKE}
    BY <2>1, PutElements, JobsAreEntries
  <2>4. NoStrandedCaller'
    BY <2>1, <2>3 DEF QueueInv
  <2>5. QED
    BY <2>1, <2>2, <2>3, <2>4, JobsAreEntries DEF QueueInv
<1>31. ASSUME NEW kill \in BOOLEAN, Stop(kill)
      PROVE  QueueInv'
  <2>1. /\ stop_requested' = TRUE
        /\ UNCHANGED <<pc, exited_by, current, future, steer_lane, next_job_id,
                       timed, budget_parked>>
    BY <1>31 DEF Stop
  <2>2. CASE kill /\ current # NoJob
    <3>1. queue' = queue /\ pc # "wait"
      BY <1>31, <2>2 DEF Stop, ControlInv, Serving
    <3>2. QED
      BY <2>1, <3>1 DEF QueueInv
  <2>3. CASE ~(kill /\ current # NoJob)
    <3>1. queue' = Append(queue, SHUTDOWN)
      BY <1>31, <2>3 DEF Stop, Nudged
    <3>2. Elements(queue') = Elements(queue) \cup {SHUTDOWN}
      BY <3>1, PutElements, JobsAreEntries
    <3>3. QED
      BY <2>1, <3>2 DEF QueueInv
  <2>4. QED
    BY <2>2, <2>3
<1>32. ASSUME NEW j \in Jobs, CallerGivesUp(j)
      PROVE  QueueInv'
  BY <1>32 DEF QueueInv, CallerGivesUp
<1>33. ASSUME NEW j \in Jobs, CancelCurrent(j)
      PROVE  QueueInv'
  BY <1>33 DEF QueueInv, CancelCurrent
<1>34. ASSUME NEW j \in Jobs, CancelQueued(j)
      PROVE  QueueInv'
  <2>1. PICK k \in 1..Len(queue) : queue[k] = j /\ queue' = Without(queue, k)
    BY <1>34 DEF CancelQueued
  <2>2. /\ future' = Fail({j})
        /\ UNCHANGED <<pc, exited_by, current, steer_lane, stop_requested, stopping,
                       next_job_id, timed, budget_parked>>
    BY <1>34 DEF CancelQueued
  <2>3. /\ Elements(queue') \subseteq Elements(queue)
        /\ \A e \in Elements(queue) : e # j => e \in Elements(queue')
    BY <2>1, WithoutElements DEF TypeOK
  <2>4. \A i \in Jobs : /\ future'[i] = "pending" => future[i] = "pending" /\ i # j
                        /\ future[i] = "none" => future'[i] = "none"
    BY <2>2, FailAnswers
  <2>5. NoStrandedCaller'
    BY <2>2, <2>3, <2>4 DEF QueueInv
  <2>6. QED
    BY <2>2, <2>3, <2>4, <2>5, JobsAreEntries DEF QueueInv
<1>35. CASE SteerInterruptReturns
  BY <1>35 DEF QueueInv, SteerInterruptReturns
<1>36. CASE StopInterruptReturns
  <2>1. /\ stopping > 0 /\ queue' = Append(queue, SHUTDOWN)
        /\ UNCHANGED <<pc, exited_by, current, future, steer_lane, next_job_id,
                       stop_requested, timed, budget_parked>>
    BY <1>36 DEF StopInterruptReturns, Nudged
  <2>2. Elements(queue') = Elements(queue) \cup {SHUTDOWN}
    BY <2>1, PutElements, JobsAreEntries
  <2>3. QED
    BY <2>1, <2>2 DEF QueueInv
<1>37. CASE BudgetResume
  <2>1. /\ UNCHANGED <<pc, exited_by, current, future, steer_lane, next_job_id,
                       stop_requested, stopping, timed>>
        /\ budget_parked' = FALSE
    BY <1>37 DEF BudgetResume
  <2>2. CASE budget_parked
    <3>1. queue' = Append(queue, STEER_WAKE)
      BY <1>37, <2>2 DEF BudgetResume, Nudged
    <3>2. Elements(queue') = Elements(queue) \cup {STEER_WAKE}
      BY <3>1, PutElements, JobsAreEntries
    <3>3. QED
      BY <2>1, <3>2, JobsAreEntries DEF QueueInv
  <2>3. CASE ~budget_parked
    <3>1. queue' = queue
      BY <1>37, <2>3 DEF BudgetResume
    <3>2. QED
      BY <2>1, <2>3, <3>1 DEF QueueInv, TypeOK
  <2>4. QED
    BY <2>2, <2>3
<1>38. QED
  BY <1>1, <1>2, <1>3, <1>4, <1>5, <1>6, <1>7, <1>8, <1>9, <1>10, <1>11, <1>12,
       <1>13, <1>14, <1>15, <1>16, <1>17, <1>18, <1>19, <1>20, <1>21, <1>22,
       <1>23, <1>24, <1>25, <1>26, <1>27, <1>28, <1>29, <1>30, <1>31, <1>32,
       <1>33, <1>34, <1>35, <1>36, <1>37
     DEF Next, RunLoop, Failures, Requests

-----------------------------------------------------------------------------
(* The safety properties of the runner *)

LEMMA InitInv == Init => RunnerInv
<1> SUFFICES ASSUME Init
             PROVE  RunnerInv
  OBVIOUS
<1>1. TypeOK
  BY RunnerAssumption, Flags DEF Init, TypeOK, Pcs, Jobs, Entries, NoJob
<1>2. ControlInv
  BY DEF Init, ControlInv, Serving, LoopAlive, GateTracksLedger, ParkIsReported
<1>3. QueueInv
  BY NothingInEmpty DEF Init, QueueInv, NoStrandedCaller, NeverSleepsOnWork
<1>4. QED
  BY <1>1, <1>2, <1>3 DEF RunnerInv

LEMMA StepInv == RunnerInv /\ [Next]_vars => RunnerInv'
BY TypeStep, ControlStep, QueueStep DEF RunnerInv

(* The conjunction that carries the safety properties from step to step.   *)
THEOREM Inductive == Spec => []RunnerInv
BY InitInv, StepInv, PTL DEF Spec

(* Whatever the interleaving of submit, cancel_job, stop and the teardown, *)
(* no caller waits on a stopped runner (runner.py 2730-2758, 2056-2076).   *)
THEOREM NoCallerStranded == Spec => []NoStrandedCaller
<1>1. RunnerInv => NoStrandedCaller
  BY DEF RunnerInv, QueueInv
<1>2. QED
  BY <1>1, Inductive, PTL

(* No wake-up is lost: the loop never sleeps over a stop or a steer.       *)
THEOREM NoLostWakeup == Spec => []NeverSleepsOnWork
<1>1. RunnerInv => NeverSleepsOnWork
  BY DEF RunnerInv, QueueInv
<1>2. QED
  BY <1>1, Inductive, PTL

(* The budget brake cannot be lost by any sequence of turns, parks, resumes *)
(* and restarts on a persisted ledger.                                     *)
THEOREM BrakeHolds == Spec => []GateTracksLedger
<1>1. RunnerInv => GateTracksLedger
  BY DEF RunnerInv, ControlInv
<1>2. QED
  BY <1>1, Inductive, PTL

(* The park and the status the operator sees never part.                   *)
THEOREM ParkReported == Spec => []ParkIsReported
<1>1. RunnerInv => ParkIsReported
  BY DEF RunnerInv, ControlInv
<1>2. QED
  BY <1>1, Inductive, PTL

(* The idle timer of a blocked loop agrees with the park.                  *)
THEOREM IdleTimerAgrees == Spec => []IdleTimerMatchesPark
<1>1. RunnerInv => IdleTimerMatchesPark
  BY NothingInEmpty DEF RunnerInv, ControlInv, QueueInv, IdleTimerMatchesPark
<1>2. QED
  BY <1>1, Inductive, PTL

(* The park as the operator sees it and as the idle timer goes by it.      *)
THEOREM ParkIsKept == Spec => []ParkKept
<1>1. QED
  BY ParkReported, IdleTimerAgrees, PTL DEF ParkKept

-----------------------------------------------------------------------------
(* The order of service *)

(* The jobs of a queue stand in the order of their ids; sentinels anywhere. *)
Ascending(s) ==
  \A i, k \in 1..Len(s) : i < k /\ s[i] \in Jobs /\ s[k] \in Jobs => s[i] < s[k]

(* The inductive invariant of FifoOrder. The lane must ascend as well, or  *)
(* a job taken from it might be in it again; and ids must be minted, or    *)
(* the next one might stand somewhere already.                             *)
OrderInv ==
  /\ Ascending(queue) /\ Ascending(steer_lane)
  /\ \A j \in Elements(queue) \cup Elements(steer_lane) \cup {current} :
       j \in Jobs => j < next_job_id
  /\ FifoOrder

LEMMA TailAscends ==
  ASSUME NEW s \in Seq(Entries), s # <<>>, Ascending(s)
  PROVE  Ascending(Tail(s)) /\ (Head(s) \in Jobs => Head(s) \notin Elements(Tail(s)))
<1>1. /\ Head(s) = s[1] /\ Len(s) \in Nat \ {0} /\ Len(Tail(s)) = Len(s) - 1
      /\ \A i \in 1..Len(Tail(s)) : Tail(s)[i] = s[i + 1]
  OBVIOUS
<1>2. \A i \in 1..Len(Tail(s)) : i + 1 \in 1..Len(s) /\ 1 \in 1..Len(s) /\ 1 < i + 1
  BY <1>1
<1>3. Ascending(Tail(s))
  <2> SUFFICES ASSUME NEW i \in 1..Len(Tail(s)), NEW k \in 1..Len(Tail(s)), i < k,
                      Tail(s)[i] \in Jobs, Tail(s)[k] \in Jobs
               PROVE  Tail(s)[i] < Tail(s)[k]
    BY DEF Ascending
  <2>1. i + 1 < k + 1 /\ s[i + 1] \in Jobs /\ s[k + 1] \in Jobs
    BY <1>1
  <2>2. s[i + 1] < s[k + 1]
    BY <1>2, <2>1 DEF Ascending
  <2> QED
    BY <1>1, <2>2
<1>4. ASSUME Head(s) \in Jobs, Head(s) \in Elements(Tail(s)) PROVE FALSE
  <2>1. PICK i \in 1..Len(Tail(s)) : Head(s) = Tail(s)[i]
    BY <1>4 DEF Elements
  <2>2. s[1] = s[i + 1] /\ s[1] \in Jobs
    BY <1>1, <1>4, <2>1
  <2>3. s[1] < s[i + 1]
    BY <1>2, <2>2 DEF Ascending
  <2> QED
    BY <2>2, <2>3 DEF Jobs
<1> QED
  BY <1>3, <1>4

LEMMA AppendAscends ==
  ASSUME NEW s \in Seq(Entries), Ascending(s), NEW e \in Entries,
         e \in Jobs => \A j \in Elements(s) : j \in Jobs => j < e
  PROVE  Ascending(Append(s, e))
<1> DEFINE t == Append(s, e)
<1>1. /\ Len(s) \in Nat /\ Len(t) = Len(s) + 1 /\ t[Len(s) + 1] = e
      /\ \A i \in 1..Len(s) : t[i] = s[i]
  OBVIOUS
<1> HIDE DEF t
<1> SUFFICES ASSUME NEW i \in 1..Len(t), NEW k \in 1..Len(t), i < k,
                    t[i] \in Jobs, t[k] \in Jobs
             PROVE  t[i] < t[k]
  BY DEF Ascending, t
<1>2. i \in 1..Len(s) /\ t[i] = s[i] /\ s[i] \in Elements(s)
  BY <1>1 DEF Elements
<1>3. CASE k = Len(s) + 1
  BY <1>1, <1>2, <1>3
<1>4. CASE k # Len(s) + 1
  <2>1. k \in 1..Len(s) /\ t[k] = s[k]
    BY <1>1, <1>4
  <2> QED
    BY <1>2, <2>1 DEF Ascending
<1> QED
  BY <1>3, <1>4

LEMMA WithoutAscends ==
  ASSUME NEW s \in Seq(Entries), Ascending(s), NEW k \in 1..Len(s)
  PROVE  Ascending(Without(s, k))
<1> DEFINE t == Without(s, k)
<1>0. Len(s) \in Nat /\ k \in Nat /\ 1 <= k /\ k <= Len(s)
  OBVIOUS
<1>1. /\ t \in Seq(Entries) /\ Len(t) = Len(s) - 1
      /\ \A i \in 1..(k - 1) : t[i] = s[i]
      /\ \A i \in k..(Len(s) - 1) : t[i] = s[i + 1]
  BY Removal DEF Without, Removed
<1> HIDE DEF t
<1> DEFINE at(i) == IF i < k THEN i ELSE i + 1
<1>2. ASSUME NEW i \in 1..Len(t) PROVE at(i) \in 1..Len(s) /\ t[i] = s[at(i)]
  <2>1. CASE i < k
    BY <1>0, <1>1, <2>1
  <2>2. CASE ~(i < k)
    <3>1. i \in k..(Len(s) - 1) /\ i + 1 \in 1..Len(s)
      BY <1>0, <1>1, <2>2
    <3> QED
      BY <1>0, <1>1, <2>2, <3>1
  <2> QED
    BY <2>1, <2>2
<1>3. \A i, l \in 1..Len(t) : i < l => at(i) < at(l)
  BY <1>0, <1>1
<1> HIDE DEF at
<1> SUFFICES ASSUME NEW i \in 1..Len(t), NEW l \in 1..Len(t), i < l,
                    t[i] \in Jobs, t[l] \in Jobs
             PROVE  t[i] < t[l]
  BY DEF Ascending, t
<1> QED
  BY <1>2, <1>3 DEF Ascending

(* A step that serves nothing and moves nothing.                           *)
LEMMA OrderKept ==
  ASSUME OrderInv, UNCHANGED <<queue, steer_lane, current, next_job_id>>,
         LoopAlive' => LoopAlive
  PROVE  OrderInv'
BY DEF OrderInv, FifoOrder, Ascending, Elements

(* The loop is left: the queue is drained.                                 *)
LEMMA OrderLeft ==
  ASSUME OrderInv, queue' = <<>>, UNCHANGED <<steer_lane, current, next_job_id>>,
         ~LoopAlive'
  PROVE  OrderInv'
<1>1. Elements(queue') = {}
  BY NothingInEmpty
<1>2. Ascending(queue') /\ Ascending(steer_lane')
  BY DEF OrderInv, Ascending
<1>3. Elements(steer_lane') = Elements(steer_lane)
  BY DEF Elements
<1>4. FifoOrder'
  BY <1>1, <1>2 DEF FifoOrder, Ascending
<1> QED
  BY <1>1, <1>2, <1>3, <1>4 DEF OrderInv, Ascending

(* An entry that is no job is put, or taken.                               *)
LEMMA OrderNudged ==
  ASSUME TypeOK, OrderInv, NEW e \in Entries \ Jobs, queue' = Append(queue, e),
         UNCHANGED <<steer_lane, current, next_job_id>>, LoopAlive' => LoopAlive
  PROVE  OrderInv'
<1>1. Ascending(queue')
  BY AppendAscends DEF OrderInv, TypeOK
<1>2. Elements(queue') = Elements(queue) \cup {e} /\ Elements(steer_lane') = Elements(steer_lane)
  BY PutElements DEF Elements
<1>3. e \notin Elements(steer_lane) /\ (LoopAlive' => e # current \/ current \notin Jobs)
  BY DEF TypeOK, Elements
<1>4. Elements(steer_lane) \subseteq Jobs /\ current \in Jobs \cup {NoJob} /\ NoJob \notin Entries
  BY RunnerAssumption DEF TypeOK, Elements, Jobs, Entries, NoJob
<1>5. FifoOrder'
  BY <1>1, <1>2, <1>3, <1>4 DEF OrderInv, FifoOrder, Ascending
<1>6. \A j \in Elements(queue') \cup Elements(steer_lane') \cup {current'} :
        j \in Jobs => j < next_job_id'
  BY <1>2 DEF OrderInv
<1> QED
  BY <1>1, <1>5, <1>6 DEF OrderInv, Ascending

LEMMA OrderStep == RunnerInv /\ OrderInv /\ [Next]_vars => OrderInv'
<1> SUFFICES ASSUME RunnerInv, OrderInv, [Next]_vars
             PROVE  OrderInv'
  OBVIOUS
<1>0. TypeOK
  BY DEF RunnerInv
<1> USE DEF LoopAlive, control, work, replies, turnVars, calls, budget, vars
<1>1. CASE UNCHANGED vars
  BY <1>1, OrderKept
<1>2. CASE Connected
  BY <1>2, OrderKept DEF Connected
<1>3. CASE AttachRetry
  BY <1>3, OrderKept DEF AttachRetry
<1>4. CASE ConnectFails
  BY <1>4, OrderLeft DEF ConnectFails, FailPendingFutures
<1>5. CASE ArmBudgetFromLedger
  BY <1>5, OrderKept DEF ArmBudgetFromLedger
<1>6. CASE ExitLoop
  BY <1>6, OrderLeft DEF ExitLoop, FailPendingFutures
<1>7. CASE TakeSteer
  <2>1. /\ steer_lane # <<>> /\ steer_lane \in Seq(Jobs) /\ steer_lane \in Seq(Entries)
        /\ current' = Head(steer_lane) /\ steer_lane' = Tail(steer_lane)
        /\ UNCHANGED <<queue, next_job_id>> /\ LoopAlive
    BY <1>0, <1>7, JobsAreEntries DEF TakeSteer, StartJob, TypeOK
  <2>2. /\ Head(steer_lane) \in Jobs
        /\ Elements(steer_lane) = {current'} \cup Elements(steer_lane')
    BY <2>1, TailElements
  <2>3. Ascending(steer_lane') /\ current' \notin Elements(steer_lane')
    BY <2>1, <2>2, TailAscends DEF OrderInv
  <2>4. Elements(queue') = Elements(queue) /\ Ascending(queue')
    BY <2>1 DEF Elements, OrderInv, Ascending
  <2>5. FifoOrder'
    BY <2>1, <2>2, <2>3, <2>4 DEF OrderInv, FifoOrder, Ascending
  <2>6. \A j \in Elements(queue') \cup Elements(steer_lane') \cup {current'} :
          j \in Jobs => j < next_job_id'
    BY <2>1, <2>2, <2>4 DEF OrderInv
  <2> QED
    BY <2>3, <2>4, <2>5, <2>6 DEF OrderInv, Ascending
<1>8. CASE AwaitWork
  BY <1>8, OrderKept DEF AwaitWork
<1>9. CASE TakeJob
  <2>1. /\ queue # <<>> /\ queue \in Seq(Entries) /\ Head(queue) \in Jobs
        /\ current' = Head(queue) /\ queue' = Tail(queue)
        /\ UNCHANGED <<steer_lane, next_job_id>> /\ LoopAlive
    BY <1>0, <1>9 DEF TakeJob, GetReturns, StartJob, TypeOK
  <2>2. Elements(queue) = {current'} \cup Elements(queue')
    BY <2>1, TailElements
  <2>3. Ascending(queue') /\ current' \notin Elements(queue')
    BY <2>1, TailAscends DEF OrderInv
  <2>4. Elements(steer_lane') = Elements(steer_lane) /\ Ascending(steer_lane')
    BY <2>1 DEF Elements, OrderInv, Ascending
  <2>5. FifoOrder'
    BY <2>1, <2>2, <2>3, <2>4 DEF OrderInv, FifoOrder, Ascending
  <2>6. \A j \in Elements(queue') \cup Elements(steer_lane') \cup {current'} :
          j \in Jobs => j < next_job_id'
    BY <2>1, <2>2, <2>4 DEF OrderInv
  <2> QED
    BY <2>3, <2>4, <2>5, <2>6 DEF OrderInv, Ascending
<1>10. CASE TakeWake
  <2>1. /\ queue # <<>> /\ queue \in Seq(Entries) /\ queue' = Tail(queue)
        /\ UNCHANGED <<steer_lane, current, next_job_id>> /\ LoopAlive
    BY <1>0, <1>10 DEF TakeWake, GetReturns, TypeOK
  <2>2. Elements(queue') \subseteq Elements(queue) /\ Ascending(queue')
    BY <2>1, TailElements, TailAscends DEF OrderInv
  <2>3. Elements(steer_lane') = Elements(steer_lane)
    BY <2>1 DEF Elements
  <2>4. FifoOrder'
    BY <2>1, <2>2, <2>3 DEF OrderInv, FifoOrder, Ascending
  <2> QED
    BY <2>1, <2>2, <2>3, <2>4 DEF OrderInv, Ascending
<1>11. CASE IdleTimerFires
  BY <1>11, OrderKept DEF IdleTimerFires
<1>12. ASSUME NEW cost \in TurnCosts, TurnCompletes(cost)
      PROVE  OrderInv'
  BY <1>12, OrderKept DEF TurnCompletes
<1>13. CASE ProviderError
  BY <1>13, OrderKept DEF ProviderError
<1>14. CASE StreamEnds
  BY <1>14, OrderKept DEF StreamEnds
<1>15. ASSUME NEW silent \in BOOLEAN, PhaseEnds(silent)
      PROVE  OrderInv'
  BY <1>15, OrderKept DEF PhaseEnds
<1>16. CASE TurnFails
  BY <1>16, OrderKept DEF TurnFails, InProcess
<1>17. CASE TurnOver
  BY <1>17, OrderKept DEF TurnOver
<1>18. CASE AuthRecovery
  BY <1>18, OrderKept DEF AuthRecovery
<1>19. CASE Reconnected
  BY <1>19, OrderKept DEF Reconnected
<1>20. CASE ReconnectFails
  BY <1>20, OrderKept DEF ReconnectFails
<1>21. CASE JobDone
  <2>1. current' = NoJob /\ UNCHANGED <<queue, steer_lane, next_job_id>> /\ LoopAlive
    BY <1>21 DEF JobDone
  <2>2. NoJob \notin Elements(queue) \cup Elements(steer_lane) /\ NoJob \notin Jobs
    <3>1. NoJob \notin Entries /\ NoJob \notin Jobs
      BY RunnerAssumption DEF Jobs, Entries, NoJob
    <3>2. \A i \in 1..Len(queue) : queue[i] \in Entries
      BY <1>0 DEF TypeOK
    <3>3. \A i \in 1..Len(steer_lane) : steer_lane[i] \in Jobs
      BY <1>0 DEF TypeOK
    <3> QED
      BY <3>1, <3>2, <3>3 DEF Elements
  <2>3. Elements(queue') = Elements(queue) /\ Elements(steer_lane') = Elements(steer_lane)
    BY <2>1 DEF Elements
  <2>4. FifoOrder'
    BY <2>1, <2>2, <2>3 DEF OrderInv, FifoOrder
  <2> QED
    BY <2>1, <2>2, <2>3, <2>4 DEF OrderInv, Ascending
<1>22. CASE Disconnected
  BY <1>22, OrderKept DEF Disconnected
<1>23. CASE DisconnectCancelled
  BY <1>23, OrderKept DEF DisconnectCancelled
<1>24. ASSUME NEW awaited \in BOOLEAN, Submit(awaited)
      PROVE  OrderInv'
  <2>1. /\ next_job_id \in Jobs /\ next_job_id' = next_job_id + 1
        /\ UNCHANGED <<pc, steer_lane, current>>
        /\ queue' = queue \/ queue' = Append(queue, next_job_id)
    BY <1>24 DEF Submit
  <2>2. Elements(steer_lane') = Elements(steer_lane) /\ Ascending(steer_lane')
    BY <2>1 DEF Elements, OrderInv, Ascending
  <2>3. next_job_id \in Nat /\ next_job_id \in Entries
    BY <2>1, JobsAreEntries DEF Jobs
  <2>4. Ascending(queue') /\ Elements(queue') \subseteq Elements(queue) \cup {next_job_id}
    <3>1. CASE queue' = queue
      BY <3>1 DEF OrderInv, Ascending, Elements
    <3>2. CASE queue' = Append(queue, next_job_id)
      BY <1>0, <2>3, <3>2, PutElements, AppendAscends DEF OrderInv, TypeOK
    <3> QED
      BY <2>1, <3>1, <3>2
  <2>5. next_job_id \notin Elements(steer_lane) \cup {current}
    BY <2>1, <2>3 DEF OrderInv
  <2>6. FifoOrder'
    BY <2>1, <2>2, <2>4, <2>5 DEF OrderInv, FifoOrder, Ascending
  <2>7. \A j \in Elements(queue') \cup Elements(steer_lane') \cup {current'} :
          j \in Jobs => j < next_job_id'
    BY <2>1, <2>2, <2>3, <2>4 DEF OrderInv, Jobs
  <2> QED
    BY <2>2, <2>4, <2>6, <2>7 DEF OrderInv, Ascending
<1>25. ASSUME NEW interrupt \in BOOLEAN, Steer(interrupt)
      PROVE  OrderInv'
  <2>1. /\ next_job_id \in Jobs /\ next_job_id' = next_job_id + 1
        /\ UNCHANGED <<pc, current>>
        /\ steer_lane' = Append(steer_lane, next_job_id)
        /\ queue' = Append(queue, STEER_WAKE)
    BY <1>25 DEF Steer, Nudged
  <2>2. next_job_id \in Nat /\ next_job_id \in Entries /\ STEER_WAKE \in Entries
        /\ STEER_WAKE \notin Jobs
    BY <2>1, JobsAreEntries DEF Jobs
  <2>3. steer_lane \in Seq(Jobs) /\ steer_lane \in Seq(Entries)
    BY <1>0, JobsAreEntries DEF TypeOK
  <2>4. /\ Elements(queue') = Elements(queue) \cup {STEER_WAKE}
        /\ Elements(steer_lane') = Elements(steer_lane) \cup {next_job_id}
    BY <1>0, <2>1, <2>2, <2>3, PutElements, AppendElements
  <2>5. Ascending(queue')
    BY <1>0, <2>1, <2>2, AppendAscends DEF OrderInv, TypeOK
  <2>6. Ascending(steer_lane')
    BY <2>1, <2>2, <2>3, AppendAscends DEF OrderInv
  <2>7. next_job_id \notin Elements(queue) \cup {current}
    BY <2>1, <2>2 DEF OrderInv
  <2>8. STEER_WAKE \notin Elements(steer_lane) \cup {current}
    BY <1>0, RunnerAssumption DEF TypeOK, Elements, Jobs, NoJob
  <2>9. FifoOrder'
    BY <2>1, <2>2, <2>4, <2>5, <2>7, <2>8 DEF OrderInv, FifoOrder, Ascending
  <2>10. \A j \in Elements(queue') \cup Elements(steer_lane') \cup {current'} :
          j \in Jobs => j < next_job_id'
    BY <2>1, <2>2, <2>4 DEF OrderInv, Jobs
  <2> QED
    BY <2>5, <2>6, <2>9, <2>10 DEF OrderInv
<1>26. ASSUME NEW kill \in BOOLEAN, Stop(kill)
      PROVE  OrderInv'
  <2>1. CASE queue' = queue
    BY <1>26, <2>1, OrderKept DEF Stop
  <2>2. CASE queue' = Append(queue, SHUTDOWN)
    <3>1. SHUTDOWN \in Entries \ Jobs
      BY JobsAreEntries
    <3> QED
      BY <1>0, <1>26, <2>2, <3>1, OrderNudged DEF Stop
  <2> QED
    BY <1>26, <2>1, <2>2 DEF Stop, Nudged
<1>27. ASSUME NEW j \in Jobs, CallerGivesUp(j) \/ CancelCurrent(j)
      PROVE  OrderInv'
  BY <1>27, OrderKept DEF CallerGivesUp, CancelCurrent
<1>28. ASSUME NEW j \in Jobs, CancelQueued(j)
      PROVE  OrderInv'
  <2>1. PICK k \in 1..Len(queue) : queue' = Without(queue, k)
    BY <1>28 DEF CancelQueued
  <2>2. UNCHANGED <<pc, steer_lane, current, next_job_id>>
    BY <1>28 DEF CancelQueued
  <2>3. Elements(queue') \subseteq Elements(queue) /\ Ascending(queue')
    BY <1>0, <2>1, WithoutElements, WithoutAscends DEF TypeOK, OrderInv
  <2>4. Elements(steer_lane') = Elements(steer_lane)
    BY <2>2 DEF Elements
  <2>5. FifoOrder'
    BY <2>2, <2>3, <2>4 DEF OrderInv, FifoOrder, Ascending
  <2> QED
    BY <2>2, <2>3, <2>4, <2>5 DEF OrderInv, Ascending
<1>29. CASE SteerInterruptReturns
  BY <1>29, OrderKept DEF SteerInterruptReturns
<1>30. CASE StopInterruptReturns
  <2>1. SHUTDOWN \in Entries \ Jobs
    BY JobsAreEntries
  <2> QED
    BY <1>0, <1>30, <2>1, OrderNudged DEF StopInterruptReturns, Nudged
<1>31. CASE BudgetResume
  <2>1. CASE budget_parked
    <3>1. STEER_WAKE \in Entries \ Jobs
      BY JobsAreEntries
    <3> QED
      BY <1>0, <1>31, <2>1, <3>1, OrderNudged DEF BudgetResume, Nudged
  <2>2. CASE ~budget_parked
    BY <1>31, <2>2, OrderKept DEF BudgetResume
  <2> QED
    BY <2>1, <2>2
<1>32. StopSeen \/ TakeShutdown \/ LeaveIdle \/ WatchdogEndsStoppingRunner \/ StoreFails
         \/ TaskCancelled => ExitLoop
  BY DEF StopSeen, TakeShutdown, LeaveIdle, WatchdogEndsStoppingRunner, StoreFails,
       TaskCancelled
<1> QED
  BY <1>1, <1>2, <1>3, <1>4, <1>5, <1>6, <1>7, <1>8, <1>9, <1>10, <1>11, <1>12,
       <1>13, <1>14, <1>15, <1>16, <1>17, <1>18, <1>19, <1>20, <1>21, <1>22,
       <1>23, <1>24, <1>25, <1>26, <1>27, <1>28, <1>29, <1>30, <1>31, <1>32
     DEF Next, RunLoop, Failures, Requests

(* However submits, steers, cancels and sentinels meet, jobs are served in *)
(* the order of their submission, and none of them twice.                  *)
THEOREM ServedInOrder == Spec => []FifoOrder
<1>1. Init => OrderInv
  <2> SUFFICES ASSUME Init PROVE OrderInv
    OBVIOUS
  <2>1. Elements(queue) = {} /\ Elements(steer_lane) = {} /\ current = 0
    BY NothingInEmpty DEF Init, NoJob
  <2>2. Ascending(queue) /\ Ascending(steer_lane)
    BY DEF Init, Ascending
  <2> QED
    BY <2>1, <2>2 DEF OrderInv, FifoOrder, Ascending, Jobs
<1>2. OrderInv => FifoOrder
  BY DEF OrderInv
<1> QED
  BY <1>1, <1>2, OrderStep, Inductive, PTL DEF Spec

-----------------------------------------------------------------------------
(* Answers *)

Settled == {"result", "error", "cancelled"}

LEMMA FailKeeps ==
  ASSUME NEW S, NEW j \in Jobs, future[j] \in Settled
  PROVE  Fail(S)[j] = future[j]
BY DEF Fail, Settled

LEMMA ExitAnswers ==
  ASSUME NEW j \in Jobs, future[j] \in Settled, ExitLoop
  PROVE  future'[j] = future[j]
BY FailKeeps DEF ExitLoop, FailPendingFutures

LEMMA SettledStep ==
  ASSUME RunnerInv, [Next]_vars, NEW j \in Jobs, future[j] \in Settled
  PROVE  future'[j] = future[j]
<1> TypeOK
  BY DEF RunnerInv
<1> USE DEF Settled, control, work, replies, turnVars, calls, budget, vars
<1>1. CASE UNCHANGED vars
  BY <1>1
<1>2. CASE Connected
  BY <1>2 DEF Connected
<1>3. CASE AttachRetry
  BY <1>3 DEF AttachRetry
<1>4. CASE ConnectFails
  BY <1>4, FailKeeps DEF ConnectFails, FailPendingFutures
<1>5. CASE ArmBudgetFromLedger
  BY <1>5 DEF ArmBudgetFromLedger
<1>6. CASE StopSeen
  BY <1>6, ExitAnswers DEF StopSeen
<1>7. CASE TakeSteer
  BY <1>7 DEF TakeSteer
<1>8. CASE AwaitWork
  BY <1>8 DEF AwaitWork
<1>9. CASE TakeJob
  BY <1>9 DEF TakeJob
<1>10. CASE TakeWake
  BY <1>10 DEF TakeWake
<1>11. CASE TakeShutdown
  BY <1>11, ExitAnswers DEF TakeShutdown
<1>12. CASE IdleTimerFires
  BY <1>12 DEF IdleTimerFires
<1>13. CASE LeaveIdle
  BY <1>13, ExitAnswers DEF LeaveIdle
<1>14. ASSUME NEW cost \in TurnCosts, TurnCompletes(cost)
      PROVE  future'[j] = future[j]
  BY <1>14 DEF TurnCompletes
<1>15. CASE ProviderError
  BY <1>15 DEF ProviderError
<1>16. CASE StreamEnds
  BY <1>16 DEF StreamEnds
<1>17. ASSUME NEW silent \in BOOLEAN, PhaseEnds(silent)
      PROVE  future'[j] = future[j]
  BY <1>17 DEF PhaseEnds
<1>18. CASE TurnFails
  BY <1>18 DEF TurnFails
<1>19. CASE WatchdogEndsStoppingRunner
  BY <1>19, ExitAnswers DEF WatchdogEndsStoppingRunner
<1>20. CASE TurnOver
  BY <1>20 DEF TurnOver
<1>21. CASE AuthRecovery
  BY <1>21 DEF AuthRecovery
<1>22. CASE Reconnected
  BY <1>22 DEF Reconnected
<1>23. CASE ReconnectFails
  BY <1>23 DEF ReconnectFails
<1>24. CASE JobDone
  BY <1>24 DEF TypeOK, JobDone
<1>25. CASE StoreFails
  BY <1>25, ExitAnswers DEF StoreFails
<1>26. CASE Disconnected
  BY <1>26 DEF Disconnected
<1>27. CASE TaskCancelled
  BY <1>27, ExitAnswers DEF TaskCancelled
<1>28. CASE DisconnectCancelled
  BY <1>28 DEF DisconnectCancelled
<1>29. ASSUME NEW awaited \in BOOLEAN, Submit(awaited)
      PROVE  future'[j] = future[j]
  <2>1. future[next_job_id] = "none" /\ next_job_id \in Jobs
    BY <1>29 DEF Submit, QueueInv, RunnerInv, TypeOK, Jobs
  <2>2. QED
    BY <1>29, <2>1 DEF Submit, TypeOK
<1>30. ASSUME NEW interrupt \in BOOLEAN, Steer(interrupt)
      PROVE  future'[j] = future[j]
  BY <1>30 DEF Steer
<1>31. ASSUME NEW kill \in BOOLEAN, Stop(kill)
      PROVE  future'[j] = future[j]
  BY <1>31 DEF Stop
<1>32. ASSUME NEW i \in Jobs, CallerGivesUp(i)
      PROVE  future'[j] = future[j]
  BY <1>32 DEF TypeOK, CallerGivesUp
<1>33. ASSUME NEW i \in Jobs, CancelCurrent(i)
      PROVE  future'[j] = future[j]
  BY <1>33 DEF CancelCurrent
<1>34. ASSUME NEW i \in Jobs, CancelQueued(i)
      PROVE  future'[j] = future[j]
  BY <1>34, FailKeeps DEF CancelQueued
<1>35. CASE SteerInterruptReturns
  BY <1>35 DEF SteerInterruptReturns
<1>36. CASE StopInterruptReturns
  BY <1>36 DEF StopInterruptReturns
<1>37. CASE BudgetResume
  BY <1>37 DEF BudgetResume
<1>38. QED
  BY <1>1, <1>2, <1>3, <1>4, <1>5, <1>6, <1>7, <1>8, <1>9, <1>10, <1>11, <1>12,
       <1>13, <1>14, <1>15, <1>16, <1>17, <1>18, <1>19, <1>20, <1>21, <1>22,
       <1>23, <1>24, <1>25, <1>26, <1>27, <1>28, <1>29, <1>30, <1>31, <1>32,
       <1>33, <1>34, <1>35, <1>36, <1>37
     DEF Next, RunLoop, Failures, Requests

(* Nobody settles a caller's future twice: not _run, not the drain, not     *)
(* cancel_job, and not the caller's own timeout.                           *)
THEOREM FuturesSettleOnce == Spec => SettledOnce
<1>1. RunnerInv /\ [Next]_vars
        => [\A j \in Jobs : future[j] \in {"result", "error", "cancelled"} =>
              future'[j] = future[j]]_vars
  BY SettledStep DEF Settled
<1>2. QED
  BY <1>1, Inductive, PTL DEF Spec, SettledOnce

LEMMA StopStep ==
  ASSUME RunnerInv, [Next]_vars, stop_requested
  PROVE  /\ pc' = "wait" => pc = "wait"
         /\ current = NoJob /\ current' # NoJob => pc = "wait"
<1> DEFINE Goal == /\ pc' = "wait" => pc = "wait"
                   /\ current = NoJob /\ current' # NoJob => pc = "wait"
<1> USE DEF control, work, replies, turnVars, calls, budget, vars
<1>1. CASE UNCHANGED vars
  BY <1>1
<1>2. CASE Connected
  BY <1>2 DEF Connected
<1>3. CASE AttachRetry
  BY <1>3 DEF AttachRetry
<1>4. CASE ConnectFails
  BY <1>4 DEF ConnectFails
<1>5. CASE ArmBudgetFromLedger
  BY <1>5 DEF ArmBudgetFromLedger
<1>6. CASE StopSeen
  BY <1>6 DEF StopSeen, ExitLoop
<1>7. CASE TakeSteer
  BY <1>7 DEF TakeSteer, StartJob
<1>8. CASE AwaitWork
  BY <1>8 DEF AwaitWork
<1>9. CASE TakeJob
  BY <1>9 DEF TakeJob, StartJob, GetReturns
<1>10. CASE TakeWake
  BY <1>10 DEF TakeWake, GetReturns
<1>11. CASE TakeShutdown
  BY <1>11 DEF TakeShutdown, ExitLoop
<1>12. CASE IdleTimerFires
  BY <1>12 DEF IdleTimerFires
<1>13. CASE LeaveIdle
  BY <1>13 DEF LeaveIdle, ExitLoop
<1>14. ASSUME NEW cost \in TurnCosts, TurnCompletes(cost)
      PROVE  Goal
  BY <1>14 DEF TurnCompletes
<1>15. CASE ProviderError
  BY <1>15 DEF ProviderError
<1>16. CASE StreamEnds
  BY <1>16 DEF StreamEnds
<1>17. ASSUME NEW silent \in BOOLEAN, PhaseEnds(silent)
      PROVE  Goal
  BY <1>17 DEF PhaseEnds
<1>18. CASE TurnFails
  BY <1>18 DEF TurnFails
<1>19. CASE WatchdogEndsStoppingRunner
  BY <1>19 DEF WatchdogEndsStoppingRunner, ExitLoop
<1>20. CASE TurnOver
  BY <1>20 DEF TurnOver
<1>21. CASE AuthRecovery
  BY <1>21 DEF AuthRecovery
<1>22. CASE Reconnected
  BY <1>22 DEF Reconnected
<1>23. CASE ReconnectFails
  BY <1>23 DEF ReconnectFails
<1>24. CASE JobDone
  BY <1>24 DEF JobDone, NoJob
<1>25. CASE StoreFails
  BY <1>25 DEF StoreFails, ExitLoop
<1>26. CASE Disconnected
  BY <1>26 DEF Disconnected
<1>27. CASE TaskCancelled
  BY <1>27 DEF TaskCancelled, ExitLoop
<1>28. CASE DisconnectCancelled
  BY <1>28 DEF DisconnectCancelled
<1>29. ASSUME NEW awaited \in BOOLEAN, Submit(awaited)
      PROVE  Goal
  BY <1>29 DEF Submit
<1>30. ASSUME NEW interrupt \in BOOLEAN, Steer(interrupt)
      PROVE  Goal
  BY <1>30 DEF Steer
<1>31. ASSUME NEW kill \in BOOLEAN, Stop(kill)
      PROVE  Goal
  BY <1>31 DEF Stop
<1>32. ASSUME NEW j \in Jobs, CallerGivesUp(j)
      PROVE  Goal
  BY <1>32 DEF CallerGivesUp
<1>33. ASSUME NEW j \in Jobs, CancelCurrent(j)
      PROVE  Goal
  BY <1>33 DEF CancelCurrent
<1>34. ASSUME NEW j \in Jobs, CancelQueued(j)
      PROVE  Goal
  BY <1>34 DEF CancelQueued
<1>35. CASE SteerInterruptReturns
  BY <1>35 DEF SteerInterruptReturns
<1>36. CASE StopInterruptReturns
  BY <1>36 DEF StopInterruptReturns
<1>37. CASE BudgetResume
  BY <1>37 DEF BudgetResume
<1>38. QED
  BY <1>1, <1>2, <1>3, <1>4, <1>5, <1>6, <1>7, <1>8, <1>9, <1>10, <1>11, <1>12,
       <1>13, <1>14, <1>15, <1>16, <1>17, <1>18, <1>19, <1>20, <1>21, <1>22,
       <1>23, <1>24, <1>25, <1>26, <1>27, <1>28, <1>29, <1>30, <1>31, <1>32,
       <1>33, <1>34, <1>35, <1>36, <1>37
     DEF Next, RunLoop, Failures, Requests

(* A runner told to stop neither blocks again nor starts more than the one  *)
(* job a blocked get() was already woken for.                              *)
THEOREM StopIsHeeded == Spec => StopDrains
<1>1. RunnerInv /\ [Next]_vars
        => [stop_requested =>
              /\ pc' = "wait" => pc = "wait"
              /\ current = NoJob /\ current' # NoJob => pc = "wait"]_vars
  BY StopStep
<1>2. QED
  BY <1>1, Inductive, PTL DEF Spec, StopDrains

(* What a runner owes comes from its queue and its lane alone, a step that *)
(* adds to neither owes nothing new.                                       *)
LEMMA OwesNoMore ==
  ASSUME /\ \A j \in Jobs : j \in Elements(queue)' => j \in Elements(queue)
         /\ \A j \in Jobs : j \in Elements(steer_lane)' => j \in Elements(steer_lane)
  PROVE  Owed' \subseteq Owed
BY DEF Owed

LEMMA ParkStep ==
  ASSUME RunnerInv, [Next]_vars, budget_parked, budget_parked'
  PROVE  Owed' \subseteq Owed
<1> DEFINE Goal == Owed' \subseteq Owed
<1> TypeOK
  BY DEF RunnerInv
<1>0. /\ UNCHANGED <<queue, steer_lane>> => Goal
      /\ queue' = <<>> /\ UNCHANGED steer_lane => Goal
  BY OwesNoMore, NothingInEmpty
<1> SUFFICES Goal
  OBVIOUS
<1> HIDE DEF Goal
<1> USE DEF control, work, replies, turnVars, calls, budget, vars
<1>1. CASE UNCHANGED vars
  BY <1>0, <1>1
<1>2. CASE Connected
  BY <1>0, <1>2 DEF Connected
<1>3. CASE AttachRetry
  BY <1>0, <1>3 DEF AttachRetry
<1>4. CASE ConnectFails
  BY <1>0, <1>4 DEF ConnectFails, FailPendingFutures
<1>5. CASE ArmBudgetFromLedger
  BY <1>0, <1>5 DEF ArmBudgetFromLedger
<1>6. CASE StopSeen
  BY <1>0, <1>6 DEF StopSeen, ExitLoop, FailPendingFutures
<1>7. CASE TakeSteer
  <2>1. Elements(steer_lane) = {Head(steer_lane)} \cup Elements(steer_lane')
    BY <1>7, TailElements DEF TakeSteer, TypeOK
  <2> QED
    BY <1>7, <2>1, OwesNoMore DEF TakeSteer, Goal
<1>8. CASE AwaitWork
  BY <1>0, <1>8 DEF AwaitWork
<1>9. CASE TakeJob
  <2>1. Elements(queue) = {Head(queue)} \cup Elements(queue')
    BY <1>9, GetElements DEF TakeJob, GetReturns
  <2> QED
    BY <1>9, <2>1, OwesNoMore DEF TakeJob, Goal
<1>10. CASE TakeWake
  <2>1. Elements(queue) = {Head(queue)} \cup Elements(queue')
    BY <1>10, GetElements DEF TakeWake, GetReturns
  <2> QED
    BY <1>10, <2>1, OwesNoMore DEF TakeWake, Goal
<1>11. CASE TakeShutdown
  BY <1>0, <1>11 DEF TakeShutdown, ExitLoop, FailPendingFutures
<1>12. CASE IdleTimerFires
  BY <1>0, <1>12 DEF IdleTimerFires
<1>13. CASE LeaveIdle
  BY <1>0, <1>13 DEF LeaveIdle, ExitLoop, FailPendingFutures
<1>14. ASSUME NEW cost \in TurnCosts, TurnCompletes(cost)
      PROVE  Goal
  BY <1>0, <1>14 DEF TurnCompletes
<1>15. CASE ProviderError
  BY <1>0, <1>15 DEF ProviderError
<1>16. CASE StreamEnds
  BY <1>0, <1>16 DEF StreamEnds
<1>17. ASSUME NEW silent \in BOOLEAN, PhaseEnds(silent)
      PROVE  Goal
  BY <1>0, <1>17 DEF PhaseEnds
<1>18. CASE TurnFails
  BY <1>0, <1>18 DEF TurnFails
<1>19. CASE WatchdogEndsStoppingRunner
  BY <1>0, <1>19 DEF WatchdogEndsStoppingRunner, ExitLoop, FailPendingFutures
<1>20. CASE TurnOver
  BY <1>0, <1>20 DEF TurnOver
<1>21. CASE AuthRecovery
  BY <1>0, <1>21 DEF AuthRecovery
<1>22. CASE Reconnected
  BY <1>0, <1>22 DEF Reconnected
<1>23. CASE ReconnectFails
  BY <1>0, <1>23 DEF ReconnectFails
<1>24. CASE JobDone
  BY <1>0, <1>24 DEF JobDone, NoJob
<1>25. CASE StoreFails
  BY <1>0, <1>25 DEF StoreFails, ExitLoop, FailPendingFutures
<1>26. CASE Disconnected
  BY <1>0, <1>26 DEF Disconnected
<1>27. CASE TaskCancelled
  BY <1>0, <1>27 DEF TaskCancelled, ExitLoop, FailPendingFutures
<1>28. CASE DisconnectCancelled
  BY <1>0, <1>28 DEF DisconnectCancelled
<1>29. ASSUME NEW awaited \in BOOLEAN, Submit(awaited)
      PROVE  Goal
  BY <1>0, <1>29 DEF Submit, Refusing
<1>30. ASSUME NEW interrupt \in BOOLEAN, Steer(interrupt)
      PROVE  Goal
  BY <1>30 DEF Steer, Refusing
<1>31. ASSUME NEW kill \in BOOLEAN, Stop(kill)
      PROVE  Goal
  <2>1. Elements(Nudged(SHUTDOWN)) = Elements(queue) \cup {SHUTDOWN}
    BY JobsAreEntries, PutElements DEF Nudged
  <2> QED
    BY <1>0, <1>31, <2>1, JobsAreEntries, OwesNoMore DEF Stop, Goal
<1>32. ASSUME NEW j \in Jobs, CallerGivesUp(j)
      PROVE  Goal
  BY <1>0, <1>32 DEF CallerGivesUp
<1>33. ASSUME NEW j \in Jobs, CancelCurrent(j)
      PROVE  Goal
  BY <1>0, <1>33 DEF CancelCurrent
<1>34. ASSUME NEW j \in Jobs, CancelQueued(j)
      PROVE  Goal
  <2>1. PICK k \in 1..Len(queue) : queue' = Without(queue, k)
    BY <1>34 DEF CancelQueued
  <2>2. Elements(queue') \subseteq Elements(queue)
    BY <2>1, WithoutElements DEF TypeOK
  <2> QED
    BY <1>34, <2>2, OwesNoMore DEF CancelQueued, Goal
<1>35. CASE SteerInterruptReturns
  BY <1>0, <1>35 DEF SteerInterruptReturns
<1>36. CASE StopInterruptReturns
  <2>1. Elements(queue') = Elements(queue) \cup {SHUTDOWN}
    BY <1>36, JobsAreEntries, PutElements DEF StopInterruptReturns, Nudged
  <2> QED
    BY <1>36, <2>1, JobsAreEntries, OwesNoMore DEF StopInterruptReturns, Goal
<1>37. CASE BudgetResume
  BY <1>0, <1>37 DEF BudgetResume
<1>38. QED
  BY <1>1, <1>2, <1>3, <1>4, <1>5, <1>6, <1>7, <1>8, <1>9, <1>10, <1>11, <1>12,
       <1>13, <1>14, <1>15, <1>16, <1>17, <1>18, <1>19, <1>20, <1>21, <1>22,
       <1>23, <1>24, <1>25, <1>26, <1>27, <1>28, <1>29, <1>30, <1>31, <1>32,
       <1>33, <1>34, <1>35, <1>36, <1>37
     DEF Next, RunLoop, Failures, Requests

(* What a park admits: nothing. Until the operator resumes the runner, what *)
(* it owes can only shrink, whatever its callers, the operator's steers and *)
(* stops, and the run loop itself do in between.                           *)
THEOREM ParkAdmits == Spec => ParkAdmitsNothing
<1>1. RunnerInv /\ [Next]_vars
        => [budget_parked /\ budget_parked' => Owed' \subseteq Owed]_vars
  BY ParkStep
<1>2. QED
  BY <1>1, Inductive, PTL DEF Spec, ParkAdmitsNothing

-----------------------------------------------------------------------------
(* The runner as a JobService. Every exit of the loop is a stop when there  *)
(* is no idle timeout and neither the store nor the connection fails.      *)

StopOnly == exited_by # "other"

Dependable == ~IdleTimeout /\ ~StoreMayFail /\ ~ConnectMayFail

(* JobService!Next of what the callers see of the runner.                  *)
Abstract ==
  \/ /\ exited_by = "none" /\ exited_by' # "none"
     /\ future' = [j \in Jobs |-> IF future[j] = "pending" THEN "error"
                                  ELSE future[j]]
  \/ /\ UNCHANGED exited_by
     /\ \E j \in Jobs :
          \/ /\ exited_by = "none" /\ future[j] = "none"
             /\ future' = [future EXCEPT ![j] = "pending"]
          \/ /\ future[j] = "none"
             /\ future' = [future EXCEPT ![j] = "error"]
          \/ /\ future[j] = "pending"
             /\ \E a \in Settled : future' = [future EXCEPT ![j] = a]

LEMMA AbstractIsService == Abstract => Service!Next
<1> SUFFICES ASSUME Abstract
             PROVE  Service!Next
  OBVIOUS
<1> USE DEF Jobs, Service!Jobs, Settled, Service!Answers
<1>1. CASE /\ exited_by = "none" /\ exited_by' # "none"
           /\ future' = [j \in Jobs |-> IF future[j] = "pending" THEN "error"
                                        ELSE future[j]]
  BY <1>1 DEF Service!Next, Service!Close
<1>2. CASE ~(exited_by = "none" /\ exited_by' # "none")
  <2>1. PICK j \in Jobs :
          \/ /\ exited_by = "none" /\ future[j] = "none"
             /\ future' = [future EXCEPT ![j] = "pending"]
          \/ /\ future[j] = "none"
             /\ future' = [future EXCEPT ![j] = "error"]
          \/ /\ future[j] = "pending"
             /\ \E a \in Settled : future' = [future EXCEPT ![j] = a]
    BY <1>2 DEF Abstract
  <2>2. UNCHANGED exited_by
    BY <1>2 DEF Abstract
  <2>3. Service!Accept(j) \/ Service!Refuse(j) \/ Service!Answer(j)
    BY <2>1, <2>2 DEF Service!Accept, Service!Refuse, Service!Answer
  <2>4. QED
    BY <2>3 DEF Service!Next
<1>3. QED
  BY <1>1, <1>2 DEF Abstract

(* The drain answers everybody the runner still owes.                      *)
LEMMA CloseStep ==
  ASSUME RunnerInv, pc \notin {"teardown", "done"}, ExitLoop
  PROVE  Abstract
<1>1. \A j \in Jobs : future[j] = "pending" => j \in {current} \cup Elements(queue)
  BY DEF RunnerInv, QueueInv, NoStrandedCaller, ControlInv, LoopAlive
<1>2. future' = [j \in Jobs |-> IF /\ j \in {current} \cup Elements(queue)
                                  /\ future[j] = "pending"
                                THEN "error" ELSE future[j]]
  BY DEF ExitLoop, FailPendingFutures, Fail
<1>3. future' = [j \in Jobs |-> IF future[j] = "pending" THEN "error"
                               ELSE future[j]]
  BY <1>1, <1>2
<1>4. exited_by = "none" /\ exited_by' # "none"
  BY DEF RunnerInv, ControlInv, LoopAlive, ExitLoop
<1>5. QED
  BY <1>3, <1>4 DEF Abstract

LEMMA ServiceStep ==
  ASSUME RunnerInv, StopOnly, [Next]_vars, Dependable
  PROVE  Abstract \/ UNCHANGED <<future, exited_by>>
<1> TypeOK
  BY DEF RunnerInv
<1> DEFINE Goal == Abstract \/ UNCHANGED <<future, exited_by>>
<1> USE DEF Settled, Dependable, control, work, replies, turnVars, calls,
     budget, vars
<1>1. CASE UNCHANGED vars
  BY <1>1
<1>2. CASE Connected
  BY <1>2 DEF Connected
<1>3. CASE AttachRetry
  BY <1>3 DEF AttachRetry
<1>4. CASE ConnectFails
  BY <1>4 DEF ConnectFails, StopOnly
<1>5. CASE ArmBudgetFromLedger
  BY <1>5 DEF ArmBudgetFromLedger
<1>6. CASE StopSeen
  BY <1>6, CloseStep DEF StopSeen
<1>7. CASE TakeSteer
  BY <1>7 DEF TakeSteer
<1>8. CASE AwaitWork
  BY <1>8 DEF AwaitWork
<1>9. CASE TakeJob
  BY <1>9 DEF TakeJob
<1>10. CASE TakeWake
  BY <1>10 DEF TakeWake
<1>11. CASE TakeShutdown
  BY <1>11, CloseStep DEF TakeShutdown, GetReturns
<1>12. CASE IdleTimerFires
  BY <1>12 DEF IdleTimerFires
<1>13. CASE LeaveIdle
  BY <1>13, CloseStep DEF LeaveIdle
<1>14. ASSUME NEW cost \in TurnCosts, TurnCompletes(cost)
      PROVE  Goal
  BY <1>14 DEF TurnCompletes
<1>15. CASE ProviderError
  BY <1>15 DEF ProviderError
<1>16. CASE StreamEnds
  BY <1>16 DEF StreamEnds
<1>17. ASSUME NEW silent \in BOOLEAN, PhaseEnds(silent)
      PROVE  Goal
  BY <1>17 DEF PhaseEnds
<1>18. CASE TurnFails
  BY <1>18 DEF TurnFails
<1>19. CASE WatchdogEndsStoppingRunner
  BY <1>19, CloseStep DEF WatchdogEndsStoppingRunner, InProcess
<1>20. CASE TurnOver
  BY <1>20 DEF TurnOver
<1>21. CASE AuthRecovery
  BY <1>21 DEF AuthRecovery
<1>22. CASE Reconnected
  BY <1>22 DEF Reconnected
<1>23. CASE ReconnectFails
  BY <1>23 DEF ReconnectFails
<1>24. CASE JobDone
  <2>1. current \in Jobs /\ UNCHANGED exited_by
    BY <1>24 DEF JobDone, RunnerInv, ControlInv, Serving, LoopAlive, TypeOK
  <2>2. \/ /\ future[current] = "pending"
           /\ future' = [future EXCEPT ![current] = "result"]
        \/ future' = future
    BY <1>24, <2>1 DEF JobDone, TypeOK
  <2>3. QED
    BY <2>1, <2>2 DEF Abstract
<1>25. CASE StoreFails
  BY <1>25, CloseStep DEF StoreFails
<1>26. CASE Disconnected
  BY <1>26 DEF Disconnected
<1>27. CASE TaskCancelled
  BY <1>27, CloseStep DEF TaskCancelled, LoopAlive
<1>28. CASE DisconnectCancelled
  BY <1>28 DEF DisconnectCancelled
<1>29. ASSUME NEW awaited \in BOOLEAN, Submit(awaited)
      PROVE  Goal
  <2>1. /\ next_job_id \in Jobs /\ future[next_job_id] = "none"
        /\ UNCHANGED exited_by
    BY <1>29 DEF Submit, QueueInv, RunnerInv, TypeOK, Jobs
  <2>2. \/ /\ Refusing \/ awaited
           /\ future' = [future EXCEPT ![next_job_id] = "error"]
        \/ /\ ~Refusing
           /\ future' = [future EXCEPT ![next_job_id] = "pending"]
        \/ future' = [future EXCEPT ![next_job_id] = "none"]
    BY <1>29 DEF Submit
  <2>3. [future EXCEPT ![next_job_id] = "none"] = future
    BY <2>1 DEF TypeOK
  <2>4. ~Refusing => exited_by = "none"
    BY DEF Refusing, RunnerInv, ControlInv, StopOnly, TypeOK
  <2>5. QED
    BY <2>1, <2>2, <2>3, <2>4 DEF Abstract
<1>30. ASSUME NEW interrupt \in BOOLEAN, Steer(interrupt)
      PROVE  Goal
  BY <1>30 DEF Steer
<1>31. ASSUME NEW kill \in BOOLEAN, Stop(kill)
      PROVE  Goal
  BY <1>31 DEF Stop
<1>32. ASSUME NEW i \in Jobs, CallerGivesUp(i)
      PROVE  Goal
  BY <1>32 DEF CallerGivesUp, Abstract
<1>33. ASSUME NEW i \in Jobs, CancelCurrent(i)
      PROVE  Goal
  BY <1>33 DEF CancelCurrent
<1>34. ASSUME NEW i \in Jobs, CancelQueued(i)
      PROVE  Goal
  <2>1. \/ /\ future[i] = "pending"
           /\ future' = [future EXCEPT ![i] = "error"]
        \/ future' = future
    <3>1. future' = [j \in Jobs |-> IF j = i /\ future[j] = "pending"
                                     THEN "error" ELSE future[j]]
      BY <1>34 DEF CancelQueued, Fail
    <3>2. QED
      BY <3>1 DEF TypeOK
  <2>2. UNCHANGED exited_by
    BY <1>34 DEF CancelQueued
  <2>3. QED
    BY <2>1, <2>2 DEF Abstract
<1>35. CASE SteerInterruptReturns
  BY <1>35 DEF SteerInterruptReturns
<1>36. CASE StopInterruptReturns
  BY <1>36 DEF StopInterruptReturns
<1>37. CASE BudgetResume
  BY <1>37 DEF BudgetResume
<1>38. QED
  BY <1>1, <1>2, <1>3, <1>4, <1>5, <1>6, <1>7, <1>8, <1>9, <1>10, <1>11, <1>12,
       <1>13, <1>14, <1>15, <1>16, <1>17, <1>18, <1>19, <1>20, <1>21, <1>22,
       <1>23, <1>24, <1>25, <1>26, <1>27, <1>28, <1>29, <1>30, <1>31, <1>32,
       <1>33, <1>34, <1>35, <1>36, <1>37
     DEF Next, RunLoop, Failures, Requests

LEMMA StopOnlyStep ==
  ASSUME RunnerInv, StopOnly, [Next]_vars, Dependable
  PROVE  StopOnly'
<1> TypeOK
  BY DEF RunnerInv
<1> USE DEF StopOnly, Dependable, control, work, replies, turnVars, calls,
     budget, vars
<1>1. CASE UNCHANGED vars
  BY <1>1
<1>2. CASE Connected
  BY <1>2 DEF Connected
<1>3. CASE AttachRetry
  BY <1>3 DEF AttachRetry
<1>4. CASE ConnectFails
  BY <1>4 DEF ConnectFails
<1>5. CASE ArmBudgetFromLedger
  BY <1>5 DEF ArmBudgetFromLedger
<1>6. CASE StopSeen
  BY <1>6 DEF StopSeen, ExitLoop
<1>7. CASE TakeSteer
  BY <1>7 DEF TakeSteer
<1>8. CASE AwaitWork
  BY <1>8 DEF AwaitWork
<1>9. CASE TakeJob
  BY <1>9 DEF TakeJob
<1>10. CASE TakeWake
  BY <1>10 DEF TakeWake
<1>11. CASE TakeShutdown
  <2>1. SHUTDOWN \in Elements(queue)
    BY <1>11, GetElements DEF TakeShutdown, GetReturns
  <2>2. stop_requested
    BY <2>1 DEF RunnerInv, QueueInv
  <2>3. QED
    BY <1>11, <2>2 DEF TakeShutdown, ExitLoop
<1>12. CASE IdleTimerFires
  BY <1>12 DEF IdleTimerFires
<1>13. CASE LeaveIdle
  BY <1>13 DEF LeaveIdle, RunnerInv, ControlInv
<1>14. ASSUME NEW cost \in TurnCosts, TurnCompletes(cost)
      PROVE  StopOnly'
  BY <1>14 DEF TurnCompletes
<1>15. CASE ProviderError
  BY <1>15 DEF ProviderError
<1>16. CASE StreamEnds
  BY <1>16 DEF StreamEnds
<1>17. ASSUME NEW silent \in BOOLEAN, PhaseEnds(silent)
      PROVE  StopOnly'
  BY <1>17 DEF PhaseEnds
<1>18. CASE TurnFails
  BY <1>18 DEF TurnFails
<1>19. CASE WatchdogEndsStoppingRunner
  BY <1>19 DEF WatchdogEndsStoppingRunner, ExitLoop
<1>20. CASE TurnOver
  BY <1>20 DEF TurnOver
<1>21. CASE AuthRecovery
  BY <1>21 DEF AuthRecovery
<1>22. CASE Reconnected
  BY <1>22 DEF Reconnected
<1>23. CASE ReconnectFails
  BY <1>23 DEF ReconnectFails
<1>24. CASE JobDone
  BY <1>24 DEF JobDone
<1>25. CASE StoreFails
  BY <1>25 DEF StoreFails, ExitLoop
<1>26. CASE Disconnected
  BY <1>26 DEF Disconnected
<1>27. CASE TaskCancelled
  BY <1>27 DEF TaskCancelled, ExitLoop
<1>28. CASE DisconnectCancelled
  BY <1>28 DEF DisconnectCancelled
<1>29. ASSUME NEW awaited \in BOOLEAN, Submit(awaited)
      PROVE  StopOnly'
  BY <1>29 DEF Submit
<1>30. ASSUME NEW interrupt \in BOOLEAN, Steer(interrupt)
      PROVE  StopOnly'
  BY <1>30 DEF Steer
<1>31. ASSUME NEW kill \in BOOLEAN, Stop(kill)
      PROVE  StopOnly'
  BY <1>31 DEF Stop
<1>32. ASSUME NEW i \in Jobs, CallerGivesUp(i)
      PROVE  StopOnly'
  BY <1>32 DEF CallerGivesUp
<1>33. ASSUME NEW i \in Jobs, CancelCurrent(i)
      PROVE  StopOnly'
  BY <1>33 DEF CancelCurrent
<1>34. ASSUME NEW i \in Jobs, CancelQueued(i)
      PROVE  StopOnly'
  BY <1>34 DEF CancelQueued
<1>35. CASE SteerInterruptReturns
  BY <1>35 DEF SteerInterruptReturns
<1>36. CASE StopInterruptReturns
  BY <1>36 DEF StopInterruptReturns
<1>37. CASE BudgetResume
  BY <1>37 DEF BudgetResume
<1>38. QED
  BY <1>1, <1>2, <1>3, <1>4, <1>5, <1>6, <1>7, <1>8, <1>9, <1>10, <1>11, <1>12,
       <1>13, <1>14, <1>15, <1>16, <1>17, <1>18, <1>19, <1>20, <1>21, <1>22,
       <1>23, <1>24, <1>25, <1>26, <1>27, <1>28, <1>29, <1>30, <1>31, <1>32,
       <1>33, <1>34, <1>35, <1>36, <1>37
     DEF Next, RunLoop, Failures, Requests

(* To its callers the runner is a JobService: accepted jobs are answered at *)
(* most once, and its end answers every job it still owes in one step.     *)
THEOREM RunnerServes == Dependable => (Spec => ServesCallers)
<1> SUFFICES ASSUME Dependable
             PROVE  Spec => ServesCallers
  OBVIOUS
<1>1. Init => StopOnly /\ Service!Init
  BY DEF Init, StopOnly, Service!Init, Jobs, Service!Jobs
<1>2. RunnerInv /\ StopOnly /\ [Next]_vars
        => StopOnly' /\ [Service!Next]_(Service!vars)
  BY StopOnlyStep, ServiceStep, AbstractIsService DEF Service!vars
<1>3. QED
  BY <1>1, <1>2, Inductive, PTL DEF Spec, ServesCallers, Service!Spec

(* How far finding 1 reaches: what strands a caller is an exit of the loop *)
(* that is no stop. A runner without an idle timeout, whose store and      *)
(* connection do not fail, never leaves one behind.                        *)
THEOREM StopsStrandNobody == Dependable => (Spec => []NoStrandedCallerEver)
<1> SUFFICES ASSUME Dependable
             PROVE  Spec => []NoStrandedCallerEver
  OBVIOUS
<1>1. Init => StopOnly
  BY DEF Init, StopOnly
<1>2. RunnerInv /\ StopOnly /\ [Next]_vars => StopOnly'
  BY StopOnlyStep
<1>3. RunnerInv /\ StopOnly => NoStrandedCallerEver
  BY DEF RunnerInv, QueueInv, NoStrandedCaller, StopOnly, NoStrandedCallerEver
<1>4. QED
  BY <1>1, <1>2, <1>3, Inductive, PTL DEF Spec

=============================================================================
