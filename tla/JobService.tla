------------------------------ MODULE JobService ------------------------------
(***************************************************************************)
(* What a caller may rely on when it hands a job to an agent and awaits    *)
(* the answer (the future of submit, runner.py 2693-2763): the job is      *)
(* accepted or refused at once; an accepted job is answered at most once;  *)
(* and when the agent closes, every job it still owes is answered with an  *)
(* error in the same step, so that nobody waits for an agent that is gone. *)
(***************************************************************************)
EXTENDS Integers

CONSTANT MaxJobs

Jobs == 1..MaxJobs

Answers == {"result", "error", "cancelled"}

VARIABLES
  outcome,   \* of each job: "none" (nobody awaits it), "pending" or an answer
  closed     \* the agent has left its loop

vars == <<outcome, closed>>

Init == outcome = [j \in Jobs |-> "none"] /\ closed = FALSE

Accept(j) ==
  /\ ~closed /\ outcome[j] = "none"
  /\ outcome' = [outcome EXCEPT ![j] = "pending"]
  /\ UNCHANGED closed

Refuse(j) ==
  /\ outcome[j] = "none"
  /\ outcome' = [outcome EXCEPT ![j] = "error"]
  /\ UNCHANGED closed

Answer(j) ==
  /\ outcome[j] = "pending"
  /\ \E a \in Answers : outcome' = [outcome EXCEPT ![j] = a]
  /\ UNCHANGED closed

Close ==
  /\ ~closed /\ closed' = TRUE
  /\ outcome' = [j \in Jobs |-> IF outcome[j] = "pending" THEN "error"
                                ELSE outcome[j]]

Next == Close \/ \E j \in Jobs : Accept(j) \/ Refuse(j) \/ Answer(j)

Spec == Init /\ [][Next]_vars

=============================================================================
