---------------------------- MODULE MCAgentRunner ----------------------------
(* Small instances of AgentRunner for TLC. *)
EXTENDS AgentRunnerProps, TLC

\* A turn that reports no tokens, and one that reaches the ceiling.
Costs == {0, 1}

\* A turn that goes past it.
Costly == {2}

\* The ledger at start: nothing spent yet, or the ceiling already reached.
Fresh == {0}
Ledgers == {0, Ceiling}
=============================================================================
