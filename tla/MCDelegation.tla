----------------------------- MODULE MCDelegation -----------------------------
(* Small instances of Delegation for TLC. *)
EXTENDS DelegationProps, TLC

CONSTANTS a1, a2, a3

\* One pair is gated and trusted, one gated, the others free.
Approvals == {<<a1, a2>>, <<a2, a3>>}
Trust == {<<a1, a2>>}

\* "yes", and "yes 2".
OneOrTwo == {1, 2}
One == {1}
=============================================================================
