---------------------------- MODULE MCSystemTask ----------------------------
(***************************************************************************)
(* Model-checking instance of SystemTask: two master nodes.                *)
(***************************************************************************)
EXTENDS SystemTask, TLC

CONSTANTS r1, r2, poll

TwoRunners == {r1, r2}

OneType == {poll}
=============================================================================
