------------------------------ MODULE MCQuota ------------------------------
(* Constants for model checking Quota. *)
EXTENDS Quota, TLC

\* Clients are interchangeable (safety runs only).
Symmetry == Permutations(Clients)
=============================================================================
