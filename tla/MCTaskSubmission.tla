-------------------------- MODULE MCTaskSubmission --------------------------
(* An instance of TaskSubmission for TLC.                                  *)
EXTENDS TaskSubmission, TLC

CONSTANTS r1, r2, r3, k1, b1, b2

ThreeRequests == {r1, r2, r3}

RequestSymmetry == Permutations(ThreeRequests) \cup Permutations({b1, b2})

=============================================================================
