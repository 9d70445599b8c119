--------------------------- MODULE MCUserSession ---------------------------
(* Instances of UserSession: nodes that share a Redis, and nodes with a    *)
(* Redis each.                                                             *)
EXTENDS UserSession, TLC

CONSTANTS p1, p2, r1, r2

SharedOrOwn == {[p \in {p1, p2} |-> r1], (p1 :> r1) @@ (p2 :> r2)}
=============================================================================
