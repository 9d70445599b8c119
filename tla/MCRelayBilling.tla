--------------------------- MODULE MCRelayBilling ---------------------------
(* Constants for model checking RelayBilling. *)
EXTENDS RelayBilling, TLC

\* Channels are interchangeable (safety runs only).
Symmetry == Permutations(Channels)

\* What can still matter: a handler that has returned left nothing but its price,
\* and the balances read for the trust check serve until there is a session.
View ==
    <<wallet, token, stream, refunds, paid, tokPaid, faults,
      [r \in Requests |->
         IF req[r].pc \in {"over", "crashed"} THEN <<req[r].pc, req[r].owed>>
         ELSE IF session[r].open
         THEN <<[req[r] EXCEPT !.userQuota = 0, !.tokenQuota = 0], session[r], route[r]>>
         ELSE <<req[r], session[r], route[r]>>]>>
=============================================================================
