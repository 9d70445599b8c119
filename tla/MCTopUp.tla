------------------------------ MODULE MCTopUp ------------------------------
(* Constants for model checking TopUp. *)
EXTENDS TopUp, TLC

CONSTANTS o1, o2, h1, h2, h3, n1, n2

\* Two handlers on one node, one on another.
TwoNodes == (h1 :> n1) @@ (h2 :> n1) @@ (h3 :> n2)

\* An order of any provider beside one of Epay.
AnyAndEpay == (o1 :> Providers) @@ (o2 :> {"epay"})
=============================================================================
