----------------------------- MODULE MCConsole -----------------------------
(* Small pages: two models, two options, a list of up to two entries,      *)
(* three orders, a regular payment method and a waffo one.                 *)
EXTENDS Console, TLC

CONSTANTS m1, m2, k1, k2, any, few, card, waffoPay

TwoModels == {m1, m2}
ModelPlaces == m1 :> 1 @@ m2 :> 2
TwoOptions == {k1, k2}
OptionPlaces == k1 :> 1 @@ k2 :> 2

\* A list stored without ids, to which an entry can be added, and one whose first
\* entry takes as its id the one that the second has.
SmallLists == {{[id |-> 0, of |-> 1]}, {[id |-> 0, of |-> 1], [id |-> 1, of |-> 2]}}

FewOrders == any :> 3 @@ few :> 1
TwoKinds == card :> "regular" @@ waffoPay :> "waffo"
Minima == card :> 1 @@ waffoPay :> 2
=============================================================================
