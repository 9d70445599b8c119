---------------------------- MODULE MCChannelBan ----------------------------
(* Deployments of one and two nodes.                                       *)
EXTENDS ChannelBan

CONSTANTS n1, n2

Use(nodes, callers, withForm, sync) ==
  [nodes |-> nodes, callers |-> callers, form |-> withForm, tags |-> FALSE, sync |-> sync]

CheckedUses ==
  {Use({n1, n2}, {}, FALSE, FALSE),
   Use({n1}, {}, FALSE, TRUE),
   Use({n1, n2}, {"admin"}, FALSE, FALSE),
   Use({n1}, {"admin"}, TRUE, FALSE),
   Use({n1}, {"tester", "balance"}, FALSE, FALSE),
   [Use({n1}, {"tester"}, FALSE, FALSE) EXCEPT !.tags = TRUE]}
=============================================================================
