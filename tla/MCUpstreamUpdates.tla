------------------------- MODULE MCUpstreamUpdates -------------------------
(* Two channels with a model each to start from.  The first redirects to a *)
(* third model, the second redirects its own and ignores the third by a    *)
(* pattern.                                                                *)
EXTENDS UpstreamUpdates, TLC

CONSTANTS c1, c2, m1, m2, m3

TwoChannelBase == (c1 :> {m1}) @@ (c2 :> {m1})
TwoSources == (c1 :> {}) @@ (c2 :> {m1})
TwoTargets == (c1 :> {m3}) @@ (c2 :> {})
TwoPatterns == (c1 :> {}) @@ (c2 :> {m3})
ThreeOffers == {{m1}, {m2, m3}, {m1, m2, m3}}
=============================================================================
