---------------------------- MODULE MCAuthClient ----------------------------
(* Constants for model checking AuthClient. *)
EXTENDS AuthClient, TLC

CONSTANTS tabA, tabB

TwoTabs(inA, inB) == (tabA :> inA) @@ (tabB :> inB)

\* The user signs out and in again while the other tab is being opened.
SignsInAgain == TwoTabs({"login", "logout"}, {})
\* One tab signs out while another refreshes.
OneSignsOut == TwoTabs({"logout"}, {"headers", "navigate"})
\* A login and the requests of both pages.
Requests == TwoTabs({"login", "api"}, {"api"})

CheckedUses ==
    [ops : {Requests, SignsInAgain}, locks : {TRUE}] \cup
    [ops : {OneSignsOut}, locks : BOOLEAN]
=============================================================================
