------------------------------ MODULE Account ------------------------------
(***************************************************************************)
(* What a quota account promises to its callers, whatever caches and       *)
(* queues are behind it: an operation that reports success has moved the   *)
(* balance by exactly its amount, once; one that reports failure has not   *)
(* moved it.  held is what each caller was told it holds.  The balance is  *)
(* the sum of a durable part and, where changes are buffered, of what is   *)
(* collected in memory and of what is on its way to the durable part.      *)
(*                                                                         *)
(* Abstract specification of TryReserveUserQuota, IncreaseUserQuota and    *)
(* DecreaseUserQuota (model/quota_reserve.go, model/user.go).              *)
(***************************************************************************)
EXTENDS Integers

CONSTANTS Clients, Amounts, Start

VARIABLES buffered,   \* changes may be collected in memory first
          durable, collected, leaving, held

vars == <<buffered, durable, collected, leaving, held>>

Init ==
    /\ buffered \in BOOLEAN
    /\ durable = Start
    /\ collected = 0
    /\ leaving = 0
    /\ held = [c \in Clients |-> 0]

Move(d) ==
    \/ durable' = durable + d /\ UNCHANGED <<buffered, collected, leaving>>
    \/ buffered /\ collected' = collected + d /\ UNCHANGED <<buffered, durable, leaving>>

\* c is told that it has reserved, or was charged, a.
Take(c, a) == Move(-a) /\ held' = [held EXCEPT ![c] = @ + a]

\* c is told that a was given back.
Give(c, a) == Move(a) /\ held' = [held EXCEPT ![c] = @ - a]

\* What was collected is taken as a whole ...
Collect ==
    /\ leaving = 0
    /\ leaving' = collected
    /\ collected' = 0
    /\ UNCHANGED <<buffered, durable, held>>

\* ... and becomes durable as a whole, and once.
Flush ==
    /\ durable' = durable + leaving
    /\ leaving' = 0
    /\ UNCHANGED <<buffered, collected, held>>

\* The write fails, or the process dies with all it has in memory.
Lose ==
    /\ leaving' = 0
    /\ collected' \in {0, collected}
    /\ UNCHANGED <<buffered, durable, held>>

Next ==
    \/ \E c \in Clients, a \in Amounts : Take(c, a) \/ Give(c, a)
    \/ buffered /\ (Collect \/ Flush \/ Lose)

Spec == Init /\ [][Next]_vars
=============================================================================
