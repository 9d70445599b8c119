------------------------------ MODULE PaidTask ------------------------------
(***************************************************************************)
(* What the user of an asynchronous task is promised, however many pollers *)
(* overlap, fail or die behind it: the task is charged when it is          *)
(* submitted and ends at most once.  If it fails, the charge is given back *)
(* whole and once, or not yet; if it succeeds, it is corrected to the real *)
(* cost once, or left.  Nothing else moves the money.                      *)
(*                                                                         *)
(* Abstract specification of the tasks table (model/task.go) together with *)
(* the funding source (service/task_billing.go).                           *)
(***************************************************************************)
EXTENDS Naturals

CONSTANTS Tasks, Charge, Actuals

VARIABLES status,    \* task -> "absent", "running", "SUCCESS", "FAILURE", or
                     \* "released": nothing is promised about it any more
          charged    \* task -> what its user has paid

vars == <<status, charged>>

Init ==
    /\ status = [t \in Tasks |-> "absent"]
    /\ charged = [t \in Tasks |-> 0]

\* The task is stored, as a success if the provider answered at once.
Submit(t) ==
    /\ status[t] = "absent"
    /\ \E s \in {"running", "SUCCESS"} : status' = [status EXCEPT ![t] = s]
    /\ charged' = [charged EXCEPT ![t] = Charge]

Finish(t) ==
    /\ status[t] = "running"
    /\ \E s \in {"SUCCESS", "FAILURE"} : status' = [status EXCEPT ![t] = s]
    /\ UNCHANGED charged

Refund(t) ==
    /\ status[t] = "FAILURE"
    /\ charged[t] = Charge
    /\ charged' = [charged EXCEPT ![t] = 0]
    /\ UNCHANGED status

Settle(t) ==
    /\ status[t] = "SUCCESS"
    /\ charged[t] = Charge
    /\ \E a \in Actuals : charged' = [charged EXCEPT ![t] = a]
    /\ UNCHANGED status

\* A task is failed by its id, written by a GET, or was not settled when submitted.
Release(S) ==
    /\ status' = [t \in Tasks |-> IF t \in S THEN "released" ELSE status[t]]
    /\ charged' = [t \in Tasks |-> IF t \in S THEN 0 ELSE charged[t]]

Next ==
    \/ \E t \in Tasks : Submit(t) \/ Finish(t) \/ Refund(t) \/ Settle(t)
    \/ \E S \in SUBSET Tasks : Release(S)

Spec == Init /\ [][Next]_vars
=============================================================================
