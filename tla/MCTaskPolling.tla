--------------------------- MODULE MCTaskPolling ---------------------------
(* An instance of TaskPolling for TLC.                                     *)
EXTENDS TaskPolling

CONSTANTS p1, p2, t1

OneTask == {t1}

TwoPollers == {p1, p2}

\* The settled cost is below or above the pre-consumed quota of 2.
Costs == {1, 3}
=============================================================================
