---------------------------- MODULE MCTableState ----------------------------
(* Instances of TableState for TLC. *)
EXTENDS TableState

\* A filtered list has one row, the whole list three.
RowsShrink(t, s, g) ==
    IF IsBlank(t) /\ s = NoStatus /\ IsBlank(g) THEN 3 ELSE 1
=============================================================================
