------------------------------ MODULE MCBackfill ------------------------------
(* Bounds for checking Backfill with TLC: two-hour days, one day asked for *)
(* and the first hour of the day after.                                    *)
EXTENDS Backfill

FirstDay == {[from |-> 0, to |-> 0]}
===============================================================================
