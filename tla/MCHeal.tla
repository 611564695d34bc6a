-------------------------------- MODULE MCHeal --------------------------------
(* Instances of Heal: hours of two ticks, days of two hours.               *)
EXTENDS Heal

\* A gap that ends at midnight; and one in the session's first hour with one across midnight.
MCGaps == {[start |-> 2, end |-> 4]}
MCTwoGaps == {[start |-> 1, end |-> 2], [start |-> 3, end |-> 5]}
===============================================================================
