------------------------------- MODULE MCSilver -------------------------------
(* Bounds for checking Silver with TLC.  The trades are interchangeable.   *)
EXTENDS Silver, TLC

Symmetry == Permutations(Tids)
===============================================================================
