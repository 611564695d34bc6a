------------------------------ MODULE MCIngester ------------------------------
(* Bounds for checking Ingester with TLC.  The coins are interchangeable.  *)
EXTENDS Ingester, TLC

Symmetry == Permutations(Coins)
===============================================================================
