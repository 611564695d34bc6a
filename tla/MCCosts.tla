-------------------------------- MODULE MCCosts --------------------------------
(* Bounds for checking Costs with TLC.                                     *)
EXTENDS Costs
===============================================================================
