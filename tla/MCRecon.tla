-------------------------------- MODULE MCRecon --------------------------------
(* Bounds for checking Recon with TLC.                                     *)
EXTENDS Recon
===============================================================================
