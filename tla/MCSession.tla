------------------------------- MODULE MCSession -------------------------------
(* Bounds for checking Session with TLC.                                   *)
EXTENDS Session
===============================================================================
