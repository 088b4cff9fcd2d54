------------------------------ MODULE MCSupply ------------------------------
(* The supply system has no parameters: the runs check all of its states.  *)
EXTENDS Supply
=============================================================================
