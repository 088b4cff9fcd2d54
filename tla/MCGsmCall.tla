----------------------------- MODULE MCGsmCall ------------------------------
(* All states of one call after another.  MaxFaults is 1 where a command   *)
(* may stay unanswered or the module may fail, in any state, 0 elsewhere.  *)
EXTENDS GsmCall
=============================================================================
