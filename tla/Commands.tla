------------------------------ MODULE Commands ------------------------------
(***************************************************************************)
(* What the driver of SIM900 promises to the GSM service (sim900.h): one   *)
(* command at a time, each of which invokes its callback exactly once.     *)
(***************************************************************************)
EXTENDS Naturals

CONSTANT NoCommand

VARIABLES
    running,  \* the command whose callback is awaited, or NoCommand
    parity    \* parity of the number of callbacks invoked so far

Init == running = NoCommand /\ parity = 0

Begin == running = NoCommand /\ running' # NoCommand /\ UNCHANGED parity

End == running # NoCommand /\ running' = NoCommand /\ parity' = 1 - parity

Next == Begin \/ End

Spec == Init /\ [][Next]_<<running, parity>>
=============================================================================
