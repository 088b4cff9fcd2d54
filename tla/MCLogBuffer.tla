---------------------------- MODULE MCLogBuffer ----------------------------
(* Records of the second day, before the network has told the time. *)
EXTENDS LogBuffer

CONSTANTS w1, w2, calendar

Two       == {w1, w2}
AfterADay == {[days |-> 1, hours |-> 0, minutes |-> 7, seconds |-> 5], [days |-> 1, hours |-> 2, minutes |-> 7, seconds |-> 5]}
SomeTexts == {[plain |-> 1, arg |-> 0, uses |-> 0], [plain |-> 3, arg |-> 2, uses |-> 1]}
=============================================================================
