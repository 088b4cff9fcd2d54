---------------------------- MODULE MCGsmControl ----------------------------
(* Instances of GsmControl for TLC: the tasks that use gsm::Controls, with the *)
(* priorities of periph_allocation.h.                                          *)
EXTENDS GsmControl

AllClients == {"alarm", "gsm", "sound"}
AllOps == [alarm |-> {"call", "accept_call", "send_sms"}, gsm |-> {"end_call"}, sound |-> {"end_call"}]
AllPriorities == [timers |-> 6, sound |-> 3, sim900 |-> 2, alarm |-> 1, gsm |-> 1]

AlarmAndGsm == {"alarm", "gsm"}
AlarmAndGsmOps == [alarm |-> {"call", "accept_call", "send_sms"}, gsm |-> {"end_call"}]
AlarmAndGsmPriorities == [timers |-> 6, sim900 |-> 2, alarm |-> 1, gsm |-> 1]

AlarmOnly == {"alarm"}
AlarmOps == [alarm |-> {"call", "accept_call", "send_sms"}]
AlarmPriorities == [timers |-> 6, sim900 |-> 2, alarm |-> 1]
=============================================================================
