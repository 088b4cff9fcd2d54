------------------------------ MODULE MCAlarm -------------------------------
(* The alarm with few phones.                                              *)
EXTENDS Alarm
=============================================================================
