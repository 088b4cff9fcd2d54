---------------------------- MODULE MCCallPlayer ----------------------------
(* GsmCall, which has the player as what it calls and is called by;        *)
(* besides it the player itself: each behaviour is one of one of them.     *)
EXTENDS GsmCall

CONSTANTS MaxChunks, Coincidences    \* of Player

VARIABLES part, chunks, whole, next, end_of_wav, samples, filled, current, dma, notified, requests,
          task, playing_for_gsm, on_finished, heard

Sound == INSTANCE Player WITH bits <- requests, service <- task

soundV == <<chunks, whole, next, end_of_wav, samples, filled, current, dma, notified, requests,
            task, playing_for_gsm, on_finished, heard>>

AllInit == part \in {"call", "sound"} /\ Init /\ Sound!Init

CallStep  == part = "call"  /\ Next /\ UNCHANGED <<part, soundV>>
SoundStep == part = "sound" /\ Sound!Next /\ UNCHANGED <<part, vars>>

AllNext == CallStep \/ SoundStep

AllSpec == AllInit /\ [][AllNext]_<<part, vars, soundV>>

\* A file is played as it was recorded, and who waits for its end is told, once.
PlaysWhole == Sound!PlaysWhole
=============================================================================
