------------------------------ MODULE LogFiles ------------------------------
(***************************************************************************)
(* The files of the logger on the card (Logging/sd_recorder.cpp): records  *)
(* go to the current file, and when that is full it becomes the previous   *)
(* one.  Sizes are counted in records.  Any operation on files may fail,   *)
(* and a power cut is the failure of the operation that was under way.     *)
(***************************************************************************)
EXTENDS Naturals

CONSTANT MaxLog    \* records that fill a file: MAX_LOG_SIZE_kB

VARIABLES current, previous, fileOpened

vars == <<current, previous, fileOpened>>

Files(c, p, opened) == [current |-> c, previous |-> p, opened |-> opened]

\* init_card_recorder()
Init == current = 0 /\ previous = 0 /\ fileOpened = FALSE

NormalLogSize == current < MaxLog

\* rotate_logs(): what it leaves when removing the previous file, renaming the current
\* one or creating a new one fails, and when nothing does
Rotated == {
    Files(current, previous, FALSE),
    Files(current, 0, FALSE),
    Files(0, current, FALSE),
    Files(0, current, TRUE)}

\* Mutant: the previous file is replaced before the size is looked at.
OpenedRotating == (IF fileOpened THEN {} ELSE {Files(current, previous, FALSE)}) \cup Rotated

\* (file_opened || open_current_log()) && (normal_log_size() || rotate_logs())
Opened ==
    (IF fileOpened THEN {} ELSE {Files(current, previous, FALSE)})
    \cup (IF NormalLogSize THEN {Files(current, previous, TRUE)} ELSE Rotated)

\* write_to_card(): f_write() takes the record or fails
WriteToCard ==
    \E files \in Opened, written \in BOOLEAN :
        /\ written => files.opened
        /\ current' = files.current + (IF written THEN 1 ELSE 0)
        /\ previous' = files.previous
        /\ fileOpened' = written

\* flush_to_card()
FlushToCard == fileOpened' \in {FALSE, fileOpened} /\ UNCHANGED <<current, previous>>

Next == WriteToCard \/ FlushToCard

Spec == Init /\ [][Next]_vars

\* rotate_logs(): records leave the card only when a full file takes their place, however
\* often renaming, opening or writing has failed before, and files never exceed their size.
DroppedOnlyForFullFile ==
    [][/\ current' <= MaxLog
       /\ previous' < previous \/ current' < current => current >= MaxLog]_vars
=============================================================================
