---------------------------- MODULE MCControlLog ----------------------------
(* GsmControl with all of its clients; besides it the log, the interface   *)
(* of the user and the editing of phones.  They touch none of each other's *)
(* state: each behaviour is one of one of them.                            *)
EXTENDS MCGsmControl

CONSTANTS
    Writers, Size, BulkSize, MaxLength, Stamps, Texts, Calendar,    \* of LogBuffer
    MaxLog,                                                         \* of LogFiles
    AlarmDelay,                                                     \* of Interface
    Numbers, NoNumber, MaxPhones                                    \* of PhoneEditing

VARIABLES
    part,
    head, newWrite, doneWrite, readyRead, dataSize, events, logPc, slot, recorder, message, wrote,
    current, previous, fileOpened,
    armed, untold, controller, run_activity_timer, ui_active, delaying, suspended, seconds, signal,
    uiEvents, keys, activity_timer, delay_timer, service, shown, lit,
    phones, phones_count, screen, phones_num, phone_ind, index, phone_buf, edit, priority, chosen

NoDays    == {[days |-> 0, hours |-> 0, minutes |-> 0, seconds |-> 5]}
SomeTexts == {[plain |-> 1, arg |-> 0, uses |-> 0], [plain |-> 3, arg |-> 2, uses |-> 1]}

Log    == INSTANCE LogBuffer WITH Coincidences <- {}, pc <- logPc
Card   == INSTANCE LogFiles
Ui     == INSTANCE Interface WITH Coincidences <- {}, events <- uiEvents
Phones == INSTANCE PhoneEditing WITH Coincidences <- {}

logV   == <<head, newWrite, doneWrite, readyRead, dataSize, events, logPc, slot, recorder, message, wrote>>
filesV == <<current, previous, fileOpened>>
uiV    == <<armed, untold, controller, run_activity_timer, ui_active, delaying, suspended, seconds, signal,
            uiEvents, keys, activity_timer, delay_timer, service, shown, lit>>
phoneV == <<phones, phones_count, screen, phones_num, phone_ind, index, phone_buf, edit, priority, chosen>>

AllInit ==
    /\ part \in {"control", "log", "files", "ui", "phones"}
    /\ Init /\ Log!Init /\ Card!Init /\ Ui!Init /\ Phones!Init
    /\ part # "ui" => signal

ControlStep == part = "control" /\ Next /\ UNCHANGED <<part, logV, filesV, uiV, phoneV>>
LogStep     == part = "log"     /\ Log!Next /\ UNCHANGED <<part, vars, filesV, uiV, phoneV>>
FilesStep   == part = "files"   /\ Card!Next /\ UNCHANGED <<part, vars, logV, uiV, phoneV>>
UiStep      == part = "ui"      /\ Ui!Next /\ UNCHANGED <<part, vars, logV, filesV, phoneV>>
PhonesStep  == part = "phones"  /\ Phones!Next /\ UNCHANGED <<part, vars, logV, filesV, uiV>>

AllNext == ControlStep \/ LogStep \/ FilesStep \/ UiStep \/ PhonesStep

AllSpec == AllInit /\ [][AllNext]_<<part, vars, logV, filesV, uiV, phoneV>>

\* No record waits for a writer that has left end_write(), and the recorder is told of all.
RecorderIsTold == Log!RecorderIsTold

\* The ring buffer of records is a queue (RecordQueue) for its writers and its reader.
ImplementsQueue == Log!ImplementsQueue

\* rotate_logs(): records leave the card only when a full file takes their place.
DroppedOnlyForFullFile == Card!DroppedOnlyForFullFile

\* Once it is told of it, the interface is in the hands of alarm_disabler iff the alarm is armed.
ControllerFollowsAlarm == Ui!ControllerFollowsAlarm

\* The controller in control is the one the user sees; keys and timers are its own.
ScreenFollowsController == Ui!ScreenFollowsController

\* A change of the phones is made to the phone that was displayed when it was chosen.
EditsChosenPhone == Phones!EditsChosenPhone
=============================================================================
