----------------------------- MODULE PhoneEditing -----------------------------
(***************************************************************************)
(* The phones in the settings (SettingsDto.h) and the controllers that     *)
(* edit them (phones_configurer.cpp).  The array keeps what lies behind    *)
(* the last phone; each setter may fail and then leaves all as it was.     *)
(* One task runs them one after the other, and arming takes control from   *)
(* any of them.  Indexes are those of the code, from 0.                    *)
(***************************************************************************)
EXTENDS Naturals, SequencesExt

CONSTANTS
    Numbers, NoNumber,
    MaxPhones,      \* MAX_PHONE_NUMBERS
    Coincidences    \* "moved": see Chosen

VARIABLES
    phones, phones_count,   \* of SettingsDto
    screen,                 \* the controller in control, or "menu"
    phones_num, phone_ind,  \* of the configurer
    index,                  \* of the phone editor
    phone_buf, edit,        \* of the number editor
    priority,               \* of the priority editor
    chosen                  \* where the phone is that was displayed when 'C' was pressed

settingsV == <<phones, phones_count>>
vars == <<settingsV, screen, phones_num, phone_ind, index, phone_buf, edit, priority, chosen>>

Indexes == 0..MaxPhones - 1

Init ==
    /\ phones = [i \in Indexes |-> NoNumber] /\ phones_count = 0
    /\ screen = "menu"
    /\ phones_num = 0 /\ phone_ind = 0 /\ index = 0
    /\ phone_buf = NoNumber /\ edit = FALSE /\ priority = 0
    /\ chosen = 0

-----------------------------------------------------------------------------
(* SettingsDto *)

SetPhone(i, number) == phones' = [phones EXCEPT ![i] = number] /\ UNCHANGED phones_count

AddPhone(number) == phones' = [phones EXCEPT ![phones_count] = number] /\ phones_count' = phones_count + 1

DeletePhone(i) ==
    /\ phones' = [k \in Indexes |-> IF k >= i /\ k + 1 < phones_count THEN phones[k + 1] ELSE phones[k]]
    /\ phones_count' = phones_count - 1

\* Mutant: the phones between are not shifted.
SwapPhones(old, new) ==
    /\ phones' = [phones EXCEPT ![old] = phones[new], ![new] = phones[old]]
    /\ UNCHANGED phones_count

ShiftPhone(old, new) ==
    /\ phones' = [k \in Indexes |->
                    IF k = new THEN phones[old]
                    ELSE IF new < k /\ k <= old THEN phones[k - 1]
                    ELSE IF old <= k /\ k < new THEN phones[k + 1]
                    ELSE phones[k]]
    /\ UNCHANGED phones_count

\* A setter applies the change, or fails.
Sets(change) == change \/ UNCHANGED settingsV

-----------------------------------------------------------------------------
(* The configurer: shows one of the phones, or an empty place behind them *)

EnterConfigurer ==
    /\ screen = "menu" /\ screen' = "phones"
    /\ phones_num' = phones_count /\ phone_ind' = 0
    /\ UNCHANGED <<settingsV, index, phone_buf, edit, priority, chosen>>

MoveUp ==
    /\ screen = "phones" /\ phone_ind # 0
    /\ phone_ind' = phone_ind - 1
    /\ UNCHANGED <<settingsV, screen, phones_num, index, phone_buf, edit, priority, chosen>>

MoveDown ==
    /\ screen = "phones" /\ phone_ind # phones_num /\ phone_ind # MaxPhones - 1
    /\ phone_ind' = phone_ind + 1
    /\ UNCHANGED <<settingsV, screen, phones_num, index, phone_buf, edit, priority, chosen>>

\* prepare_to_add(), or prepare_to_edit() of the phone editor
Choose ==
    /\ screen = "phones"
    /\ chosen' = phone_ind
    /\ IF phone_ind = phones_num
       THEN screen' = "number" /\ phone_buf' = NoNumber /\ edit' = FALSE /\ UNCHANGED index
       ELSE screen' = "phone" /\ index' = phone_ind /\ UNCHANGED <<phone_buf, edit>>
    /\ UNCHANGED <<settingsV, phones_num, phone_ind, priority>>

ExitConfigurer ==
    /\ screen = "phones" /\ screen' = "menu"
    /\ UNCHANGED <<settingsV, phones_num, phone_ind, index, phone_buf, edit, priority, chosen>>

-----------------------------------------------------------------------------
(* The phone editor *)

\* Its index is not changed with the priority; only if "moved" the user goes on to edit
\* a phone that was moved.
Chosen == screen = "phone" /\ (chosen = index \/ "moved" \in Coincidences)

\* phone_deleted()
Delete ==
    /\ Chosen /\ screen' = "phones"
    /\ Sets(DeletePhone(index))
    /\ IF phones_count' < phones_count
       THEN phones_num' = phones_count' /\ phone_ind' = (IF phone_ind > phones_num' THEN phones_num' ELSE phone_ind)
       ELSE UNCHANGED <<phones_num, phone_ind>>
    /\ UNCHANGED <<index, phone_buf, edit, priority, chosen>>

ChangeNumber ==
    /\ Chosen /\ screen' = "number"
    /\ phone_buf' = phones[index] /\ edit' = TRUE
    /\ UNCHANGED <<settingsV, phones_num, phone_ind, index, priority, chosen>>

ChangePriority ==
    /\ Chosen /\ screen' = "priority"
    /\ priority' = index + 1
    /\ UNCHANGED <<settingsV, phones_num, phone_ind, index, phone_buf, edit, chosen>>

ExitPhone ==
    /\ screen = "phone" /\ screen' = "phones"
    /\ UNCHANGED <<settingsV, phones_num, phone_ind, index, phone_buf, edit, priority, chosen>>

-----------------------------------------------------------------------------
(* The number editor *)

EnterNumber ==
    /\ screen = "number"
    /\ phone_buf' \in Numbers
    /\ UNCHANGED <<settingsV, screen, phones_num, phone_ind, index, edit, priority, chosen>>

BackFromNumber == screen' = IF edit THEN "phone" ELSE "phones"

\* number_changed() or phone_added()
AcceptNumber ==
    /\ screen = "number" /\ phone_buf # NoNumber
    /\ BackFromNumber
    /\ Sets(IF edit THEN SetPhone(index, phone_buf) ELSE AddPhone(phone_buf))
    /\ phones_num' = IF edit THEN phones_num ELSE phones_count'
    /\ UNCHANGED <<phone_ind, index, phone_buf, edit, priority, chosen>>

CancelNumber ==
    /\ screen = "number" /\ BackFromNumber
    /\ UNCHANGED <<settingsV, phones_num, phone_ind, index, phone_buf, edit, priority, chosen>>

-----------------------------------------------------------------------------
(* The priority editor *)

EnterPriority ==
    /\ screen = "priority"
    /\ priority' \in 1..MaxPhones
    /\ UNCHANGED <<settingsV, screen, phones_num, phone_ind, index, phone_buf, edit, chosen>>

\* phone_moved(): behind the last phone there is no place.
AcceptPriority ==
    /\ screen = "priority" /\ screen' = "phone"
    /\ LET new == IF priority - 1 >= phones_num THEN phones_num - 1 ELSE priority - 1
       IN  \/ ShiftPhone(index, new) /\ phone_ind' = new /\ chosen' = new
           \/ UNCHANGED <<settingsV, phone_ind, chosen>>
    /\ UNCHANGED <<phones_num, index, phone_buf, edit, priority>>

CancelPriority ==
    /\ screen = "priority" /\ screen' = "phone"
    /\ UNCHANGED <<settingsV, phones_num, phone_ind, index, phone_buf, edit, priority, chosen>>

\* alarm_disabler, and then the desktop, take control.
Armed ==
    /\ screen # "menu" /\ screen' = "menu"
    /\ UNCHANGED <<settingsV, phones_num, phone_ind, index, phone_buf, edit, priority, chosen>>

-----------------------------------------------------------------------------
Configurer     == EnterConfigurer \/ MoveUp \/ MoveDown \/ Choose \/ ExitConfigurer
PhoneEditor    == Delete \/ ChangeNumber \/ ChangePriority \/ ExitPhone
NumberEditor   == EnterNumber \/ AcceptNumber \/ CancelNumber
PriorityEditor == EnterPriority \/ AcceptPriority \/ CancelPriority

Next == Configurer \/ PhoneEditor \/ NumberEditor \/ PriorityEditor \/ Armed

Spec == Init /\ [][Next]_vars

-----------------------------------------------------------------------------
TypeOK ==
    /\ phones \in [Indexes -> Numbers \cup {NoNumber}] /\ phones_count \in 0..MaxPhones
    /\ screen \in {"menu", "phones", "phone", "number", "priority"}
    /\ phones_num \in 0..MaxPhones /\ phone_ind \in Indexes /\ index \in Indexes
    /\ phone_buf \in Numbers \cup {NoNumber} /\ edit \in BOOLEAN
    /\ priority \in 0..MaxPhones /\ chosen \in Indexes

List == [k \in 1..phones_count |-> phones[k - 1]]

\* What becomes of the list when the chosen phone is deleted, changed or moved, or one is added.
Intended ==
    LET place == chosen + 1
    IN  CASE screen = "phone"              -> {RemoveAt(List, place)}
          [] screen = "number" /\ edit     -> {ReplaceAt(List, place, phone_buf)}
          [] screen = "number" /\ ~edit    -> {Append(List, phone_buf)}
          [] screen = "priority"           -> {InsertAt(RemoveAt(List, place), Min({priority, Len(List)}), List[place])}
          [] OTHER                         -> {}

\* A list of phones is edited as the user meant it: what is deleted, renumbered or moved is
\* the phone that was displayed when it was chosen, the others keep their order, none is
\* lost or doubled; and the configurer displays an actual phone or the place behind them.
EditsChosenPhone ==
    [][/\ List' # List => List' \in Intended
       /\ screen' = "phones" => phones_num' = phones_count' /\ phone_ind' <= phones_count'
       /\ screen = "priority" /\ screen' = "phone" => phone_ind' = chosen']_vars
=============================================================================
