------------------------------ MODULE Keyboard ------------------------------
(***************************************************************************)
(* The keyboard (UserInterface/keyboard.cpp): edges of the columns and a   *)
(* timer send notices to a service, which debounces, samples and tells     *)
(* clicks from long presses.  A notice is a value that is not overwritten: *)
(* while one is pending, later ones are dropped.                           *)
(*                                                                         *)
(* One key; its contact bounces between the moves of a finger.             *)
(***************************************************************************)
EXTENDS Naturals, Sequences, FiniteSets

CONSTANTS
    SampleCountLimit,   \* SAMPLE_COUNT_LIMIT
    Coincidences        \* what the environment is allowed to do besides, see Environment

VARIABLES
    state,          \* of the service
    notice,         \* pending notification, or NoNotice
    taken,          \* notice the service works on, or NoNotice
    rearming,       \* the state was changed, detect_press_of_any() is next
    timer,          \* ms_timer runs
    exti,           \* edges that interrupt: "press", "release", "none"
    samples,        \* results of the last samples
    finger, contact, bouncing,  \* the key is held, its contact is closed, and not at rest
    reported        \* events since the key was pressed last

serviceV     == <<state, taken, rearming, timer, exti, samples, reported>>
environmentV == <<finger, contact, bouncing>>
vars == <<serviceV, environmentV, notice>>

State    == {"WAIT_PRESS", "DEBOUNCE", "SAMPLING", "WAIT_FAST_RELEASE", "WAIT_LONG_RELEASE"}
Trigger  == {"TIMER", "KEYBOARD"}
NoNotice == [trigger |-> "none", state |-> "none"]
Notice   == [trigger : Trigger, state : State]

\* keyboard::start()
Init ==
    /\ state = "WAIT_PRESS" /\ exti = "press"
    /\ notice = NoNotice /\ taken = NoNotice /\ rearming = FALSE
    /\ timer = FALSE /\ samples = <<>>
    /\ finger = FALSE /\ contact = FALSE /\ bouncing = FALSE
    /\ reported = 0

\* eSetValueWithoutOverwrite
Notified(trigger, inState) ==
    IF notice = NoNotice THEN [trigger |-> trigger, state |-> inState] ELSE notice

\* exti_isr()
NotifiedByKeyboard(inState) ==
    IF inState \in {"WAIT_PRESS", "WAIT_FAST_RELEASE", "WAIT_LONG_RELEASE"}
    THEN Notified("KEYBOARD", inState) ELSE notice

-----------------------------------------------------------------------------
(* The key *)

Interrupts(closes) == exti = (IF closes THEN "press" ELSE "release")

Move(closes) ==
    /\ contact' = closes
    /\ notice' = IF closes # contact /\ Interrupts(closes) THEN NotifiedByKeyboard(state) ELSE notice

\* A finger presses the key, or leaves it, when the contact has come to rest.  It
\* presses again while the service samples only if "early".
Touch ==
    /\ ~bouncing
    /\ "early" \in Coincidences \/ finger \/ state \in {"WAIT_PRESS", "WAIT_LONG_RELEASE"}
    /\ finger' = ~finger
    /\ bouncing' = TRUE
    /\ Move(finger')
    /\ reported' = IF finger' THEN 0 ELSE reported
    /\ UNCHANGED <<state, taken, rearming, timer, exti, samples>>

Bounce ==
    /\ bouncing
    /\ Move(~contact)
    /\ UNCHANGED <<serviceV, finger, bouncing>>

\* Unless "clean", a contact that closes does not come to rest before one of its
\* edges has found the service ready to debounce.
Settle ==
    /\ bouncing /\ contact = finger
    /\ "clean" \in Coincidences \/ (finger => state \notin {"WAIT_PRESS", "WAIT_LONG_RELEASE"})
    /\ bouncing' = FALSE
    /\ UNCHANGED <<serviceV, notice, finger, contact>>

-----------------------------------------------------------------------------
(* Interrupts and the service *)

\* handle_timeout().  Contacts are at rest when DEBOUNCE_250us is over, unless "bounce";
\* the service gets to run in that time, unless "kept".
Timeout ==
    /\ timer
    /\ "bounce" \in Coincidences \/ ~bouncing \/ state = "WAIT_FAST_RELEASE"
    /\ "kept" \in Coincidences \/ notice = NoNotice \/ notice.state = state
    /\ timer' = FALSE
    /\ notice' = IF state \in {"DEBOUNCE", "SAMPLING", "WAIT_FAST_RELEASE"} THEN Notified("TIMER", state) ELSE notice
    /\ UNCHANGED <<state, taken, rearming, exti, samples, reported, environmentV>>

\* service_keyboard(): xTaskNotifyWait()
Take ==
    /\ taken = NoNotice /\ notice # NoNotice
    /\ taken' = notice
    /\ notice' = NoNotice
    /\ UNCHANGED <<state, rearming, timer, exti, samples, reported, environmentV>>

Ignore ==
    /\ taken # NoNotice /\ ~rearming /\ taken.state # state
    /\ taken' = NoNotice
    /\ UNCHANGED <<state, rearming, timer, exti, samples, notice, reported, environmentV>>

Handles(inState) == taken # NoNotice /\ ~rearming /\ taken.state = inState /\ state = inState

Pressed ==
    /\ Handles("WAIT_PRESS")
    /\ state' = "DEBOUNCE"
    /\ exti' = "none"
    /\ timer' = TRUE
    /\ taken' = NoNotice
    /\ UNCHANGED <<rearming, samples, notice, reported, environmentV>>

Debounced ==
    /\ Handles("DEBOUNCE")
    /\ state' = "SAMPLING"
    /\ samples' = <<contact>>
    /\ timer' = TRUE
    /\ taken' = NoNotice
    /\ UNCHANGED <<rearming, exti, notice, reported, environmentV>>

StableKeyboard(all) == Len(all) >= 3 /\ \A i \in (Len(all) - 2)..Len(all) : all[i]

\* Mutant: presses are not detected again.
NonePressedForgets == state' = "WAIT_PRESS" /\ samples' = <<>> /\ UNCHANGED <<exti, timer, notice>>

\* No button is pressed for long: detect_press_of_any()
NonePressed == state' = "WAIT_PRESS" /\ exti' = "press" /\ samples' = <<>> /\ UNCHANGED <<timer, notice>>

\* SAMPLING: a key is pressed, none is, or more samples are needed
Sampled ==
    /\ Handles("SAMPLING")
    /\ LET all == Append(samples, contact) IN
        \/ /\ StableKeyboard(all)
           /\ state' = "WAIT_FAST_RELEASE"
           /\ exti' = "release"      \* detect_release_of()
           /\ notice' = IF contact THEN notice ELSE NotifiedByKeyboard(state')
           /\ timer' = TRUE
           /\ samples' = <<>>
        \/ /\ ~StableKeyboard(all) /\ Len(all) >= SampleCountLimit
           /\ NonePressed
        \/ /\ ~StableKeyboard(all) /\ Len(all) < SampleCountLimit
           /\ samples' = all
           /\ timer' = TRUE
           /\ UNCHANGED <<state, exti, notice>>
    /\ taken' = NoNotice
    /\ UNCHANGED <<rearming, reported, environmentV>>

\* Mutant: a long press does not change the state.
LongPressedStays ==
    /\ Handles("WAIT_FAST_RELEASE") /\ taken.trigger = "TIMER"
    /\ reported' = reported + 1
    /\ rearming' = TRUE
    /\ UNCHANGED <<state, taken, timer, exti, samples, notice, environmentV>>

\* WAIT_FAST_RELEASE: the timeout makes it a long press, the release a click
LongPressed ==
    /\ Handles("WAIT_FAST_RELEASE") /\ taken.trigger = "TIMER"
    /\ state' = "WAIT_LONG_RELEASE"
    /\ reported' = reported + 1
    /\ rearming' = TRUE
    /\ UNCHANGED <<taken, timer, exti, samples, notice, environmentV>>

Clicked ==
    /\ Handles("WAIT_FAST_RELEASE") /\ taken.trigger = "KEYBOARD"
    /\ state' = "WAIT_PRESS"
    /\ timer' = FALSE
    /\ reported' = reported + 1
    /\ rearming' = TRUE
    /\ UNCHANGED <<taken, exti, samples, notice, environmentV>>

LongReleased ==
    /\ Handles("WAIT_LONG_RELEASE")
    /\ state' = "WAIT_PRESS"
    /\ rearming' = TRUE
    /\ UNCHANGED <<taken, timer, exti, samples, notice, reported, environmentV>>

\* detect_press_of_any(): until then an edge still finds the previous setting
DetectPressOfAny ==
    /\ rearming
    /\ exti' = "press"
    /\ rearming' = FALSE
    /\ taken' = NoNotice
    /\ UNCHANGED <<state, timer, samples, notice, reported, environmentV>>

-----------------------------------------------------------------------------
Environment == Touch \/ Bounce \/ Settle
Service == Take \/ Ignore \/ Pressed \/ Debounced \/ Sampled \/ LongPressed \/ Clicked \/ LongReleased \/ DetectPressOfAny
Next == Environment \/ Timeout \/ Service

Spec == Init /\ [][Next]_vars

\* A contact bounces for a short time and comes to rest; some of its bounces find the
\* service waiting.
Ready == state \in {"WAIT_PRESS", "WAIT_LONG_RELEASE"} /\ notice = NoNotice /\ taken = NoNotice

Fairness ==
    /\ WF_vars(Service) /\ WF_vars(Timeout)
    /\ WF_vars(Bounce /\ contact # finger) /\ SF_vars(Bounce /\ Ready)
    /\ SF_vars(Settle)

FairSpec == Spec /\ Fairness

-----------------------------------------------------------------------------
TypeOK ==
    /\ state \in State /\ {notice, taken} \subseteq Notice \cup {NoNotice}
    /\ {rearming, timer, finger, contact, bouncing} \subseteq BOOLEAN
    /\ exti \in {"press", "release", "none"}
    /\ samples \in Seq(BOOLEAN) /\ Len(samples) < SampleCountLimit
    /\ reported \in Nat

\* A press of a key makes one event: neither the bounces of its contact, nor notices
\* left from an earlier state, nor the timeout that comes with the release make another.
OneEventPerPress == reported <= 1

\* The machine does not stop between two states: while the key is not watched, the timer
\* runs or its notice is on its way (a notice that is pending makes the next one vanish).
TimeIsKept ==
    state \in {"DEBOUNCE", "SAMPLING"} =>
        timer \/ [trigger |-> "TIMER", state |-> state] \in {notice, taken}

\* A key that is held is reported, whatever the service was doing when it was pressed.
HeldKeyIsReported == finger ~> (reported > 0 \/ ~finger)

\* Both: a press that is held long enough is reported exactly once.
PressIsReportedOnce == []OneEventPerPress /\ HeldKeyIsReported
=============================================================================
