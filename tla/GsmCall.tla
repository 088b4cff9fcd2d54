------------------------------ MODULE GsmCall -------------------------------
(***************************************************************************)
(* A phone call of the alarm: the phases of a call (GSMService/call.cpp),  *)
(* the "gsm" task that turns them into callbacks (callback_handling.cpp),  *)
(* and what the alarm does in these callbacks and in its own task          *)
(* (Alarm/alarm.cpp) until the call has ended.                             *)
(*                                                                         *)
(* The driver's task has a higher priority than the "gsm" and the alarm's  *)
(* task and handles a message of the SIM900 module as it comes, so what    *)
(* happens to the line and its handling are one step.  GsmControl shows    *)
(* that the controls have one owner: here they are free if no command is   *)
(* in progress and no reboot is due.                                       *)
(***************************************************************************)
EXTENDS Naturals

CONSTANTS
    Callers,   \* who calls, by is_known_phone()
    MaxFaults  \* how often commands stay unanswered or the module fails

ASSUME CallersAssumption == Callers \subseteq {"known", "unknown"}

ASSUME MaxFaultsAssumption == MaxFaults \in Nat

\* Direction is left out: the phase RINGING is only of incoming calls, and the alarm's
\* on_call_dialed does not use it.
Phase     == {"NONE", "STARTED", "RINGING", "SPEAKING", "ENDED"}
Caller    == Callers \cup {"known"}  \* of a phone_number; "known" before there is one
Event     == {"CALL_STATE_CHANGED", "KEY_PRESSED"}
\* The module's call.  "info": +CLCC of an incoming call was sent, RING was not;
\* "answered": ATA is answered, +CLCC "speaking" is to come; "failed": an outgoing
\* call has ended, the reason is to come.
Line      == {"none", "info", "ringing", "answered", "incoming", "dialing", "failed", "outgoing"}
Command   == {"none", "call", "wait_call_state", "wait_call_end", "accept_call", "reject_call", "end_call"}
Wav       == {"none", "notice", "confirm"}

VARIABLES
    line, caller,    \* the module's call; who is calling
    \* call.cpp, written by the driver's task
    actual,          \* actual_call_phase
    number,          \* phone_number
    command,         \* the driver's command
    result,          \* result_queue: "none" or whether the call was dialed / accepted
    reboot,          \* REBOOT is scheduled
    faults,          \* how often it was
    \* callback_handling.cpp, the "gsm" task
    bits,            \* its notification bits
    gsm,             \* where it is
    gsmBits, actualNow,   \* its local variables
    handled,         \* handled_call_phase
    \* alarm.cpp
    service,         \* where the alarm's task is
    wanted,          \* the method it is about to invoke or waits for
    answer,          \* Request::ANSWER_CALL
    ended,           \* the task's notification value: the call's end was given
    optionSelected,  \* option_selected
    playing,         \* what the player plays into the call
    choiceTimer,     \* choice_timer is running
    enders,          \* tasks blocked in get_ctrl() to end the call
    \* history
    dialed           \* "on call dialed" was invoked, "on call ended" was not yet

lineV    == <<line, caller>>
phaseV   == <<actual, number>>
faultV   == <<reboot, faults>>
commandV == <<command, result, faultV>>
gsmV     == <<gsm, gsmBits, actualNow, handled>>
serviceV == <<service, wanted>>
menuV    == <<optionSelected, playing, choiceTimer>>
vars == <<lineV, phaseV, commandV, bits, gsmV, serviceV, answer, ended, menuV, enders, dialed>>

TypeDriver ==
    /\ line \in Line /\ caller \in Caller
    /\ actual \in Phase /\ number \in Caller
    /\ command \in Command
    /\ result \in {"none", "success", "failure"}
    /\ reboot \in BOOLEAN

TypeFaults == faults \in 0..MaxFaults

TypeTasks ==
    /\ gsm \in {"wait", "snapshot", "dispatch", "end_call", "ended", "stop"}
    /\ actualNow \in Phase /\ handled \in Phase \ {"ENDED"}
    /\ service \in {"idle", "get_ctrl", "result", "wait_end"}
    /\ wanted \in {"call", "accept_call"}
    /\ playing \in Wav

TypeFlags ==
    /\ answer \in BOOLEAN /\ ended \in BOOLEAN /\ dialed \in BOOLEAN
    /\ optionSelected \in BOOLEAN /\ choiceTimer \in BOOLEAN

TypeSets == bits \subseteq Event /\ gsmBits \subseteq Event /\ enders \subseteq {"timers", "player"}

TypeOK == TypeDriver /\ TypeFaults /\ TypeTasks /\ TypeFlags /\ TypeSets

Init ==
    /\ line = "none" /\ caller = "known"
    /\ actual = "NONE" /\ number = "known"
    /\ command = "none" /\ result = "none" /\ reboot = FALSE /\ faults = 0
    /\ bits = {} /\ gsm = "wait" /\ gsmBits = {}
    /\ actualNow = "NONE" /\ handled = "NONE"
    /\ service = "idle" /\ wanted = "call"
    /\ answer = FALSE /\ ended = FALSE
    /\ optionSelected = FALSE /\ playing = "none" /\ choiceTimer = FALSE
    /\ enders = {}
    /\ dialed = FALSE

-----------------------------------------------------------------------------
(* call.cpp: unsolicited messages, in the driver's task *)

IsDialing(phase) == phase \in {"STARTED", "RINGING"}
IsOngoing(phase) == phase \in {"STARTED", "RINGING", "SPEAKING"}

ChangeCallPhase(phase) ==
    /\ actual' = phase
    /\ bits' = bits \cup {"CALL_STATE_CHANGED"}

UnchangedPhase == UNCHANGED <<actual, bits>>

\* The module has no call any longer.
LineEnds == line' = "none" /\ caller' = "known"

\* Mutant: the "gsm" task is not notified.
EndPhaseSilent == actual' = (IF IsOngoing(actual) THEN "ENDED" ELSE actual) /\ UNCHANGED bits

\* Ends the call if there is one (end_done, on_call_end, terminate_calls).
EndPhase == IF IsOngoing(actual) THEN ChangeCallPhase("ENDED") ELSE UnchangedPhase

Others == <<gsmV, service, wanted, answer, ended, menuV, enders, dialed>>

\* Mutant: a new call is taken over whatever phase the previous one is in.
IncomingCallEager(who) ==
    /\ line = "none"
    /\ line' = "info" /\ caller' = who
    /\ number' = who /\ ChangeCallPhase("STARTED")
    /\ UNCHANGED <<commandV, Others>>

\* on_call_update(): +CLCC of a new incoming call.  (While the module dials or speaks
\* a further call is reported as waiting, which nothing handles.)
IncomingCall(who) ==
    /\ line = "none"
    /\ line' = "info" /\ caller' = who
    /\ IF actual = "NONE"
       THEN number' = who /\ ChangeCallPhase("STARTED")
       ELSE UNCHANGED number /\ UnchangedPhase
    /\ UNCHANGED <<commandV, Others>>

\* on_ring()
Ring ==
    /\ line \in {"info", "ringing"}
    /\ line' = "ringing"
    /\ IF actual = "STARTED" THEN ChangeCallPhase("RINGING") ELSE UnchangedPhase
    /\ UNCHANGED <<caller, number, commandV, Others>>

\* on_call_update(): +CLCC of a call that was answered.
IncomingSpeaking ==
    /\ line = "answered"
    /\ line' = "incoming"
    /\ IF IsDialing(actual) THEN ChangeCallPhase("SPEAKING") ELSE UnchangedPhase
    /\ UNCHANGED <<caller, number, commandV, Others>>

\* on_call_end(): the other side has ended the call.  The message is an answer to
\* "ATD" if that has none yet, and a final one for wait_call_end.
RemoteEnd ==
    /\ line \in {"info", "ringing", "answered", "incoming", "outgoing"}
    /\ LineEnds
    /\ IF command = "call"
       THEN command' = "none" /\ result' = "failure" /\ UnchangedPhase
       ELSE EndPhase /\ UNCHANGED <<command, result>>
    /\ UNCHANGED <<number, faultV, Others>>

KeyPressed ==
    /\ line \in {"incoming", "outgoing"}
    /\ bits' = bits \cup {"KEY_PRESSED"}
    /\ UNCHANGED <<lineV, phaseV, commandV, Others>>

-----------------------------------------------------------------------------
(* call.cpp: ends of commands, in the driver's task *)

\* future_result() and executed().
Return(res) == result' = res /\ command' = "none"

\* The module does not answer, or not as it should: schedule_reboot().
Fault == faults < MaxFaults /\ faults' = faults + 1 /\ reboot' = TRUE

\* call_started
CallStarted ==
    /\ command = "call"
    /\ \/ /\ line = "none"
          /\ line' = "dialing"
          /\ command' = "wait_call_state"
          /\ UNCHANGED <<result, faultV>>
       \/ /\ Return("failure")
          /\ UNCHANGED faultV \/ Fault
          /\ UNCHANGED line
    /\ UNCHANGED <<caller, actual, number, bits, Others>>

\* dialing_known: +CLCC of the outgoing call, or DIALING_TIMEOUT_ms elapsed.
DialingKnown ==
    /\ command = "wait_call_state" /\ line = "dialing"
    /\ \/ line' = "outgoing" /\ ChangeCallPhase("SPEAKING") /\ Return("success") /\ UNCHANGED faultV
       \/ line' = "failed" /\ command' = "wait_call_end" /\ UnchangedPhase /\ UNCHANGED <<result, faultV>>
       \/ Fault /\ Return("failure") /\ UnchangedPhase /\ UNCHANGED line
    /\ UNCHANGED <<caller, number, Others>>

\* call_ended: why the other side was not reached.
DialingFailed ==
    /\ command = "wait_call_end"
    /\ LineEnds
    /\ Return("failure")
    /\ UNCHANGED faultV \/ Fault
    /\ UNCHANGED <<phaseV, bits, Others>>

\* accept_done: the module accepts the call that rings, if there is one.
AcceptDone ==
    /\ command = "accept_call"
    /\ \/ /\ line \in {"info", "ringing"}
          /\ line' = "answered"
          /\ IF IsDialing(actual) THEN Return("success") ELSE command' = "reject_call" /\ UNCHANGED result
          /\ UNCHANGED faultV
       \/ line # "ringing" /\ Return("failure") /\ UNCHANGED <<line, faultV>>
       \/ Fault /\ Return("failure") /\ line' \in {line} \cup (IF line = "ringing" THEN {"answered"} ELSE {})
    /\ UNCHANGED <<caller, phaseV, bits, Others>>

\* end_done of accept_call(): a call that is not the handled one was rejected.
RejectDone ==
    /\ command = "reject_call"
    /\ (LineEnds /\ UNCHANGED faultV) \/ (Fault /\ UNCHANGED lineV)
    /\ Return("failure")
    /\ UNCHANGED <<phaseV, bits, Others>>

\* end_done of end_call(): the module does not report the end of a call it was told to end.
EndDone ==
    /\ command = "end_call"
    /\ (LineEnds /\ UNCHANGED faultV) \/ (Fault /\ UNCHANGED lineV)
    /\ command' = "none"
    /\ EndPhase
    /\ UNCHANGED <<number, result, Others>>

\* The module is turned off and on again: terminate_calls().
Reboot ==
    /\ reboot /\ command = "none"
    /\ reboot' = FALSE /\ UNCHANGED faults
    /\ LineEnds
    /\ EndPhase
    /\ UNCHANGED <<number, command, result, Others>>

\* on_hw_malfunction(), while there is a call: GsmControl has the others.
Malfunction ==
    /\ ~reboot /\ line # "none"
    /\ Fault
    /\ UNCHANGED <<lineV, phaseV, command, result, bits, Others>>

-----------------------------------------------------------------------------
(* callback_handling.cpp, and the callbacks of alarm.cpp it invokes *)

CtrlFree == command = "none" /\ ~reboot

\* The player's mutex: held by the player's task while it is blocked in end_call().
PlayerFree == "player" \notin enders

Driven == <<lineV, phaseV, serviceV>>

\* xTaskNotifyWait()
Wake ==
    /\ gsm = "wait" /\ bits # {}
    /\ gsmBits' = bits /\ bits' = {}
    /\ gsm' = "snapshot"
    /\ UNCHANGED <<Driven, commandV, actualNow, handled, answer, ended, menuV, enders, dialed>>

Snapshot ==
    /\ gsm = "snapshot"
    /\ actualNow' = actual
    /\ gsm' = "dispatch"
    /\ UNCHANGED <<Driven, commandV, bits, gsmBits, handled, answer, ended, menuV, enders, dialed>>

\* play_for_gsm(): what was played is stopped; it may fail.
Play(wav, failed) == playing' = IF failed THEN "none" ELSE wav

Dispatching(event) == gsm = "dispatch" /\ event \in gsmBits

\* The local variables are gone when handle_events() returns.
Leave(point) ==
    /\ gsm' = point
    /\ gsmBits' = {} /\ actualNow' = "NONE"

\* On to the bits that are left, from point after event was dealt with.
Remaining(event, point) ==
    IF gsmBits \subseteq {event} THEN Leave(point)
    ELSE gsm' = point /\ gsmBits' = gsmBits \ {event} /\ UNCHANGED actualNow

Dispatched(event) == Remaining(event, IF gsmBits \subseteq {event} THEN "wait" ELSE "dispatch")

\* armed_menu() / disarmed_menu(), for the key that selects something.
HandleKey ==
    /\ Dispatching("KEY_PRESSED")
    /\ IF handled = "SPEAKING" /\ ~optionSelected
       THEN /\ PlayerFree
            /\ optionSelected' = TRUE
            /\ \/ Play("confirm", FALSE) /\ Dispatched("KEY_PRESSED")
               \/ Play("confirm", TRUE) /\ Remaining("KEY_PRESSED", "end_call")
       ELSE Dispatched("KEY_PRESSED") /\ UNCHANGED <<optionSelected, playing>>
    /\ UNCHANGED <<Driven, commandV, bits, handled, answer, ended, choiceTimer, enders, dialed>>

\* end_call() by the "gsm" task, when it gets the controls.
GsmEndCall ==
    /\ gsm = "end_call" /\ CtrlFree
    /\ command' = "end_call"
    /\ gsm' = IF gsmBits = {} THEN "wait" ELSE "dispatch"
    /\ UNCHANGED <<Driven, result, faultV, bits, gsmBits, actualNow, handled, answer, ended, menuV, enders, dialed>>

HandlesPhase == Dispatching("CALL_STATE_CHANGED") /\ "KEY_PRESSED" \notin gsmBits

\* on_incoming_call: filter_incoming_call().
HandleRinging ==
    /\ HandlesPhase
    /\ actualNow = "RINGING" /\ handled # "RINGING"
    /\ handled' = "RINGING"
    /\ IF number = "unknown"
       THEN Leave("end_call") /\ UNCHANGED answer
       ELSE Leave("wait") /\ answer' = TRUE
    /\ UNCHANGED <<Driven, commandV, bits, ended, menuV, enders, dialed>>

\* on_call_dialed: play_notice().
HandleSpeaking ==
    /\ HandlesPhase
    /\ actualNow = "SPEAKING" /\ handled # "SPEAKING"
    /\ PlayerFree
    /\ handled' = "SPEAKING"
    /\ Dispatched("CALL_STATE_CHANGED")
    /\ \/ Play("notice", FALSE) /\ UNCHANGED choiceTimer
       \/ Play("notice", TRUE) /\ choiceTimer' = TRUE
    /\ dialed' = TRUE
    /\ UNCHANGED <<Driven, commandV, bits, answer, ended, optionSelected, enders>>

IsNew(phase) == phase \in {"RINGING", "SPEAKING"} /\ handled # phase

\* Mutant: a call that was not dialed is reported as ended, too.
HandleEndedAlways ==
    /\ HandlesPhase
    /\ ~IsNew(actualNow) /\ actual = "ENDED"
    /\ handled' = "NONE" /\ actual' = "NONE"
    /\ Leave("ended")
    /\ UNCHANGED <<lineV, number, serviceV, commandV, bits, answer, ended, menuV, enders, dialed>>

\* actual_call_phase is read again.
HandleEnded ==
    /\ HandlesPhase
    /\ ~IsNew(actualNow) /\ actual = "ENDED"
    /\ handled' = "NONE" /\ actual' = "NONE"
    /\ Leave(IF handled = "SPEAKING" THEN "ended" ELSE "wait")
    /\ UNCHANGED <<lineV, number, serviceV, commandV, bits, answer, ended, menuV, enders, dialed>>

\* Mutant: handled_call_phase is left as it is.
HandleOtherForgets ==
    /\ HandlesPhase
    /\ ~IsNew(actualNow) /\ actual # "ENDED"
    /\ Dispatched("CALL_STATE_CHANGED")
    /\ UNCHANGED <<Driven, commandV, bits, handled, answer, ended, menuV, enders, dialed>>

HandleOther ==
    /\ HandlesPhase
    /\ ~IsNew(actualNow) /\ actual # "ENDED"
    /\ handled' = actualNow
    /\ Dispatched("CALL_STATE_CHANGED")
    /\ UNCHANGED <<Driven, commandV, bits, answer, ended, menuV, enders, dialed>>

\* on_call_ended: call_ended() stops the timer, ...
StopChoice ==
    /\ gsm = "ended"
    /\ choiceTimer' = FALSE
    /\ gsm' = "stop"
    /\ UNCHANGED <<Driven, commandV, bits, gsmBits, actualNow, handled, answer, ended, optionSelected, playing, enders, dialed>>

\* ... the player, when it has the player's mutex, and notifies the alarm's task.
NotifyEnded ==
    /\ gsm = "stop" /\ PlayerFree
    /\ playing' = "none"
    /\ ended' = TRUE
    /\ dialed' = FALSE
    /\ gsm' = "wait"
    /\ UNCHANGED <<Driven, commandV, bits, gsmBits, actualNow, handled, answer, optionSelected, choiceTimer, enders>>

-----------------------------------------------------------------------------
(* alarm.cpp: the alarm's task, the player's task and the timers' task *)

Called == <<lineV, phaseV, bits, gsmV>>

\* accept_call() for Request::ANSWER_CALL.
StartAnswer ==
    /\ service = "idle" /\ answer
    /\ answer' = FALSE
    /\ optionSelected' = FALSE
    /\ service' = "get_ctrl" /\ wanted' = "accept_call"
    /\ UNCHANGED <<Called, commandV, ended, playing, choiceTimer, enders, dialed>>

\* make_call() for an alert.
StartCall ==
    /\ service = "idle"
    /\ optionSelected' = FALSE
    /\ service' = "get_ctrl" /\ wanted' = "call"
    /\ UNCHANGED <<Called, commandV, answer, ended, playing, choiceTimer, enders, dialed>>

\* The method is invoked; call() refuses while another call is handled.
Invoke ==
    /\ service = "get_ctrl" /\ CtrlFree
    /\ IF wanted = "call" /\ actual # "NONE"
       THEN service' = "idle" /\ UNCHANGED command
       ELSE service' = "result" /\ command' = wanted
    /\ UNCHANGED <<Called, result, faultV, wanted, answer, ended, menuV, enders, dialed>>

TakeResult ==
    /\ service = "result" /\ result # "none"
    /\ result' = "none"
    /\ wanted' = "call"
    /\ service' = IF result = "success" THEN "wait_end" ELSE "idle"
    /\ UNCHANGED <<Called, command, faultV, answer, ended, menuV, enders, dialed>>

\* Mutant: the notification is not taken away.
WaitCallEndKeeps ==
    /\ service = "wait_end" /\ ended
    /\ service' = "idle"
    /\ UNCHANGED <<Called, commandV, wanted, answer, ended, menuV, enders, dialed>>

\* wait_call_end()
WaitCallEnd ==
    /\ service = "wait_end" /\ ended
    /\ ended' = FALSE
    /\ service' = "idle"
    /\ UNCHANGED <<Called, commandV, wanted, answer, menuV, enders, dialed>>

\* The player's task has played everything: start_choice_timeout() or end_call().
Played ==
    /\ playing # "none" /\ PlayerFree
    /\ playing' = "none"
    /\ IF playing = "notice"
       THEN choiceTimer' = TRUE /\ UNCHANGED enders
       ELSE enders' = enders \cup {"player"} /\ UNCHANGED choiceTimer
    /\ UNCHANGED <<Called, commandV, serviceV, answer, ended, optionSelected, dialed>>

\* choice_timeout_elapsed()
ChoiceTimeoutElapsed ==
    /\ choiceTimer /\ "timers" \notin enders
    /\ choiceTimer' = FALSE
    /\ enders' = enders \cup {"timers"}
    /\ UNCHANGED <<Called, commandV, serviceV, answer, ended, optionSelected, playing, dialed>>

\* end_call() by the player's or the timers' task, when it gets the controls.
EndCall(t) ==
    /\ t \in enders /\ CtrlFree
    /\ command' = "end_call"
    /\ enders' = enders \ {t}
    /\ UNCHANGED <<Called, result, faultV, serviceV, answer, ended, menuV, dialed>>

-----------------------------------------------------------------------------
Module == \/ \E who \in Callers : IncomingCall(who)
          \/ Ring \/ RemoteEnd \/ KeyPressed \/ Malfunction

Driver == \/ IncomingSpeaking \/ CallStarted \/ DialingKnown \/ DialingFailed
          \/ AcceptDone \/ RejectDone \/ EndDone \/ Reboot

Gsm == \/ Wake \/ Snapshot \/ HandleKey \/ GsmEndCall
       \/ HandleRinging \/ HandleSpeaking \/ HandleEnded \/ HandleOther
       \/ StopChoice \/ NotifyEnded

Service == StartAnswer \/ Invoke \/ TakeResult \/ WaitCallEnd

EndCalls == \E t \in enders : EndCall(t)

Next == Module \/ Driver \/ Gsm \/ Service \/ StartCall \/ Played \/ ChoiceTimeoutElapsed \/ EndCalls

Spec == Init /\ [][Next]_vars

(***************************************************************************)
(* Fairness.  The driver's commands end, timers elapse and sounds end; the *)
(* tasks of one priority share the processor, and a task that waits for    *)
(* the controls gets them: they are given again and again, and waiting     *)
(* tasks of higher priority (player, timers) do not come back at once.     *)
(***************************************************************************)
Fairness ==
    /\ WF_vars(Driver) /\ WF_vars(Played) /\ WF_vars(ChoiceTimeoutElapsed)
    /\ SF_vars(Gsm) /\ SF_vars(Service) /\ SF_vars(EndCalls)

FairSpec == Spec /\ Fairness
-----------------------------------------------------------------------------
(* Properties *)

\* callback_handling.cpp relies on it without a lock: "nobody writes to this var.
\* after phase ENDED", neither the driver's task for the next call nor the end of a
\* command, until the "gsm" task has handled the end.
NobodyWritesAfterEnded == [][actual = "ENDED" => actual' \in {"ENDED", "NONE"} /\ number' = number]_vars

\* No change of the phase is lost between the driver's and the "gsm" task: when the
\* latter has nothing to do, it has handled the actual phase.
HandledFollowsActual == gsm = "wait" /\ "CALL_STATE_CHANGED" \notin bits => handled = actual

\* "On call dialed" and "on call ended" alternate, and the handled phase is
\* SPEAKING exactly in between.
DialedThenEnded == dialed <=> handled = "SPEAKING" \/ gsm \in {"ended", "stop"}

\* The end of a call is handled: the "gsm" task, whose callbacks block on the
\* controls and on the player's mutex, comes back to it.
EndIsHandled == actual = "ENDED" ~> actual = "NONE"

\* A call that was dialed does not last for ever: the choice timer, the menu or the
\* other side end it.
DialedCallEnds == dialed ~> ~dialed

\* Calls end, and their ends are dealt with.
CallsEnd == EndIsHandled /\ DialedCallEnds

\* As long as the module answers, wait_call_end() does not return before the call has
\* ended: no end of an earlier call is left in the task's notification.
WaitEndsWithTheCall == [][faults = 0 /\ service = "wait_end" /\ service' = "idle" => line \notin {"incoming", "outgoing"} \/ ~IsOngoing(actual)]_vars

\* GSMService.h: 'Order of callbacks for both incoming and outgoing: "on call dialed"
\* -> "on call ended"'.  After call() or accept_call() have succeeded, the alarm's
\* task waits for that end; it has to be given or still to come.
EndIsReported ==
    service = "wait_end" =>
        \/ ended \/ dialed \/ line = "answered"
        \/ gsm # "wait" \/ bits # {} \/ actual # "NONE"
=============================================================================
