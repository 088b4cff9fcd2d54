------------------------------- MODULE Alarm --------------------------------
(***************************************************************************)
(* The alarm (Alarm/alarm.cpp): its state, which the user's interface, the *)
(* menu of a phone call (the "gsm" task) and the timers' task change, and  *)
(* the alarm's own task, which follows it: it starts and stops the timers, *)
(* switches the siren, answers calls and notifies all phones of an alert.  *)
(*                                                                         *)
(* The alarm's, the user interface's and the "gsm" task have one priority: *)
(* their steps interleave.  The timers' task has the highest one, so its   *)
(* callbacks are one step each and its commands take effect before they    *)
(* return.  Phone calls are modelled in GsmCall: here one is answered or   *)
(* not, gives a key at most once, and ends.                                *)
(***************************************************************************)
EXTENDS Naturals

CONSTANT Phones  \* number of phones in the settings; they are not edited while the alarm is armed

ASSUME PhonesAssumption == Phones \in Nat

State   == {"DISARMED", "ARMED", "TRIGGERED", "ALERTING"}
Request == {"CHANGE_STATE", "ANSWER_CALL"}
Tasks   == {"ui", "gsm"}  \* tasks that arm, disarm and ask to answer
\* A timer that was started elapses only after its period.
Timer   == {"stopped", "started", "due"}

VARIABLES
    state,            \* state
    requests,         \* service_requests
    \* the alarm's task
    at,               \* where it is
    notified,         \* it has a notification
    ended,            \* value of the notification: the call's end was given
    stateNow,         \* state_now
    notifyTriggered,  \* notify_triggered
    phoneIndex,       \* phone_index
    \* what it controls
    zonesTimer, alertTimer, siren,
    menu,             \* the state whose callbacks are set
    \* the call
    call, optionSelected,
    \* the tasks in arm(), disarm() or filter_incoming_call()
    telling, wish,
    \* the user's interface
    uiEvent,          \* ALARM_EVENT
    uiView,           \* the controller: a view of the disarmed or the armed alarm
    \* history
    delayed,          \* the delay for disarming was started for this TRIGGERED
    tried,            \* phones that had their turn since the state was served
    callsAfter        \* calls made since the alarm was disarmed, until that is served, at most 2

serviceV == <<at, stateNow, notifyTriggered, phoneIndex>>
noteV    == <<notified, ended>>
outV     == <<zonesTimer, alertTimer, siren, menu>>
callV    == <<call, optionSelected>>
tellV    == <<telling, wish>>
uiV      == <<uiEvent, uiView>>
histV    == <<delayed, tried, callsAfter>>
vars == <<state, requests, serviceV, noteV, outV, callV, tellV, uiV, histV>>

TypeService ==
    /\ at \in {"wait", "answer", "accept", "talk", "change", "read", "first", "second", "callbacks", "notify", "call", "alert_talk", "loop"}
    /\ stateNow \in State /\ notifyTriggered \in BOOLEAN
    /\ phoneIndex \in 0..Phones /\ tried \subseteq 0..(Phones - 1)

TypeOutputs ==
    /\ zonesTimer \in Timer /\ alertTimer \in Timer /\ siren \in BOOLEAN
    /\ menu \in {"DISARMED", "ARMED", "ALERTING"}
    /\ call \in {"none", "ringing", "talking"} /\ optionSelected \in BOOLEAN
    /\ callsAfter \in 0..2

TypeOthers ==
    /\ state \in State /\ requests \subseteq Request
    /\ notified \in BOOLEAN /\ ended \in BOOLEAN /\ delayed \in BOOLEAN
    /\ telling \in [Tasks -> {"idle", "event", "request", "notify"}]
    /\ wish \in [Tasks -> Request]
    /\ uiEvent \in BOOLEAN /\ uiView \in {"desktop", "read", "disabler"}

TypeOK == TypeService /\ TypeOutputs /\ TypeOthers

Init ==
    /\ state = "DISARMED" /\ requests = {}
    /\ at = "wait" /\ notified = FALSE /\ ended = FALSE
    /\ stateNow = "DISARMED" /\ notifyTriggered = FALSE /\ phoneIndex = 0
    /\ zonesTimer = "stopped" /\ alertTimer = "stopped" /\ siren = FALSE
    /\ menu = "DISARMED"
    /\ call = "none" /\ optionSelected = FALSE
    /\ telling = [t \in Tasks |-> "idle"] /\ wish = [t \in Tasks |-> "CHANGE_STATE"]
    /\ uiEvent = FALSE /\ uiView = "desktop"
    /\ delayed = FALSE /\ tried = {} /\ callsAfter = 0

IsArmed == state # "DISARMED"

Idle(t) == telling[t] = "idle"
-----------------------------------------------------------------------------
(* arm(), disarm() and filter_incoming_call() of the user's interface and the "gsm" task *)

SetState(t, target) ==
    /\ state' = target
    /\ telling' = [telling EXCEPT ![t] = "event"]
    /\ wish' = [wish EXCEPT ![t] = "CHANGE_STATE"]
    /\ delayed' = FALSE
    /\ callsAfter' = IF target = "ARMED" THEN 0 ELSE callsAfter

\* A controller arms or disarms.  ALARM_EVENT is served before the keyboard and the delay.
UiChoice ==
    /\ Idle("ui") /\ ~uiEvent
    /\ \/ uiView = "desktop" /\ SetState("ui", "ARMED")
       \/ uiView = "disabler" /\ SetState("ui", "DISARMED")
    /\ UNCHANGED <<requests, serviceV, noteV, outV, callV, uiV, tried>>

\* armed_menu() or disarmed_menu(), as they are set, for '1'.
Menu ==
    /\ call = "talking" /\ Idle("gsm") /\ ~optionSelected
    /\ optionSelected' = TRUE
    /\ SetState("gsm", IF menu = "DISARMED" THEN "ARMED" ELSE "DISARMED")
    /\ UNCHANGED <<requests, serviceV, noteV, outV, call, uiV, tried>>

\* user_interface::alarm_armed() and alarm_disarmed().
TellUi(t) ==
    /\ telling[t] = "event"
    /\ uiEvent' = TRUE
    /\ telling' = [telling EXCEPT ![t] = "request"]
    /\ UNCHANGED <<state, requests, serviceV, noteV, outV, callV, wish, uiView, histV>>

\* request(): the request is set, ...
SetRequest(t) ==
    /\ telling[t] = "request"
    /\ requests' = requests \cup {wish[t]}
    /\ telling' = [telling EXCEPT ![t] = "notify"]
    /\ UNCHANGED <<state, serviceV, noteV, outV, callV, wish, uiV, histV>>

\* ... and the alarm's task notified.
Notify(t) ==
    /\ telling[t] = "notify"
    /\ notified' = TRUE
    /\ telling' = [telling EXCEPT ![t] = "idle"]
    /\ wish' = [wish EXCEPT ![t] = "CHANGE_STATE"]
    /\ UNCHANGED <<state, requests, serviceV, ended, outV, callV, uiV, histV>>

\* A call of a known phone.
IncomingCall ==
    /\ call = "none" /\ Idle("gsm")
    /\ call' = "ringing"
    /\ telling' = [telling EXCEPT !["gsm"] = "request"]
    /\ wish' = [wish EXCEPT !["gsm"] = "ANSWER_CALL"]
    /\ UNCHANGED <<state, requests, serviceV, noteV, outV, optionSelected, uiV, histV>>

HangUp ==
    /\ call = "ringing"
    /\ call' = "none"
    /\ UNCHANGED <<state, requests, serviceV, noteV, outV, optionSelected, tellV, uiV, histV>>

\* The other side, the menu or the choice timer has ended the call: call_ended().
CallEnds ==
    /\ call = "talking" /\ Idle("gsm")
    /\ call' = "none"
    /\ ended' = TRUE /\ notified' = TRUE
    /\ UNCHANGED <<state, requests, serviceV, outV, optionSelected, tellV, uiV, histV>>

-----------------------------------------------------------------------------
(* The user's interface: service_ui_events() serves ALARM_EVENT *)

ClearAlarmEvent ==
    /\ Idle("ui") /\ uiEvent /\ uiView # "read"
    /\ uiEvent' = FALSE
    /\ uiView' = "read"
    /\ UNCHANGED <<state, requests, serviceV, noteV, outV, callV, tellV, histV>>

ChangeController ==
    /\ uiView = "read"
    /\ uiView' = IF IsArmed THEN "disabler" ELSE "desktop"
    /\ UNCHANGED <<state, requests, serviceV, noteV, outV, callV, tellV, uiEvent, histV>>

-----------------------------------------------------------------------------
(* The timers' task *)

\* arm(), disarm() and a pass of the alarm's task take far less than the period of
\* the zones' check (0.5 s) and the delay for disarming.
NobodyIsHalfway ==
    /\ \A t \in Tasks : Idle(t) \/ wish[t] = "ANSWER_CALL"
    /\ at \in {"wait", "accept", "talk", "call", "alert_talk"}

PeriodElapses ==
    /\ NobodyIsHalfway
    /\ "started" \in {zonesTimer, alertTimer}
    /\ zonesTimer' = IF zonesTimer = "started" THEN "due" ELSE zonesTimer
    /\ alertTimer' = IF alertTimer = "started" THEN "due" ELSE alertTimer
    /\ UNCHANGED <<state, requests, serviceV, noteV, siren, menu, callV, tellV, uiV, histV>>

\* Mutant: the alarm's task is not notified.
SetStateIfCurrentSilent(target, expected) ==
    /\ UNCHANGED notified
    /\ IF state = expected
       THEN state' = target /\ requests' = requests \cup {"CHANGE_STATE"}
       ELSE UNCHANGED <<state, requests>>

\* set_state_if_current() and request()
SetStateIfCurrent(target, expected) ==
    IF state = expected
    THEN state' = target /\ requests' = requests \cup {"CHANGE_STATE"} /\ notified' = TRUE
    ELSE UNCHANGED <<state, requests, notified>>

\* check_zones() finds an active zone; the timer is periodic.
CheckZones ==
    /\ zonesTimer = "due"
    /\ SetStateIfCurrent("TRIGGERED", "ARMED")
    /\ UNCHANGED <<serviceV, ended, outV, callV, tellV, uiV, histV>>

StartAlerting ==
    /\ alertTimer = "due"
    /\ alertTimer' = "stopped"
    /\ SetStateIfCurrent("ALERTING", "TRIGGERED")
    /\ delayed' = FALSE
    /\ UNCHANGED <<serviceV, ended, zonesTimer, siren, menu, callV, tellV, uiV, tried, callsAfter>>

-----------------------------------------------------------------------------
(* service_alarm(): the alarm's task *)

Env == <<tellV, uiV>>

\* xTaskNotifyWait()
Wake ==
    /\ at = "wait" /\ notified
    /\ notified' = FALSE
    /\ at' = "answer"
    /\ UNCHANGED <<state, requests, ended, stateNow, notifyTriggered, phoneIndex, outV, callV, Env, histV>>

\* was_requested(req): goes on at yes or at no.
WasRequested(req, yes, no) ==
    /\ requests' = requests \ {req}
    /\ at' = IF req \in requests THEN yes ELSE no

AnswerRequested ==
    /\ at = "answer"
    /\ WasRequested("ANSWER_CALL", "accept", "change")
    /\ UNCHANGED <<state, stateNow, notifyTriggered, phoneIndex, noteV, outV, callV, Env, histV>>

\* accept_call()
AcceptCall ==
    /\ at = "accept"
    /\ optionSelected' = FALSE
    /\ \/ call = "ringing" /\ call' = "talking" /\ at' = "talk"
       \/ call' = (IF call = "ringing" THEN "none" ELSE call) /\ at' = "change"
    /\ UNCHANGED <<state, requests, stateNow, notifyTriggered, phoneIndex, noteV, outV, Env, histV>>

\* wait_call_end() takes every notification, that of a request, too.
WaitCallEnd ==
    /\ at \in {"talk", "alert_talk"} /\ notified
    /\ notified' = FALSE /\ ended' = FALSE
    /\ IF ~ended THEN UNCHANGED <<at, phoneIndex>>
       ELSE IF at = "talk" THEN at' = "change" /\ UNCHANGED phoneIndex
       ELSE at' = "loop" /\ phoneIndex' = phoneIndex + 1
    /\ UNCHANGED <<state, requests, stateNow, notifyTriggered, outV, callV, Env, histV>>

ChangeRequested ==
    /\ at = "change"
    /\ WasRequested("CHANGE_STATE", "read", "notify")
    /\ UNCHANGED <<state, stateNow, notifyTriggered, phoneIndex, noteV, outV, callV, Env, histV>>

ReadState ==
    /\ at = "read"
    /\ stateNow' = state
    /\ at' = "first"
    /\ UNCHANGED <<state, requests, notifyTriggered, phoneIndex, noteV, outV, callV, Env, histV>>

\* Mutant: the request is cleared when it is served.
FirstPartClears ==
    /\ at = "first"
    /\ at' = "second"
    /\ requests' = requests \ {"CHANGE_STATE"}
    /\ siren' = IF stateNow = "TRIGGERED" THEN siren ELSE stateNow = "ALERTING"
    /\ notifyTriggered' = IF stateNow = "TRIGGERED" THEN notifyTriggered ELSE stateNow = "ALERTING"
    /\ phoneIndex' = IF stateNow = "ALERTING" THEN 0 ELSE phoneIndex
    /\ tried' = {} /\ callsAfter' = 0
    /\ zonesTimer' = CASE stateNow = "ARMED" -> "started" [] stateNow = "ALERTING" -> zonesTimer [] OTHER -> "stopped"
    /\ UNCHANGED <<state, stateNow, noteV, alertTimer, menu, callV, Env, delayed>>

\* The branches by state_now, up to the command to the zones' timer, ...
FirstPart ==
    /\ at = "first"
    /\ at' = "second"
    /\ siren' = IF stateNow = "TRIGGERED" THEN siren ELSE stateNow = "ALERTING"
    /\ notifyTriggered' = IF stateNow = "TRIGGERED" THEN notifyTriggered ELSE stateNow = "ALERTING"
    /\ phoneIndex' = IF stateNow = "ALERTING" THEN 0 ELSE phoneIndex
    /\ tried' = {} /\ callsAfter' = 0
    /\ zonesTimer' = CASE stateNow = "ARMED" -> "started" [] stateNow = "ALERTING" -> zonesTimer [] OTHER -> "stopped"
    /\ UNCHANGED <<state, requests, stateNow, noteV, alertTimer, menu, callV, Env, delayed>>

\* Mutant: only disarming stops the alert's timer.
SecondPartKeeps ==
    /\ at = "second"
    /\ at' = "callbacks"
    /\ alertTimer' = CASE stateNow = "TRIGGERED" -> "started" [] stateNow = "DISARMED" -> "stopped" [] OTHER -> alertTimer
    /\ delayed' = (state = "TRIGGERED" /\ (delayed \/ stateNow = "TRIGGERED"))
    /\ UNCHANGED <<state, requests, stateNow, notifyTriggered, phoneIndex, noteV, zonesTimer, siren, menu, callV, Env, tried, callsAfter>>

\* ... and the one to the alert's timer.
SecondPart ==
    /\ at = "second"
    /\ at' = "callbacks"
    /\ alertTimer' = CASE stateNow = "TRIGGERED" -> "started" [] stateNow = "ALERTING" -> alertTimer [] OTHER -> "stopped"
    /\ delayed' = (state = "TRIGGERED" /\ (delayed \/ stateNow = "TRIGGERED"))
    /\ UNCHANGED <<state, requests, stateNow, notifyTriggered, phoneIndex, noteV, zonesTimer, siren, menu, callV, Env, tried, callsAfter>>

MenuOf(s) == IF s = "TRIGGERED" THEN "ARMED" ELSE s

\* Mutant: the callbacks of the disarmed alarm stay.
SetCallbacksForgets ==
    /\ at = "callbacks"
    /\ at' = "notify"
    /\ stateNow' = "DISARMED"
    /\ UNCHANGED <<state, requests, notifyTriggered, phoneIndex, noteV, outV, callV, Env, histV>>

\* set_callbacks_for()
SetCallbacks ==
    /\ at = "callbacks"
    /\ at' = "notify"
    /\ menu' = MenuOf(stateNow)
    /\ stateNow' = "DISARMED"
    /\ UNCHANGED <<state, requests, notifyTriggered, phoneIndex, noteV, zonesTimer, alertTimer, siren, callV, Env, histV>>

\* notify_triggered: the next phone, if there is one and a mobile network.
NextPhone ==
    /\ at = "notify"
    /\ IF notifyTriggered /\ phoneIndex < Phones
       THEN at' \in {"call", "loop"} /\ UNCHANGED notifyTriggered
       ELSE at' = "loop" /\ notifyTriggered' = FALSE
    /\ UNCHANGED <<state, requests, stateNow, phoneIndex, noteV, outV, callV, Env, histV>>

\* A call takes longer than arm() and disarm() do.
CallTakesTime == call = "none" /\ \A t \in Tasks : Idle(t)

\* It is the next phone's turn if an SMS was sent or there is a network.
GoesOn == phoneIndex' \in {phoneIndex, phoneIndex + 1}

Called ==
    /\ optionSelected' = FALSE
    /\ tried' = tried \cup {phoneIndex}
    /\ callsAfter' = IF state = "DISARMED" /\ callsAfter < 2 THEN callsAfter + 1 ELSE callsAfter

\* make_call() is answered; ...
CallDone ==
    /\ at = "call" /\ CallTakesTime
    /\ call' = "talking" /\ at' = "alert_talk"
    /\ Called
    /\ UNCHANGED <<state, requests, stateNow, notifyTriggered, phoneIndex, noteV, outV, Env, delayed>>

\* ... or it is not.
CallFailed ==
    /\ at = "call" /\ CallTakesTime
    /\ at' = "loop"
    /\ GoesOn
    /\ Called
    /\ UNCHANGED <<state, requests, stateNow, notifyTriggered, noteV, outV, call, Env, delayed>>

\* call() refuses while a call comes in: ERROR.
CallRefused ==
    /\ at = "call" /\ call # "none"
    /\ at' = "loop"
    /\ optionSelected' = FALSE
    /\ GoesOn
    /\ tried' = tried \cup {phoneIndex}
    /\ UNCHANGED <<state, requests, stateNow, notifyTriggered, noteV, outV, call, Env, delayed, callsAfter>>

\* Mutant: requests are served when everybody was notified.
LoopNotifies ==
    /\ at = "loop"
    /\ at' = IF notifyTriggered THEN "notify" ELSE IF requests # {} THEN "answer" ELSE "wait"
    /\ UNCHANGED <<state, requests, stateNow, notifyTriggered, phoneIndex, noteV, outV, callV, Env, histV>>

\* while (service_requests || notify_triggered)
Loop ==
    /\ at = "loop"
    /\ at' = IF requests # {} \/ notifyTriggered THEN "answer" ELSE "wait"
    /\ UNCHANGED <<state, requests, stateNow, notifyTriggered, phoneIndex, noteV, outV, callV, Env, histV>>

-----------------------------------------------------------------------------
Telling(t) == TellUi(t) \/ SetRequest(t) \/ Notify(t)

UserInterface == ClearAlarmEvent \/ ChangeController

World == UiChoice \/ Menu \/ IncomingCall \/ HangUp \/ CheckZones

Service == \/ Wake \/ AnswerRequested \/ AcceptCall \/ WaitCallEnd
           \/ ChangeRequested \/ ReadState \/ FirstPart \/ SecondPart \/ SetCallbacks
           \/ NextPhone \/ CallDone \/ CallFailed \/ CallRefused \/ Loop

Next == World \/ (\E t \in Tasks : Telling(t)) \/ CallEnds \/ UserInterface \/ PeriodElapses \/ StartAlerting \/ Service

Spec == Init /\ [][Next]_vars

(***************************************************************************)
(* Fairness.  The tasks of one priority share the processor, timers        *)
(* elapse, a call ends (GsmCall), and calls of others leave time for ours. *)
(***************************************************************************)
Fairness ==
    /\ \A t \in Tasks : WF_vars(Telling(t))
    /\ SF_vars(Service) /\ SF_vars(CallEnds)
    /\ SF_vars(PeriodElapses) /\ WF_vars(StartAlerting)

FairSpec == Spec /\ Fairness
-----------------------------------------------------------------------------
(* Properties *)

Quiet == at = "wait" /\ ~notified /\ \A t \in Tasks : Idle(t)

\* No request is lost between the tasks: when the alarm's task sleeps and nobody is
\* about to wake it, it has served all requests, and timers, siren and the callbacks
\* for calls are those of the state.
ServedFollowsState ==
    Quiet =>
        /\ requests = {} /\ ~notifyTriggered
        /\ siren = (state = "ALERTING")
        /\ zonesTimer = "stopped" <=> state # "ARMED"
        /\ state = "TRIGGERED" => alertTimer # "stopped"
        /\ state \in {"DISARMED", "ARMED"} => alertTimer = "stopped"
        /\ menu = MenuOf(state)

\* "arm-disarm-arm-... does not lead to inconsistent controller": when the interface
\* has nothing to do it shows the alarm's state, whoever changed it.
UiFollowsState ==
    ~uiEvent /\ uiView # "read" /\ (\A t \in Tasks : telling[t] # "event") => (uiView = "disabler" <=> IsArmed)

\* Alarm, interface, timers and siren agree when nothing is on the way between them.
EverybodyFollowsState == ServedFollowsState /\ UiFollowsState

\* An alert is revoked only by disarming: neither the interface nor a menu whose
\* callbacks were set for an earlier state arms the alarm while it alerts.  (A menu may
\* do so while it is triggered: an answer is served before a change of the state.)
OnlyDisarmingEndsAlert == [][state = "ALERTING" => state' = "DISARMED"]_state

\* An alert begins only when the delay for disarming was started after the zone was
\* found active, whatever timers earlier states have left.
AlertAfterDelay == [][state' = "ALERTING" => delayed]_state

\* After disarming, at most the call that was about to be made is made.
AtMostOneCallAfterDisarming == callsAfter <= 1

AlertIsServed == at = "wait" /\ ~notified /\ state = "ALERTING" /\ menu = "ALERTING" /\ requests = {}

\* When the alarm's task has nobody left to notify, everybody had a turn in this
\* alert, however many alerts were broken off before.
EverybodyHasTurn == AlertIsServed => tried = 0..(Phones - 1)

\* Calls are those of the present alert: all of them, and none after it.
CallsFollowAlert == AtMostOneCallAfterDisarming /\ EverybodyHasTurn

\* A triggered alarm that is not disarmed alerts.
TriggeredAlerts == state = "TRIGGERED" ~> state # "TRIGGERED"

\* The siren sounds in every alert that is not disarmed.
AlertSounds == state = "ALERTING" ~> siren \/ state # "ALERTING"

\* A zone that is found active makes the siren sound, unless the alarm is disarmed.
TriggeredSounds == TriggeredAlerts /\ AlertSounds
=============================================================================
