------------------------------ MODULE Interface ------------------------------
(***************************************************************************)
(* The user's interface (UserInterface.cpp and the controllers).  One task *)
(* serves events one by one and gives keyboard, display and two timers to  *)
(* one controller at a time; who has invoked it waits below it.  The task  *)
(* of the keyboard, that of the timers and whoever arms or disarms come in *)
(* between.  Of the controllers, `editor' stands for those of password,    *)
(* delay and activation of zones, which only differ in what they print and *)
(* set.                                                                    *)
(***************************************************************************)
EXTENDS Naturals, Sequences

CONSTANTS
    AlarmDelay,     \* seconds that alarm_enabler counts
    Coincidences    \* "missed": a key comes between two looks of the service at the keys

VARIABLES
    armed, untold,      \* is_armed(); who changed it has not told the interface
    controller,         \* the one in control, with its ...
    run_activity_timer, ui_active, delaying,
    suspended,          \* those that wait for it to yield, with theirs
    seconds, signal,    \* left to alarm_enabler; desktop's gsm_signal # 0
    events, keys,       \* ui_events; keyboard_events: who was in control at each press
    activity_timer, delay_timer,    \* does it run
    service,            \* what service_ui_events() does
    shown, lit          \* the display: whose contents, is it lighted up

alarmV   == <<armed, untold>>
controlV == <<controller, run_activity_timer, ui_active, delaying, suspended>>
timersV  == <<activity_timer, delay_timer>>
displayV == <<shown, lit>>
vars == <<alarmV, controlV, seconds, signal, events, keys, timersV, service, displayV>>

KEYBOARD_QUEUE_LENGTH == 3
CHANGED_EVENTS == {"INVOKE", "RESUME"}
TIMER_EVENTS   == {"ACTIVITY", "DELAY"}

\* Who invokes whom in handle(); who gives control back.
Invokes == [
    desktop          |-> {"alarm_enabler", "menu"},
    menu             |-> {"zone_viewer", "editor", "phone_configurer"},
    phone_configurer |-> {"number_editor", "phone_editor"},
    phone_editor     |-> {"number_editor", "priority_editor"},
    alarm_disabler   |-> {"notifier"},
    alarm_enabler |-> {}, zone_viewer |-> {}, editor |-> {}, number_editor |-> {}, priority_editor |-> {}, notifier |-> {}]
Yields == DOMAIN Invokes \ {"desktop", "alarm_disabler"}

\* Controllers that refresh what they show every second
Refreshes == {"desktop", "zone_viewer", "alarm_enabler"}

\* service_ui_events() has invoked the desktop.
Init ==
    /\ armed = FALSE /\ untold = FALSE
    /\ controller = "desktop" /\ suspended = <<>>
    /\ signal \in BOOLEAN /\ run_activity_timer = signal
    /\ ui_active = TRUE /\ delaying = TRUE
    /\ seconds = 0
    /\ events = {} /\ keys = <<>>
    /\ activity_timer = signal /\ delay_timer = TRUE
    /\ service = "waits"
    /\ shown = "desktop" /\ lit = TRUE

-----------------------------------------------------------------------------
(* Those who come in between *)

\* handle_keyboard(); the keyboard's task has a higher priority.
Press ==
    /\ service \in {"changes", "no_key"} => "missed" \in Coincidences
    /\ keys' = IF Len(keys) < KEYBOARD_QUEUE_LENGTH THEN Append(keys, controller) ELSE keys
    /\ events' = events \cup {"KEYBOARD"}
    /\ UNCHANGED <<alarmV, controlV, seconds, signal, timersV, service, displayV>>

ActivityTimeout ==
    /\ activity_timer /\ activity_timer' = FALSE
    /\ events' = events \cup {"ACTIVITY"}
    /\ UNCHANGED <<alarmV, controlV, seconds, signal, keys, delay_timer, service, displayV>>

DelayTimeout ==
    /\ delay_timer /\ delay_timer' = FALSE
    /\ events' = events \cup {"DELAY"}
    /\ UNCHANGED <<alarmV, controlV, seconds, signal, keys, activity_timer, service, displayV>>

\* arm() and disarm() by a phone call, ...
ChangeAlarm ==
    /\ ~untold /\ untold' = TRUE
    /\ armed' \in BOOLEAN
    /\ UNCHANGED <<controlV, seconds, signal, events, keys, timersV, service, displayV>>

\* ... which then call alarm_armed() or alarm_disarmed().
TellUi ==
    /\ untold /\ untold' = FALSE
    /\ events' = events \cup {"ALARM"}
    /\ UNCHANGED <<armed, controlV, seconds, signal, keys, timersV, service, displayV>>

-----------------------------------------------------------------------------
(* Giving control *)

Below(c) == [controller |-> c, run |-> run_activity_timer, delaying |-> delaying]

\* Controller::invoke(next), by the one in control.  What next has kept since its last
\* time does not matter: invoke() sets it.
GiveTo(next) ==
    /\ controller' = next
    /\ suspended' = Append(suspended, Below(controller))
    /\ run_activity_timer' = FALSE /\ ui_active' = FALSE /\ delaying' = FALSE

\* The n-th of those that wait gets control back.
GiveBackTo(n) ==
    /\ controller' = suspended[n].controller
    /\ run_activity_timer' = suspended[n].run /\ delaying' = suspended[n].delaying
    /\ ui_active' = FALSE
    /\ suspended' = SubSeq(suspended, 1, n - 1)

\* Controller::yield()
Yield == GiveBackTo(Len(suspended))

-----------------------------------------------------------------------------
(* service_ui_events(), in the order in which it examines the events *)

ServiceOrder == <<{"ALARM"}, CHANGED_EVENTS, {"ACTIVITY"}, {"DELAY"}, {"KEYBOARD"}>>

\* An event of the n-th kind, and none before it, is served.
Serves(n) ==
    /\ service = "waits"
    /\ events \cap ServiceOrder[n] # {}
    /\ \A k \in 1..n - 1 : events \cap ServiceOrder[k] = {}

ServeAlarm ==
    /\ Serves(1)
    /\ events' = events \ {"ALARM"} /\ service' = "alarm"
    /\ UNCHANGED <<alarmV, controlV, seconds, signal, keys, timersV, displayV>>

\* desktop->invoke(alarm_disabler): whatever else was in control is left
DisablerOverDesktop ==
    /\ controller' = "alarm_disabler"
    /\ suspended' = IF controller = "desktop" THEN <<Below("desktop")>> ELSE SubSeq(suspended, 1, 1)
    /\ run_activity_timer' = FALSE /\ ui_active' = FALSE /\ delaying' = FALSE

\* Mutant: arming does not take control from the menu and what it has invoked.
FollowAlarmFromDesktop ==
    /\ service = "alarm" /\ service' = "waits"
    /\ \/ armed /\ controller = "desktop" /\ DisablerOverDesktop /\ events' = events \cup {"INVOKE"}
       \/ ~armed /\ controller # "desktop" /\ GiveBackTo(1) /\ events' = events \cup {"RESUME"}
       \/ (armed <=> controller # "desktop") /\ UNCHANGED <<controlV, events>>
    /\ UNCHANGED <<alarmV, seconds, signal, keys, timersV, displayV>>

FollowAlarm ==
    /\ service = "alarm" /\ service' = "waits"
    /\ \/ armed /\ controller # "alarm_disabler" /\ DisablerOverDesktop /\ events' = events \cup {"INVOKE"}
       \/ ~armed /\ controller # "desktop" /\ GiveBackTo(1) /\ events' = events \cup {"RESUME"}
       \/ controller = (IF armed THEN "alarm_disabler" ELSE "desktop") /\ UNCHANGED <<controlV, events>>
    /\ UNCHANGED <<alarmV, seconds, signal, keys, timersV, displayV>>

\* Keys are dropped, ...
ResetKeys ==
    /\ Serves(2)
    /\ keys' = <<>> /\ service' = "changes"
    /\ UNCHANGED <<alarmV, controlV, seconds, signal, events, timersV, displayV>>

Handled == events \ (CHANGED_EVENTS \cup {"KEYBOARD"} \cup TIMER_EVENTS)

Shows == shown' = controller /\ lit' = TRUE

\* ... and Controller::invoke() with activate(true), ...
Invoke ==
    /\ service = "changes" /\ "INVOKE" \in events
    /\ service' = "waits"
    /\ signal' \in IF controller = "desktop" THEN BOOLEAN ELSE {signal}
    /\ run_activity_timer' = ~(controller \in {"zone_viewer", "alarm_enabler"} \/ (controller = "desktop" /\ ~signal'))
    /\ activity_timer' = run_activity_timer'
    /\ delaying' = (controller \in Refreshes) /\ delay_timer' = delaying'
    /\ ui_active' = TRUE /\ events' = Handled
    /\ seconds' = IF controller = "alarm_enabler" THEN AlarmDelay ELSE seconds
    /\ Shows
    /\ UNCHANGED <<alarmV, controller, suspended, keys>>

\* Mutant: the display goes out although the controller keeps it lighted up.
ResumeWithTimer ==
    /\ service = "changes" /\ "INVOKE" \notin events
    /\ service' = "waits"
    /\ activity_timer' = TRUE /\ delay_timer' = delaying
    /\ ui_active' = TRUE /\ events' = Handled
    /\ Shows
    /\ UNCHANGED <<alarmV, controller, run_activity_timer, delaying, suspended, seconds, signal, keys>>

\* ... or Controller::resume() with activate(false).
Resume ==
    /\ service = "changes" /\ "INVOKE" \notin events
    /\ service' = "waits"
    /\ activity_timer' = run_activity_timer /\ delay_timer' = delaying
    /\ ui_active' = TRUE /\ events' = Handled
    /\ Shows
    /\ UNCHANGED <<alarmV, controller, run_activity_timer, delaying, suspended, seconds, signal, keys>>

\* on_activity_timer()
ServeActivity ==
    /\ Serves(3)
    /\ events' = events \ {"ACTIVITY"}
    /\ ui_active' = FALSE /\ lit' = FALSE
    /\ UNCHANGED <<alarmV, controller, run_activity_timer, delaying, suspended, seconds, signal, keys, timersV, service, shown>>

\* desktop.cpp: while there is no signal the display stays lighted up.
DesktopElapsed ==
    /\ controller = "desktop"
    /\ signal' \in BOOLEAN
    /\ IF signal' = signal
       THEN events' = events \ {"DELAY"} /\ UNCHANGED <<run_activity_timer, ui_active, activity_timer, lit>>
       ELSE /\ run_activity_timer' = signal' /\ activity_timer' = signal'
            /\ ui_active' = (ui_active \/ ~signal') /\ lit' = (lit \/ ~signal')
            /\ events' = events \ (IF signal' THEN {"DELAY"} ELSE TIMER_EVENTS)
    /\ delay_timer' = TRUE
    /\ UNCHANGED <<armed, seconds>>

\* alarm_enabler.cpp: the last second arms.
EnablerElapsed ==
    /\ controller = "alarm_enabler"
    /\ seconds' = seconds - 1
    /\ IF seconds' = 0
       THEN armed' = TRUE /\ events' = (events \ {"DELAY"}) \cup {"ALARM"} /\ UNCHANGED delay_timer
       ELSE delay_timer' = TRUE /\ events' = events \ {"DELAY"} /\ UNCHANGED armed
    /\ UNCHANGED <<run_activity_timer, ui_active, activity_timer, lit, signal>>

OthersElapsed ==
    /\ controller \notin {"desktop", "alarm_enabler"}
    /\ events' = events \ {"DELAY"}
    /\ delay_timer' = (controller = "zone_viewer" \/ delay_timer)
    /\ UNCHANGED <<armed, seconds, run_activity_timer, ui_active, activity_timer, lit, signal>>

\* on_delay_timer()
ServeDelay ==
    /\ Serves(4)
    /\ DesktopElapsed \/ EnablerElapsed \/ OthersElapsed
    /\ UNCHANGED <<untold, controller, delaying, suspended, keys, service, shown>>

\* on_ui_activity() of the controller that handled the key
OnUiActivity(changed) ==
    /\ activity_timer' = (run_activity_timer \/ activity_timer)
    /\ events' = (IF run_activity_timer THEN events \ {"ACTIVITY"} ELSE events) \cup changed
    /\ lit' = TRUE

\* What handle() does with a key, if the display is lighted up.
Stay       == ui_active' = TRUE /\ OnUiActivity({})
              /\ UNCHANGED <<armed, controller, run_activity_timer, delaying, suspended>>
InvokeNext == ui_active /\ (\E next \in Invokes[controller] : GiveTo(next)) /\ OnUiActivity({"INVOKE"}) /\ UNCHANGED armed
YieldBack  == ui_active /\ controller \in Yields /\ Yield /\ OnUiActivity({"RESUME"}) /\ UNCHANGED armed
Disarm     == /\ ui_active /\ controller = "alarm_disabler"      \* the password is right
              /\ armed' = FALSE /\ OnUiActivity({"ALARM"})
              /\ UNCHANGED controlV

ServeKey ==
    /\ Serves(5) /\ keys # <<>>
    /\ keys' = Tail(keys)
    /\ Stay \/ InvokeNext \/ YieldBack \/ Disarm
    /\ UNCHANGED <<untold, seconds, signal, delay_timer, service, shown>>

\* xQueueReceive() has got nothing, ...
NoKey ==
    /\ Serves(5) /\ keys = <<>>
    /\ service' = "no_key"
    /\ UNCHANGED <<alarmV, controlV, seconds, signal, events, keys, timersV, displayV>>

\* ... and the event is cleared.
ClearKeyboardEvent ==
    /\ service = "no_key" /\ service' = "waits"
    /\ events' = events \ {"KEYBOARD"}
    /\ UNCHANGED <<alarmV, controlV, seconds, signal, keys, timersV, displayV>>

-----------------------------------------------------------------------------
Service == \/ ServeAlarm \/ FollowAlarm \/ ResetKeys \/ Invoke \/ Resume
           \/ ServeActivity \/ ServeDelay \/ ServeKey \/ NoKey \/ ClearKeyboardEvent

Next == Press \/ ActivityTimeout \/ DelayTimeout \/ ChangeAlarm \/ TellUi \/ Service

Spec == Init /\ [][Next]_vars

-----------------------------------------------------------------------------
TypeOK ==
    /\ armed \in BOOLEAN /\ untold \in BOOLEAN
    /\ controller \in DOMAIN Invokes
    /\ run_activity_timer \in BOOLEAN /\ ui_active \in BOOLEAN /\ delaying \in BOOLEAN
    /\ suspended \in Seq([controller : DOMAIN Invokes, run : BOOLEAN, delaying : BOOLEAN])
    /\ seconds \in 0..AlarmDelay /\ signal \in BOOLEAN
    /\ events \subseteq {"ALARM", "KEYBOARD"} \cup CHANGED_EVENTS \cup TIMER_EVENTS
    /\ keys \in Seq(DOMAIN Invokes) /\ Len(keys) <= KEYBOARD_QUEUE_LENGTH
    /\ activity_timer \in BOOLEAN /\ delay_timer \in BOOLEAN
    /\ service \in {"waits", "alarm", "changes", "no_key"}
    /\ shown \in DOMAIN Invokes /\ lit \in BOOLEAN

\* service_ui_events(): "arm-disarm-arm-... does not lead to inconsistent controller".  Once
\* what happened is told and served, an armed alarm is in the hands of alarm_disabler, and
\* one that is not of any other controller.
ControllerFollowsAlarm ==
    ~untold /\ "ALARM" \notin events /\ service # "alarm" =>
        (armed <=> controller \in {"alarm_disabler", "notifier"})

\* Once a change of the controller is served, it is the one the user sees, its timers are
\* those that run, and keys are those pressed for it: the display is dark only when keys are
\* blocked and only if its controller lets it go out; what it refreshes is refreshed; no key
\* is left lying in the queue.
ScreenFollowsController ==
    service # "changes" /\ events \cap CHANGED_EVENTS = {} =>
        /\ shown = controller /\ lit = ui_active
        /\ IF run_activity_timer THEN ui_active => activity_timer \/ "ACTIVITY" \in events
                                 ELSE ui_active /\ ~activity_timer /\ "ACTIVITY" \notin events
        /\ (delay_timer \/ "DELAY" \in events) <=>
               controller \in Refreshes /\ ~(controller = "alarm_enabler" /\ seconds = 0)
        /\ \A k \in DOMAIN keys : keys[k] = controller
        /\ keys # <<>> => "KEYBOARD" \in events
=============================================================================
