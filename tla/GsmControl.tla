----------------------------- MODULE GsmControl -----------------------------
(***************************************************************************)
(* Control of the SIM900 module: who may command it, and when              *)
(* (GSMService: execution.cpp, service.cpp, sms.cpp, call.cpp, state.cpp). *)
(*                                                                         *)
(* ctrl_mutex is a binary semaphore that travels with the work: a task     *)
(* takes it (get_ctrl or execute_or_schedule), starts a command of the     *)
(* SIM900 driver and leaves; the callback that ends the command runs in    *)
(* the driver's task and calls executed(), which starts the next scheduled *)
(* task or gives the semaphore.                                            *)
(*                                                                         *)
(* One step is what runs without a task switch that could matter.  The     *)
(* phase of a phone call is left to GsmCall: here a call command finds     *)
(* another call in its way or not, as it likes.                            *)
(***************************************************************************)
EXTENDS Naturals, FiniteSets

CONSTANTS
    Clients,    \* tasks, other than the timers' one, that use gsm::Controls
    Ops,        \* Ops[c]: methods of gsm::Controls client c invokes
    Priority,   \* Priority[t]: FreeRTOS priority of task t
    ChoiceTimeout, \* TRUE if choice_timeout_elapsed() may run in the timers' task
    MaxIncidents \* bound on the failures, lost connections and incoming SMSs of one behaviour

Timers == "timers"   \* FreeRTOS timers' task: runs callbacks of software timers
Driver == "sim900"   \* task of the SIM900 driver: runs callbacks of its commands
Tasks  == Clients \cup {Timers, Driver}

AsyncTask == {"TURN_OFF", "TURN_ON", "REBOOT", "CHECK_MODULE_STATE", "DELETE_INCOMING_SMS"}
Op        == {"call", "accept_call", "send_sms", "end_call"}
Result    == {"OK", "ERROR", "CORRUPTED_RESPONSE", "NO_RESPONSE"}
Command   == {"turn_on", "enable_dtmf", "turn_off", "get_card_status", "get_registration",
              "get_signal_strength", "delete_received_sms", "call", "wait_call_state",
              "wait_call_end", "accept_call", "reject_call", "send_sms", "end_call"}
PowerCommand == {"turn_on", "enable_dtmf", "turn_off"}
Idle      == "none"  \* no command is in progress / nothing in the queue

\* Points of the code a task may be at.
Point == {"idle",
          "seize",     \* execute_or_schedule(): after set_pending()
          "read",      \* executed(): before it reads pending_tasks
          "dispatch",  \* executed(): after it has read them
          "get_ctrl",  \* blocked on ctrl_mutex
          "invoke",    \* has the controls, did not invoke anything yet
          "result"}    \* blocked on result_queue

ASSUME ClientsAssumption == /\ Timers \notin Clients /\ Driver \notin Clients
                            /\ Ops \in [Clients -> SUBSET Op]
\* Only the alarm's service task uses the methods that return a result.
ASSUME OneResultClient ==
    \A c, d \in Clients : /\ Ops[c] \ {"end_call"} # {}
                         /\ Ops[d] \ {"end_call"} # {} => c = d
ASSUME PriorityAssumption == Priority \in [Tasks -> Nat]
ASSUME ChoiceTimeoutAssumption == ChoiceTimeout \in BOOLEAN
ASSUME MaxIncidentsAssumption == MaxIncidents \in Nat

VARIABLES
    pc,        \* pc[t]: where task t is
    op,        \* op[t]: the method of Controls task t wants or waits for
    seen,      \* seen[t]: executed()'s local copy pending_now
    pending,   \* pending_tasks
    mutexFree, \* ctrl_mutex may be taken
    command,   \* command the SIM900 driver is executing
    result,    \* result_queue: Idle, or the method the queued result is of
    powered, cardReady, registration,
    statusTimer,   \* module_state_timer is running
    recoveryTimer, \* connection_recovery_timer is running
    incidents  \* incidents so far

control == <<pc, op, seen, pending, mutexFree>>
module  == <<powered, cardReady, registration, statusTimer, recoveryTimer>>
vars    == <<control, command, result, module, incidents>>

TypeControl ==
    /\ pc \in [Tasks -> Point]
    /\ op \in [Tasks -> Op]
    /\ seen \in [Tasks -> SUBSET AsyncTask]
    /\ pending \in SUBSET AsyncTask
    /\ command \in Command \cup {Idle}
    /\ result \in Op \cup {Idle}

TypeModule ==
    /\ mutexFree \in BOOLEAN
    /\ powered \in BOOLEAN
    /\ cardReady \in BOOLEAN
    /\ registration \in {"DONE", "ONGOING", "FAILED"}
    /\ statusTimer \in BOOLEAN
    /\ recoveryTimer \in BOOLEAN

TypeOK == TypeControl /\ TypeModule /\ incidents \in 0 .. MaxIncidents

(***************************************************************************)
(* After start-up: the semaphore was created empty and the "gsm" task has  *)
(* called turn_on().                                                       *)
(***************************************************************************)
Init ==
    /\ pc = [t \in Tasks |-> "idle"]
    /\ op = [t \in Tasks |-> "end_call"]
    /\ seen = [t \in Tasks |-> {}]
    /\ pending = {}
    /\ mutexFree = FALSE
    /\ command = "turn_on"
    /\ result = Idle
    /\ powered = FALSE
    /\ cardReady = FALSE
    /\ registration = "ONGOING"
    /\ statusTimer = FALSE
    /\ recoveryTimer = FALSE
    /\ incidents = 0

-----------------------------------------------------------------------------
(* Scheduling: a task runs if no task of a higher priority is ready. *)

Ready(t) == \/ pc[t] \in {"seize", "read", "dispatch", "invoke"}
            \/ pc[t] = "get_ctrl" /\ mutexFree
            \/ pc[t] = "result" /\ result # Idle

CanRun(t) == \A u \in Tasks : Priority[u] > Priority[t] => ~Ready(u)

At(t, point) == pc[t] = point /\ CanRun(t)

Goto(t, point) == pc' = [pc EXCEPT ![t] = point]

-----------------------------------------------------------------------------
(* execution.cpp *)

\* First half of execute_or_schedule(task), by a task that was idle.
Schedule(t, task) ==
    /\ At(t, "idle")
    /\ pending' = pending \cup {task}
    /\ Goto(t, "seize")
    /\ UNCHANGED <<op, seen, mutexFree>>

\* Mutant: the result of xSemaphoreTake() is ignored.
SeizeUnchecked(t) ==
    /\ At(t, "seize")
    /\ Goto(t, "read")
    /\ mutexFree' = FALSE
    /\ UNCHANGED <<op, seen, pending, command, result, module, incidents>>

\* Second half of execute_or_schedule(): xSemaphoreTake(ctrl_mutex, 0).
Seize(t) ==
    /\ At(t, "seize")
    /\ IF mutexFree THEN Goto(t, "read") ELSE Goto(t, "idle")
    /\ mutexFree' = FALSE
    /\ UNCHANGED <<op, seen, pending, command, result, module, incidents>>

\* executed(): pending_now = pending_tasks.
ReadPending(t) ==
    /\ At(t, "read")
    /\ seen' = [seen EXCEPT ![t] = pending]
    /\ Goto(t, "dispatch")
    /\ UNCHANGED <<op, pending, mutexFree, command, result, module, incidents>>

\* The command executed() starts for the tasks it has seen, the most urgent first.
FirstCommand(tasks) ==
    CASE tasks \cap {"REBOOT", "TURN_OFF"} # {} -> "turn_off"
      [] tasks \cap {"REBOOT", "TURN_OFF"} = {} /\ "TURN_ON" \in tasks -> "turn_on"
      [] tasks \cap {"REBOOT", "TURN_OFF", "TURN_ON"} = {} /\ "CHECK_MODULE_STATE" \in tasks
            -> "get_card_status"
      [] OTHER -> "delete_received_sms"

\* executed(): a task was scheduled.  A reboot is "turn off" now and "turn on" later.
StartScheduled(t) ==
    /\ At(t, "dispatch")
    /\ seen[t] # {}
    /\ command' = FirstCommand(seen[t])
    /\ pending' = IF "REBOOT" \in seen[t] THEN (pending \ {"REBOOT"}) \cup {"TURN_ON"} ELSE pending
    /\ seen' = [seen EXCEPT ![t] = {}]
    /\ Goto(t, "idle")
    /\ UNCHANGED <<op, mutexFree, result, module, incidents>>

\* executed(): nothing was scheduled, xSemaphoreGive(ctrl_mutex).
GiveControl(t) ==
    /\ At(t, "dispatch")
    /\ seen[t] = {}
    /\ mutexFree' = TRUE
    /\ seen' = [seen EXCEPT ![t] = {}]
    /\ Goto(t, "idle")
    /\ UNCHANGED <<op, pending, command, result, module, incidents>>

-----------------------------------------------------------------------------
(* Ends of the driver's commands.  Every callback runs in the driver's task. *)

IsFault(res) == res \in {"CORRUPTED_RESPONSE", "NO_RESPONSE"}

\* Command cmd ends with res.  The module answers, or stays silent and the
\* response timeout elapses: a software timer, so only while the timers' task
\* is not blocked.
Completes(cmd, res) ==
    /\ command = cmd
    /\ At(Driver, "idle")
    /\ res = "NO_RESPONSE" => pc[Timers] = "idle"
    /\ IF IsFault(res) THEN incidents < MaxIncidents /\ incidents' = incidents + 1 ELSE UNCHANGED incidents

\* schedule_reboot() if reboot, then executed() up to its reading of pending_tasks;
\* done is what executed(AsyncTask) clears.
Executed(reboot, done) ==
    /\ pending' = (pending \cup (IF reboot THEN {"REBOOT"} ELSE {})) \ done
    /\ Goto(Driver, "read")
    /\ command' = Idle
    /\ UNCHANGED <<op, seen, mutexFree>>

\* The callback starts the next command of the same task.
Continue(next) == command' = next /\ UNCHANGED control

\* future_result(): a queue of length 1, a result that does not fit is dropped.
FutureResult(method) == result' = IF result = Idle THEN method ELSE result

\* Powering is paced by delays, which the timers' task measures.
TurnedOn ==
    /\ pc[Timers] = "idle"
    /\ \/ /\ Completes("turn_on", "OK")
          /\ powered' = TRUE
          /\ statusTimer' = TRUE
          /\ Continue("enable_dtmf")
       \/ /\ Completes("turn_on", "NO_RESPONSE")
          /\ Executed(TRUE, {"TURN_ON"})
          /\ UNCHANGED <<powered, statusTimer>>
    /\ UNCHANGED <<cardReady, registration, recoveryTimer, result>>

DtmfEnabled(res) ==
    /\ Completes("enable_dtmf", res)
    /\ Executed(IsFault(res), {"TURN_ON"})
    /\ UNCHANGED <<module, result>>

TurnedOff ==
    /\ pc[Timers] = "idle"
    /\ Completes("turn_off", "OK")
    /\ powered' = FALSE
    /\ statusTimer' = FALSE
    /\ recoveryTimer' = FALSE
    /\ cardReady' = FALSE
    /\ registration' = "ONGOING"
    /\ Executed(FALSE, {"CHECK_MODULE_STATE", "TURN_OFF"})
    /\ UNCHANGED result

SimChecked(res, ready) ==
    /\ Completes("get_card_status", res)
    /\ cardReady' = IF res = "OK" THEN ready ELSE cardReady
    /\ recoveryTimer' = (recoveryTimer \/ (res = "OK" /\ cardReady /\ ~ready))
    /\ IF res = "OK" /\ ready
       THEN Continue("get_registration") /\ UNCHANGED statusTimer
       ELSE Executed(IsFault(res), {"CHECK_MODULE_STATE"}) /\ statusTimer' = TRUE
    /\ UNCHANGED <<powered, registration, result>>

RegChecked(res, reg) ==
    /\ Completes("get_registration", res)
    /\ registration' = IF res = "OK" THEN reg ELSE registration
    /\ recoveryTimer' = (recoveryTimer \/ (res = "OK" /\ registration # "FAILED" /\ reg = "FAILED"))
    /\ IF res = "OK" /\ reg = "DONE"
       THEN Continue("get_signal_strength") /\ UNCHANGED statusTimer
       ELSE Executed(IsFault(res), {"CHECK_MODULE_STATE"}) /\ statusTimer' = TRUE
    /\ UNCHANGED <<powered, cardReady, result>>

SignalChecked(res) ==
    /\ Completes("get_signal_strength", res)
    /\ statusTimer' = (statusTimer \/ ~IsFault(res))
    /\ Executed(IsFault(res), {"CHECK_MODULE_STATE"})
    /\ UNCHANGED <<powered, cardReady, registration, recoveryTimer, result>>

SmsDeleted(res) ==
    /\ Completes("delete_received_sms", res)
    /\ Executed(IsFault(res), {"DELETE_INCOMING_SMS"})
    /\ UNCHANGED <<module, result>>

SmsSent(res) ==
    /\ Completes("send_sms", res)
    /\ FutureResult("send_sms")
    /\ Executed(IsFault(res), {})
    /\ UNCHANGED module

EndDone(res) ==
    /\ Completes("end_call", res)
    /\ Executed(IsFault(res), {})
    /\ UNCHANGED <<module, result>>

\* Mutant: the result is sent before the wrong call is rejected.
AcceptDoneTwice(res) ==
    /\ Completes("accept_call", res)
    /\ \/ res = "OK" /\ Continue("reject_call") /\ FutureResult("accept_call")
       \/ Executed(IsFault(res), {}) /\ FutureResult("accept_call")
    /\ UNCHANGED module

\* accept_done: an accepted call that is not the handled one is rejected.
AcceptDone(res) ==
    /\ Completes("accept_call", res)
    /\ \/ res = "OK" /\ Continue("reject_call") /\ UNCHANGED result
       \/ Executed(IsFault(res), {}) /\ FutureResult("accept_call")
    /\ UNCHANGED module

RejectDone(res) ==
    /\ Completes("reject_call", res)
    /\ FutureResult("accept_call")
    /\ Executed(IsFault(res), {})
    /\ UNCHANGED module

\* Mutant: no result if the call was not initiated.
CallStartedSilent(res) ==
    /\ Completes("call", res)
    /\ IF res = "OK" THEN Continue("wait_call_state") ELSE Executed(IsFault(res), {})
    /\ UNCHANGED <<module, result>>

CallStarted(res) ==
    /\ Completes("call", res)
    /\ IF res = "OK"
       THEN Continue("wait_call_state") /\ UNCHANGED result
       ELSE Executed(IsFault(res), {}) /\ FutureResult("call")
    /\ UNCHANGED module

\* dialing_known: picked up, or ended and the reason is still to come, or unknown.
DialingKnown(res) ==
    /\ Completes("wait_call_state", res)
    /\ \/ res = "OK" /\ Continue("wait_call_end") /\ UNCHANGED result
       \/ Executed(IsFault(res), {}) /\ FutureResult("call")
    /\ UNCHANGED module

CallEnded(res) ==
    /\ Completes("wait_call_end", res)
    /\ FutureResult("call")
    /\ Executed(IsFault(res), {})
    /\ UNCHANGED module

CommandEnds ==
    \/ TurnedOn \/ TurnedOff
    \/ \E res \in Result :
          \/ DtmfEnabled(res) \/ SignalChecked(res) \/ SmsDeleted(res) \/ SmsSent(res)
          \/ EndDone(res) \/ AcceptDone(res) \/ RejectDone(res) \/ CallStarted(res)
          \/ \E ready \in BOOLEAN : SimChecked(res, ready)
          \/ \E reg \in {"DONE", "ONGOING", "FAILED"} : RegChecked(res, reg)
    \/ \E res \in {"OK", "NO_RESPONSE"} : DialingKnown(res) \/ CallEnded(res)

-----------------------------------------------------------------------------
(* Unsolicited messages, in the driver's task. *)

OnHwMalfunction ==
    /\ incidents < MaxIncidents /\ incidents' = incidents + 1
    /\ Schedule(Driver, "REBOOT")
    /\ UNCHANGED <<command, result, module>>

OnSmsReceived ==
    /\ powered
    /\ incidents < MaxIncidents /\ incidents' = incidents + 1
    /\ Schedule(Driver, "DELETE_INCOMING_SMS")
    /\ UNCHANGED <<command, result, module>>

-----------------------------------------------------------------------------
(* Software timers, in the timers' task. *)

ModuleStatusTimeout ==
    /\ statusTimer
    /\ statusTimer' = FALSE
    /\ Schedule(Timers, "CHECK_MODULE_STATE")
    /\ UNCHANGED <<powered, cardReady, registration, recoveryTimer, command, result, incidents>>

ConnectionRecoveryTimeout ==
    /\ recoveryTimer
    /\ recoveryTimer' = FALSE
    /\ IF ~cardReady \/ registration = "FAILED"
       THEN /\ incidents < MaxIncidents /\ incidents' = incidents + 1
            /\ Schedule(Timers, "REBOOT")
       ELSE At(Timers, "idle") /\ UNCHANGED <<control, incidents>>
    /\ UNCHANGED <<powered, cardReady, registration, statusTimer, command, result>>

-----------------------------------------------------------------------------
(* Methods of gsm::Controls.  The timers' task is a client when the alarm's *)
(* choice timer elapses.                                                    *)

OpsOf(t) == IF t \in Clients THEN Ops[t]
            ELSE IF t = Timers /\ ChoiceTimeout THEN {"end_call"} ELSE {}

\* gsm::get_ctrl(), blocks.  The choice timer only runs during a phone call.
GetCtrl(t) ==
    /\ At(t, "idle")
    /\ t = Timers => powered
    /\ \E o \in OpsOf(t) : op' = [op EXCEPT ![t] = o]
    /\ Goto(t, "get_ctrl")
    /\ UNCHANGED <<seen, pending, mutexFree, command, result, module, incidents>>

TakeCtrl(t) ==
    /\ At(t, "get_ctrl")
    /\ mutexFree
    /\ mutexFree' = FALSE
    /\ Goto(t, "invoke")
    /\ UNCHANGED <<op, seen, pending, command, result, module, incidents>>

\* The method starts a command; end_call() does not wait for its end.
Invoke(t) ==
    /\ At(t, "invoke")
    /\ command' = op[t]
    /\ Goto(t, IF op[t] = "end_call" THEN "idle" ELSE "result")
    /\ UNCHANGED <<op, seen, pending, mutexFree, result, module, incidents>>

\* Mutant: call() returns early without executed().
CallRefusedKeeps(t) ==
    /\ At(t, "invoke")
    /\ op[t] = "call"
    /\ Goto(t, "idle")
    /\ UNCHANGED <<op, seen, pending, mutexFree, command, result, module, incidents>>

\* call() while actual_call_phase # NONE: executed() in the client's task.
CallRefused(t) ==
    /\ At(t, "invoke")
    /\ op[t] = "call"
    /\ Goto(t, "read")
    /\ UNCHANGED <<op, seen, pending, mutexFree, command, result, module, incidents>>

\* future_result() returns.
TakeResult(t) ==
    /\ At(t, "result")
    /\ result # Idle
    /\ result' = Idle
    /\ Goto(t, "idle")
    /\ UNCHANGED <<op, seen, pending, mutexFree, command, module, incidents>>

ClientStep(t) == GetCtrl(t) \/ TakeCtrl(t) \/ Invoke(t) \/ CallRefused(t) \/ TakeResult(t)

ExecutionStep(t) == Seize(t) \/ ReadPending(t) \/ StartScheduled(t) \/ GiveControl(t)

Next == \/ CommandEnds \/ OnHwMalfunction \/ OnSmsReceived
        \/ ModuleStatusTimeout \/ ConnectionRecoveryTimeout
        \/ \E t \in Tasks : ClientStep(t) \/ ExecutionStep(t)

Spec == Init /\ [][Next]_vars

(***************************************************************************)
(* Fairness.  A ready task runs: the scheduler is preemptive and slices    *)
(* time between tasks of one priority; a client may be preempted again and *)
(* again and another one may take the semaphore first, hence SF.  A        *)
(* command ends: the module answers, or its timeout elapses if the timers' *)
(* task is not blocked.  module_state_timer, whose period is much longer   *)
(* than a check, does not elapse before every reading of pending_tasks.    *)
(***************************************************************************)
ClientWork(c) == Invoke(c) \/ CallRefused(c) \/ TakeResult(c) \/ ExecutionStep(c)

Fairness ==
    /\ WF_vars(ExecutionStep(Timers)) /\ WF_vars(ExecutionStep(Driver))
    /\ WF_vars(CommandEnds)
    /\ SF_vars("CHECK_MODULE_STATE" \notin pending /\ ReadPending(Driver))
    /\ \A c \in Clients : SF_vars(TakeCtrl(c) \/ ClientWork(c))

FairSpec == Spec /\ Fairness
-----------------------------------------------------------------------------
(* Properties *)

\* Task t has taken ctrl_mutex and did not yet start a command or give it back.
HasControl(t) == pc[t] \in {"read", "dispatch", "invoke"}

\* The controls have exactly one owner at any time - a task or the command in
\* progress - and the semaphore is free exactly if they have none: no command is
\* ever started while another one is in progress, and control is never lost by a
\* callback, an early return or a reboot (state.h: "Guards access to controlling
\* methods").
ExclusiveControl ==
    /\ \A t, u \in Tasks : HasControl(t) /\ HasControl(u) => t = u
    /\ \A t \in Tasks : HasControl(t) => command = Idle
    /\ mutexFree <=> command = Idle /\ \A t \in Tasks : ~HasControl(t)

\* Nobody obtains the controls, and no command but powering is in progress,
\* unless the module is on: also after failed attempts to turn it on and during
\* reboots (state.cpp: "don't give mutex, will be given after turn module on").
OnlyPowerWhileOff ==
    ~powered => /\ ~mutexFree
                /\ \A t \in Tasks : pc[t] # "invoke"
                /\ command \in PowerCommand \cup {Idle}

\* Commands that produce the result of a method.
CommandsOf(method) ==
    CASE method = "call" -> {"call", "wait_call_state", "wait_call_end"}
      [] method = "accept_call" -> {"accept_call", "reject_call"}
      [] OTHER -> {method}

\* A task that waits for a result has its own command in progress or its own
\* result in the queue, and nothing else ever stays in the queue: a method never
\* returns what an earlier one produced and never waits for a result nobody will
\* send (future_result() of state.cpp sends without waiting).
ResultFollowsCommand ==
    /\ \A t \in Tasks : pc[t] = "result" =>
          IF result = Idle THEN command \in CommandsOf(op[t]) ELSE result = op[t]
    /\ result # Idle => \E t \in Tasks : pc[t] = "result"

\* Every task that asks for the controls obtains them (GSMService.h: get_ctrl()
\* "blocks thread till control is released by other").
ControlIsObtained ==
    \A c \in Clients : pc[c] = "get_ctrl" ~> pc[c] = "invoke"

\* And its method returns: it obtains the controls, its command ends and gives a result,
\* and what was scheduled meanwhile is not left to it for ever.
MethodReturns ==
    \A c \in Clients : pc[c] = "get_ctrl" ~> pc[c] = "idle"
=============================================================================
