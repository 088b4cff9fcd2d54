------------------------------- MODULE Sim900 -------------------------------
(***************************************************************************)
(* The driver of SIM900 (GSMService/sim900): how its task tells answers,   *)
(* timeouts and messages of the module apart, and the steps of commands    *)
(* that have several.                                                      *)
(*                                                                         *)
(* Handlers and the software timer only notify the task; the task examines *)
(* a notification bit by bit.  A callback of a command runs in that task   *)
(* and may begin the next command at once (due); tasks of a higher         *)
(* priority begin commands between any two steps of the driver, tasks of a *)
(* lower one while it waits.                                               *)
(*                                                                         *)
(* A message is what tells listeners apart: its kind, and whether it came  *)
(* after the current command had begun.                                    *)
(***************************************************************************)
EXTENDS Naturals, Sequences

CONSTANTS
    MaxMessages,  \* bound on the messages that wait in rx_buffer
    Coincidences  \* what may happen besides (see Coincidence)

\* Coincidences the driver does not stand; each is a matter of little time.
Coincidence ==
    {"deadline", \* the timer elapses while the task handles a message
     "start",    \* a message comes between begin_command() and the sending
     "slow",     \* while the task works a transfer ends and is answered, or messages come and come
     "twice"}    \* a message is damaged after an SMS has failed, during its transfer

ASSUME MaxMessagesAssumption == MaxMessages \in Nat \ {0}
ASSUME CoincidencesAssumption == Coincidences \subseteq Coincidence

None == "none"

\* Commands by the listener they use: those that end with the first answer, "ATD",
\* those that return data, those that wait for a message, "send SMS" and power.
Plain   == {"execute", "call", "get_info"}
Wait    == {"wait_call_state", "wait_call_end"}
Power   == {"turn_on", "turn_off"}
Command == Plain \cup Wait \cup Power \cup {"send_sms"}

\* Messages; PROMPT is "> ", CORRUPTED stands for whatever came damaged, URC for every
\* unsolicited message other listeners are interested in.
Text == {"OK", "ERROR", "+INFO", "PROMPT", "+CMGS", "+CLCC", "NO_CARRIER", "RDY", "DOWN",
         "URC", "CORRUPTED"}

Bit == {"MESSAGE_RECEIVED", "TIMEOUT", "MESSAGE_SENT"}
SendSmsState == {"SENDING_CMD", "WAITING_INPUT", "SENDING_TEXT", "WAITING_ID", "WAITING_OK", "FAILED"}
Step == {"OPEN_VBAT", "ENABLE_VBAT", "PRESS_PWR_KEY", "RELEASE_PWR_KEY", "WAIT_READY_MESSAGE",
         "REPORT_SUCCESS", "REPORT_FAILURE",
         "OFF_RELEASE_PWR_KEY", "WAIT_POWER_DOWN_MESSAGE", "SHORT_VBAT", "REPORT_DONE"}

VARIABLES
    pc,             \* where the driver's task is
    taken,          \* bits: what it has taken from its notification
    handled,        \* whether the command's listener took the message
    bits,           \* the task's notification
    timeoutType,    \* timeout_type
    timeoutElapsed, \* the command the handler in timeout_elapsed belongs to
    timer,          \* the software timer is running
    listener,       \* the command the listener in message_received belongs to
    transfer,       \* of the UART's DMA: None till the first, then ongoing or done
    onSent,         \* on_sent is notify_sent
    rx,             \* messages in rx_buffer
    sendState,      \* send_state
    nextStep,       \* next_step
    receivedMessage,\* received_message
    pins,           \* VBAT connected, VBAT shorted, PWR key pressed, UART active
    starting,       \* command of a task that is between begin_command() and the sending
    due,            \* command that a callback is about to begin
    owed,           \* what the module has not answered yet
    running,        \* the command whose callback is awaited
    parity          \* parity of the number of callbacks invoked so far

task     == <<pc, taken, handled>>
timeoutV == <<timeoutType, timeoutElapsed, timer>>
uart     == <<transfer, onSent>>
power    == <<nextStep, receivedMessage, pins>>
command  == <<listener, due, running, parity>>
vars     == <<task, bits, timeoutV, uart, rx, sendState, power, starting, owed, command>>

Message == [text : Text, own : BOOLEAN]
NoneOr  == Command \cup {None}

TypeTask ==
    /\ pc \in {"wait", "sent", "timeout", "listen", "after", "next"}
    /\ taken \subseteq Bit /\ bits \subseteq Bit
    /\ handled \in BOOLEAN /\ timer \in BOOLEAN
    /\ timeoutType \in {"NONE", "RESPONSE", "DELAY", "RESERVED"}

TypeCommand ==
    /\ timeoutElapsed \in NoneOr /\ listener \in NoneOr
    /\ starting \in NoneOr /\ due \in NoneOr /\ running \in NoneOr
    /\ parity \in 0..1

TypeModule ==
    /\ transfer \in {None, "ongoing", "done"} /\ onSent \in BOOLEAN
    /\ sendState \in SendSmsState
    /\ nextStep \in Step /\ receivedMessage \in BOOLEAN
    /\ pins \subseteq {"VBAT", "SHORT", "KEY", "UART"}
    /\ owed \in {None, "answer", "call", "cmd", "info", "input", "text", "id", "ready", "down"}

TypeBuffer == rx \in Seq(Message) /\ Len(rx) <= MaxMessages

TypeOK == TypeTask /\ TypeCommand /\ TypeModule /\ TypeBuffer

\* init_periph(), start(); the first command is turn_on().
Init ==
    /\ pc = "wait" /\ taken = {} /\ handled = FALSE /\ bits = {}
    /\ timeoutType = "NONE" /\ timeoutElapsed = None /\ timer = FALSE
    /\ listener = None /\ transfer = None /\ onSent = FALSE /\ rx = <<>>
    /\ sendState = "SENDING_CMD"
    /\ nextStep = "OPEN_VBAT" /\ receivedMessage = FALSE /\ pins = {"SHORT"}
    /\ starting = None /\ due = "turn_on" /\ owed = None /\ running = None /\ parity = 0

-----------------------------------------------------------------------------
(* Timeouts and sending (execution.cpp, uart_ctrl.cpp) *)

\* start_response_timeout(), start_timeout(): TIMEOUT is not cleared.
StartTimeout(type, c) ==
    timeoutType' = type /\ timeoutElapsed' = c /\ timer' = TRUE

\* send_via_dma() clears the flag of a completed transfer.
Send(notify) == transfer' = "ongoing" /\ onSent' = notify

IsSent == transfer = "done"

-----------------------------------------------------------------------------
(* Commands are begun by the GSM service *)

\* Messages received so far do not answer the command that begins.
Outdated == [i \in DOMAIN rx |-> [rx[i] EXCEPT !.own = FALSE]]

BeginCommand(c) ==
    /\ listener' = c /\ running' = c /\ due' = None /\ UNCHANGED parity
    /\ rx' = Outdated

\* What follows begin_command() in the functions that begin commands.
Start(c) ==
    \/ /\ c \in Plain \cup {"send_sms"}
       /\ StartTimeout("RESPONSE", c)
       /\ Send(c = "send_sms")
       /\ UNCHANGED power
    \/ /\ c \in Wait
       /\ StartTimeout("RESPONSE", c)
       /\ UNCHANGED <<uart, power>>
    \/ /\ c = "turn_on"
       /\ pins' = pins \ {"SHORT"}
       /\ nextStep' = "ENABLE_VBAT"
       /\ StartTimeout("DELAY", c)
       /\ UNCHANGED <<uart, receivedMessage>>
    \/ /\ c = "turn_off"
       /\ receivedMessage' = FALSE
       /\ pins' = pins \cup {"KEY"}
       /\ nextStep' = "OFF_RELEASE_PWR_KEY"
       /\ StartTimeout("DELAY", c)
       /\ UNCHANGED uart

SetSendState(c) == sendState' = IF c = "send_sms" THEN "SENDING_CMD" ELSE sendState

Idle == running = None /\ starting = None

\* What the module answers until the command has been sent: what it owed before, or
\* "NORMAL POWER DOWN".
OwedBefore(c) == IF c = "turn_off" THEN "down" ELSE owed

\* In a callback, or by a task of a higher priority than the driver's: the driver
\* does nothing in between.
Begin(c) ==
    /\ Idle
    /\ \/ c = due
       \/ due = None /\ nextStep = "REPORT_SUCCESS" /\ c \in {"execute", "get_info", "turn_off"}
    /\ BeginCommand(c)
    /\ Start(c)
    /\ SetSendState(c)
    /\ owed' = OwedBefore(c)
    /\ UNCHANGED <<task, bits, starting>>

\* By a task of a lower priority: the driver's task may come in between.
BeginByTask(c) ==
    /\ Idle /\ due = None /\ nextStep = "REPORT_SUCCESS"
    /\ pc = "wait" /\ bits = {}
    /\ c \in {"execute", "call", "send_sms"}
    /\ BeginCommand(c)
    /\ SetSendState(c)
    /\ owed' = OwedBefore(c)
    /\ starting' = c
    /\ UNCHANGED <<task, bits, timeoutV, uart, power>>

SendByTask ==
    /\ starting # None
    /\ pc = "wait" /\ bits = {}
    /\ Start(starting)
    /\ owed' = IF starting = "send_sms" THEN "cmd" ELSE owed
    /\ starting' = None
    /\ UNCHANGED <<task, bits, rx, sendState, command>>

-----------------------------------------------------------------------------
(* Ends of commands *)

Failure == {"CORRUPTED_RESPONSE", "NO_RESPONSE"}

\* What the callback of c, invoked with res, begins: the GSM service reboots the module
\* after a failure, enables DTMF after the start, waits for the call it has made.
Follows(c, res) ==
    IF res \in Failure THEN {"turn_off"} ELSE
    CASE c = "turn_off" -> {"turn_on"}
      [] c = "turn_on" -> {"execute"}
      [] c = "call" /\ res = "OK" -> {"wait_call_state"}
      [] c = "wait_call_state" -> {None, "wait_call_end"}
      [] OTHER -> {None}

\* end_command() and the callback of c.
End(c, res) ==
    /\ listener' = None
    /\ running' = IF running = c THEN None ELSE running
    /\ parity' = 1 - parity
    /\ due' \in Follows(c, res)

-----------------------------------------------------------------------------
(* Steps of power (power_ctrl.cpp), when their timeouts elapse *)

PowerStep(from, to, on, off) ==
    /\ nextStep = from
    /\ nextStep' = to
    /\ pins' = (pins \cup on) \ off
    /\ receivedMessage' = IF from = "PRESS_PWR_KEY" THEN FALSE ELSE receivedMessage
    /\ rx' = IF from = "WAIT_POWER_DOWN_MESSAGE" THEN <<>> ELSE rx
    /\ owed' = CASE from = "PRESS_PWR_KEY" -> "ready"
                 [] from = "WAIT_POWER_DOWN_MESSAGE" -> None
                 [] OTHER -> owed

DoPowerOn ==
    \/ /\ \/ PowerStep("ENABLE_VBAT", "PRESS_PWR_KEY", {"VBAT"}, {})
          \/ PowerStep("PRESS_PWR_KEY", "RELEASE_PWR_KEY", {"UART", "KEY"}, {})
          \/ PowerStep("RELEASE_PWR_KEY", "WAIT_READY_MESSAGE", {}, {"KEY"})
       /\ StartTimeout("DELAY", "turn_on")
       /\ UNCHANGED command
    \/ /\ PowerStep("WAIT_READY_MESSAGE", IF receivedMessage THEN "REPORT_SUCCESS" ELSE "REPORT_FAILURE", {}, {})
       /\ End("turn_on", IF receivedMessage THEN "OK" ELSE "NO_RESPONSE")
       /\ timeoutType' = "NONE" /\ UNCHANGED <<timeoutElapsed, timer>>

PoweredOff ==
    /\ PowerStep("REPORT_DONE", "OPEN_VBAT", {}, {})
    /\ End("turn_off", "OK")
    /\ timeoutType' = "NONE" /\ UNCHANGED <<timeoutElapsed, timer>>

DoPowerOff ==
    \/ /\ \/ PowerStep("OFF_RELEASE_PWR_KEY", "WAIT_POWER_DOWN_MESSAGE", {}, {"KEY"})
          \/ PowerStep("WAIT_POWER_DOWN_MESSAGE", "SHORT_VBAT", {}, {"UART", "VBAT"})
          \/ PowerStep("SHORT_VBAT", "REPORT_DONE", {"SHORT"}, {})
       /\ StartTimeout("DELAY", "turn_off")
       /\ UNCHANGED command
    \/ PoweredOff

-----------------------------------------------------------------------------
(* Listeners: what the listener of c makes of a message.  "ignored": not handled;   *)
(* "taken": handled, nothing else; "restarted": the timeout starts anew;            *)
(* "received": received_message; "text", "id", "failed": steps of sending a SMS;    *)
(* otherwise the result the command ends with.                                      *)

\* Mutant: does not check is_sent().
PlainOutcomeAnyTime(c, text) ==
    CASE text = "CORRUPTED" -> {"CORRUPTED_RESPONSE"}
      [] text = "+INFO" /\ c = "get_info" -> {"restarted"}
      [] text = "OK" -> {"OK"}
      [] text = "ERROR" \/ (text = "NO_CARRIER" /\ c = "call") -> {"ERROR"}
      [] OTHER -> {"ignored"}

PlainOutcome(c, text) ==
    IF ~IsSent THEN {"ignored"} ELSE
    CASE text = "CORRUPTED" -> {"CORRUPTED_RESPONSE"}
      [] text = "+INFO" /\ c = "get_info" -> {"restarted"}
      [] text = "OK" -> {"OK"}
      [] text = "ERROR" \/ (text = "NO_CARRIER" /\ c = "call") -> {"ERROR"}
      [] OTHER -> {"ignored"}

\* A call may be in the desired state or not.
WaitOutcome(c, text) ==
    CASE c = "wait_call_state" /\ text = "+CLCC" -> {"OK", "ignored"}
      [] c = "wait_call_end" /\ text = "NO_CARRIER" -> {"OK"}
      [] OTHER -> {"ignored"}

DamagedOutcome ==
    CASE sendState = "SENDING_CMD" -> {"ignored"}
      [] sendState = "SENDING_TEXT" -> {"failed"}
      [] OTHER -> {"CORRUPTED_RESPONSE"}

Sending == sendState \in {"SENDING_CMD", "SENDING_TEXT"}

\* Mutant: a SMS that has failed is not told from one whose text was sent.
SmsOutcomeUnchecked(text) ==
    IF text = "CORRUPTED" THEN DamagedOutcome ELSE
    CASE text = "PROMPT" -> {"text"}
      [] text = "+CMGS" -> {"id"}
      [] text = "OK" -> {IF sendState = "WAITING_OK" THEN "OK" ELSE "CORRUPTED_RESPONSE"}
      [] text = "ERROR" -> {IF Sending THEN "failed" ELSE "ERROR"}
      [] OTHER -> {"ignored"}

SmsOutcome(text) ==
    IF text = "CORRUPTED" THEN DamagedOutcome
    ELSE IF sendState = "FAILED" THEN {"ignored"} ELSE
    CASE text = "PROMPT" -> {"text"}
      [] text = "+CMGS" -> {"id"}
      [] text = "OK" -> {IF sendState = "WAITING_OK" THEN "OK" ELSE "CORRUPTED_RESPONSE"}
      [] text = "ERROR" -> {IF Sending THEN "failed" ELSE "ERROR"}
      [] OTHER -> {"ignored"}

PowerOutcome(c, text) ==
    IF <<c, text>> \in {<<"turn_on", "RDY">>, <<"turn_off", "DOWN">>} THEN {"received"}
    ELSE IF c = "turn_off" \/ text = "CORRUPTED" THEN {"taken"} ELSE {"ignored"}

Outcome(c, text) ==
    CASE c \in Plain -> PlainOutcome(c, text)
      [] c \in Wait -> WaitOutcome(c, text)
      [] c = "send_sms" -> SmsOutcome(text)
      [] c \in Power -> PowerOutcome(c, text)
      [] OTHER -> {"ignored"}

\* While a listener works, a response timeout is RESERVED.
Reserve == /\ timeoutType' = IF timeoutType = "RESPONSE" THEN "RESERVED" ELSE timeoutType
           /\ UNCHANGED <<timeoutElapsed, timer>>

Apply(c, outcome) ==
    \/ /\ outcome \in {"ignored", "taken"}
       /\ Reserve
       /\ UNCHANGED <<command, uart, sendState, receivedMessage>>
    \/ /\ outcome = "restarted"
       /\ StartTimeout("RESPONSE", c)
       /\ UNCHANGED <<command, uart, sendState, receivedMessage>>
    \/ /\ outcome = "received"
       /\ receivedMessage' = TRUE
       /\ Reserve
       /\ UNCHANGED <<command, uart, sendState>>
    \/ /\ outcome = "text"
       /\ sendState' = "SENDING_TEXT"
       /\ StartTimeout("RESPONSE", c)
       /\ Send(TRUE)
       /\ UNCHANGED <<command, receivedMessage>>
    \/ /\ outcome = "id"
       /\ sendState' = "WAITING_OK"
       /\ StartTimeout("RESPONSE", c)
       /\ UNCHANGED <<command, uart, receivedMessage>>
    \/ /\ outcome = "failed"
       /\ sendState' = "FAILED"
       /\ Reserve
       /\ UNCHANGED <<command, uart, receivedMessage>>
    \/ /\ outcome \in {"OK", "ERROR"} \cup Failure
       /\ End(c, outcome)
       /\ Reserve
       /\ UNCHANGED <<uart, sendState, receivedMessage>>

-----------------------------------------------------------------------------
(* The driver's task: service_commands(), service_timeout(), service_response() *)

\* The task goes on when the callback it is in has begun its command.
At(point) == pc = point /\ due = None

Take ==
    /\ At("wait") /\ bits # {}
    /\ taken' = bits /\ bits' = {}
    /\ pc' = "sent"
    /\ UNCHANGED <<handled, timeoutV, uart, rx, sendState, power, starting, owed, command>>

\* send_transferred()
MessageSent ==
    /\ At("sent")
    /\ pc' = "timeout"
    /\ IF "MESSAGE_SENT" \in taken /\ sendState = "FAILED"
       THEN End("send_sms", "ERROR") /\ UNCHANGED sendState
       ELSE /\ sendState' = IF "MESSAGE_SENT" \notin taken THEN sendState
                            ELSE CASE sendState = "SENDING_CMD" -> "WAITING_INPUT"
                                   [] sendState = "SENDING_TEXT" -> "WAITING_ID"
                                   [] OTHER -> sendState
            /\ UNCHANGED command
    /\ UNCHANGED <<taken, handled, bits, timeoutV, uart, rx, power, starting, owed>>

TimeoutElapsed ==
    \/ timeoutElapsed = "turn_on" /\ DoPowerOn
    \/ timeoutElapsed = "turn_off" /\ DoPowerOff
    \/ /\ timeoutElapsed \notin Power
       /\ End(timeoutElapsed, "NO_RESPONSE")
       /\ timeoutType' = "NONE"
       /\ UNCHANGED <<timeoutElapsed, timer, power, rx, owed>>

ServiceTimeout ==
    /\ At("timeout")
    /\ IF "TIMEOUT" \in taken THEN TimeoutElapsed
       ELSE UNCHANGED <<timeoutV, power, rx, owed, command>>
    /\ pc' = IF "MESSAGE_RECEIVED" \in taken /\ rx' # <<>> THEN "listen" ELSE "wait"
    /\ taken' = {}
    /\ UNCHANGED <<handled, bits, uart, sendState, starting>>

\* The listener of the command first; the rest of service_response() if it was called
\* during a response timeout.
Listen ==
    /\ At("listen")
    /\ \E outcome \in Outcome(listener, Head(rx).text) :
          /\ Apply(listener, outcome)
          /\ handled' = (outcome # "ignored")
    /\ pc' = IF listener # None /\ timeoutType = "RESPONSE" THEN "after" ELSE "next"
    /\ UNCHANGED <<taken, bits, rx, nextStep, pins, starting, owed>>

\* Mutant: the timeout of a message that was handled goes on.
AfterListenerOngoing ==
    /\ At("after")
    /\ pc' = "next"
    /\ timeoutType' = IF timeoutType = "RESERVED" /\ ~handled THEN "RESPONSE" ELSE timeoutType
    /\ UNCHANGED <<taken, handled, bits, timeoutElapsed, timer, uart, rx, sendState, power, starting, owed, command>>

\* Mutant: also if the listener, or the callback, started a timeout.
AfterListenerAlways ==
    /\ At("after")
    /\ pc' = "next"
    /\ IF handled
       THEN timer' = FALSE /\ bits' = bits \ {"TIMEOUT"} /\ UNCHANGED timeoutType
       ELSE timeoutType' = "RESPONSE" /\ UNCHANGED <<timer, bits>>
    /\ UNCHANGED <<taken, handled, timeoutElapsed, uart, rx, sendState, power, starting, owed, command>>

\* Unless the listener, or the callback, started a timeout.
AfterListener ==
    /\ At("after")
    /\ pc' = "next"
    /\ IF timeoutType = "RESERVED" /\ handled
       THEN timer' = FALSE /\ bits' = bits \ {"TIMEOUT"} /\ UNCHANGED timeoutType
       ELSE /\ timeoutType' = IF timeoutType = "RESERVED" THEN "RESPONSE" ELSE timeoutType
            /\ UNCHANGED <<timer, bits>>
    /\ UNCHANGED <<taken, handled, timeoutElapsed, uart, rx, sendState, power, starting, owed, command>>

\* Listeners of unsolicited messages, whose callbacks belong to the GSM service, and
\* next_read().
NextMessage ==
    /\ At("next")
    /\ handled' = FALSE
    /\ rx' = Tail(rx)
    /\ pc' = IF rx' # <<>> THEN "listen" ELSE "wait"
    /\ UNCHANGED <<taken, bits, timeoutV, uart, sendState, power, starting, owed, command>>

Driver == Take \/ MessageSent \/ ServiceTimeout \/ Listen \/ AfterListener \/ NextMessage

-----------------------------------------------------------------------------
(* Handlers, the timer and the module *)

\* notify_timeout().  Timeouts last for much longer than transfers.
Elapse ==
    /\ timer /\ transfer # "ongoing"
    /\ pc = "wait" \/ "deadline" \in Coincidences
    /\ timer' = FALSE
    /\ bits' = bits \cup {"TIMEOUT"}
    /\ UNCHANGED <<task, timeoutType, timeoutElapsed, uart, rx, sendState, power, starting, owed, command>>

\* What the module owes after it has got what was sent.
OwedAfter(c) ==
    CASE c = "execute" -> "answer"
      [] c = "call" -> "call"
      [] c = "get_info" -> "info"
      [] c = "send_sms" /\ owed = "cmd" -> "input"
      [] c = "send_sms" /\ owed = "text" -> "id"
      [] OTHER -> owed

\* handle_dma_interrupt()
TransferDone ==
    /\ transfer = "ongoing"
    /\ rx = <<>> \/ "slow" \in Coincidences
    /\ transfer' = "done"
    /\ bits' = IF onSent THEN bits \cup {"MESSAGE_SENT"} ELSE bits
    /\ owed' = OwedAfter(running)
    /\ rx' = Outdated
    /\ UNCHANGED <<task, timeoutV, onSent, sendState, power, starting, command>>

\* handle_uart_interrupt() at the end of a message, and handle_exti_interrupt().
Receive(text) ==
    /\ {"VBAT", "UART"} \subseteq pins
    /\ Len(rx) < MaxMessages
    /\ \/ pc = "wait" \/ "slow" \in Coincidences
       \/ "MESSAGE_RECEIVED" \notin bits /\ starting = None
    /\ starting # None /\ text \notin {"URC", "+CLCC"} => "start" \in Coincidences
    /\ /\ text = "CORRUPTED" /\ running = "send_sms"
       /\ sendState = "FAILED" \/ \E i \in DOMAIN rx : rx[i].text \in {"CORRUPTED", "ERROR"}
       => "twice" \in Coincidences
    /\ rx' = Append(rx, [text |-> text, own |-> TRUE])
    /\ bits' = bits \cup {"MESSAGE_RECEIVED"}
    /\ UNCHANGED <<task, timeoutV, uart, sendState, power, starting, command>>

\* Answers the module may give, and what it owes then.
Answers ==
    CASE owed = "answer" -> {<<"OK", None>>, <<"ERROR", None>>}
      [] owed = "call" -> {<<"OK", None>>, <<"ERROR", None>>, <<"NO_CARRIER", None>>}
      [] owed = "info" -> {<<"+INFO", "answer">>, <<"OK", None>>, <<"ERROR", None>>}
      [] owed = "input" -> {<<"PROMPT", "text">>, <<"ERROR", None>>}
      [] owed \in {"cmd", "text"} -> {<<"ERROR", None>>}
      [] owed = "id" -> {<<"+CMGS", "answer">>, <<"ERROR", None>>}
      [] owed = "ready" -> {<<"RDY", None>>}
      [] owed = "down" -> {<<"DOWN", None>>}
      [] OTHER -> {}

Answer ==
    /\ "MESSAGE_SENT" \in bits => pc = "wait" \/ "slow" \in Coincidences
    /\ \E a \in Answers : (Receive(a[1]) \/ Receive("CORRUPTED")) /\ owed' = a[2]

\* The answer is lost.
Lose == \E a \in Answers : /\ owed' = a[2]
                           /\ UNCHANGED <<task, bits, timeoutV, uart, rx, sendState, power, starting, command>>

Unsolicited == \E text \in {"URC", "+CLCC", "NO_CARRIER", "CORRUPTED"} : Receive(text) /\ UNCHANGED owed

-----------------------------------------------------------------------------
Next ==
    \/ \E c \in Command : Begin(c) \/ BeginByTask(c)
    \/ SendByTask
    \/ Driver
    \/ Elapse \/ TransferDone
    \/ Answer \/ Lose \/ Unsolicited

Spec == Init /\ [][Next]_vars

\* The driver's task runs before those that use it, time passes and transfers end
\* whatever messages come; a task of a low priority runs in the end.
Fairness ==
    /\ WF_vars(Driver) /\ WF_vars(\E c \in Command : c = due /\ Begin(c))
    /\ SF_vars(Elapse) /\ SF_vars(TransferDone) /\ SF_vars(SendByTask)

FairSpec == Spec /\ Fairness

-----------------------------------------------------------------------------
(* Properties *)

\* sim900.h: a command invokes its callback exactly once, whatever answers, timeouts
\* and ends of transfers come together.
EndsOnce == INSTANCE Commands WITH NoCommand <- None
ExactlyOnce == EndsOnce!Spec

\* A message that came before a command was sent does not end it (is_sent()).
AnswerIsOwn ==
    [][pc = "listen" /\ running \in Plain \cup {"send_sms"} /\ running' # running => Head(rx).own]_vars

\* A timeout that has elapsed belongs to the command in progress and was not started
\* anew since (RESERVED, stop of the timer).
TimeoutIsOwn == "TIMEOUT" \in bits \cup taken => running # None /\ ~timer

\* Nothing else is sent, and tx_buffer is not changed, while a transfer is ongoing: a
\* command does not end before its transfer (FAILED).
TransferBelongsToCommand == transfer = "ongoing" => running \in Plain \cup {"send_sms"}

\* Timeouts and transfers are those of the command in progress.
NothingIsLate == TimeoutIsOwn /\ TransferBelongsToCommand

\* Every command ends: with an answer, or because its timeout was neither lost nor
\* stopped by messages of other commands.
CommandEnds == running # None ~> running = None
=============================================================================
