---------------------------- MODULE Sim900Proofs ----------------------------
(* Proofs about the driver of SIM900 and the buffer it reads from.         *)
(*                                                                         *)
(* The driver, for any number of messages that wait and without the        *)
(* coincidences it does not stand: it implements Commands, commands end by *)
(* their own answers and timeouts, and not while they are being sent.      *)
(* IInv is inductive: TimerInv tells whose timeout runs or has elapsed,    *)
(* TransferInv whose transfer, SmsInv what the messages that wait can be   *)
(* at each step of sending a SMS.                                          *)
(*                                                                         *)
(* The buffer, for any size: the messages that wait follow each other,     *)
(* from the one that is read next to the one that is received.             *)
EXTENDS MCSim900Rx, SequenceTheorems, TLAPS

\* Messages the listener has yet to see.
Unseen == {i \in DOMAIN rx : pc \in {"after", "next"} => i # 1}

\* Answers that take sending a SMS further.
SmsAnswer == {"OK", "PROMPT", "+CMGS"}

\* A command that was begun and sent.
Sent(c) == running = c /\ starting = None

\* The end of a transfer will be told to the listener of "send SMS".
Pending == transfer = "ongoing" \/ "MESSAGE_SENT" \in bits \/ (pc = "sent" /\ "MESSAGE_SENT" \in taken)

\* The timer is about to be stopped.
Stopping == pc = "after" /\ timeoutType = "RESERVED" /\ handled

\* What was notified and what the task is about to look at.
NoticeInv ==
    /\ IF pc = "wait" THEN taken = {} ELSE "TIMEOUT" \notin bits
    /\ pc \in {"listen", "after", "next"} => taken = {} /\ rx # <<>>
    /\ pc \in {"wait", "sent", "timeout"} /\ rx # <<>> => "MESSAGE_RECEIVED" \in bits \cup taken

\* A command that was begun and not sent gets no answers.
BegunInv ==
    /\ listener = running
    /\ due # "send_sms"
    /\ due # None => running = None /\ starting = None
    /\ starting # None =>
        /\ running = starting /\ starting \in {"execute", "call", "send_sms"}
        /\ \A i \in DOMAIN rx : rx[i].text \in {"URC", "+CLCC"}
        /\ starting = "send_sms" => sendState = "SENDING_CMD"

TimerInv ==
    /\ running \in Power => timeoutType = "DELAY"
    /\ timer /\ ~Stopping =>
        /\ running # None /\ timeoutElapsed = running /\ starting = None
        /\ running \notin Power => timeoutType = "RESPONSE" \/ (pc = "after" /\ timeoutType = "RESERVED")
    /\ Stopping => running = None \/ (Sent("send_sms") /\ sendState = "FAILED")
    /\ "TIMEOUT" \in bits \cup taken =>
        /\ running # None /\ timeoutElapsed = running /\ starting = None
        /\ ~timer /\ transfer # "ongoing"
    /\ "TIMEOUT" \in taken => "MESSAGE_SENT" \notin bits

TransferInv ==
    /\ transfer = "ongoing" => running \in Plain \cup {"send_sms"} /\ starting = None
    /\ transfer = "ongoing" => (onSent <=> running = "send_sms")
    /\ Pending /\ transfer # "ongoing" => Sent("send_sms")
    /\ transfer = "ongoing" => "MESSAGE_SENT" \notin bits /\ (pc = "sent" => "MESSAGE_SENT" \notin taken)
    /\ pc = "sent" /\ "MESSAGE_SENT" \in taken => "MESSAGE_SENT" \notin bits

\* Steps of sending a SMS.
SmsStepInv ==
    Sent("send_sms") =>
        /\ Pending <=> sendState \in {"SENDING_CMD", "SENDING_TEXT", "FAILED"}
        /\ sendState = "FAILED" => (timer => Stopping) /\ "TIMEOUT" \notin bits \cup taken

\* Answers of the module during a SMS.
SmsAnswerInv ==
    Sent("send_sms") =>
        /\ transfer = "ongoing" => owed \in {"cmd", "text", None}
        /\ transfer = "ongoing" \/ ("MESSAGE_SENT" \in bits /\ pc # "wait") \/ owed = "input" =>
            \A i \in Unseen : rx[i].text \notin SmsAnswer
        /\ \A i \in Unseen : rx[i].text = "PROMPT" =>
            /\ owed \in {"text", None}
            /\ \A j \in Unseen : j # i => rx[j].text \notin SmsAnswer

\* Messages that are damaged during a SMS.
SmsDamageInv ==
    Sent("send_sms") =>
        /\ \A i, j \in DOMAIN rx : i < j /\ rx[i].text \in {"CORRUPTED", "ERROR"}
           => rx[j].text # "CORRUPTED"
        /\ sendState = "FAILED" => \A i \in Unseen : rx[i].text # "CORRUPTED"

OwnInv ==
    /\ running \in Plain /\ starting = None /\ transfer = "done" => \A i \in DOMAIN rx : rx[i].own
    /\ running = "send_sms" => \A i \in DOMAIN rx : rx[i].own

IInv == TypeOK /\ NoticeInv /\ BegunInv /\ TimerInv /\ TransferInv /\ SmsStepInv /\ SmsAnswerInv
    /\ SmsDamageInv /\ OwnInv

-----------------------------------------------------------------------------
\* Messages in the buffer.
LEMMA Appended ==
    ASSUME NEW S, NEW s \in Seq(S), NEW e \in S
    PROVE  /\ Append(s, e) \in Seq(S) /\ Append(s, e) # <<>>
           /\ Len(Append(s, e)) = Len(s) + 1
           /\ DOMAIN s = 1..Len(s) /\ DOMAIN Append(s, e) = 1..(Len(s) + 1)
           /\ \A i \in DOMAIN s : Append(s, e)[i] = s[i]
           /\ Append(s, e)[Len(s) + 1] = e
OBVIOUS

LEMMA Shortened ==
    ASSUME NEW S, NEW s \in Seq(S), s # <<>>
    PROVE  /\ Tail(s) \in Seq(S) /\ Len(Tail(s)) = Len(s) - 1
           /\ Head(s) = s[1] /\ Head(s) \in S
           /\ \A i \in DOMAIN Tail(s) : i \in Nat /\ i + 1 \in DOMAIN s /\ i + 1 # 1
              /\ Tail(s)[i] = s[i + 1]
OBVIOUS

LEMMA OutdatedKeeps ==
    ASSUME rx \in Seq(Message)
    PROVE  /\ Outdated \in Seq(Message) /\ Len(Outdated) = Len(rx) /\ DOMAIN Outdated = DOMAIN rx
           /\ (Outdated = <<>>) = (rx = <<>>)
           /\ \A i \in DOMAIN rx : Outdated[i].text = rx[i].text
<1>1. \A i \in DOMAIN rx : rx[i] \in Message
  OBVIOUS
<1>2. \A i \in DOMAIN rx : [rx[i] EXCEPT !.own = FALSE] \in Message
       /\ [rx[i] EXCEPT !.own = FALSE].text = rx[i].text
  BY <1>1 DEF Message
<1>3. Outdated \in [1..Len(rx) -> Message]
  BY <1>2 DEF Outdated
<1>4. Outdated \in Seq(Message) /\ Len(Outdated) = Len(rx)
  BY <1>3
<1>5. DOMAIN Outdated = DOMAIN rx
  BY DEF Outdated
<1>6. \A i \in DOMAIN rx : Outdated[i].text = rx[i].text
  BY <1>2 DEF Outdated
<1>7. (Outdated = <<>>) = (rx = <<>>)
  <2>1. rx = <<>> <=> Len(rx) = 0
    OBVIOUS
  <2>2. Outdated = <<>> <=> Len(Outdated) = 0
    BY <1>4
  <2> QED BY <1>4, <2>1, <2>2
<1> QED BY <1>4, <1>5, <1>6, <1>7

\* What the outcome tells, when the listener of c has seen a message.
Tells(o, c, text) ==
    /\ o \in {"ignored", "taken", "restarted", "received", "text", "id", "failed", "OK", "ERROR"} \cup Failure
    /\ c = None \/ (text \in {"URC", "+CLCC"} /\ c \notin Wait \cup Power) => o = "ignored"
    /\ o = "restarted" => c = "get_info"
    /\ o \in {"received", "taken"} => c \in Power
    /\ o = "text" => c = "send_sms" /\ text = "PROMPT" /\ sendState # "FAILED"
    /\ o = "id" => c = "send_sms" /\ text = "+CMGS" /\ sendState # "FAILED"
    /\ o = "failed" => c = "send_sms" /\ Sending /\ text \in {"CORRUPTED", "ERROR"}
    /\ o \in {"OK", "ERROR"} \cup Failure =>
       \/ c \in Plain /\ IsSent
       \/ c \in Wait
       \/ c = "send_sms" /\ sendState # "FAILED" /\ text = "OK"
       \/ c = "send_sms" /\ ~Sending /\ sendState # "FAILED" /\ text = "ERROR"
       \/ c = "send_sms" /\ ~Sending /\ text = "CORRUPTED"

LEMMA Heard ==
    ASSUME NEW c \in NoneOr, NEW text \in Text, NEW o \in Outcome(c, text)
    PROVE  Tells(o, c, text)
<1> USE DEF Tells, Failure, Plain, Wait, Power, None
<1>1. CASE c \in Plain
  <2>1. o \in PlainOutcome(c, text)
    BY <1>1 DEF Outcome
  <2>2. CASE ~IsSent
    BY <1>1, <2>1, <2>2 DEF PlainOutcome
  <2>3. CASE IsSent
    <3>1. o \in {"CORRUPTED_RESPONSE", "restarted", "OK", "ERROR", "ignored"}
      BY <2>1, <2>3 DEF PlainOutcome
    <3>2. o = "restarted" => c = "get_info"
      BY <2>1, <2>3 DEF PlainOutcome
    <3>3. text \in {"URC", "+CLCC"} => o = "ignored"
      BY <2>1, <2>3 DEF PlainOutcome
    <3> QED BY <1>1, <2>3, <3>1, <3>2, <3>3
  <2> QED BY <2>2, <2>3
<1>2. CASE c \in Wait
  BY <1>2 DEF Outcome, WaitOutcome
<1>3. CASE c = "send_sms"
  <2>1. o \in SmsOutcome(text)
    BY <1>3 DEF Outcome
  <2>2. CASE text = "CORRUPTED"
    BY <1>3, <2>1, <2>2 DEF SmsOutcome, DamagedOutcome, Sending
  <2>3. CASE text # "CORRUPTED" /\ sendState = "FAILED"
    BY <1>3, <2>1, <2>3 DEF SmsOutcome
  <2>4. CASE text \in {"PROMPT", "+CMGS"} /\ sendState # "FAILED"
    BY <1>3, <2>1, <2>4 DEF SmsOutcome
  <2>5. CASE text = "OK" /\ sendState # "FAILED"
    BY <1>3, <2>1, <2>5 DEF SmsOutcome
  <2>6. CASE text = "ERROR" /\ sendState # "FAILED"
    BY <1>3, <2>1, <2>6 DEF SmsOutcome
  <2>7. CASE text \notin {"CORRUPTED", "PROMPT", "+CMGS", "OK", "ERROR"}
    BY <1>3, <2>1, <2>7 DEF SmsOutcome
  <2> QED BY <2>2, <2>3, <2>4, <2>5, <2>6, <2>7
<1>4. CASE c \in Power
  BY <1>4 DEF Outcome, PowerOutcome
<1>5. CASE c = None
  BY <1>5 DEF Outcome
<1> QED BY <1>1, <1>2, <1>3, <1>4, <1>5 DEF NoneOr, Command

\* What an answer of the module tells of what it owes.
LEMMA Answered ==
    ASSUME NEW a \in Answers
    PROVE  /\ a[1] \in Text
           /\ a[2] \in {None, "answer", "text"}
           /\ owed \in {"cmd", "text", None} => a[1] \notin SmsAnswer /\ a[2] = None
           /\ a[1] = "PROMPT" => owed = "input" /\ a[2] = "text"
<1> DEFINE pairs == {<<"OK", None>>, <<"ERROR", None>>, <<"NO_CARRIER", None>>, <<"+INFO", "answer">>,
                     <<"PROMPT", "text">>, <<"+CMGS", "answer">>, <<"RDY", None>>, <<"DOWN", None>>}
<1>1. a \in pairs
  BY DEF Answers
<1>2. owed \in {"cmd", "text"} => a = <<"ERROR", None>>
  BY DEF Answers
<1>3. owed # None
  BY DEF Answers, None
<1>4. a = <<"PROMPT", "text">> => owed = "input"
  BY DEF Answers
<1>5. a[1] \in Text /\ a[2] \in {None, "answer", "text"}
  BY <1>1 DEF Text
<1>6. a[1] = "PROMPT" => a = <<"PROMPT", "text">>
  BY <1>1
<1> QED BY <1>2, <1>3, <1>4, <1>5, <1>6 DEF SmsAnswer

-----------------------------------------------------------------------------
(* What actions do, as far as the invariant is concerned *)

\* A message comes: what it can be, and what it leaves of what the module owes.
Comes(text) ==
    /\ Len(rx) < MaxMessages /\ rx' \in Seq(Message) /\ Len(rx') = Len(rx) + 1 /\ rx' # <<>>
    /\ DOMAIN rx = 1..Len(rx) /\ DOMAIN rx' = 1..(Len(rx) + 1)
    /\ \A i \in DOMAIN rx : rx'[i] = rx[i]
    /\ rx'[Len(rx) + 1].text = text /\ rx'[Len(rx) + 1].own
    /\ bits' = bits \cup {"MESSAGE_RECEIVED"}
    /\ pc = "wait" \/ ("MESSAGE_RECEIVED" \notin bits /\ starting = None)
    /\ starting # None => text \in {"URC", "+CLCC"}
    /\ text = "CORRUPTED" /\ running = "send_sms" =>
        sendState # "FAILED" /\ \A i \in DOMAIN rx : rx[i].text \notin {"CORRUPTED", "ERROR"}
    /\ UNCHANGED <<task, timeoutV, uart, sendState, power, starting, command>>
    /\ owed' \in {owed, None, "answer", "text"}
    /\ owed \in {"cmd", "text", None} => owed' \in {owed, None}
    /\ text \in SmsAnswer => owed \notin {"cmd", "text", None} /\ owed' # "input"
       /\ ("MESSAGE_SENT" \in bits => pc = "wait")
    /\ text = "PROMPT" => owed = "input" /\ owed' = "text"

LEMMA Incoming ==
    ASSUME Coincidences = {}, TypeBuffer, Answer \/ Unsolicited
    PROVE  \E text \in Text : Comes(text)
<1>1. ASSUME NEW text \in Text, Receive(text),
             owed' \in {owed, None, "answer", "text"}, owed \in {"cmd", "text", None}
                 => owed' \in {owed, None},
             text \in SmsAnswer => owed \notin {"cmd", "text", None} /\ owed' # "input"
                    /\ ("MESSAGE_SENT" \in bits => pc = "wait"),
             text = "PROMPT" => owed = "input" /\ owed' = "text"
      PROVE  Comes(text)
  <2> DEFINE m == [text |-> text, own |-> TRUE]
  <2>1. m \in Message /\ m.text = text /\ m.own
    BY DEF Message
  <2>2. rx' = Append(rx, m) /\ Len(rx) < MaxMessages
    BY <1>1 DEF Receive
  <2>3. rx' \in Seq(Message) /\ Len(rx') = Len(rx) + 1 /\ rx' # <<>> /\ DOMAIN rx = 1..Len(rx)
        /\ DOMAIN rx' = 1..(Len(rx) + 1) /\ (\A i \in DOMAIN rx : rx'[i] = rx[i]) /\ rx'[Len(rx) + 1] = m
    <3> HIDE DEF m
    <3> QED BY <2>1, <2>2, Appended DEF TypeBuffer
  <2>4. bits' = bits \cup {"MESSAGE_RECEIVED"}
      /\ UNCHANGED <<task, timeoutV, uart, sendState, power, starting, command>>
    BY <1>1 DEF Receive
  <2>5. pc = "wait" \/ ("MESSAGE_RECEIVED" \notin bits /\ starting = None)
    BY <1>1 DEF Receive
  <2>6. starting # None => text \in {"URC", "+CLCC"}
    BY <1>1 DEF Receive
  <2>7. text = "CORRUPTED" /\ running = "send_sms" =>
            sendState # "FAILED" /\ \A i \in DOMAIN rx : rx[i].text \notin {"CORRUPTED", "ERROR"}
    BY <1>1 DEF Receive
  <2> HIDE DEF m
  <2> QED BY <1>1, <2>1, <2>2, <2>3, <2>4, <2>5, <2>6, <2>7 DEF Comes
<1>2. CASE Unsolicited
  <2>1. PICK text \in {"URC", "+CLCC", "NO_CARRIER", "CORRUPTED"} : Receive(text) /\ UNCHANGED owed
    BY <1>2 DEF Unsolicited
  <2>2. text \in Text /\ text \notin SmsAnswer /\ text # "PROMPT"
    BY DEF Text, SmsAnswer
  <2> QED BY <1>1, <2>1, <2>2
<1>3. CASE Answer
  <2>1. PICK a \in Answers : (Receive(a[1]) \/ Receive("CORRUPTED")) /\ owed' = a[2]
    BY <1>3 DEF Answer
  <2>2. "MESSAGE_SENT" \in bits => pc = "wait"
    BY <1>3 DEF Answer
  <2>3. a[2] # "input"
    BY Answered DEF None
  <2>4. CASE Receive(a[1])
    BY <1>1, <2>1, <2>2, <2>3, <2>4, Answered
  <2>5. CASE Receive("CORRUPTED")
    <3>1. "CORRUPTED" \in Text /\ "CORRUPTED" \notin SmsAnswer /\ "CORRUPTED" # "PROMPT"
      BY DEF Text, SmsAnswer
    <3> QED BY <1>1, <2>1, <2>5, <3>1, Answered
  <2> QED BY <2>1, <2>4, <2>5
<1> QED BY <1>2, <1>3

\* The listener has seen the oldest message.
LEMMA ListenSees ==
    ASSUME TypeOK, NoticeInv, Listen
    PROVE  \E o : Tells(o, listener, rx[1].text) /\ Apply(listener, o) /\ handled' = (o # "ignored")
<1>1. rx # <<>> /\ Head(rx) = rx[1] /\ Head(rx) \in Message
  BY Shortened DEF TypeOK, TypeBuffer, NoticeInv, Listen, At
<1>2. rx[1].text \in Text /\ listener \in NoneOr
  BY <1>1 DEF Message, TypeOK, TypeCommand
<1>3. PICK o \in Outcome(listener, rx[1].text) : Apply(listener, o) /\ handled' = (o # "ignored")
  BY <1>1 DEF Listen
<1> QED BY <1>2, <1>3, Heard

\* A timeout that has elapsed is a step of power or the end of the command.
TimesOut ==
    \/ /\ "TIMEOUT" \notin taken /\ UNCHANGED <<timeoutV, power, rx, owed, command>>
    \/ /\ "TIMEOUT" \in taken /\ running \in Power /\ UNCHANGED command
       /\ timeoutType' = "DELAY" /\ timeoutElapsed' = running /\ timer'
    \/ /\ "TIMEOUT" \in taken /\ timeoutType' = "NONE" /\ UNCHANGED <<timeoutElapsed, timer>>
       /\ listener' = None /\ running' = None /\ parity' = 1 - parity /\ due' \in NoneOr \ {"send_sms"}

LEMMA FollowsTyped == ASSUME NEW c, NEW res PROVE Follows(c, res) \subseteq NoneOr \ {"send_sms"}
BY DEF Follows, NoneOr, Command, Plain, Wait, Power, None

LEMMA TimeoutServed ==
    ASSUME TypeOK, TimerInv, ServiceTimeout
    PROVE  TimesOut /\ rx' \in {rx, <<>>}
<1>1. CASE "TIMEOUT" \notin taken
  BY <1>1 DEF ServiceTimeout, TimesOut, timeoutV, power, command
<1>2. CASE "TIMEOUT" \in taken
  <2>1. TimeoutElapsed /\ timeoutElapsed = running /\ running # None
    BY <1>2 DEF ServiceTimeout, TimerInv
  <2>2. ASSUME NEW c, NEW res, c = running, End(c, res), timeoutType' = "NONE",
      UNCHANGED <<timeoutElapsed, timer>>
        PROVE  TimesOut
    <3>1. due' \in NoneOr \ {"send_sms"}
      BY <2>2, FollowsTyped DEF End
    <3> QED BY <1>2, <2>2, <3>1 DEF End, TimesOut
  <2>3. CASE timeoutElapsed = "turn_on" /\ DoPowerOn
    <3>1. ASSUME StartTimeout("DELAY", "turn_on"), UNCHANGED command PROVE TimesOut
      BY <1>2, <2>1, <2>3, <3>1 DEF StartTimeout, TimesOut, Power
    <3>2. ASSUME NEW res, End("turn_on", res), timeoutType' = "NONE", UNCHANGED <<timeoutElapsed, timer>>
          PROVE  TimesOut
      BY <2>1, <2>2, <2>3, <3>2
    <3>3. rx' \in {rx, <<>>}
      BY <2>3 DEF DoPowerOn, PowerStep
    <3> QED BY <2>3, <3>1, <3>2, <3>3 DEF DoPowerOn
  <2>4. CASE timeoutElapsed = "turn_off" /\ DoPowerOff
    <3>1. ASSUME StartTimeout("DELAY", "turn_off"), UNCHANGED command PROVE TimesOut
      BY <1>2, <2>1, <2>4, <3>1 DEF StartTimeout, TimesOut, Power
    <3>2. ASSUME PoweredOff PROVE TimesOut
      BY <2>1, <2>2, <2>4, <3>2 DEF PoweredOff
    <3>3. rx' \in {rx, <<>>}
      BY <2>4 DEF DoPowerOff, PoweredOff, PowerStep
    <3> QED BY <2>4, <3>1, <3>2, <3>3 DEF DoPowerOff
  <2>5. CASE timeoutElapsed \notin Power
    BY <2>1, <2>2, <2>5 DEF TimeoutElapsed, Power
  <2> QED BY <2>1, <2>3, <2>4, <2>5 DEF TimeoutElapsed
<1> QED BY <1>1, <1>2

-----------------------------------------------------------------------------
(* Steps preserve the invariant *)

\* Every step leaves the task typed.
LEMMA TypeTaskStep == Coincidences = {} /\ IInv /\ [Next]_vars => TypeTask'
<1> SUFFICES ASSUME Coincidences = {}, IInv, [Next]_vars PROVE TypeTask'
    OBVIOUS
<1> USE DEF IInv, TypeOK, TypeTask, Bit, task, timeoutV, uart, power, command, None
<1>1. ASSUME NEW c \in Command, Begin(c) PROVE TypeTask'
  BY <1>1, OutdatedKeeps DEF Begin, Idle, BeginCommand, Start, StartTimeout, Send, SetSendState,
      OwedBefore
<1>2. ASSUME NEW c \in Command, BeginByTask(c) PROVE TypeTask'
  BY <1>2, OutdatedKeeps DEF BeginByTask, Idle, BeginCommand, SetSendState, OwedBefore
<1>3. CASE SendByTask
  BY <1>3 DEF SendByTask, Start, StartTimeout, Send
<1>4. CASE Take
  BY <1>4 DEF Take, At
<1>5. CASE MessageSent
  BY <1>5, FollowsTyped DEF MessageSent, At, End
<1>6. CASE ServiceTimeout
  BY <1>6, TimeoutServed DEF ServiceTimeout, At, TimesOut
<1>7. CASE Listen
  <2>1. PICK o : Tells(o, listener, rx[1].text) /\ Apply(listener, o) /\ handled' = (o # "ignored")
    BY <1>7, ListenSees DEF IInv
  <2> QED BY <1>7, <2>1, FollowsTyped DEF Listen, At, Tells, Apply, End, Reserve, StartTimeout,
      Send, Failure
<1>8. CASE AfterListener
  BY <1>8 DEF AfterListener, At
<1>9. CASE NextMessage
  BY <1>9, Shortened DEF NextMessage, At
<1>10. CASE Elapse
  BY <1>10 DEF Elapse
<1>11. CASE TransferDone
  BY <1>11, OutdatedKeeps DEF TransferDone, OwedAfter
<1>12. CASE Answer \/ Unsolicited
  <2>1. PICK text \in Text : Comes(text)
    BY <1>12, Incoming DEF IInv, TypeOK
  <2> QED BY <2>1 DEF Comes
<1>13. CASE Lose
  BY <1>13, Answered DEF Lose
<1>14. CASE UNCHANGED vars
  BY <1>14 DEF vars
<1> QED BY <1>1, <1>2, <1>3, <1>4, <1>5, <1>6, <1>7, <1>8, <1>9, <1>10, <1>11, <1>12, <1>13, <1>14
    DEF Next, Driver

\* Every step leaves the commands typed.
LEMMA TypeCommandStep == Coincidences = {} /\ IInv /\ [Next]_vars => TypeCommand'
<1> SUFFICES ASSUME Coincidences = {}, IInv, [Next]_vars PROVE TypeCommand'
    OBVIOUS
<1> USE DEF IInv, TypeOK, TypeCommand, NoneOr, Command, Plain, Wait, Power, task, timeoutV, uart,
    power, command, None
<1>1. ASSUME NEW c \in Command, Begin(c) PROVE TypeCommand'
  BY <1>1, OutdatedKeeps DEF Begin, Idle, BeginCommand, Start, StartTimeout, Send, SetSendState,
      OwedBefore
<1>2. ASSUME NEW c \in Command, BeginByTask(c) PROVE TypeCommand'
  BY <1>2, OutdatedKeeps DEF BeginByTask, Idle, BeginCommand, SetSendState, OwedBefore
<1>3. CASE SendByTask
  BY <1>3 DEF SendByTask, Start, StartTimeout, Send
<1>4. CASE Take
  BY <1>4 DEF Take, At
<1>5. CASE MessageSent
  BY <1>5, FollowsTyped DEF MessageSent, At, End
<1>6. CASE ServiceTimeout
  BY <1>6, TimeoutServed DEF ServiceTimeout, At, TimesOut
<1>7. CASE Listen
  <2>1. PICK o : Tells(o, listener, rx[1].text) /\ Apply(listener, o) /\ handled' = (o # "ignored")
    BY <1>7, ListenSees DEF IInv
  <2> QED BY <1>7, <2>1, FollowsTyped DEF Listen, At, Tells, Apply, End, Reserve, StartTimeout,
      Send, Failure
<1>8. CASE AfterListener
  BY <1>8 DEF AfterListener, At
<1>9. CASE NextMessage
  BY <1>9, Shortened DEF NextMessage, At
<1>10. CASE Elapse
  BY <1>10 DEF Elapse
<1>11. CASE TransferDone
  BY <1>11, OutdatedKeeps DEF TransferDone, OwedAfter
<1>12. CASE Answer \/ Unsolicited
  <2>1. PICK text \in Text : Comes(text)
    BY <1>12, Incoming DEF IInv, TypeOK
  <2> QED BY <2>1 DEF Comes
<1>13. CASE Lose
  BY <1>13, Answered DEF Lose
<1>14. CASE UNCHANGED vars
  BY <1>14 DEF vars
<1> QED BY <1>1, <1>2, <1>3, <1>4, <1>5, <1>6, <1>7, <1>8, <1>9, <1>10, <1>11, <1>12, <1>13, <1>14
    DEF Next, Driver

\* Every step leaves what the task controls typed.
LEMMA TypeModuleStep == Coincidences = {} /\ IInv /\ [Next]_vars => TypeModule'
<1> SUFFICES ASSUME Coincidences = {}, IInv, [Next]_vars PROVE TypeModule'
    OBVIOUS
<1> USE DEF IInv, TypeOK, TypeModule, SendSmsState, Step, task, timeoutV, uart, power, command, None
<1>1. ASSUME NEW c \in Command, Begin(c) PROVE TypeModule'
  BY <1>1, OutdatedKeeps DEF Begin, Idle, BeginCommand, Start, StartTimeout, Send, SetSendState,
      OwedBefore
<1>2. ASSUME NEW c \in Command, BeginByTask(c) PROVE TypeModule'
  BY <1>2, OutdatedKeeps DEF BeginByTask, Idle, BeginCommand, SetSendState, OwedBefore
<1>3. CASE SendByTask
  BY <1>3 DEF SendByTask, Start, StartTimeout, Send
<1>4. CASE Take
  BY <1>4 DEF Take, At
<1>5. CASE MessageSent
  BY <1>5, FollowsTyped DEF MessageSent, At, End
<1>6. CASE ServiceTimeout
  <2>1. UNCHANGED <<transfer, onSent, sendState>>
    BY <1>6 DEF ServiceTimeout
  <2>2. CASE UNCHANGED <<power, owed>>
    BY <2>1, <2>2
  <2>3. ASSUME NEW from, NEW to \in Step, NEW on \in SUBSET {"VBAT", "SHORT", "KEY", "UART"}, NEW off,
               PowerStep(from, to, on, off)
        PROVE  TypeModule'
    BY <2>1, <2>3 DEF PowerStep
  <2>4. CASE DoPowerOn
    BY <2>3, <2>4 DEF DoPowerOn, Step
  <2>5. CASE DoPowerOff
    BY <2>3, <2>5 DEF DoPowerOff, PoweredOff, Step
  <2> QED BY <1>6, <2>2, <2>4, <2>5 DEF ServiceTimeout, TimeoutElapsed
<1>7. CASE Listen
  <2>1. PICK o : Tells(o, listener, rx[1].text) /\ Apply(listener, o) /\ handled' = (o # "ignored")
    BY <1>7, ListenSees DEF IInv
  <2> USE <1>7, <2>1, FollowsTyped DEF Listen, At, Tells, Apply, End, Reserve, StartTimeout, Send, Failure
  <2>2. CASE o \in {"ignored", "taken"}
    BY <2>2
  <2>3. CASE o = "received"
    BY <2>3
  <2>4. CASE o \in {"restarted", "id"}
    BY <2>4
  <2>5. CASE o = "text"
    BY <2>5
  <2>6. CASE o = "failed"
    BY <2>6
  <2>7. CASE o \in {"OK", "ERROR"} \cup Failure
    BY <2>7
  <2> QED BY <2>2, <2>3, <2>4, <2>5, <2>6, <2>7
<1>8. CASE AfterListener
  BY <1>8 DEF AfterListener, At
<1>9. CASE NextMessage
  BY <1>9, Shortened DEF NextMessage, At
<1>10. CASE Elapse
  BY <1>10 DEF Elapse
<1>11. CASE TransferDone
  BY <1>11, OutdatedKeeps DEF TransferDone, OwedAfter
<1>12. CASE Answer \/ Unsolicited
  <2>1. PICK text \in Text : Comes(text)
    BY <1>12, Incoming DEF IInv, TypeOK
  <2> QED BY <2>1 DEF Comes
<1>13. CASE Lose
  BY <1>13, Answered DEF Lose
<1>14. CASE UNCHANGED vars
  BY <1>14 DEF vars
<1> QED BY <1>1, <1>2, <1>3, <1>4, <1>5, <1>6, <1>7, <1>8, <1>9, <1>10, <1>11, <1>12, <1>13, <1>14
    DEF Next, Driver

\* Every step leaves the messages typed.
LEMMA TypeBufferStep == Coincidences = {} /\ IInv /\ [Next]_vars => TypeBuffer'
<1> SUFFICES ASSUME Coincidences = {}, IInv, [Next]_vars PROVE TypeBuffer'
    OBVIOUS
<1> USE DEF IInv, TypeOK, TypeBuffer, NoticeInv, task, timeoutV, uart, power, command, None
<1>1. ASSUME NEW c \in Command, Begin(c) PROVE TypeBuffer'
  BY <1>1, OutdatedKeeps DEF Begin, Idle, BeginCommand, Start, StartTimeout, Send, SetSendState,
      OwedBefore
<1>2. ASSUME NEW c \in Command, BeginByTask(c) PROVE TypeBuffer'
  BY <1>2, OutdatedKeeps DEF BeginByTask, Idle, BeginCommand, SetSendState, OwedBefore
<1>3. CASE SendByTask
  BY <1>3 DEF SendByTask, Start, StartTimeout, Send
<1>4. CASE Take
  BY <1>4 DEF Take, At
<1>5. CASE MessageSent
  BY <1>5, FollowsTyped DEF MessageSent, At, End
<1>6. CASE ServiceTimeout
  <2>1. rx' \in {rx, <<>>}
    BY <1>6, TimeoutServed DEF TimerInv, IInv
  <2>2. <<>> \in Seq(Message) /\ Len(<<>>) <= MaxMessages
    BY MaxMessagesAssumption
  <2> QED BY <2>1, <2>2
<1>7. CASE Listen
  <2>1. PICK o : Tells(o, listener, rx[1].text) /\ Apply(listener, o) /\ handled' = (o # "ignored")
    BY <1>7, ListenSees DEF IInv
  <2> QED BY <1>7, <2>1, FollowsTyped DEF Listen, At, Tells, Apply, End, Reserve, StartTimeout,
      Send, Failure
<1>8. CASE AfterListener
  BY <1>8 DEF AfterListener, At
<1>9. CASE NextMessage
  BY <1>9, Shortened, MaxMessagesAssumption DEF NextMessage, At
<1>10. CASE Elapse
  BY <1>10 DEF Elapse
<1>11. CASE TransferDone
  BY <1>11, OutdatedKeeps DEF TransferDone, OwedAfter
<1>12. CASE Answer \/ Unsolicited
  <2>1. PICK text \in Text : Comes(text)
    BY <1>12, Incoming DEF IInv, TypeOK
  <2>2. rx' \in Seq(Message) /\ Len(rx') = Len(rx) + 1 /\ Len(rx) < MaxMessages
    BY <2>1 DEF Comes
  <2>3. Len(rx) \in Nat
    OBVIOUS
  <2> QED BY <2>2, <2>3, MaxMessagesAssumption
<1>13. CASE Lose
  BY <1>13, Answered DEF Lose
<1>14. CASE UNCHANGED vars
  BY <1>14 DEF vars
<1> QED BY <1>1, <1>2, <1>3, <1>4, <1>5, <1>6, <1>7, <1>8, <1>9, <1>10, <1>11, <1>12, <1>13, <1>14
    DEF Next, Driver

\* Every step preserves NoticeInv.
LEMMA NoticeStep == Coincidences = {} /\ IInv /\ [Next]_vars => NoticeInv'
<1> SUFFICES ASSUME Coincidences = {}, IInv, [Next]_vars PROVE NoticeInv'
    OBVIOUS
<1> USE DEF IInv, TypeOK, TypeBuffer, NoticeInv, task, timeoutV, uart, power, command, None
<1>1. ASSUME NEW c \in Command, Begin(c) PROVE NoticeInv'
  BY <1>1, OutdatedKeeps DEF Begin, Idle, BeginCommand, Start, StartTimeout, Send, SetSendState,
      OwedBefore
<1>2. ASSUME NEW c \in Command, BeginByTask(c) PROVE NoticeInv'
  BY <1>2, OutdatedKeeps DEF BeginByTask, Idle, BeginCommand, SetSendState, OwedBefore
<1>3. CASE SendByTask
  BY <1>3 DEF SendByTask, Start, StartTimeout, Send
<1>4. CASE Take
  BY <1>4 DEF Take, At
<1>5. CASE MessageSent
  BY <1>5, FollowsTyped DEF MessageSent, At, End
<1>6. CASE ServiceTimeout
  BY <1>6, TimeoutServed DEF ServiceTimeout, At, TimesOut
<1>7. CASE Listen
  <2>1. PICK o : Tells(o, listener, rx[1].text) /\ Apply(listener, o) /\ handled' = (o # "ignored")
    BY <1>7, ListenSees DEF IInv
  <2> QED BY <1>7, <2>1, FollowsTyped DEF Listen, At, Tells, Apply, End, Reserve, StartTimeout,
      Send, Failure
<1>8. CASE AfterListener
  BY <1>8 DEF AfterListener, At
<1>9. CASE NextMessage
  BY <1>9, Shortened DEF NextMessage, At
<1>10. CASE Elapse
  BY <1>10 DEF Elapse
<1>11. CASE TransferDone
  BY <1>11, OutdatedKeeps DEF TransferDone, OwedAfter
<1>12. CASE Answer \/ Unsolicited
  <2>1. PICK text \in Text : Comes(text)
    BY <1>12, Incoming DEF IInv, TypeOK
  <2> QED BY <2>1 DEF Comes
<1>13. CASE Lose
  BY <1>13, Answered DEF Lose
<1>14. CASE UNCHANGED vars
  BY <1>14 DEF vars
<1> QED BY <1>1, <1>2, <1>3, <1>4, <1>5, <1>6, <1>7, <1>8, <1>9, <1>10, <1>11, <1>12, <1>13, <1>14
    DEF Next, Driver

\* Every step preserves BegunInv.
LEMMA BegunStep == Coincidences = {} /\ IInv /\ [Next]_vars => BegunInv'
<1> SUFFICES ASSUME Coincidences = {}, IInv, [Next]_vars PROVE BegunInv'
    OBVIOUS
<1> USE DEF IInv, TypeOK, TypeBuffer, BegunInv, TimerInv, TransferInv, SmsStepInv, Sent, Pending,
    NoticeInv, Plain, Wait, Power, task, timeoutV, uart, power, command, None
<1>1. ASSUME NEW c \in Command, Begin(c) PROVE BegunInv'
  BY <1>1, OutdatedKeeps DEF Begin, Idle, BeginCommand, Start, StartTimeout, Send, SetSendState,
      OwedBefore
<1>2. ASSUME NEW c \in Command, BeginByTask(c) PROVE BegunInv'
  BY <1>2, OutdatedKeeps DEF BeginByTask, Idle, BeginCommand, SetSendState, OwedBefore
<1>3. CASE SendByTask
  BY <1>3 DEF SendByTask, Start, StartTimeout, Send
<1>4. CASE Take
  BY <1>4 DEF Take, At
<1>5. CASE MessageSent
  BY <1>5, FollowsTyped DEF MessageSent, At, End
<1>6. CASE ServiceTimeout
  BY <1>6, TimeoutServed DEF ServiceTimeout, At, TimesOut
<1>7. CASE Listen
  <2>1. PICK o : Tells(o, listener, rx[1].text) /\ Apply(listener, o) /\ handled' = (o # "ignored")
    BY <1>7, ListenSees DEF IInv
  <2> QED BY <1>7, <2>1, FollowsTyped DEF Listen, At, Tells, Apply, End, Reserve, StartTimeout,
      Send, Failure
<1>8. CASE AfterListener
  BY <1>8 DEF AfterListener, At
<1>9. CASE NextMessage
  BY <1>9, Shortened DEF NextMessage, At
<1>10. CASE Elapse
  BY <1>10 DEF Elapse
<1>11. CASE TransferDone
  BY <1>11, OutdatedKeeps DEF TransferDone, OwedAfter
<1>12. CASE Answer \/ Unsolicited
  <2>1. PICK text \in Text : Comes(text)
    BY <1>12, Incoming DEF IInv, TypeOK
  <2> QED BY <2>1 DEF Comes
<1>13. CASE Lose
  BY <1>13, Answered DEF Lose
<1>14. CASE UNCHANGED vars
  BY <1>14 DEF vars
<1> QED BY <1>1, <1>2, <1>3, <1>4, <1>5, <1>6, <1>7, <1>8, <1>9, <1>10, <1>11, <1>12, <1>13, <1>14
    DEF Next, Driver

\* Every step preserves TimerInv.
LEMMA TimerStep == Coincidences = {} /\ IInv /\ [Next]_vars => TimerInv'
<1> SUFFICES ASSUME Coincidences = {}, IInv, [Next]_vars PROVE TimerInv'
    OBVIOUS
<1> USE DEF IInv, TypeOK, TypeBuffer, NoticeInv, BegunInv, TimerInv, TransferInv, SmsStepInv, Sent,
    Pending, Stopping, Plain, Wait, Power, task, timeoutV, uart, power, command, None
<1>1. ASSUME NEW c \in Command, Begin(c) PROVE TimerInv'
  BY <1>1, OutdatedKeeps DEF Begin, Idle, BeginCommand, Start, StartTimeout, Send, SetSendState,
      OwedBefore
<1>2. ASSUME NEW c \in Command, BeginByTask(c) PROVE TimerInv'
  BY <1>2, OutdatedKeeps DEF BeginByTask, Idle, BeginCommand, SetSendState, OwedBefore
<1>3. CASE SendByTask
  BY <1>3 DEF SendByTask, Start, StartTimeout, Send
<1>4. CASE Take
  BY <1>4 DEF Take, At
<1>5. CASE MessageSent
  BY <1>5, FollowsTyped DEF MessageSent, At, End
<1>6. CASE ServiceTimeout
  BY <1>6, TimeoutServed DEF ServiceTimeout, At, TimesOut
<1>7. CASE Listen
  <2>1. PICK o : Tells(o, listener, rx[1].text) /\ Apply(listener, o) /\ handled' = (o # "ignored")
    BY <1>7, ListenSees DEF IInv
  <2>2. pc = "listen" /\ listener = running /\ 1 \in DOMAIN rx /\ "TIMEOUT" \notin bits \cup taken
    BY <1>7 DEF Listen, At
  <2>3. UNCHANGED <<bits, taken, starting>> /\ pc' = IF running # None
      /\ timeoutType = "RESPONSE" THEN "after" ELSE "next"
    BY <1>7 DEF Listen
  <2>4. CASE o \in {"ignored", "taken", "received"}
    <3>1. UNCHANGED <<timer, timeoutElapsed, running, transfer, sendState>>
          /\ timeoutType' = IF timeoutType = "RESPONSE" THEN "RESERVED" ELSE timeoutType
      BY <2>1, <2>4 DEF Apply, Reserve, Failure
    <3>2. o = "ignored" \/ running \in Power
      BY <2>1, <2>2, <2>4 DEF Tells, Failure
    <3>3. ~Stopping'
      BY <2>1, <2>3, <3>1, <3>2
    <3> QED BY <2>2, <2>3, <3>1, <3>3
  <2>5. CASE o \in {"restarted", "id", "text"}
    BY <2>1, <2>2, <2>3, <2>5 DEF Tells, Apply, StartTimeout, Send, Failure
  <2>6. CASE o = "failed"
    BY <2>1, <2>2, <2>3, <2>6 DEF Tells, Apply, Reserve, Sending, Failure
  <2>7. CASE o \in {"OK", "ERROR"} \cup Failure
    <3>1. UNCHANGED <<timer, timeoutElapsed>> /\ running' = None /\ handled'
          /\ timeoutType' = IF timeoutType = "RESPONSE" THEN "RESERVED" ELSE timeoutType
      BY <2>1, <2>2, <2>7 DEF Apply, Reserve, End, Failure
    <3>2. running \notin Power /\ running # None
      BY <2>1, <2>2, <2>7 DEF Tells, Failure
    <3>3. timer => Stopping'
      BY <2>2, <2>3, <3>1, <3>2
    <3> QED BY <2>2, <2>3, <3>1, <3>3
  <2> QED BY <2>1, <2>4, <2>5, <2>6, <2>7 DEF Tells
<1>8. CASE AfterListener
  BY <1>8 DEF AfterListener, At
<1>9. CASE NextMessage
  BY <1>9, Shortened DEF NextMessage, At
<1>10. CASE Elapse
  BY <1>10 DEF Elapse
<1>11. CASE TransferDone
  BY <1>11, OutdatedKeeps DEF TransferDone, OwedAfter
<1>12. CASE Answer \/ Unsolicited
  <2>1. PICK text \in Text : Comes(text)
    BY <1>12, Incoming DEF IInv, TypeOK
  <2> QED BY <2>1 DEF Comes
<1>13. CASE Lose
  BY <1>13, Answered DEF Lose
<1>14. CASE UNCHANGED vars
  BY <1>14 DEF vars
<1> QED BY <1>1, <1>2, <1>3, <1>4, <1>5, <1>6, <1>7, <1>8, <1>9, <1>10, <1>11, <1>12, <1>13, <1>14
    DEF Next, Driver

\* Every step preserves TransferInv.
LEMMA TransferStep == Coincidences = {} /\ IInv /\ [Next]_vars => TransferInv'
<1> SUFFICES ASSUME Coincidences = {}, IInv, [Next]_vars PROVE TransferInv'
    OBVIOUS
<1> USE DEF IInv, TypeOK, TypeBuffer, NoticeInv, BegunInv, TimerInv, TransferInv, SmsStepInv,
    SmsAnswerInv, SmsDamageInv, SmsAnswer, Unseen, Sent, Pending, IsSent, Sending, Plain, Wait,
    Power, task, timeoutV, uart, power, command, None
<1>1. ASSUME NEW c \in Command, Begin(c) PROVE TransferInv'
  BY <1>1, OutdatedKeeps DEF Begin, Idle, BeginCommand, Start, StartTimeout, Send, SetSendState,
      OwedBefore
<1>2. ASSUME NEW c \in Command, BeginByTask(c) PROVE TransferInv'
  BY <1>2, OutdatedKeeps DEF BeginByTask, Idle, BeginCommand, SetSendState, OwedBefore
<1>3. CASE SendByTask
  BY <1>3 DEF SendByTask, Start, StartTimeout, Send
<1>4. CASE Take
  BY <1>4 DEF Take, At
<1>5. CASE MessageSent
  BY <1>5, FollowsTyped DEF MessageSent, At, End
<1>6. CASE ServiceTimeout
  BY <1>6, TimeoutServed DEF ServiceTimeout, At, TimesOut
<1>7. CASE Listen
  <2>1. PICK o : Tells(o, listener, rx[1].text) /\ Apply(listener, o) /\ handled' = (o # "ignored")
    BY <1>7, ListenSees DEF IInv
  <2> QED BY <1>7, <2>1, FollowsTyped DEF Listen, At, Tells, Apply, End, Reserve, StartTimeout,
      Send, Failure
<1>8. CASE AfterListener
  BY <1>8 DEF AfterListener, At
<1>9. CASE NextMessage
  BY <1>9, Shortened DEF NextMessage, At
<1>10. CASE Elapse
  BY <1>10 DEF Elapse
<1>11. CASE TransferDone
  BY <1>11, OutdatedKeeps DEF TransferDone, OwedAfter
<1>12. CASE Answer \/ Unsolicited
  <2>1. PICK text \in Text : Comes(text)
    BY <1>12, Incoming DEF IInv, TypeOK
  <2> QED BY <2>1 DEF Comes
<1>13. CASE Lose
  BY <1>13, Answered DEF Lose
<1>14. CASE UNCHANGED vars
  BY <1>14 DEF vars
<1> QED BY <1>1, <1>2, <1>3, <1>4, <1>5, <1>6, <1>7, <1>8, <1>9, <1>10, <1>11, <1>12, <1>13, <1>14
    DEF Next, Driver

\* Every step preserves SmsStepInv.
LEMMA SmsStepStep == Coincidences = {} /\ IInv /\ [Next]_vars => SmsStepInv'
<1> SUFFICES ASSUME Coincidences = {}, IInv, [Next]_vars PROVE SmsStepInv'
    OBVIOUS
<1> USE DEF IInv, TypeOK, TypeBuffer, NoticeInv, BegunInv, TimerInv, TransferInv, SmsStepInv,
    SmsAnswerInv, SmsDamageInv, SmsAnswer, Unseen, Sent, Pending, Stopping, Sending, Plain, Wait,
    Power, task, timeoutV, uart, power, command, None
<1>1. ASSUME NEW c \in Command, Begin(c) PROVE SmsStepInv'
  BY <1>1, OutdatedKeeps DEF Begin, Idle, BeginCommand, Start, StartTimeout, Send, SetSendState,
      OwedBefore
<1>2. ASSUME NEW c \in Command, BeginByTask(c) PROVE SmsStepInv'
  BY <1>2, OutdatedKeeps DEF BeginByTask, Idle, BeginCommand, SetSendState, OwedBefore
<1>3. CASE SendByTask
  BY <1>3 DEF SendByTask, Start, StartTimeout, Send
<1>4. CASE Take
  BY <1>4 DEF Take, At
<1>5. CASE MessageSent
  BY <1>5, FollowsTyped DEF MessageSent, At, End
<1>6. CASE ServiceTimeout
  BY <1>6, TimeoutServed DEF ServiceTimeout, At, TimesOut
<1>7. CASE Listen
  <2>1. PICK o : Tells(o, listener, rx[1].text) /\ Apply(listener, o) /\ handled' = (o # "ignored")
    BY <1>7, ListenSees DEF IInv
  <2> USE <1>7, <2>1, FollowsTyped DEF Listen, At, Tells, Apply, End, Reserve, StartTimeout, Send, Failure
  <2>2. CASE o \in {"ignored", "taken"}
    BY <2>2
  <2>3. CASE o = "received"
    BY <2>3
  <2>4. CASE o \in {"restarted", "id"}
    BY <2>4
  <2>5. CASE o = "text"
    BY <2>5
  <2>6. CASE o = "failed"
    BY <2>6
  <2>7. CASE o \in {"OK", "ERROR"} \cup Failure
    BY <2>7
  <2> QED BY <2>2, <2>3, <2>4, <2>5, <2>6, <2>7
<1>8. CASE AfterListener
  BY <1>8 DEF AfterListener, At
<1>9. CASE NextMessage
  BY <1>9, Shortened DEF NextMessage, At
<1>10. CASE Elapse
  BY <1>10 DEF Elapse
<1>11. CASE TransferDone
  BY <1>11, OutdatedKeeps DEF TransferDone, OwedAfter
<1>12. CASE Answer \/ Unsolicited
  <2>1. PICK text \in Text : Comes(text)
    BY <1>12, Incoming DEF IInv, TypeOK
  <2> QED BY <2>1 DEF Comes
<1>13. CASE Lose
  BY <1>13, Answered DEF Lose
<1>14. CASE UNCHANGED vars
  BY <1>14 DEF vars
<1> QED BY <1>1, <1>2, <1>3, <1>4, <1>5, <1>6, <1>7, <1>8, <1>9, <1>10, <1>11, <1>12, <1>13, <1>14
    DEF Next, Driver

\* Every step preserves SmsAnswerInv.
LEMMA SmsAnswerStep == Coincidences = {} /\ IInv /\ [Next]_vars => SmsAnswerInv'
<1> SUFFICES ASSUME Coincidences = {}, IInv, [Next]_vars PROVE SmsAnswerInv'
    OBVIOUS
<1> USE DEF IInv, TypeOK, TypeBuffer, NoticeInv, BegunInv, TransferInv, SmsAnswerInv, SmsAnswer,
    Unseen, Sent, Pending, Plain, Wait, Power, task, timeoutV, uart, power, command, None
<1>1. ASSUME NEW c \in Command, Begin(c) PROVE SmsAnswerInv'
  BY <1>1, OutdatedKeeps DEF Begin, Idle, BeginCommand, Start, StartTimeout, Send, SetSendState,
      OwedBefore
<1>2. ASSUME NEW c \in Command, BeginByTask(c) PROVE SmsAnswerInv'
  BY <1>2, OutdatedKeeps DEF BeginByTask, Idle, BeginCommand, SetSendState, OwedBefore
<1>3. CASE SendByTask
  BY <1>3 DEF SendByTask, Start, StartTimeout, Send
<1>4. CASE Take
  BY <1>4 DEF Take, At
<1>5. CASE MessageSent
  BY <1>5, FollowsTyped DEF MessageSent, At, End
<1>6. CASE ServiceTimeout
  BY <1>6, TimeoutServed DEF ServiceTimeout, At, TimesOut
<1>7. CASE Listen
  <2>1. PICK o : Tells(o, listener, rx[1].text) /\ Apply(listener, o) /\ handled' = (o # "ignored")
    BY <1>7, ListenSees DEF IInv
  <2> QED BY <1>7, <2>1, FollowsTyped DEF Listen, At, Tells, Apply, End, Reserve, StartTimeout,
      Send, Failure
<1>8. CASE AfterListener
  BY <1>8 DEF AfterListener, At
<1>9. CASE NextMessage
  BY <1>9, Shortened DEF NextMessage, At
<1>10. CASE Elapse
  BY <1>10 DEF Elapse
<1>11. CASE TransferDone
  BY <1>11, OutdatedKeeps DEF TransferDone, OwedAfter
<1>12. CASE Answer \/ Unsolicited
  <2>1. PICK text \in Text : Comes(text)
    BY <1>12, Incoming DEF IInv, TypeOK
  <2> QED BY <2>1 DEF Comes
<1>13. CASE Lose
  BY <1>13, Answered DEF Lose
<1>14. CASE UNCHANGED vars
  BY <1>14 DEF vars
<1> QED BY <1>1, <1>2, <1>3, <1>4, <1>5, <1>6, <1>7, <1>8, <1>9, <1>10, <1>11, <1>12, <1>13, <1>14
    DEF Next, Driver

\* Every step preserves SmsDamageInv.
LEMMA SmsDamageStep == Coincidences = {} /\ IInv /\ [Next]_vars => SmsDamageInv'
<1> SUFFICES ASSUME Coincidences = {}, IInv, [Next]_vars PROVE SmsDamageInv'
    OBVIOUS
<1> USE DEF IInv, TypeOK, TypeBuffer, NoticeInv, BegunInv, SmsDamageInv, Unseen, Sent, Plain, Wait,
    Power, task, timeoutV, uart, power, command, None
<1>1. ASSUME NEW c \in Command, Begin(c) PROVE SmsDamageInv'
  BY <1>1, OutdatedKeeps DEF Begin, Idle, BeginCommand, Start, StartTimeout, Send, SetSendState,
      OwedBefore
<1>2. ASSUME NEW c \in Command, BeginByTask(c) PROVE SmsDamageInv'
  BY <1>2, OutdatedKeeps DEF BeginByTask, Idle, BeginCommand, SetSendState, OwedBefore
<1>3. CASE SendByTask
  BY <1>3 DEF SendByTask, Start, StartTimeout, Send
<1>4. CASE Take
  BY <1>4 DEF Take, At
<1>5. CASE MessageSent
  BY <1>5, FollowsTyped DEF MessageSent, At, End
<1>6. CASE ServiceTimeout
  BY <1>6, TimeoutServed DEF ServiceTimeout, At, TimesOut
<1>7. CASE Listen
  <2>1. PICK o : Tells(o, listener, rx[1].text) /\ Apply(listener, o) /\ handled' = (o # "ignored")
    BY <1>7, ListenSees DEF IInv
  <2> QED BY <1>7, <2>1, FollowsTyped DEF Listen, At, Tells, Apply, End, Reserve, StartTimeout,
      Send, Failure
<1>8. CASE AfterListener
  BY <1>8 DEF AfterListener, At
<1>9. CASE NextMessage
  BY <1>9, Shortened DEF NextMessage, At
<1>10. CASE Elapse
  BY <1>10 DEF Elapse
<1>11. CASE TransferDone
  BY <1>11, OutdatedKeeps DEF TransferDone, OwedAfter
<1>12. CASE Answer \/ Unsolicited
  <2>1. PICK text \in Text : Comes(text)
    BY <1>12, Incoming DEF IInv, TypeOK
  <2> QED BY <2>1 DEF Comes
<1>13. CASE Lose
  BY <1>13, Answered DEF Lose
<1>14. CASE UNCHANGED vars
  BY <1>14 DEF vars
<1> QED BY <1>1, <1>2, <1>3, <1>4, <1>5, <1>6, <1>7, <1>8, <1>9, <1>10, <1>11, <1>12, <1>13, <1>14
    DEF Next, Driver

\* Every step preserves OwnInv.
LEMMA OwnStep == Coincidences = {} /\ IInv /\ [Next]_vars => OwnInv'
<1> SUFFICES ASSUME Coincidences = {}, IInv, [Next]_vars PROVE OwnInv'
    OBVIOUS
<1> USE DEF IInv, TypeOK, TypeBuffer, NoticeInv, BegunInv, OwnInv, TransferInv, Pending, Plain,
    Wait, Power, task, timeoutV, uart, power, command, None
<1>1. ASSUME NEW c \in Command, Begin(c) PROVE OwnInv'
  BY <1>1, OutdatedKeeps DEF Begin, Idle, BeginCommand, Start, StartTimeout, Send, SetSendState,
      OwedBefore
<1>2. ASSUME NEW c \in Command, BeginByTask(c) PROVE OwnInv'
  BY <1>2, OutdatedKeeps DEF BeginByTask, Idle, BeginCommand, SetSendState, OwedBefore
<1>3. CASE SendByTask
  BY <1>3 DEF SendByTask, Start, StartTimeout, Send
<1>4. CASE Take
  BY <1>4 DEF Take, At
<1>5. CASE MessageSent
  BY <1>5, FollowsTyped DEF MessageSent, At, End
<1>6. CASE ServiceTimeout
  BY <1>6, TimeoutServed DEF ServiceTimeout, At, TimesOut
<1>7. CASE Listen
  <2>1. PICK o : Tells(o, listener, rx[1].text) /\ Apply(listener, o) /\ handled' = (o # "ignored")
    BY <1>7, ListenSees DEF IInv
  <2> QED BY <1>7, <2>1, FollowsTyped DEF Listen, At, Tells, Apply, End, Reserve, StartTimeout,
      Send, Failure
<1>8. CASE AfterListener
  BY <1>8 DEF AfterListener, At
<1>9. CASE NextMessage
  BY <1>9, Shortened DEF NextMessage, At
<1>10. CASE Elapse
  BY <1>10 DEF Elapse
<1>11. CASE TransferDone
  BY <1>11, OutdatedKeeps DEF TransferDone, OwedAfter
<1>12. CASE Answer \/ Unsolicited
  <2>1. PICK text \in Text : Comes(text)
    BY <1>12, Incoming DEF IInv, TypeOK
  <2> QED BY <2>1 DEF Comes
<1>13. CASE Lose
  BY <1>13, Answered DEF Lose
<1>14. CASE UNCHANGED vars
  BY <1>14 DEF vars
<1> QED BY <1>1, <1>2, <1>3, <1>4, <1>5, <1>6, <1>7, <1>8, <1>9, <1>10, <1>11, <1>12, <1>13, <1>14
    DEF Next, Driver

-----------------------------------------------------------------------------
\* IInv holds initially.
LEMMA InitIInv == Init => IInv
<1> SUFFICES ASSUME Init PROVE IInv
    OBVIOUS
<1> USE DEF Init, None
<1>1. TypeTask /\ TypeCommand
  <2>1. TypeTask
    <3>1. pc \in {"wait", "sent", "timeout", "listen", "after", "next"} /\ taken \subseteq Bit
        /\ bits \subseteq Bit
      BY DEF Bit
    <3>2. handled \in BOOLEAN /\ timer \in BOOLEAN
      BY Zenon
    <3>3. timeoutType \in {"NONE", "RESPONSE", "DELAY", "RESERVED"}
      OBVIOUS
    <3>4. QED
      BY <3>1, <3>2, <3>3, Zenon DEF TypeTask
  <2>2. TypeCommand
    <3>1. timeoutElapsed \in NoneOr /\ listener \in NoneOr /\ starting \in NoneOr /\ running \in NoneOr
      BY Zenon DEF NoneOr
    <3>2. due \in NoneOr
      BY Zenon DEF NoneOr, Command, Power
    <3>3. parity \in 0..1
      OBVIOUS
    <3>4. QED
      BY <3>1, <3>2, <3>3, Zenon DEF TypeCommand
  <2>3. QED
    BY <2>1, <2>2, Zenon
<1>2. TypeModule
  BY DEF TypeModule, SendSmsState, Step
<1>3. TypeBuffer
  BY MaxMessagesAssumption DEF TypeBuffer
<1>4. NoticeInv /\ BegunInv
  BY DEF NoticeInv, BegunInv
<1>5. TimerInv /\ TransferInv
  BY DEF TimerInv, TransferInv, Stopping, Pending, Power
<1>6. SmsStepInv /\ SmsAnswerInv /\ SmsDamageInv /\ OwnInv
  BY DEF SmsStepInv, SmsAnswerInv, SmsDamageInv, OwnInv, Sent, Plain
<1> QED BY <1>1, <1>2, <1>3, <1>4, <1>5, <1>6 DEF IInv, TypeOK

\* IInv is an invariant of the driver if none of the coincidences happens.
THEOREM Inductive == ASSUME Coincidences = {} PROVE Spec => []IInv
<1>1. IInv /\ [Next]_vars => IInv'
  <2> SUFFICES ASSUME IInv, [Next]_vars PROVE IInv'
      OBVIOUS
  <2>1. TypeOK'
    BY TypeTaskStep, TypeCommandStep, TypeModuleStep, TypeBufferStep DEF TypeOK
  <2>2. NoticeInv' /\ BegunInv' /\ TimerInv' /\ TransferInv'
    BY NoticeStep, BegunStep, TimerStep, TransferStep
  <2>3. SmsStepInv' /\ SmsAnswerInv' /\ SmsDamageInv' /\ OwnInv'
    BY SmsStepStep, SmsAnswerStep, SmsDamageStep, OwnStep
  <2> QED BY <2>1, <2>2, <2>3 DEF IInv
<1> QED BY InitIInv, <1>1, PTL DEF Spec

\* Type correctness.
THEOREM TypeCorrect == ASSUME Coincidences = {} PROVE Spec => []TypeOK
<1>1. IInv => TypeOK BY DEF IInv
<1> QED BY Inductive, <1>1, PTL

\* A timeout that has elapsed is that of the command in progress, and nothing else is
\* sent while a command is being sent.
THEOREM NothingLate == ASSUME Coincidences = {} PROVE Spec => []NothingIsLate
<1>1. IInv => NothingIsLate
  BY DEF IInv, TimerInv, TransferInv, NothingIsLate, TimeoutIsOwn, TransferBelongsToCommand
<1> QED BY Inductive, <1>1, PTL

\* A command that is ended by a message is ended by one that came after it was sent.
THEOREM OwnAnswers == ASSUME Coincidences = {} PROVE Spec => AnswerIsOwn
<1>1. IInv /\ [Next]_vars => [pc = "listen" /\ running \in Plain \cup {"send_sms"} /\ running' # running => Head(rx).own]_vars
  <2> SUFFICES ASSUME IInv, [Next]_vars, pc = "listen", running \in Plain \cup {"send_sms"},
      running' # running
               PROVE  Head(rx).own
      OBVIOUS
  <2> USE DEF IInv, TypeOK, TypeBuffer, NoticeInv, BegunInv, OwnInv, IsSent, Plain, Wait, Power, task,
      timeoutV, uart, power, command, None
  <2>1. ASSUME NEW c \in Command, Begin(c) PROVE Head(rx).own
    BY <2>1, OutdatedKeeps DEF Begin, Idle, BeginCommand, Start, StartTimeout, Send, SetSendState,
        OwedBefore
  <2>2. ASSUME NEW c \in Command, BeginByTask(c) PROVE Head(rx).own
    BY <2>2, OutdatedKeeps DEF BeginByTask, Idle, BeginCommand, SetSendState, OwedBefore
  <2>3. CASE SendByTask
    BY <2>3 DEF SendByTask, Start, StartTimeout, Send
  <2>4. CASE Take
    BY <2>4 DEF Take, At
  <2>5. CASE MessageSent
    BY <2>5, FollowsTyped DEF MessageSent, At, End
  <2>6. CASE ServiceTimeout
    BY <2>6, TimeoutServed DEF ServiceTimeout, At, TimesOut
  <2>7. CASE Listen
    <3>1. PICK o : Tells(o, listener, rx[1].text) /\ Apply(listener, o) /\ handled' = (o # "ignored")
      BY <2>7, ListenSees DEF IInv
    <3> QED BY <2>7, <3>1, FollowsTyped DEF Listen, At, Tells, Apply, End, Reserve, StartTimeout,
        Send, Failure
  <2>8. CASE AfterListener
    BY <2>8 DEF AfterListener, At
  <2>9. CASE NextMessage
    BY <2>9, Shortened DEF NextMessage, At
  <2>10. CASE Elapse
    BY <2>10 DEF Elapse
  <2>11. CASE TransferDone
    BY <2>11, OutdatedKeeps DEF TransferDone, OwedAfter
  <2>12. CASE Answer \/ Unsolicited
    <3>1. PICK text \in Text : Comes(text)
      BY <2>12, Incoming DEF IInv, TypeOK
    <3> QED BY <3>1 DEF Comes
  <2>13. CASE Lose
    BY <2>13, Answered DEF Lose
  <2>14. CASE UNCHANGED vars
    BY <2>14 DEF vars
  <2> QED BY <2>1, <2>2, <2>3, <2>4, <2>5, <2>6, <2>7, <2>8, <2>9, <2>10, <2>11, <2>12, <2>13, <2>14
      DEF Next, Driver
<1>2. Spec => [][pc = "listen" /\ running \in Plain \cup {"send_sms"} /\ running' # running => Head(rx).own]_vars
  BY Inductive, <1>1, PTL DEF Spec
<1> QED BY <1>2 DEF AnswerIsOwn

\* The driver implements Commands: every command invokes its callback exactly once,
\* whatever answers, timeouts and ends of transfers come together.
THEOREM ImplementsCommands == ASSUME Coincidences = {} PROVE Spec => ExactlyOnce
<1>1. Init => EndsOnce!Init
  BY DEF Init, EndsOnce!Init
<1>2. IInv /\ [Next]_vars => [EndsOnce!Next]_<<running, parity>>
  <2> SUFFICES ASSUME IInv, [Next]_vars PROVE [EndsOnce!Next]_<<running, parity>>
      OBVIOUS
  <2> USE DEF IInv, NoticeInv, BegunInv, TimerInv, TransferInv, SmsStepInv, Sent, Pending,
      EndsOnce!Next, EndsOnce!Begin, EndsOnce!End, Command, Plain, Wait, Power, task, timeoutV, uart,
      power, command, None
  <2>1. ASSUME NEW c \in Command, Begin(c) PROVE [EndsOnce!Next]_<<running, parity>>
    BY <2>1, OutdatedKeeps DEF Begin, Idle, BeginCommand, Start, StartTimeout, Send, SetSendState,
        OwedBefore
  <2>2. ASSUME NEW c \in Command, BeginByTask(c) PROVE [EndsOnce!Next]_<<running, parity>>
    BY <2>2, OutdatedKeeps DEF BeginByTask, Idle, BeginCommand, SetSendState, OwedBefore
  <2>3. CASE SendByTask
    BY <2>3 DEF SendByTask, Start, StartTimeout, Send
  <2>4. CASE Take
    BY <2>4 DEF Take, At
  <2>5. CASE MessageSent
    BY <2>5, FollowsTyped DEF MessageSent, At, End
  <2>6. CASE ServiceTimeout
    BY <2>6, TimeoutServed DEF ServiceTimeout, At, TimesOut
  <2>7. CASE Listen
    <3>1. PICK o : Tells(o, listener, rx[1].text) /\ Apply(listener, o) /\ handled' = (o # "ignored")
      BY <2>7, ListenSees DEF IInv
    <3> QED BY <2>7, <3>1, FollowsTyped DEF Listen, At, Tells, Apply, End, Reserve, StartTimeout,
        Send, Failure
  <2>8. CASE AfterListener
    BY <2>8 DEF AfterListener, At
  <2>9. CASE NextMessage
    BY <2>9, Shortened DEF NextMessage, At
  <2>10. CASE Elapse
    BY <2>10 DEF Elapse
  <2>11. CASE TransferDone
    BY <2>11, OutdatedKeeps DEF TransferDone, OwedAfter
  <2>12. CASE Answer \/ Unsolicited
    <3>1. PICK text \in Text : Comes(text)
      BY <2>12, Incoming DEF IInv, TypeOK
    <3> QED BY <3>1 DEF Comes
  <2>13. CASE Lose
    BY <2>13, Answered DEF Lose
  <2>14. CASE UNCHANGED vars
    BY <2>14 DEF vars
  <2> QED BY <2>1, <2>2, <2>3, <2>4, <2>5, <2>6, <2>7, <2>8, <2>9, <2>10, <2>11, <2>12, <2>13, <2>14
      DEF Next, Driver
<1> QED BY Inductive, <1>1, <1>2, PTL DEF Spec, ExactlyOnce, EndsOnce!Spec

-----------------------------------------------------------------------------
(* The buffer.  The chars of the message that is received follow the place *)
(* for its length; the messages that wait fill the ring between it and the *)
(* one that is read next, none overlaps another, and none of their bytes   *)
(* is anybody else's.                                                      *)

\* There is room for the lengths of messages, which begin at even positions.
BufferAssumed == Size \in Nat /\ Size > 2 /\ Size % 2 = 0

BufferTypeInv ==
    /\ owner \in [Buffer!Position -> Buffer!Position \cup {Buffer!Nobody}]
    /\ lengths \in [Buffer!Position -> Nat]
    /\ writeMeta \in Buffer!Position /\ writeIndex \in Buffer!Position /\ readMeta \in Buffer!Position
    /\ level \in 0..2 /\ allOk \in BOOLEAN /\ chars \in Int /\ unread \in Seq(Nat)

\* How far after the message that is read next a position is
BufferOff(p) == Buffer!Ahead(p, readMeta)

\* The chars of the message that is received follow the place for its length.
BufferWriteInv ==
    /\ writeMeta % 2 = 0 /\ BufferOff(writeMeta) <= Size - 3
    /\ BufferOff(writeMeta) + 2 <= BufferOff(writeIndex)
    /\ allOk => chars = BufferOff(writeIndex) - BufferOff(writeMeta) - 2 + level
    /\ \A p \in Buffer!Position : BufferOff(writeMeta) + 2 <= BufferOff(p)
       /\ BufferOff(p) < BufferOff(writeIndex) => owner[p] = writeMeta

\* The messages that were finished begin at the positions of starts, one after the other.
BufferChain(starts) ==
    /\ starts \in [1..Len(unread) + 1 -> Buffer!Position]
    /\ starts[1] = readMeta /\ starts[Len(unread) + 1] = writeMeta
    /\ \A i \in 1..Len(unread) :
        /\ lengths[starts[i]] = unread[i]
        /\ starts[i + 1] = Buffer!Even(Buffer!Shift(starts[i], unread[i] + 2))
        /\ \A p \in Buffer!Position : Buffer!Ahead(p, starts[i]) < unread[i] + 2 => owner[p] = starts[i]
    /\ \A i, j \in 1..Len(unread) + 1 : i < j
       => BufferOff(starts[i]) + unread[i] + 2 <= BufferOff(starts[j])

BufferIInv == BufferTypeInv /\ BufferWriteInv /\ \E starts : BufferChain(starts)

-----------------------------------------------------------------------------
\* Positions in the ring, without modulus
LEMMA BufferAheadIs ==
    ASSUME BufferAssumed, NEW to \in Buffer!Position, NEW from \in Buffer!Position
    PROVE /\ Buffer!Ahead(to, from) = IF to >= from THEN to - from ELSE to - from + Size
          /\ Buffer!Ahead(to, from) \in Buffer!Position
<1>1. Size \in Nat \ {0} /\ from \in 0..Size - 1 /\ to \in 0..Size - 1 BY DEF BufferAssumed, Buffer!Position
<1>2. CASE to >= from
  <2>1. to + Size - from \in Size..2 * Size - 1 BY <1>1, <1>2
  <2>2. (to + Size - from) % Size = (to + Size - from) - Size BY <1>1, <2>1
  <2> QED BY <1>1, <1>2, <2>2 DEF Buffer!Ahead, Buffer!Position
<1>3. CASE ~(to >= from)
  <2>1. to + Size - from \in 0..Size - 1 BY <1>1, <1>3
  <2>2. (to + Size - from) % Size = to + Size - from BY <1>1, <2>1
  <2> QED BY <1>1, <1>3, <2>1, <2>2 DEF Buffer!Ahead, Buffer!Position
<1> QED BY <1>2, <1>3

\* Going on by n, all around at most
LEMMA BufferShiftIs ==
    ASSUME BufferAssumed, NEW index \in Buffer!Position, NEW n \in 0..Size
    PROVE /\ Buffer!Shift(index, n) = IF index + n < Size THEN index + n ELSE index + n - Size
          /\ Buffer!Shift(index, n) \in Buffer!Position
<1>1. Size \in Nat \ {0} /\ index \in 0..Size - 1 /\ n \in 0..Size BY DEF BufferAssumed, Buffer!Position
<1>2. CASE index + n < Size
  <2>1. index + n \in 0..Size - 1 BY <1>1, <1>2
  <2>2. (index + n) % Size = index + n BY <1>1, <2>1
  <2> QED BY <1>1, <1>2, <2>1, <2>2 DEF Buffer!Shift, Buffer!Position
<1>3. CASE ~(index + n < Size)
  <2>1. index + n \in Size..2 * Size - 1 BY <1>1, <1>3
  <2>2. (index + n) % Size = index + n - Size BY <1>1, <2>1
  <2> QED BY <1>1, <1>3, <2>1, <2>2 DEF Buffer!Shift, Buffer!Position
<1> QED BY <1>2, <1>3

\* Going on by n is being n farther from where one began.
LEMMA BufferMoved ==
    ASSUME BufferAssumed, NEW r \in Buffer!Position, NEW p \in Buffer!Position, NEW n \in 0..Size,
        Buffer!Ahead(p, r) + n < Size
    PROVE Buffer!Shift(p, n) \in Buffer!Position
        /\ Buffer!Ahead(Buffer!Shift(p, n), r) = Buffer!Ahead(p, r) + n
<1>1. Size \in Nat /\ r \in 0..Size - 1 /\ p \in 0..Size - 1 BY DEF BufferAssumed, Buffer!Position
<1>2. Buffer!Ahead(p, r) = IF p >= r THEN p - r ELSE p - r + Size BY BufferAheadIs
<1> DEFINE q == Buffer!Shift(p, n)
<1>3. q = (IF p + n < Size THEN p + n ELSE p + n - Size) /\ q \in Buffer!Position BY BufferShiftIs
<1> HIDE DEF q
<1>4. Buffer!Ahead(q, r) = IF q >= r THEN q - r ELSE q - r + Size BY <1>3, BufferAheadIs
<1>5. Buffer!Ahead(q, r) = Buffer!Ahead(p, r) + n BY <1>1, <1>2, <1>3, <1>4
<1> QED BY <1>3, <1>5 DEF q

\* It is being where one began when one went all around.
LEMMA BufferAround ==
    ASSUME BufferAssumed, NEW r \in Buffer!Position, NEW p \in Buffer!Position, NEW n \in 0..Size,
        Buffer!Ahead(p, r) + n = Size
    PROVE Buffer!Shift(p, n) = r
<1>1. Size \in Nat /\ r \in 0..Size - 1 /\ p \in 0..Size - 1 BY DEF BufferAssumed, Buffer!Position
<1>2. Buffer!Ahead(p, r) = IF p >= r THEN p - r ELSE p - r + Size BY BufferAheadIs
<1>3. Buffer!Shift(p, n) = (IF p + n < Size THEN p + n ELSE p + n - Size) BY BufferShiftIs
<1> QED BY <1>1, <1>2, <1>3

\* What is between two positions
LEMMA BufferBetween ==
    ASSUME BufferAssumed, NEW r \in Buffer!Position, NEW p \in Buffer!Position, NEW q \in Buffer!Position,
        Buffer!Ahead(q, r) <= Buffer!Ahead(p, r)
    PROVE Buffer!Ahead(p, q) = Buffer!Ahead(p, r) - Buffer!Ahead(q, r)
<1>1. Size \in Nat /\ r \in 0..Size - 1 /\ p \in 0..Size - 1 /\ q \in 0..Size - 1 BY DEF BufferAssumed,
    Buffer!Position
<1>2. /\ Buffer!Ahead(p, r) = (IF p >= r THEN p - r ELSE p - r + Size)
      /\ Buffer!Ahead(q, r) = (IF q >= r THEN q - r ELSE q - r + Size)
      /\ Buffer!Ahead(p, q) = (IF p >= q THEN p - q ELSE p - q + Size)
  BY BufferAheadIs
<1> QED BY <1>1, <1>2

\* Distances add up as long as they do not go all around.
LEMMA BufferBeyond ==
    ASSUME BufferAssumed, NEW r \in Buffer!Position, NEW p \in Buffer!Position, NEW q \in Buffer!Position,
        Buffer!Ahead(q, r) + Buffer!Ahead(p, q) < Size
    PROVE Buffer!Ahead(p, r) = Buffer!Ahead(q, r) + Buffer!Ahead(p, q)
<1>1. Size \in Nat /\ r \in 0..Size - 1 /\ p \in 0..Size - 1 /\ q \in 0..Size - 1 BY DEF BufferAssumed,
    Buffer!Position
<1>2. /\ Buffer!Ahead(p, r) = (IF p >= r THEN p - r ELSE p - r + Size)
      /\ Buffer!Ahead(q, r) = (IF q >= r THEN q - r ELSE q - r + Size)
      /\ Buffer!Ahead(p, q) = (IF p >= q THEN p - q ELSE p - q + Size)
  BY BufferAheadIs
<1> QED BY <1>1, <1>2

\* Positions are told by how far they are.
LEMMA BufferTold ==
    ASSUME BufferAssumed, NEW r \in Buffer!Position
    PROVE /\ Buffer!Ahead(r, r) = 0
          /\ \A p, q \in Buffer!Position : Buffer!Ahead(p, r) = Buffer!Ahead(q, r) => p = q
          /\ \A p \in Buffer!Position : Buffer!Ahead(p, r) \in Nat /\ Buffer!Ahead(p, r) < Size
          /\ \A p \in Buffer!Position : Buffer!Shift(r, Buffer!Ahead(p, r)) = p
<1>1. Size \in Nat /\ r \in 0..Size - 1 BY DEF BufferAssumed, Buffer!Position
<1>2. ASSUME NEW p \in Buffer!Position
      PROVE  /\ Buffer!Ahead(p, r) = (IF p >= r THEN p - r ELSE p - r + Size)
             /\ Buffer!Ahead(p, r) \in 0..Size
             /\ p \in 0..Size - 1 /\ Buffer!Ahead(p, r) \in 0..Size - 1
  BY <1>1, BufferAheadIs DEF Buffer!Position
<1>3. Buffer!Ahead(r, r) = 0 BY <1>1, <1>2
<1>5. ASSUME NEW p \in Buffer!Position
      PROVE Buffer!Ahead(p, r) \in Nat /\ Buffer!Ahead(p, r) < Size BY <1>1, <1>2
<1>6. ASSUME NEW p \in Buffer!Position PROVE Buffer!Shift(r, Buffer!Ahead(p, r)) = p
  <2> DEFINE d == Buffer!Ahead(p, r)
  <2>1. d = (IF p >= r THEN p - r ELSE p - r + Size) /\ d \in 0..Size /\ p \in 0..Size - 1 BY <1>2
  <2> HIDE DEF d
  <2>2. Buffer!Shift(r, d) = IF r + d < Size THEN r + d ELSE r + d - Size BY <2>1, BufferShiftIs
  <2>3. Buffer!Shift(r, d) = p BY <1>1, <2>1, <2>2
  <2> QED BY <2>3 DEF d
<1>7. ASSUME NEW p \in Buffer!Position, NEW q \in Buffer!Position, Buffer!Ahead(p, r) = Buffer!Ahead(q, r)
      PROVE p = q
  BY <1>6, <1>7
<1> QED BY <1>3, <1>5, <1>6, <1>7

\* Even() goes on by one from an odd position, and is at an even one.
LEMMA BufferEvenIs ==
    ASSUME BufferAssumed, NEW index \in Buffer!Position
    PROVE /\ index % 2 \in 0..1 /\ index % 2 \in 0..Size
          /\ Buffer!Even(index) = Buffer!Shift(index, index % 2)
          /\ Buffer!Even(index) \in Buffer!Position /\ Buffer!Even(index) % 2 = 0
<1>1. Size \in Nat /\ index \in 0..Size - 1 /\ Size > 2 /\ Size % 2 = 0 BY DEF BufferAssumed,
    Buffer!Position
<1>2. index % 2 \in 0..1 /\ index % 2 \in 0..Size BY <1>1
<1> DEFINE n == index % 2
<1>3. n \in 0..Size BY <1>2
<1>4. Buffer!Shift(index, n) = (IF index + n < Size THEN index + n ELSE index + n - Size)
    /\ Buffer!Shift(index, n) \in Buffer!Position
  BY <1>3, BufferShiftIs
<1>5. Buffer!Shift(index, n) % 2 = 0 BY <1>1, <1>2, <1>4
<1> QED BY <1>2, <1>4, <1>5 DEF Buffer!Even

\* Two on from an even position is even.
LEMMA BufferEvenStays ==
    ASSUME BufferAssumed, NEW index \in Buffer!Position, index % 2 = 0
    PROVE Buffer!Shift(index, 2) \in Buffer!Position /\ Buffer!Shift(index, 2) % 2 = 0
        /\ Buffer!Even(Buffer!Shift(index, 2)) = Buffer!Shift(index, 2)
<1>1. Size \in Nat /\ index \in 0..Size - 1 /\ Size > 2 /\ Size % 2 = 0 BY DEF BufferAssumed,
    Buffer!Position
<1> DEFINE q == Buffer!Shift(index, 2)
<1>2. 2 \in 0..Size BY <1>1
<1>3. q = (IF index + 2 < Size THEN index + 2 ELSE index + 2 - Size) /\ q \in Buffer!Position BY <1>2,
    BufferShiftIs
<1> HIDE DEF q
<1>4. q % 2 = 0 BY <1>1, <1>3
<1>5. Buffer!Even(q) = Buffer!Shift(q, 0) BY <1>4 DEF Buffer!Even
<1>6. 0 \in 0..Size /\ q \in 0..Size - 1 BY <1>1, <1>3 DEF Buffer!Position
<1>7. Buffer!Shift(q, 0) = IF q + 0 < Size THEN q + 0 ELSE q + 0 - Size BY <1>3, <1>6, BufferShiftIs
<1>8. Buffer!Shift(q, 0) = q BY <1>1, <1>6, <1>7
<1> QED BY <1>3, <1>4, <1>5, <1>8 DEF q

-----------------------------------------------------------------------------
\* Where the messages that wait are
LEMMA BufferWaiting ==
    ASSUME BufferAssumed, BufferTypeInv, NEW starts, BufferChain(starts)
    PROVE /\ Len(unread) \in Nat /\ Len(unread) + 1 \in 1..Len(unread) + 1
          /\ \A i \in 1..Len(unread) :
                /\ i \in 1..Len(unread) + 1 /\ i + 1 \in 1..Len(unread) + 1
                /\ starts[i] \in Buffer!Position /\ unread[i] \in Nat
                /\ BufferOff(starts[i]) + unread[i] + 2 <= BufferOff(writeMeta)
                /\ starts[i] # writeMeta
                /\ \A p \in Buffer!Position : Buffer!Ahead(p, starts[i]) < unread[i] + 2
                   => BufferOff(p) < BufferOff(writeMeta)
<1>1. Len(unread) \in Nat /\ readMeta \in Buffer!Position
    /\ writeMeta \in Buffer!Position BY LenProperties DEF BufferTypeInv
<1>2. Len(unread) + 1 \in 1..Len(unread) + 1 BY <1>1
<1>3. ASSUME NEW i \in 1..Len(unread)
      PROVE  /\ i \in 1..Len(unread) + 1 /\ i + 1 \in 1..Len(unread) + 1
             /\ starts[i] \in Buffer!Position /\ unread[i] \in Nat
             /\ BufferOff(starts[i]) + unread[i] + 2 <= BufferOff(writeMeta)
             /\ starts[i] # writeMeta
             /\ \A p \in Buffer!Position : Buffer!Ahead(p, starts[i]) < unread[i] + 2
                => BufferOff(p) < BufferOff(writeMeta)
  <2>1. i \in 1..Len(unread) + 1 /\ i + 1 \in 1..Len(unread) + 1 /\ i < Len(unread) + 1 BY <1>1
  <2>2. starts[i] \in Buffer!Position /\ unread[i] \in Nat BY <2>1, ElementOfSeq DEF BufferChain,
      BufferTypeInv
  <2>3. BufferOff(starts[i]) + unread[i] + 2 <= BufferOff(writeMeta) BY <1>2, <2>1 DEF BufferChain
  <2>4. /\ BufferOff(starts[i]) \in Nat /\ BufferOff(writeMeta) \in Nat /\ BufferOff(writeMeta) < Size
        /\ Size \in Nat
    BY <1>1, <2>2, BufferTold DEF BufferOff, BufferAssumed
  <2>5. starts[i] # writeMeta
    <3>1. BufferOff(starts[i]) < BufferOff(writeMeta) BY <2>2, <2>3, <2>4
    <3> QED BY <2>4, <3>1
  <2>6. ASSUME NEW p \in Buffer!Position, Buffer!Ahead(p, starts[i]) < unread[i] + 2
        PROVE BufferOff(p) < BufferOff(writeMeta)
    <3>1. Buffer!Ahead(p, starts[i]) \in Nat BY <2>2, BufferTold
    <3>2. BufferOff(starts[i]) + Buffer!Ahead(p, starts[i]) < BufferOff(writeMeta) BY <2>2, <2>3, <2>4,
        <2>6, <3>1
    <3>3. Buffer!Ahead(starts[i], readMeta) + Buffer!Ahead(p, starts[i]) < Size BY <2>2, <2>4, <3>1,
        <3>2 DEF BufferOff
    <3>4. BufferOff(p) = BufferOff(starts[i]) + Buffer!Ahead(p, starts[i]) BY <1>1, <2>2, <3>3,
        BufferBeyond DEF BufferOff
    <3> QED BY <3>2, <3>4
  <2> QED BY <2>1, <2>2, <2>3, <2>5, <2>6
<1> QED BY <1>1, <1>2, <1>3

\* The messages that wait stay as long as nobody writes where they are.
LEMMA BufferKeep ==
    ASSUME BufferAssumed, BufferTypeInv, NEW starts, BufferChain(starts),
        UNCHANGED <<unread, readMeta, writeMeta>>,
           \A p \in Buffer!Position : p # writeMeta => lengths'[p] = lengths[p],
           \A p \in Buffer!Position : BufferOff(p) < BufferOff(writeMeta) /\ owner[p] # writeMeta
               => owner'[p] = owner[p]
    PROVE BufferChain(starts)'
<1>1. /\ starts \in [1..Len(unread) + 1 -> Buffer!Position]
      /\ starts[1] = readMeta' /\ starts[Len(unread) + 1] = writeMeta'
      /\ \A i, j \in 1..Len(unread) + 1 : i < j
         => BufferOff(starts[i]) + unread[i] + 2 <= BufferOff(starts[j])
  BY DEF BufferChain
<1>2. ASSUME NEW i \in 1..Len(unread)
      PROVE  /\ lengths'[starts[i]] = unread[i]
             /\ starts[i + 1] = Buffer!Even(Buffer!Shift(starts[i], unread[i] + 2))
             /\ \A p \in Buffer!Position : Buffer!Ahead(p, starts[i]) < unread[i] + 2
                => owner'[p] = starts[i]
  <2>1. /\ starts[i] \in Buffer!Position /\ starts[i] # writeMeta
        /\ \A p \in Buffer!Position : Buffer!Ahead(p, starts[i]) < unread[i] + 2
           => BufferOff(p) < BufferOff(writeMeta)
    BY BufferWaiting
  <2>2. lengths'[starts[i]] = unread[i]
      /\ starts[i + 1] = Buffer!Even(Buffer!Shift(starts[i], unread[i] + 2))
    BY <2>1 DEF BufferChain
  <2>3. \A p \in Buffer!Position : Buffer!Ahead(p, starts[i]) < unread[i] + 2
      => owner[p] = starts[i] BY DEF BufferChain
  <2> QED BY <2>1, <2>2, <2>3
<1>3. \A p : BufferOff(p)' = BufferOff(p) BY DEF BufferOff
<1> QED BY <1>1, <1>2, <1>3 DEF BufferChain, BufferOff

\* The message that is received is dropped.
LEMMA BufferDroppedStep ==
    ASSUME BufferAssumed, BufferIInv, NEW put,
        put \in [Buffer!Position -> Buffer!Position \cup {Buffer!Nobody}],
           \A p \in Buffer!Position : BufferOff(p) < BufferOff(writeMeta) => put[p] = owner[p],
           owner' = [p \in Buffer!Position |-> IF put[p] = writeMeta THEN Buffer!Nobody ELSE put[p]],
           writeIndex' = Buffer!Shift(writeMeta, 2),
           UNCHANGED <<lengths, unread, writeMeta, readMeta>>,
           level' = 0, allOk' = TRUE, chars' = 0
    PROVE BufferIInv'
<1>1. /\ Size \in Nat /\ Size > 2 /\ readMeta \in Buffer!Position /\ writeMeta \in Buffer!Position
      /\ BufferOff(writeMeta) \in Nat /\ BufferOff(writeMeta) <= Size - 3
  BY BufferTold DEF BufferAssumed, BufferIInv, BufferTypeInv, BufferWriteInv, BufferOff
<1>2. Buffer!Shift(writeMeta, 2) \in Buffer!Position
    /\ BufferOff(Buffer!Shift(writeMeta, 2)) = BufferOff(writeMeta) + 2
  <2>1. 2 \in 0..Size /\ Buffer!Ahead(writeMeta, readMeta) + 2 < Size BY <1>1 DEF BufferOff
  <2> QED BY <1>1, <2>1, BufferMoved DEF BufferOff
<1>3. \A p : BufferOff(p)' = BufferOff(p) BY DEF BufferOff
<1>4. BufferTypeInv'
  <2>1. owner' \in [Buffer!Position -> Buffer!Position \cup {Buffer!Nobody}] OBVIOUS
  <2> QED BY <1>2, <2>1 DEF BufferIInv, BufferTypeInv
<1>5. BufferWriteInv'
  <2>1. \A p \in Buffer!Position : BufferOff(p) \in Nat BY <1>1, BufferTold DEF BufferOff
  <2>2. BufferOff(writeIndex') = BufferOff(writeMeta) + 2 BY <1>2
  <2>3. chars' = BufferOff(writeIndex') - BufferOff(writeMeta) - 2 + level' BY <1>1, <2>2
  <2>4. \A p \in Buffer!Position : ~(BufferOff(writeMeta) + 2 <= BufferOff(p) /\ BufferOff(p) < BufferOff(writeIndex'))
    BY <1>1, <2>1, <2>2
  <2>5. BufferOff(writeMeta) + 2 <= BufferOff(writeIndex') BY <1>1, <2>2
  <2> QED BY <1>1, <2>3, <2>4, <2>5 DEF BufferIInv, BufferWriteInv, BufferOff
<1>6. PICK starts : BufferChain(starts) BY DEF BufferIInv
<1>7. \A p \in Buffer!Position : BufferOff(p) < BufferOff(writeMeta) /\ owner[p] # writeMeta
    => owner'[p] = owner[p]
  OBVIOUS
<1>8. BufferChain(starts)' BY <1>6, <1>7, BufferKeep DEF BufferIInv
<1> QED BY <1>4, <1>5, <1>8 DEF BufferIInv

\* The message that is received is finished with a length, and the next one begins.
LEMMA BufferFinishedStep ==
    ASSUME BufferAssumed, BufferIInv, NEW len \in Nat, NEW put,
        put \in [Buffer!Position -> Buffer!Position \cup {Buffer!Nobody}],
           \A p \in Buffer!Position : BufferOff(p) < BufferOff(writeMeta) => put[p] = owner[p],
           len # 0 => \A p \in Buffer!Position : BufferOff(writeMeta) + 2 <= BufferOff(p)
                  /\ BufferOff(p) < BufferOff(writeMeta) + len + 2
                                            => put[p] = writeMeta,
           owner' = [p \in Buffer!Position |-> IF Buffer!Ahead(p, writeMeta) < 2 THEN writeMeta
                                        ELSE IF put[p] = writeMeta /\ len = 0 THEN Buffer!Nobody ELSE put[p]],
           lengths' = [lengths EXCEPT ![writeMeta] = len], unread' = Append(unread, len),
           NEW next \in Buffer!Position, next % 2 = 0, next = Buffer!Even(Buffer!Shift(writeMeta, len + 2)),
           BufferOff(writeMeta) + len + 2 <= BufferOff(next), BufferOff(next) <= Size - 3,
           writeMeta' = next, writeIndex' = Buffer!Shift(next, 2), UNCHANGED readMeta,
           level' = 0, allOk' = TRUE, chars' = 0
    PROVE BufferIInv'
<1>1. /\ Size \in Nat /\ Size > 2 /\ readMeta \in Buffer!Position /\ writeMeta \in Buffer!Position
      /\ BufferOff(writeMeta) \in Nat /\ BufferOff(writeMeta) <= Size - 3 /\ BufferOff(next) \in Nat
  BY BufferTold DEF BufferAssumed, BufferIInv, BufferTypeInv, BufferWriteInv, BufferOff
<1>2. Buffer!Shift(next, 2) \in Buffer!Position /\ BufferOff(Buffer!Shift(next, 2)) = BufferOff(next) + 2
  <2>1. 2 \in 0..Size /\ Buffer!Ahead(next, readMeta) + 2 < Size BY <1>1 DEF BufferOff
  <2> QED BY <1>1, <2>1, BufferMoved DEF BufferOff
<1>3. \A p : BufferOff(p)' = BufferOff(p) BY DEF BufferOff
<1>4. \A p \in Buffer!Position : BufferOff(p) \in Nat BY <1>1, BufferTold DEF BufferOff
<1>5. BufferTypeInv'
  <2>1. owner' \in [Buffer!Position -> Buffer!Position \cup {Buffer!Nobody}] BY <1>1
  <2>2. lengths' \in [Buffer!Position -> Nat] BY <1>1 DEF BufferIInv, BufferTypeInv
  <2>3. unread' \in Seq(Nat) BY AppendProperties DEF BufferIInv, BufferTypeInv
  <2> QED BY <1>1, <1>2, <2>1, <2>2, <2>3 DEF BufferTypeInv
<1>6. BufferWriteInv'
  <2>1. BufferOff(writeIndex') = BufferOff(next) + 2 BY <1>2
  <2>2. chars' = BufferOff(writeIndex') - BufferOff(next) - 2 + level' BY <1>1, <2>1
  <2>3. \A p \in Buffer!Position : ~(BufferOff(next) + 2 <= BufferOff(p) /\ BufferOff(p) < BufferOff(writeIndex'))
    BY <1>1, <1>4, <2>1
  <2>4. BufferOff(next) + 2 <= BufferOff(writeIndex') BY <1>1, <2>1
  <2> QED BY <1>1, <2>2, <2>3, <2>4 DEF BufferWriteInv, BufferOff
<1>7. PICK starts : BufferChain(starts) BY DEF BufferIInv
<1> DEFINE n == Len(unread)
           longer == [i \in 1..n + 2 |-> IF i = n + 2 THEN next ELSE starts[i]]
<1>8. /\ n \in Nat /\ n + 1 \in 1..n + 1
      /\ \A i \in 1..n :
            /\ i \in 1..n + 1 /\ i + 1 \in 1..n + 1 /\ starts[i] \in Buffer!Position /\ unread[i] \in Nat
            /\ BufferOff(starts[i]) + unread[i] + 2 <= BufferOff(writeMeta) /\ starts[i] # writeMeta
            /\ \A p \in Buffer!Position : Buffer!Ahead(p, starts[i]) < unread[i] + 2
               => BufferOff(p) < BufferOff(writeMeta)
  BY <1>7, BufferWaiting DEF BufferIInv
<1>9. /\ starts \in [1..n + 1 -> Buffer!Position] /\ starts[1] = readMeta /\ starts[n + 1] = writeMeta
      /\ \A i \in 1..n :
            /\ lengths[starts[i]] = unread[i]
            /\ starts[i + 1] = Buffer!Even(Buffer!Shift(starts[i], unread[i] + 2))
            /\ \A p \in Buffer!Position : Buffer!Ahead(p, starts[i]) < unread[i] + 2 => owner[p] = starts[i]
      /\ \A i, j \in 1..n + 1 : i < j => BufferOff(starts[i]) + unread[i] + 2 <= BufferOff(starts[j])
  BY <1>7 DEF BufferChain
<1>10. /\ Len(unread') = n + 1 /\ unread'[n + 1] = len /\ \A i \in 1..n : unread'[i] = unread[i]
  BY AppendProperties DEF BufferIInv, BufferTypeInv
<1>11. lengths'[writeMeta] = len /\ \A p \in Buffer!Position : p # writeMeta => lengths'[p] = lengths[p]
  BY <1>1 DEF BufferIInv, BufferTypeInv
<1> HIDE DEF n
<1>12. PICK more :
            /\ more \in [1..n + 2 -> Buffer!Position] /\ more[n + 2] = next
            /\ \A i \in 1..n + 1 : more[i] = starts[i]
  <2>1. /\ longer \in [1..n + 2 -> Buffer!Position] /\ longer[n + 2] = next
        /\ \A i \in 1..n + 1 : longer[i] = starts[i]
    BY <1>8, <1>9
  <2> HIDE DEF longer
  <2> QED BY <2>1
<1>13. \A i \in 1..n + 1 : i \in 1..n \/ i = n + 1 BY <1>8
<1>14. ASSUME NEW i \in 1..n + 1
       PROVE  /\ lengths'[more[i]] = unread'[i]
              /\ more[i + 1] = Buffer!Even(Buffer!Shift(more[i], unread'[i] + 2))
              /\ \A p \in Buffer!Position : Buffer!Ahead(p, more[i]) < unread'[i] + 2 => owner'[p] = more[i]
  <2>1. CASE i \in 1..n
    <3>1. more[i] = starts[i] /\ more[i + 1] = starts[i + 1] /\ unread'[i] = unread[i]
      BY <1>8, <1>10, <1>12, <2>1
    <3>2. lengths'[starts[i]] = unread[i] BY <1>8, <1>9, <1>11, <2>1
    <3>3. ASSUME NEW p \in Buffer!Position, Buffer!Ahead(p, starts[i]) < unread[i] + 2
          PROVE owner'[p] = starts[i]
      <4>1. BufferOff(p) < BufferOff(writeMeta) /\ starts[i] # writeMeta BY <1>8, <2>1, <3>3
      <4>2. owner[p] = starts[i] /\ put[p] = starts[i] BY <1>9, <2>1, <3>3, <4>1
      <4>3. ~(Buffer!Ahead(p, writeMeta) < 2)
        <5> SUFFICES ASSUME Buffer!Ahead(p, writeMeta) < 2 PROVE FALSE
          OBVIOUS
        <5>1. Buffer!Ahead(p, writeMeta) \in Nat BY <1>1, BufferTold
        <5>2. Buffer!Ahead(writeMeta, readMeta) + Buffer!Ahead(p, writeMeta) < Size BY <1>1, <5>1
            DEF BufferOff
        <5>3. BufferOff(p) = BufferOff(writeMeta) + Buffer!Ahead(p, writeMeta) BY <1>1, <5>2,
            BufferBeyond DEF BufferOff
        <5> QED BY <1>1, <4>1, <5>1, <5>3
      <4> QED BY <4>1, <4>2, <4>3
    <3> QED BY <1>9, <2>1, <3>1, <3>2, <3>3
  <2>2. CASE i = n + 1
    <3>1. more[i] = writeMeta /\ more[i + 1] = next /\ unread'[i] = len
      <4>1. n + 1 + 1 = n + 2 BY <1>8
      <4> QED BY <1>8, <1>9, <1>10, <1>12, <2>2, <4>1
    <3>2. ASSUME NEW p \in Buffer!Position, Buffer!Ahead(p, writeMeta) < len + 2 PROVE owner'[p] = writeMeta
      <4>1. CASE Buffer!Ahead(p, writeMeta) < 2 BY <4>1
      <4>2. CASE ~(Buffer!Ahead(p, writeMeta) < 2)
        <5>1. Buffer!Ahead(p, writeMeta) \in Nat BY <1>1, BufferTold
        <5>2. len # 0 BY <3>2, <4>2, <5>1
        <5>3. Buffer!Ahead(writeMeta, readMeta) + Buffer!Ahead(p, writeMeta) < Size BY <1>1, <3>2, <5>1
            DEF BufferOff
        <5>4. BufferOff(p) = BufferOff(writeMeta) + Buffer!Ahead(p, writeMeta) BY <1>1, <5>3,
            BufferBeyond DEF BufferOff
        <5>5. BufferOff(writeMeta) + 2 <= BufferOff(p) /\ BufferOff(p) < BufferOff(writeMeta) + len + 2
          BY <1>1, <3>2, <4>2, <5>1, <5>4
        <5> QED BY <4>2, <5>2, <5>5
      <4> QED BY <4>1, <4>2
    <3> QED BY <1>11, <3>1, <3>2
  <2> QED BY <1>13, <2>1, <2>2
<1>15. ASSUME NEW i \in 1..n + 2, NEW j \in 1..n + 2, i < j
       PROVE  BufferOff(more[i]) + unread'[i] + 2 <= BufferOff(more[j])
  <2>1. i \in 1..n + 1 /\ i \in Nat /\ j \in Nat BY <1>8, <1>15
  <2>2. CASE j = n + 2
    <3>1. CASE i = n + 1
      <4>1. more[i] = writeMeta /\ unread'[i] = len BY <1>8, <1>9, <1>10, <1>12, <3>1
      <4> QED BY <1>12, <2>2, <4>1
    <3>2. CASE i \in 1..n
      <4>1. more[i] = starts[i] /\ unread'[i] = unread[i] BY <1>8, <1>10, <1>12, <3>2
      <4>2. BufferOff(starts[i]) + unread[i] + 2 <= BufferOff(writeMeta) BY <1>8, <3>2
      <4>3. BufferOff(starts[i]) \in Nat /\ unread[i] \in Nat BY <1>4, <1>8, <3>2
      <4>4. more[j] = next BY <1>12, <2>2
      <4>5. BufferOff(starts[i]) + unread[i] + 2 <= BufferOff(next) BY <1>1, <4>2, <4>3
      <4> QED BY <4>1, <4>4, <4>5
    <3> QED BY <1>13, <2>1, <3>1, <3>2
  <2>3. CASE j # n + 2
    <3>1. j \in 1..n + 1 /\ i \in 1..n BY <1>8, <1>15, <2>1, <2>3
    <3>2. more[i] = starts[i] /\ more[j] = starts[j] /\ unread'[i] = unread[i]
      BY <1>10, <1>12, <2>1, <3>1
    <3> QED BY <1>9, <1>15, <2>1, <3>1, <3>2
  <2> QED BY <2>2, <2>3
<1>16. more[1] = readMeta /\ more[Len(unread') + 1] = next
  <2>1. 1 \in 1..n + 1 /\ Len(unread') + 1 = n + 2 BY <1>8, <1>10
  <2> QED BY <1>9, <1>12, <2>1
<1>17. BufferChain(more)'
  <2>1. 1..Len(unread') = 1..n + 1 /\ 1..Len(unread') + 1 = 1..n + 2
    <3>1. Len(unread') + 1 = n + 2 BY <1>8, <1>10
    <3> QED BY <1>10, <3>1
  <2>2. more \in [1..Len(unread') + 1 -> Buffer!Position] BY <1>12, <2>1
  <2>3. more[1] = readMeta' /\ more[Len(unread') + 1] = writeMeta' BY <1>16
  <2>4. \A i \in 1..Len(unread') :
            /\ lengths'[more[i]] = unread'[i]
            /\ more[i + 1] = Buffer!Even(Buffer!Shift(more[i], unread'[i] + 2))
            /\ \A p \in Buffer!Position : Buffer!Ahead(p, more[i]) < unread'[i] + 2 => owner'[p] = more[i]
    BY <1>14, <2>1
  <2>5. \A i, j \in 1..Len(unread') + 1 :
            i < j => Buffer!Ahead(more[i], readMeta') + unread'[i] + 2 <= Buffer!Ahead(more[j], readMeta')
    BY <1>15, <2>1 DEF BufferOff
  <2> QED BY <2>2, <2>3, <2>4, <2>5 DEF BufferChain, BufferOff
<1> QED BY <1>5, <1>6, <1>17 DEF BufferIInv

\* Chars that leave the fifo have room behind the ones before them.
LEMMA BufferTakenFits ==
    ASSUME BufferAssumed, BufferTypeInv, NEW symbol
    PROVE /\ Buffer!Taken(symbol) \in 0..2
          /\ allOk /\ Buffer!HasRoom(Buffer!Taken(symbol))
             => BufferOff(writeIndex) + Buffer!Taken(symbol) < Size
<1>1. /\ Size \in Nat /\ Size > 2 /\ readMeta \in Buffer!Position /\ writeIndex \in Buffer!Position
      /\ BufferOff(writeIndex) \in Nat /\ BufferOff(writeIndex) < Size
  BY BufferTold DEF BufferAssumed, BufferTypeInv, BufferOff
<1>2. Buffer!Taken(symbol) \in 0..2 BY DEF Buffer!Taken
<1>3. ASSUME Buffer!HasRoom(1) PROVE BufferOff(writeIndex) + 1 < Size
  <2>1. 1 \in 0..Size BY <1>1
  <2>2. BufferOff(writeIndex) + 1 # Size BY <1>1, <1>3, <2>1, BufferAround DEF Buffer!HasRoom, BufferOff
  <2> QED BY <1>1, <2>2
<1>4. ASSUME Buffer!HasRoom(2) PROVE BufferOff(writeIndex) + 2 < Size
  BY <1>1, <1>4 DEF Buffer!HasRoom, Buffer!FreeSpace, BufferOff
<1>5. Buffer!Taken(symbol) = 0 \/ Buffer!Taken(symbol) = 1 \/ Buffer!Taken(symbol) = 2 BY <1>2
<1> QED BY <1>1, <1>2, <1>3, <1>4, <1>5

\* They are written for the message that is received.
LEMMA BufferPutIs ==
    ASSUME BufferAssumed, BufferIInv, NEW n \in 0..2, NEW ok \in BOOLEAN, ok
        => BufferOff(writeIndex) + n < Size,
           NEW put, put = [p \in Buffer!Position |-> IF ok /\ Buffer!Ahead(p, writeIndex) < n THEN writeMeta ELSE owner[p]],
           NEW index, index = IF ok THEN Buffer!Shift(writeIndex, n) ELSE writeIndex
    PROVE /\ put \in [Buffer!Position -> Buffer!Position \cup {Buffer!Nobody}] /\ index \in Buffer!Position
          /\ BufferOff(index) = IF ok THEN BufferOff(writeIndex) + n ELSE BufferOff(writeIndex)
          /\ \A p \in Buffer!Position : BufferOff(p) < BufferOff(writeMeta) => put[p] = owner[p]
          /\ \A p \in Buffer!Position : BufferOff(writeMeta) + 2 <= BufferOff(p)
             /\ BufferOff(p) < BufferOff(index) => put[p] = writeMeta
<1>1. /\ Size \in Nat /\ Size > 2 /\ readMeta \in Buffer!Position /\ writeIndex \in Buffer!Position
      /\ writeMeta \in Buffer!Position
      /\ BufferOff(writeIndex) \in Nat /\ BufferOff(writeIndex) < Size /\ BufferOff(writeMeta) \in Nat
      /\ owner \in [Buffer!Position -> Buffer!Position \cup {Buffer!Nobody}]
      /\ BufferOff(writeMeta) + 2 <= BufferOff(writeIndex)
      /\ \A p \in Buffer!Position : BufferOff(writeMeta) + 2 <= BufferOff(p)
         /\ BufferOff(p) < BufferOff(writeIndex) => owner[p] = writeMeta
  BY BufferTold DEF BufferAssumed, BufferIInv, BufferTypeInv, BufferWriteInv, BufferOff
<1>2. put \in [Buffer!Position -> Buffer!Position \cup {Buffer!Nobody}] BY <1>1
<1>3. index \in Buffer!Position
    /\ BufferOff(index) = IF ok THEN BufferOff(writeIndex) + n ELSE BufferOff(writeIndex)
  <2>1. n \in 0..Size BY <1>1
  <2>2. CASE ok
    <3>1. Buffer!Ahead(writeIndex, readMeta) + n < Size BY <2>2 DEF BufferOff
    <3> QED BY <1>1, <2>1, <2>2, <3>1, BufferMoved DEF BufferOff
  <2> QED BY <1>1, <2>2
<1>4. ASSUME NEW p \in Buffer!Position PROVE BufferOff(p) \in Nat /\ Buffer!Ahead(p, writeIndex) \in Nat
  BY <1>1, BufferTold DEF BufferOff
<1>5. ASSUME NEW p \in Buffer!Position, ok, Buffer!Ahead(p, writeIndex) < n
      PROVE  BufferOff(p) = BufferOff(writeIndex) + Buffer!Ahead(p, writeIndex)
  <2>1. Buffer!Ahead(writeIndex, readMeta) + Buffer!Ahead(p, writeIndex) < Size BY <1>1, <1>4, <1>5
      DEF BufferOff
  <2> QED BY <1>1, <2>1, BufferBeyond DEF BufferOff
<1>6. ASSUME NEW p \in Buffer!Position, BufferOff(writeIndex) <= BufferOff(p)
      PROVE  Buffer!Ahead(p, writeIndex) = BufferOff(p) - BufferOff(writeIndex)
  BY <1>1, <1>6, BufferBetween DEF BufferOff
<1>7. ASSUME NEW p \in Buffer!Position, BufferOff(p) < BufferOff(writeMeta) PROVE put[p] = owner[p]
  <2>1. ~(ok /\ Buffer!Ahead(p, writeIndex) < n)
    <3> SUFFICES ASSUME ok, Buffer!Ahead(p, writeIndex) < n PROVE FALSE
      OBVIOUS
    <3>1. BufferOff(p) = BufferOff(writeIndex) + Buffer!Ahead(p, writeIndex) BY <1>5
    <3>2. BufferOff(p) \in Nat /\ Buffer!Ahead(p, writeIndex) \in Nat BY <1>4
    <3> QED BY <1>1, <1>7, <3>1, <3>2
  <2> QED BY <2>1
<1>8. ASSUME NEW p \in Buffer!Position, BufferOff(writeMeta) + 2 <= BufferOff(p),
    BufferOff(p) < BufferOff(index) PROVE put[p] = writeMeta
  <2>1. BufferOff(p) \in Nat BY <1>4
  <2>2. CASE BufferOff(p) < BufferOff(writeIndex) BY <1>1, <1>8, <2>2
  <2>3. CASE ~(BufferOff(p) < BufferOff(writeIndex))
    <3>1. Buffer!Ahead(p, writeIndex) = BufferOff(p) - BufferOff(writeIndex) BY <1>1, <1>6, <2>1, <2>3
    <3>2. ok /\ BufferOff(p) < BufferOff(writeIndex) + n BY <1>3, <1>8, <2>3
    <3>3. Buffer!Ahead(p, writeIndex) < n BY <1>1, <2>1, <3>1, <3>2
    <3> QED BY <3>2, <3>3
  <2> QED BY <2>2, <2>3
<1> QED BY <1>2, <1>3, <1>7, <1>8

\* The end of a message: it is finished as it is, as corrupted, or dropped.
LEMMA BufferFinishStep ==
    ASSUME BufferAssumed, BufferIInv, NEW index \in Buffer!Position, NEW ok \in BOOLEAN, NEW total,
           NEW put, put \in [Buffer!Position -> Buffer!Position \cup {Buffer!Nobody}],
           BufferOff(writeMeta) + 2 <= BufferOff(index),
           ok => total = BufferOff(index) - BufferOff(writeMeta) - 2,
           \A p \in Buffer!Position : BufferOff(p) < BufferOff(writeMeta) => put[p] = owner[p],
           \A p \in Buffer!Position : BufferOff(writeMeta) + 2 <= BufferOff(p)
                  /\ BufferOff(p) < BufferOff(index) => put[p] = writeMeta,
           Buffer!Finish(index, ok, total, put), UNCHANGED readMeta
    PROVE BufferIInv'
<1>1. /\ Size \in Nat /\ Size > 2 /\ readMeta \in Buffer!Position /\ writeMeta \in Buffer!Position
      /\ BufferOff(writeMeta) \in Nat /\ BufferOff(index) \in Nat /\ BufferOff(index) < Size
      /\ writeMeta % 2 = 0
      /\ BufferOff(writeMeta) <= Size - 3
  BY BufferTold DEF BufferAssumed, BufferIInv, BufferTypeInv, BufferWriteInv, BufferOff
<1> DEFINE len == Buffer!WrittenLen(index)
<1>2. /\ Buffer!Ahead(index, writeMeta) = BufferOff(index) - BufferOff(writeMeta)
      /\ len = BufferOff(index) - BufferOff(writeMeta) - 2 /\ len \in Nat
  <2>1. Buffer!Ahead(writeMeta, readMeta) <= Buffer!Ahead(index, readMeta) BY <1>1 DEF BufferOff
  <2>2. Buffer!Ahead(index, writeMeta) = BufferOff(index) - BufferOff(writeMeta) BY <1>1, <2>1,
      BufferBetween DEF BufferOff
  <2> QED BY <1>1, <2>2 DEF Buffer!WrittenLen
<1>3. level' = 0 /\ allOk' = TRUE /\ chars' = 0 BY DEF Buffer!Finish
<1>4. CASE ok /\ len # 0 /\ Buffer!NextFits(index)
  <2> DEFINE next == Buffer!Even(index)
  <2>1. /\ lengths' = [lengths EXCEPT ![writeMeta] = len]
        /\ owner' = [p \in Buffer!Position |-> IF Buffer!Ahead(p, writeMeta) < 2 THEN writeMeta
                                        ELSE IF put[p] = writeMeta /\ len = 0 THEN Buffer!Nobody ELSE put[p]]
        /\ unread' = Append(unread, total) /\ writeMeta' = next /\ writeIndex' = Buffer!Shift(next, 2)
    BY <1>4 DEF Buffer!Finish
  <2>2. total = len BY <1>2, <1>4
  <2> HIDE DEF len
  <2>3. PICK odd \in 0..1 : odd \in 0..Size /\ next = Buffer!Shift(index, odd)
      /\ next \in Buffer!Position /\ next % 2 = 0
    BY BufferEvenIs
  <2>4. next # readMeta /\ Buffer!FreeSpace(next) >= 3 BY <1>4 DEF Buffer!NextFits
  <2> HIDE DEF next
  <2>5. BufferOff(next) = BufferOff(index) + odd
    <3>1. Buffer!Ahead(index, readMeta) + odd # Size BY <1>1, <2>3, <2>4, BufferAround
    <3>2. Buffer!Ahead(index, readMeta) + odd < Size BY <1>1, <2>3, <3>1 DEF BufferOff
    <3> QED BY <1>1, <2>3, <3>2, BufferMoved DEF BufferOff
  <2>6. index = Buffer!Shift(writeMeta, len + 2)
    <3>1. Buffer!Shift(writeMeta, Buffer!Ahead(index, writeMeta)) = index BY <1>1, BufferTold
    <3>2. Buffer!Ahead(index, writeMeta) = len + 2 BY <1>1, <1>2
    <3> QED BY <3>1, <3>2
  <2>7. next = Buffer!Even(Buffer!Shift(writeMeta, len + 2)) BY <2>6 DEF next
  <2>8. BufferOff(next) <= Size - 3
    <3>1. BufferOff(next) \in Nat BY <1>1, <2>3, <2>5
    <3> QED BY <1>1, <2>4, <3>1 DEF Buffer!FreeSpace, BufferOff
  <2>9. BufferOff(writeMeta) + len + 2 <= BufferOff(next) BY <1>1, <1>2, <2>3, <2>5
  <2>10. BufferOff(index) = BufferOff(writeMeta) + len + 2 BY <1>1, <1>2
  <2>11. \A p \in Buffer!Position : BufferOff(writeMeta) + 2 <= BufferOff(p)
         /\ BufferOff(p) < BufferOff(writeMeta) + len + 2
            => put[p] = writeMeta
    BY <2>10
  <2> QED BY <1>2, <1>3, <2>1, <2>2, <2>3, <2>7, <2>8, <2>9, <2>11, BufferFinishedStep
<1>5. CASE ~(ok /\ len = 0) /\ ~(ok /\ Buffer!NextFits(index))
    /\ Buffer!FreeSpace(Buffer!Shift(writeMeta, 2)) >= 3
  <2> DEFINE next == Buffer!Shift(writeMeta, 2)
  <2>1. /\ lengths' = [lengths EXCEPT ![writeMeta] = 0]
        /\ owner' = [p \in Buffer!Position |-> IF Buffer!Ahead(p, writeMeta) < 2 THEN writeMeta
                                        ELSE IF put[p] = writeMeta /\ 0 = 0 THEN Buffer!Nobody ELSE put[p]]
        /\ unread' = Append(unread, 0) /\ writeMeta' = next /\ writeIndex' = Buffer!Shift(next, 2)
    BY <1>5 DEF Buffer!Finish
  <2>2. next \in Buffer!Position /\ next % 2 = 0 /\ next = Buffer!Even(Buffer!Shift(writeMeta, 2)) BY <1>1,
      BufferEvenStays
  <2>3. BufferOff(next) = BufferOff(writeMeta) + 2
    <3>1. 2 \in 0..Size /\ Buffer!Ahead(writeMeta, readMeta) + 2 < Size BY <1>1 DEF BufferOff
    <3> QED BY <1>1, <3>1, BufferMoved DEF BufferOff
  <2>4. Buffer!FreeSpace(next) >= 3 BY <1>5
  <2> HIDE DEF next, len
  <2>5. BufferOff(next) <= Size - 3
    <3>1. BufferOff(next) \in Nat BY <1>1, <2>3
    <3> QED BY <1>1, <2>4, <3>1 DEF Buffer!FreeSpace, BufferOff
  <2>6. 0 \in Nat /\ next = Buffer!Even(Buffer!Shift(writeMeta, 0 + 2))
      /\ BufferOff(writeMeta) + 0 + 2 <= BufferOff(next)
    <3>1. 0 + 2 = 2 OBVIOUS
    <3> QED BY <1>1, <2>2, <2>3, <3>1
  <2> QED BY <1>3, <2>1, <2>2, <2>5, <2>6, BufferFinishedStep
<1>6. CASE (ok /\ len = 0) \/ (~(ok /\ Buffer!NextFits(index)) /\ ~(Buffer!FreeSpace(Buffer!Shift(writeMeta, 2)) >= 3))
  <2>1. /\ owner' = [p \in Buffer!Position |-> IF put[p] = writeMeta THEN Buffer!Nobody ELSE put[p]]
        /\ writeIndex' = Buffer!Shift(writeMeta, 2)
        /\ UNCHANGED <<lengths, unread, writeMeta>>
    BY <1>6 DEF Buffer!Finish
  <2> QED BY <1>3, <2>1, BufferDroppedStep
<1> QED BY <1>4, <1>5, <1>6

\* A char is received.
LEMMA BufferAddStep == ASSUME BufferAssumed, BufferIInv, NEW symbol \in Buffer!Symbol,
    Buffer!Add(symbol) PROVE BufferIInv'
<1> DEFINE n     == Buffer!Taken(symbol)
           ok    == allOk /\ Buffer!HasRoom(n)
           index == IF ok THEN Buffer!Shift(writeIndex, n) ELSE writeIndex
           put   == [p \in Buffer!Position |-> IF ok /\ Buffer!Ahead(p, writeIndex) < n THEN writeMeta ELSE owner[p]]
<1>1. /\ Size \in Nat /\ Size > 2 /\ readMeta \in Buffer!Position /\ writeMeta \in Buffer!Position
      /\ writeIndex \in Buffer!Position
      /\ BufferOff(writeMeta) \in Nat /\ BufferOff(writeIndex) \in Nat /\ allOk \in BOOLEAN
      /\ level \in 0..2 /\ chars \in Int
      /\ BufferOff(writeMeta) + 2 <= BufferOff(writeIndex)
      /\ allOk => chars = BufferOff(writeIndex) - BufferOff(writeMeta) - 2 + level
  BY BufferTold DEF BufferAssumed, BufferIInv, BufferTypeInv, BufferWriteInv, BufferOff
<1>2. n \in 0..2 /\ (ok => BufferOff(writeIndex) + n < Size) BY BufferTakenFits DEF BufferIInv
<1>3. n = (IF ~allOk THEN 0 ELSE IF Buffer!Input(symbol) THEN 2 ELSE IF level = 2 THEN 1 ELSE 0) BY
    DEF Buffer!Taken
<1>4. /\ \/ Buffer!Delim(symbol) /\ Buffer!Finish(index, ok, chars - 1, put)
         \/ Buffer!Input(symbol) /\ Buffer!Finish(index, ok, chars + 1, put)
         \/ /\ ~Buffer!Delim(symbol) /\ ~Buffer!Input(symbol)
            /\ owner' = put /\ writeIndex' = index /\ allOk' = ok
            /\ level' = (IF level < 2 THEN level + 1 ELSE 2)
            /\ chars' = (IF ok THEN chars + 1 ELSE 0)
            /\ UNCHANGED <<lengths, writeMeta, unread>>
      /\ UNCHANGED readMeta
  BY DEF Buffer!Add
<1>5. ok \in BOOLEAN BY <1>1
<1> HIDE DEF n
<1>6. ok => allOk OBVIOUS
<1> HIDE DEF ok
<1>7. PICK o \in BOOLEAN : o = ok BY <1>5
<1>8. PICK k \in 0..2 : k = n BY <1>2
<1>9. PICK i : i = index OBVIOUS
<1>10. PICK q : q = put OBVIOUS
<1>11. /\ q \in [Buffer!Position -> Buffer!Position \cup {Buffer!Nobody}] /\ i \in Buffer!Position
       /\ BufferOff(i) = IF o THEN BufferOff(writeIndex) + k ELSE BufferOff(writeIndex)
       /\ \A p \in Buffer!Position : BufferOff(p) < BufferOff(writeMeta) => q[p] = owner[p]
       /\ \A p \in Buffer!Position : BufferOff(writeMeta) + 2 <= BufferOff(p)
          /\ BufferOff(p) < BufferOff(i) => q[p] = writeMeta
  <2>1. o => BufferOff(writeIndex) + k < Size BY <1>2, <1>7, <1>8
  <2>2. q = [p \in Buffer!Position |-> IF o /\ Buffer!Ahead(p, writeIndex) < k THEN writeMeta ELSE owner[p]]
    BY <1>7, <1>8, <1>10
  <2>3. i = IF o THEN Buffer!Shift(writeIndex, k) ELSE writeIndex BY <1>7, <1>8, <1>9
  <2> QED BY <2>1, <2>2, <2>3, BufferPutIs
<1> HIDE DEF index, put
<1>12. BufferOff(writeMeta) + 2 <= BufferOff(i) BY <1>1, <1>11
<1>13. CASE Buffer!Delim(symbol) /\ Buffer!Finish(index, ok, chars - 1, put)
  <2>1. Buffer!Finish(i, o, chars - 1, q) BY <1>7, <1>9, <1>10, <1>13
  <2>2. level >= 1 /\ ~Buffer!Input(symbol) BY <1>13 DEF Buffer!Delim, Buffer!Input
  <2>3. o => chars - 1 = BufferOff(i) - BufferOff(writeMeta) - 2
    BY <1>1, <1>3, <1>6, <1>7, <1>8, <1>11, <2>2
  <2> QED BY <1>4, <1>11, <1>12, <2>1, <2>3, BufferFinishStep
<1>14. CASE Buffer!Input(symbol) /\ Buffer!Finish(index, ok, chars + 1, put)
  <2>1. Buffer!Finish(i, o, chars + 1, q) BY <1>7, <1>9, <1>10, <1>14
  <2>2. level = 1 /\ Buffer!Input(symbol) BY <1>14 DEF Buffer!Input
  <2>3. o => chars + 1 = BufferOff(i) - BufferOff(writeMeta) - 2
    BY <1>1, <1>3, <1>6, <1>7, <1>8, <1>11, <2>2
  <2> QED BY <1>4, <1>11, <1>12, <2>1, <2>3, BufferFinishStep
<1>15. CASE /\ ~Buffer!Delim(symbol) /\ ~Buffer!Input(symbol)
            /\ owner' = put /\ writeIndex' = index /\ allOk' = ok
            /\ level' = (IF level < 2 THEN level + 1 ELSE 2)
            /\ chars' = (IF ok THEN chars + 1 ELSE 0)
            /\ UNCHANGED <<lengths, writeMeta, unread>>
  <2>1. /\ owner' = q /\ writeIndex' = i /\ allOk' = o /\ chars' = (IF o THEN chars + 1 ELSE 0)
        /\ level' = (IF level < 2 THEN level + 1 ELSE 2) /\ ~Buffer!Input(symbol)
        /\ UNCHANGED <<lengths, writeMeta, unread, readMeta>>
    BY <1>4, <1>7, <1>9, <1>10, <1>15
  <2>2. level' \in 0..2 /\ chars' \in Int BY <1>1, <2>1
  <2>3. BufferTypeInv' BY <1>11, <2>1, <2>2 DEF BufferIInv, BufferTypeInv
  <2>4. o => chars' = BufferOff(i) - BufferOff(writeMeta) - 2 + level'
    BY <1>1, <1>3, <1>6, <1>7, <1>8, <1>11, <2>1
  <2>5. BufferWriteInv' BY <1>11, <1>12, <2>1, <2>4 DEF BufferIInv, BufferWriteInv, BufferOff
  <2>6. PICK starts : BufferChain(starts) BY DEF BufferIInv
  <2>7. BufferChain(starts)' BY <1>11, <2>1, <2>6, BufferKeep DEF BufferIInv
  <2> QED BY <2>3, <2>5, <2>7 DEF BufferIInv
<1> QED BY <1>4, <1>13, <1>14, <1>15

\* A damaged char: the message is corrupted, what is in the buffer stays.
LEMMA BufferCorruptedStep == ASSUME BufferAssumed, BufferIInv, Buffer!MarkMessageCorrupted PROVE BufferIInv'
<1>1. /\ allOk' = FALSE /\ chars' = 0
      /\ UNCHANGED <<owner, lengths, level, writeMeta, writeIndex, readMeta, unread>>
  BY DEF Buffer!MarkMessageCorrupted
<1>2. allOk' \in BOOLEAN BY <1>1
<1>6. chars' \in Int BY <1>1
<1>7. BufferTypeInv' BY <1>1, <1>2, <1>6 DEF BufferIInv, BufferTypeInv
<1>3. BufferWriteInv' BY <1>1 DEF BufferIInv, BufferWriteInv, BufferOff
<1>4. PICK starts : BufferChain(starts) BY DEF BufferIInv
<1>5. BufferChain(starts)' BY <1>1, <1>4, BufferKeep DEF BufferIInv
<1> QED BY <1>7, <1>3, <1>5 DEF BufferIInv

\* There is something to read iff a message waits.
LEMMA BufferMayReadIs ==
    ASSUME BufferAssumed, BufferTypeInv, NEW starts, BufferChain(starts)
    PROVE /\ Buffer!MayRead <=> unread # <<>>
          /\ Buffer!MayRead => 1 \in 1..Len(unread)
<1>1. Len(unread) \in Nat /\ starts[1] = readMeta
    /\ starts[Len(unread) + 1] = writeMeta BY BufferWaiting DEF BufferChain
<1>2. CASE Len(unread) = 0
  <2>1. unread = <<>> BY <1>2, EmptySeq DEF BufferTypeInv
  <2> QED BY <1>1, <1>2, <2>1 DEF Buffer!MayRead
<1>3. CASE Len(unread) # 0
  <2>1. 1 \in 1..Len(unread) BY <1>1, <1>3
  <2>2. starts[1] # writeMeta BY <2>1, BufferWaiting
  <2>3. unread # <<>>
    <3>1. Len(<<>>) = 0 OBVIOUS
    <3> QED BY <1>3, <3>1
  <2> QED BY <1>1, <2>1, <2>2, <2>3 DEF Buffer!MayRead
<1> QED BY <1>2, <1>3

\* The message that was read makes room; the one after it is read next.
LEMMA BufferNextReadStep == ASSUME BufferAssumed, BufferIInv, Buffer!NextRead PROVE BufferIInv'
<1>1. /\ Size \in Nat /\ Size > 2 /\ readMeta \in Buffer!Position /\ writeMeta \in Buffer!Position
      /\ writeIndex \in Buffer!Position
      /\ owner \in [Buffer!Position -> Buffer!Position \cup {Buffer!Nobody}]
      /\ lengths \in [Buffer!Position -> Nat] /\ unread \in Seq(Nat)
      /\ BufferOff(writeMeta) + 2 <= BufferOff(writeIndex) /\ BufferOff(writeMeta) <= Size - 3
      /\ Len(unread) \in Nat
  BY LenProperties DEF BufferAssumed, BufferIInv, BufferTypeInv, BufferWriteInv
<1>2. \A p \in Buffer!Position : BufferOff(p) \in Nat /\ BufferOff(p) < Size BY <1>1, BufferTold
    DEF BufferOff
<1>3. PICK starts : BufferChain(starts) BY DEF BufferIInv
<1> DEFINE n == Len(unread)
<1>4. Buffer!MayRead /\ unread # <<>> /\ 1 \in 1..n /\ n \in Nat BY <1>1, <1>3, BufferMayReadIs
    DEF Buffer!NextRead, BufferIInv
<1>5. /\ \A i \in 1..n :
            /\ i \in 1..n + 1 /\ i + 1 \in 1..n + 1 /\ starts[i] \in Buffer!Position /\ unread[i] \in Nat
  BY <1>3, BufferWaiting DEF BufferIInv
<1>6. /\ starts \in [1..n + 1 -> Buffer!Position] /\ starts[1] = readMeta /\ starts[n + 1] = writeMeta
      /\ \A i \in 1..n :
            /\ lengths[starts[i]] = unread[i]
            /\ starts[i + 1] = Buffer!Even(Buffer!Shift(starts[i], unread[i] + 2))
            /\ \A p \in Buffer!Position : Buffer!Ahead(p, starts[i]) < unread[i] + 2 => owner[p] = starts[i]
      /\ \A i, j \in 1..n + 1 : i < j => BufferOff(starts[i]) + unread[i] + 2 <= BufferOff(starts[j])
  BY <1>3 DEF BufferChain
<1>7. /\ readMeta' = Buffer!Even(Buffer!Shift(readMeta, lengths[readMeta] + 2))
      /\ owner' = [p \in Buffer!Position |-> IF owner[p] = readMeta THEN Buffer!Nobody ELSE owner[p]]
      /\ lengths' = [lengths EXCEPT ![readMeta] = 0]
      /\ unread' = Tail(unread)
      /\ UNCHANGED <<level, writeMeta, writeIndex, allOk, chars>>
  BY DEF Buffer!NextRead
<1>8. unread' \in Seq(Nat) /\ Len(unread') = n - 1 /\ \A i \in 1..n - 1 : unread'[i] = unread[i + 1]
  BY <1>1, <1>4, <1>7, HeadTailProperties
<1> HIDE DEF n
<1>9. readMeta' = starts[2] /\ 2 \in 1..n + 1 /\ starts[2] \in Buffer!Position
  <2>1. 1 + 1 = 2 OBVIOUS
  <2> QED BY <1>4, <1>5, <1>6, <1>7, <2>1
<1>10. PICK r \in Buffer!Position : r = starts[2] BY <1>9
<1>11. \A j \in 2..n + 1 : j \in 1..n + 1 /\ starts[j] \in Buffer!Position
       /\ BufferOff(r) <= BufferOff(starts[j]) /\ 0 < BufferOff(starts[j])
  <2> SUFFICES ASSUME NEW j \in 2..n + 1
               PROVE  j \in 1..n + 1 /\ starts[j] \in Buffer!Position
                   /\ BufferOff(r) <= BufferOff(starts[j]) /\ 0 < BufferOff(starts[j])
    OBVIOUS
  <2>1. j \in 1..n + 1 /\ 1 \in 1..n + 1 /\ 1 < j /\ j \in Nat BY <1>4
  <2>2. starts[j] \in Buffer!Position BY <1>6, <2>1
  <2>3. BufferOff(starts[j]) \in Nat /\ BufferOff(r) \in Nat /\ BufferOff(starts[1]) \in Nat
      /\ unread[1] \in Nat
    BY <1>2, <1>4, <1>5, <1>10, <2>2
  <2>4. BufferOff(starts[1]) + unread[1] + 2 <= BufferOff(starts[j]) BY <1>6, <2>1
  <2>5. 0 < BufferOff(starts[j]) BY <2>3, <2>4
  <2>6. CASE j = 2 BY <1>10, <2>1, <2>2, <2>3, <2>5, <2>6
  <2>7. CASE j # 2
    <3>1. 2 \in 1..n /\ 2 < j BY <1>4, <2>1, <2>7
    <3>2. BufferOff(starts[2]) + unread[2] + 2 <= BufferOff(starts[j]) /\ unread[2] \in Nat BY <1>5, <1>6,
        <1>9, <2>1, <3>1
    <3> QED BY <1>10, <2>1, <2>2, <2>3, <2>5, <3>2
  <2> QED BY <2>6, <2>7
<1>12. BufferOff(readMeta) = 0 BY <1>1, BufferTold DEF BufferOff
<1>13. \A j \in 2..n + 1 : starts[j] # readMeta BY <1>11, <1>12
<1>14. n + 1 \in 2..n + 1 BY <1>4
<1>15. BufferOff(r) <= BufferOff(writeMeta) /\ writeMeta # readMeta BY <1>6, <1>11, <1>13, <1>14
<1>16. \A p \in Buffer!Position : BufferOff(r) <= BufferOff(p)
    => Buffer!Ahead(p, r) = BufferOff(p) - BufferOff(r) BY <1>1, BufferBetween DEF BufferOff
<1>17. BufferOff(r) \in Nat /\ BufferOff(writeMeta) \in Nat /\ BufferOff(writeIndex) \in Nat BY <1>1, <1>2
<1>18. Buffer!Ahead(writeMeta, r) = BufferOff(writeMeta) - BufferOff(r)
    /\ Buffer!Ahead(writeIndex, r) = BufferOff(writeIndex) - BufferOff(r)
  BY <1>1, <1>15, <1>16, <1>17
<1>19. BufferTypeInv'
  <2>1. owner' \in [Buffer!Position -> Buffer!Position \cup {Buffer!Nobody}] BY <1>1, <1>7
  <2>2. lengths' \in [Buffer!Position -> Nat] BY <1>1, <1>7
  <2> QED BY <1>7, <1>8, <1>9, <2>1, <2>2 DEF BufferIInv, BufferTypeInv
<1>20. readMeta' = r BY <1>9, <1>10
<1>21. BufferWriteInv'
  <2>1. Buffer!Ahead(writeMeta, r) <= Size - 3
      /\ Buffer!Ahead(writeMeta, r) + 2 <= Buffer!Ahead(writeIndex, r)
    BY <1>1, <1>17, <1>18
  <2>2. allOk => chars = Buffer!Ahead(writeIndex, r) - Buffer!Ahead(writeMeta, r) - 2 + level
    <3>1. allOk => chars = BufferOff(writeIndex) - BufferOff(writeMeta) - 2 + level BY DEF BufferIInv,
        BufferWriteInv
    <3>2. level \in Int BY DEF BufferIInv, BufferTypeInv
    <3> QED BY <1>17, <1>18, <3>1, <3>2
  <2>3. ASSUME NEW p \in Buffer!Position, Buffer!Ahead(writeMeta, r) + 2 <= Buffer!Ahead(p, r),
      Buffer!Ahead(p, r) < Buffer!Ahead(writeIndex, r)
        PROVE  owner'[p] = writeMeta
    <3>1. Buffer!Ahead(p, r) \in Nat BY BufferTold
    <3>2. BufferOff(r) + Buffer!Ahead(p, r) < BufferOff(writeIndex) BY <1>17, <1>18, <2>3, <3>1
    <3>3. Buffer!Ahead(r, readMeta) + Buffer!Ahead(p, r) < Size
      <4>1. BufferOff(writeIndex) < Size BY <1>1, <1>2
      <4> QED BY <1>1, <1>17, <3>1, <3>2, <4>1 DEF BufferOff
    <3>4. BufferOff(p) = BufferOff(r) + Buffer!Ahead(p, r) BY <1>1, <3>3, BufferBeyond DEF BufferOff
    <3>5. BufferOff(writeMeta) + 2 <= BufferOff(p) /\ BufferOff(p) < BufferOff(writeIndex) BY <1>17, <1>18,
        <2>3, <3>1, <3>2, <3>4
    <3>6. owner[p] = writeMeta BY <3>5 DEF BufferIInv, BufferWriteInv
    <3> QED BY <1>7, <1>15, <3>6
  <2>4. writeMeta % 2 = 0 BY DEF BufferIInv, BufferWriteInv
  <2> QED BY <1>7, <1>20, <2>1, <2>2, <2>3, <2>4 DEF BufferWriteInv, BufferOff
<1>22. PICK rest : rest = [i \in 1..n |-> starts[i + 1]] OBVIOUS
<1>23. \A i \in 1..n : i + 1 \in 2..n + 1 /\ rest[i] = starts[i + 1] BY <1>4, <1>22
<1>24. rest \in [1..n -> Buffer!Position] /\ rest[1] = r /\ rest[n] = writeMeta
  <2>1. n \in 1..n /\ 1 + 1 = 2 BY <1>4
  <2> QED BY <1>4, <1>6, <1>10, <1>11, <1>22, <1>23, <2>1
<1>25. ASSUME NEW i \in 1..n - 1
       PROVE  /\ lengths'[rest[i]] = unread'[i]
              /\ rest[i + 1] = Buffer!Even(Buffer!Shift(rest[i], unread'[i] + 2))
              /\ \A p \in Buffer!Position : Buffer!Ahead(p, rest[i]) < unread'[i] + 2 => owner'[p] = rest[i]
  <2>1. i \in 1..n /\ i + 1 \in 1..n BY <1>4
  <2>2. /\ rest[i] = starts[i + 1] /\ rest[i + 1] = starts[i + 1 + 1] /\ unread'[i] = unread[i + 1]
        /\ starts[i + 1] # readMeta
    BY <1>8, <1>13, <1>23, <2>1
  <2>3. /\ lengths[starts[i + 1]] = unread[i + 1]
        /\ starts[i + 1 + 1] = Buffer!Even(Buffer!Shift(starts[i + 1], unread[i + 1] + 2))
        /\ \A p \in Buffer!Position : Buffer!Ahead(p, starts[i + 1]) < unread[i + 1] + 2
           => owner[p] = starts[i + 1]
        /\ starts[i + 1] \in Buffer!Position
    BY <1>5, <1>6, <2>1
  <2> QED BY <1>1, <1>7, <2>2, <2>3
<1>26. ASSUME NEW i \in 1..n, NEW j \in 1..n, i < j
       PROVE  Buffer!Ahead(rest[i], r) + unread'[i] + 2 <= Buffer!Ahead(rest[j], r)
  <2>1. i \in 1..n - 1 /\ i + 1 \in 1..n /\ i + 1 \in 1..n + 1 /\ j + 1 \in 1..n + 1 /\ i + 1 < j + 1
        /\ i + 1 \in 2..n + 1 /\ j + 1 \in 2..n + 1
    BY <1>4, <1>26
  <2>2. rest[i] = starts[i + 1] /\ rest[j] = starts[j + 1] /\ unread'[i] = unread[i + 1]
    BY <1>8, <1>23, <2>1
  <2>3. BufferOff(starts[i + 1]) + unread[i + 1] + 2 <= BufferOff(starts[j + 1]) BY <1>6, <2>1
  <2>4. /\ BufferOff(r) <= BufferOff(starts[i + 1]) /\ BufferOff(r) <= BufferOff(starts[j + 1])
        /\ starts[i + 1] \in Buffer!Position /\ starts[j + 1] \in Buffer!Position
    BY <1>11, <2>1
  <2>5. /\ Buffer!Ahead(starts[i + 1], r) = BufferOff(starts[i + 1]) - BufferOff(r)
        /\ Buffer!Ahead(starts[j + 1], r) = BufferOff(starts[j + 1]) - BufferOff(r)
        /\ BufferOff(starts[i + 1]) \in Nat /\ BufferOff(starts[j + 1]) \in Nat /\ unread[i + 1] \in Nat
    BY <1>2, <1>5, <1>16, <2>1, <2>4
  <2> QED BY <1>17, <2>2, <2>3, <2>5
<1>27. BufferChain(rest)'
  <2>1. Len(unread') + 1 = n /\ 1..Len(unread') = 1..n - 1 /\ 1..Len(unread') + 1 = 1..n BY <1>4, <1>8
  <2>2. rest \in [1..Len(unread') + 1 -> Buffer!Position] /\ rest[1] = r
      /\ rest[Len(unread') + 1] = writeMeta
    BY <1>24, <2>1
  <2>3. \A i \in 1..Len(unread') :
            /\ lengths'[rest[i]] = unread'[i]
            /\ rest[i + 1] = Buffer!Even(Buffer!Shift(rest[i], unread'[i] + 2))
            /\ \A p \in Buffer!Position : Buffer!Ahead(p, rest[i]) < unread'[i] + 2 => owner'[p] = rest[i]
    BY <1>25, <2>1
  <2>4. \A i, j \in 1..Len(unread') + 1 :
            i < j => Buffer!Ahead(rest[i], r) + unread'[i] + 2 <= Buffer!Ahead(rest[j], r)
    BY <1>26, <2>1
  <2> QED BY <1>7, <1>20, <2>2, <2>3, <2>4 DEF BufferChain, BufferOff
<1> QED BY <1>19, <1>21, <1>27 DEF BufferIInv

\* An empty buffer
LEMMA BufferInitIInv == ASSUME BufferAssumed, Buffer!Init PROVE BufferIInv
<1>1. Size \in Nat /\ Size > 2 /\ 0 \in Buffer!Position /\ 2 \in Buffer!Position BY DEF BufferAssumed,
    Buffer!Position
<1>2. Buffer!Ahead(0, 0) = 0 /\ Buffer!Ahead(2, 0) = 2 BY <1>1, BufferAheadIs
<1>3. unread = <<>> /\ Len(unread) = 0 /\ unread \in Seq(Nat) BY EmptySeq DEF Buffer!Init
<1>4. BufferTypeInv
  <2>1. owner \in [Buffer!Position -> Buffer!Position \cup {Buffer!Nobody}]
      /\ lengths \in [Buffer!Position -> Nat] BY DEF Buffer!Init
  <2> QED BY <1>1, <1>3, <2>1 DEF Buffer!Init, BufferTypeInv
<1>5. BufferWriteInv
  <2>1. \A p \in Buffer!Position : Buffer!Ahead(p, 0) \in Nat BY <1>1, BufferTold
  <2> QED BY <1>1, <1>2, <2>1 DEF Buffer!Init, BufferWriteInv, BufferOff
<1>6. PICK starts : starts = [i \in 1..1 |-> 0] OBVIOUS
<1>7. BufferChain(starts)
  <2>1. 1..Len(unread) = {} /\ 1..Len(unread) + 1 = 1..1 /\ Len(unread) + 1 = 1 BY <1>3
  <2>2. starts \in [1..1 -> Buffer!Position] /\ starts[1] = 0 BY <1>1, <1>6
  <2>3. \A i, j \in 1..1 : ~(i < j) OBVIOUS
  <2> QED BY <2>1, <2>2, <2>3 DEF Buffer!Init, BufferChain
<1> QED BY <1>4, <1>5, <1>7 DEF BufferIInv

\* The buffer is emptied, whatever was in it.
LEMMA BufferResetStep == ASSUME BufferAssumed, Buffer!Reset PROVE BufferIInv'
<1>1. Size \in Nat /\ Size > 2 /\ 0 \in Buffer!Position /\ 2 \in Buffer!Position BY DEF BufferAssumed,
    Buffer!Position
<1>2. Buffer!Ahead(0, 0) = 0 /\ Buffer!Ahead(2, 0) = 2 BY <1>1, BufferAheadIs
<1>3. unread' = <<>> /\ Len(unread') = 0 /\ unread' \in Seq(Nat) BY EmptySeq DEF Buffer!Reset
<1>4. BufferTypeInv'
  <2>1. owner' \in [Buffer!Position -> Buffer!Position \cup {Buffer!Nobody}]
      /\ lengths' \in [Buffer!Position -> Nat] BY DEF Buffer!Reset
  <2> QED BY <1>1, <1>3, <2>1 DEF Buffer!Reset, BufferTypeInv
<1>5. BufferWriteInv'
  <2>1. \A p \in Buffer!Position : Buffer!Ahead(p, 0) \in Nat BY <1>1, BufferTold
  <2> QED BY <1>1, <1>2, <2>1 DEF Buffer!Reset, BufferWriteInv, BufferOff
<1>6. PICK starts : starts = [i \in 1..1 |-> 0] OBVIOUS
<1>7. BufferChain(starts)'
  <2>1. 1..Len(unread') = {} /\ 1..Len(unread') + 1 = 1..1 /\ Len(unread') + 1 = 1 BY <1>3
  <2>2. starts \in [1..1 -> Buffer!Position] /\ starts[1] = 0 BY <1>1, <1>6
  <2>3. \A i, j \in 1..1 : ~(i < j) OBVIOUS
  <2> QED BY <2>1, <2>2, <2>3 DEF Buffer!Reset, BufferChain
<1> QED BY <1>4, <1>5, <1>7 DEF BufferIInv

\* Every step keeps the invariant.
LEMMA BufferNextIInv == ASSUME BufferAssumed, BufferIInv, [Buffer!Next]_Buffer!vars PROVE BufferIInv'
<1>1. CASE UNCHANGED Buffer!vars
  <2>1. UNCHANGED <<owner, lengths, level, writeMeta, writeIndex, readMeta, allOk, chars, unread>>
    BY <1>1 DEF Buffer!vars
  <2>2. BufferTypeInv' BY <2>1 DEF BufferIInv, BufferTypeInv
  <2>3. BufferWriteInv' BY <2>1 DEF BufferIInv, BufferWriteInv, BufferOff
  <2>4. PICK starts : BufferChain(starts) BY DEF BufferIInv
  <2>5. BufferChain(starts)' BY <2>1, <2>4, BufferKeep DEF BufferIInv
  <2> QED BY <2>2, <2>3, <2>5 DEF BufferIInv
<1> QED BY <1>1, BufferAddStep, BufferCorruptedStep, BufferNextReadStep, BufferResetStep DEF Buffer!Next

\* The messages that wait follow each other and the one that is received, whatever happens.
THEOREM BufferInductive == Buffer!Spec => []BufferIInv
<1>1. BufferAssumed BY SizeAssumption DEF BufferAssumed
<1>2. Buffer!Init => BufferIInv BY <1>1, BufferInitIInv
<1>3. BufferIInv /\ [Buffer!Next]_Buffer!vars => BufferIInv' BY <1>1, BufferNextIInv
<1> QED BY <1>2, <1>3, PTL DEF Buffer!Spec

\* What is read is the oldest message that was finished, complete, wherever the buffer wraps
\* and however full it gets.
THEOREM ReadsWhole == Buffer!Spec => []ReadsWhatWasReceived
<1>1. BufferIInv => ReadsWhatWasReceived
  <2> SUFFICES ASSUME BufferIInv PROVE ReadsWhatWasReceived
    OBVIOUS
  <2>1. PICK starts : BufferChain(starts) BY DEF BufferIInv
  <2>2. BufferAssumed BY SizeAssumption DEF BufferAssumed
  <2>3. (Buffer!MayRead <=> unread # <<>>) /\ (Buffer!MayRead => 1 \in 1..Len(unread))
    BY <2>1, <2>2, BufferMayReadIs DEF BufferIInv
  <2>4. ASSUME Buffer!MayRead
        PROVE  /\ lengths[readMeta] = Head(unread)
               /\ \A p \in Buffer!Position : Buffer!Ahead(p, readMeta) < Head(unread) + 2
                  => owner[p] = readMeta
    <3>1. Head(unread) = unread[1] /\ starts[1] = readMeta BY <2>1 DEF BufferChain
    <3> QED BY <2>1, <2>3, <2>4, <3>1 DEF BufferChain
  <2> QED BY <2>3, <2>4 DEF ReadsWhatWasReceived, Buffer!ReadsWhatWasReceived
<1> QED BY <1>1, BufferInductive, PTL

-----------------------------------------------------------------------------
(* Both of them, as they run side by side.                                 *)

\* Each behaviour of the whole is one of the driver and one of the buffer.
LEMMA PartsBehave == AllSpec => Spec /\ Buffer!Spec
<1>1. AllInit => Init /\ Buffer!Init BY DEF AllInit
<1>2. [AllNext]_<<part, vars, bufferV>> => [Next]_vars /\ [Buffer!Next]_Buffer!vars
  <2> USE DEF AllNext, DriverStep, BufferStep, bufferV, Buffer!vars
  <2>1. [AllNext]_<<part, vars, bufferV>> => [Next]_vars OBVIOUS
  <2>2. [AllNext]_<<part, vars, bufferV>> => [Buffer!Next]_Buffer!vars OBVIOUS
  <2> QED BY <2>1, <2>2
<1> QED BY <1>1, <1>2, PTL DEF AllSpec, Spec, Buffer!Spec

\* What each keeps alone it keeps besides the other.
THEOREM AllKeep ==
    ASSUME Coincidences = {}
    PROVE AllSpec => []NothingIsLate /\ ExactlyOnce /\ AnswerIsOwn /\ []ReadsWhatWasReceived
BY PartsBehave, NothingLate, ImplementsCommands, OwnAnswers, ReadsWhole, PTL
=============================================================================
