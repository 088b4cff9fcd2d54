---------------------------- MODULE AlarmProofs -----------------------------
(* Proofs about the alarm, for any number of phones: what hangs on the     *)
(* state follows it, an alert comes after its delay and ends only by       *)
(* disarming, and calls are those of the present alert.  IInv is           *)
(* inductive.  TimersInv and PassInv are its core: they say what the two   *)
(* timers can be while the alarm's task serves a state that is no more.    *)
EXTENDS Alarm, TLAPS

\* arm() or disarm() has changed the state and has not come to its end.
Halfway(t) == telling[t] # "idle" /\ wish[t] = "CHANGE_STATE"

\* The state was changed and the alarm's task has yet to read it.
Unserved ==
    \/ "CHANGE_STATE" \in requests \/ at = "read"
    \/ \E t \in Tasks : telling[t] \in {"event", "request"} /\ wish[t] = "CHANGE_STATE"

\* Only one of the timers runs, except between the commands to them; what is on because
\* of an alert is off.
TimersInv ==
    /\ zonesTimer # "stopped" => ~siren /\ ~notifyTriggered
    /\ zonesTimer # "stopped" /\ at # "second" => alertTimer = "stopped"
    /\ zonesTimer # "stopped" /\ at = "second" => stateNow = "ARMED" /\ zonesTimer = "started"
    /\ state = "ALERTING" => zonesTimer = "stopped"
    /\ state = "TRIGGERED" => ~siren /\ ~notifyTriggered
    /\ state = "TRIGGERED" /\ alertTimer # "stopped" => delayed

\* What the state cannot have become while state_now is served.
PassInv ==
    /\ at \in {"first", "second"} /\ stateNow \in {"ARMED", "DISARMED"} =>
        state # "ALERTING" /\ (alertTimer # "stopped" => state # "TRIGGERED")
    /\ at = "callbacks" /\ stateNow \in {"ARMED", "DISARMED"} => state # "ALERTING" /\ alertTimer = "stopped"
    /\ at = "callbacks" /\ stateNow = "TRIGGERED" => alertTimer # "due"
    /\ at \in {"first", "second", "callbacks"} /\ stateNow = "ALERTING" => state # "TRIGGERED" /\ zonesTimer = "stopped"
    /\ at = "first" /\ stateNow = "TRIGGERED" => ~siren /\ ~notifyTriggered

\* Whoever is about to change the state does not do so in an alert.
MenuInv ==
    /\ \A t \in Tasks : telling[t] = "event" => wish[t] = "CHANGE_STATE"
    /\ \A t \in Tasks : Halfway(t) => state # "ALERTING" /\ (state = "TRIGGERED" => alertTimer # "due")
    /\ state = "TRIGGERED" /\ alertTimer # "stopped" =>
        IF at = "callbacks" THEN stateNow = "TRIGGERED" ELSE menu = "ARMED"
    /\ state = "ALERTING" => menu # "DISARMED"

\* A state that is being served, and is still the state, is served as far as the task has come.
ServedInv ==
    ~Unserved =>
        /\ at \in {"first", "second", "callbacks"} => stateNow = state
        /\ at # "first" =>
            /\ siren = (state = "ALERTING")
            /\ zonesTimer = "stopped" <=> state # "ARMED"
            /\ notifyTriggered => state = "ALERTING"
        /\ at \notin {"first", "second"} =>
            /\ state = "TRIGGERED" => alertTimer # "stopped"
            /\ state \in {"DISARMED", "ARMED"} => alertTimer = "stopped"
        /\ at \notin {"first", "second", "callbacks"} => menu = MenuOf(state)

\* The task sleeps only if it will be woken up for what is left to do.
SleepInv ==
    at = "wait" =>
        /\ ~notifyTriggered
        /\ requests # {} /\ ~notified => \E t \in Tasks : telling[t] = "notify"

\* A phone is called when it is its turn, and turns are taken from the head of the list.
CallInv == at \in {"call", "alert_talk"} => notifyTriggered /\ phoneIndex < Phones

TurnsInv ==
    /\ notifyTriggered => 0..(phoneIndex - 1) \subseteq tried
    /\ at = "alert_talk" => phoneIndex \in tried
    /\ (IF at \in {"second", "callbacks"} THEN stateNow = "ALERTING" ELSE menu = "ALERTING") =>
        notifyTriggered \/ 0..(Phones - 1) \subseteq tried

\* After a call that was made although the alarm was disarmed comes the change of the state.
DisarmedInv ==
    callsAfter # 0 =>
        /\ callsAfter = 1
        /\ \/ at \in {"read", "first"}
           \/ "CHANGE_STATE" \in requests /\ at \in {"alert_talk", "loop", "answer", "accept", "talk", "change"}

IInv ==
    /\ TypeOK /\ CallInv /\ TimersInv /\ PassInv /\ MenuInv /\ ServedInv /\ SleepInv
    /\ TurnsInv /\ DisarmedInv /\ UiFollowsState

-----------------------------------------------------------------------------
\* Whether a phone's turn is over or not, only those before it have had theirs, and it.
LEMMA NextTurn == ASSUME NEW p \in Nat, NEW q \in {p, p + 1} PROVE 0..(q - 1) \subseteq 0..(p - 1) \cup {p}
OBVIOUS

\* Every step leaves the alarm's task typed.
LEMMA TypeServiceStep == IInv /\ [Next]_vars => TypeService'
<1> SUFFICES ASSUME IInv, [Next]_vars PROVE TypeService'
    OBVIOUS
<1> USE PhonesAssumption
<1> USE DEF IInv, TypeOK, TypeService, TypeOthers, State, CallInv, serviceV, noteV, outV, callV,
    tellV, uiV, histV, Env, Tasks
<1>1. CASE UiChoice \/ Menu \/ IncomingCall \/ HangUp \/ CheckZones
  <2>1. CASE UiChoice BY <2>1 DEF UiChoice, SetState, Idle
  <2>2. CASE Menu BY <2>2 DEF Menu, SetState, Idle
  <2>3. CASE IncomingCall BY <2>3 DEF IncomingCall, Idle
  <2>4. CASE HangUp BY <2>4 DEF HangUp
  <2>5. CASE CheckZones BY <2>5 DEF CheckZones, SetStateIfCurrent
  <2> QED BY <1>1, <2>1, <2>2, <2>3, <2>4, <2>5
<1>2. ASSUME NEW t \in Tasks, TellUi(t) PROVE TypeService'
  BY <1>2 DEF TellUi
<1>3. ASSUME NEW t \in Tasks, SetRequest(t) PROVE TypeService'
  BY <1>3 DEF SetRequest
<1>4. ASSUME NEW t \in Tasks, Notify(t) PROVE TypeService'
  BY <1>4 DEF Notify
<1>5. CASE CallEnds \/ ClearAlarmEvent \/ ChangeController \/ PeriodElapses \/ StartAlerting
  <2>1. CASE CallEnds BY <2>1 DEF CallEnds, Idle
  <2>2. CASE ClearAlarmEvent BY <2>2 DEF ClearAlarmEvent, Idle
  <2>3. CASE ChangeController BY <2>3 DEF ChangeController, IsArmed
  <2>4. CASE PeriodElapses BY <2>4 DEF PeriodElapses, NobodyIsHalfway, Idle
  <2>5. CASE StartAlerting BY <2>5 DEF StartAlerting, SetStateIfCurrent
  <2> QED BY <1>5, <2>1, <2>2, <2>3, <2>4, <2>5
<1>6. CASE Wake \/ AnswerRequested \/ AcceptCall \/ WaitCallEnd \/ ChangeRequested \/ ReadState \/
    FirstPart \/ SecondPart \/ SetCallbacks \/ NextPhone \/ CallDone \/ CallFailed \/ CallRefused \/
    Loop
  <2>1. CASE Wake BY <2>1 DEF Wake
  <2>2. CASE AnswerRequested BY <2>2 DEF AnswerRequested, WasRequested
  <2>3. CASE AcceptCall BY <2>3 DEF AcceptCall
  <2>4. CASE WaitCallEnd BY <2>4 DEF WaitCallEnd
  <2>5. CASE ChangeRequested BY <2>5 DEF ChangeRequested, WasRequested
  <2>6. CASE ReadState BY <2>6 DEF ReadState
  <2>7. CASE FirstPart
    <3>1. phoneIndex' \in 0..Phones /\ tried' \subseteq 0..(Phones - 1)
      <4>1. phoneIndex' \in {0, phoneIndex} /\ tried' = {}
        BY <2>7 DEF FirstPart
      <4> QED BY <4>1
    <3>2. notifyTriggered' \in BOOLEAN
      BY <2>7, Zenon DEF FirstPart
    <3>3. at' = "second" /\ stateNow' = stateNow
      BY <2>7 DEF FirstPart
    <3> QED BY <3>1, <3>2, <3>3
  <2>8. CASE SecondPart BY <2>8 DEF SecondPart
  <2>9. CASE SetCallbacks BY <2>9 DEF SetCallbacks, MenuOf
  <2>10. CASE NextPhone BY <2>10 DEF NextPhone
  <2>11. CASE CallDone BY <2>11 DEF CallDone, CallTakesTime, Called, GoesOn, Idle
  <2>12. CASE CallFailed BY <2>12 DEF CallFailed, CallTakesTime, Called, GoesOn, Idle
  <2>13. CASE CallRefused BY <2>13 DEF CallRefused, GoesOn
  <2>14. CASE Loop BY <2>14 DEF Loop
  <2> QED BY <1>6, <2>1, <2>2, <2>3, <2>4, <2>5, <2>6, <2>7, <2>8, <2>9, <2>10, <2>11, <2>12, <2>13,
      <2>14
<1>7. CASE UNCHANGED vars BY <1>7 DEF vars
<1> QED BY <1>1, <1>2, <1>3, <1>4, <1>5, <1>6, <1>7 DEF Next, World, UserInterface, Service, Telling

\* Every step leaves what the task controls typed.
LEMMA TypeOutputsStep == IInv /\ [Next]_vars => TypeOutputs'
<1> SUFFICES ASSUME IInv, [Next]_vars PROVE TypeOutputs'
    OBVIOUS
<1> USE DEF IInv, TypeOK, TypeOutputs, TypeService, State, Timer, DisarmedInv, serviceV, noteV,
    outV, callV, tellV, uiV, histV, Env, Tasks
<1>1. CASE UiChoice \/ Menu \/ IncomingCall \/ HangUp \/ CheckZones
  <2>1. CASE UiChoice BY <2>1 DEF UiChoice, SetState, Idle
  <2>2. CASE Menu BY <2>2 DEF Menu, SetState, Idle
  <2>3. CASE IncomingCall BY <2>3 DEF IncomingCall, Idle
  <2>4. CASE HangUp BY <2>4 DEF HangUp
  <2>5. CASE CheckZones BY <2>5 DEF CheckZones, SetStateIfCurrent
  <2> QED BY <1>1, <2>1, <2>2, <2>3, <2>4, <2>5
<1>2. ASSUME NEW t \in Tasks, TellUi(t) PROVE TypeOutputs'
  BY <1>2 DEF TellUi
<1>3. ASSUME NEW t \in Tasks, SetRequest(t) PROVE TypeOutputs'
  BY <1>3 DEF SetRequest
<1>4. ASSUME NEW t \in Tasks, Notify(t) PROVE TypeOutputs'
  BY <1>4 DEF Notify
<1>5. CASE CallEnds \/ ClearAlarmEvent \/ ChangeController \/ PeriodElapses \/ StartAlerting
  <2>1. CASE CallEnds BY <2>1 DEF CallEnds, Idle
  <2>2. CASE ClearAlarmEvent BY <2>2 DEF ClearAlarmEvent, Idle
  <2>3. CASE ChangeController BY <2>3 DEF ChangeController, IsArmed
  <2>4. CASE PeriodElapses BY <2>4 DEF PeriodElapses, NobodyIsHalfway, Idle
  <2>5. CASE StartAlerting BY <2>5 DEF StartAlerting, SetStateIfCurrent
  <2> QED BY <1>5, <2>1, <2>2, <2>3, <2>4, <2>5
<1>6. CASE Wake \/ AnswerRequested \/ AcceptCall \/ WaitCallEnd \/ ChangeRequested \/ ReadState \/
    FirstPart \/ SecondPart \/ SetCallbacks \/ NextPhone \/ CallDone \/ CallFailed \/ CallRefused \/
    Loop
  <2>1. CASE Wake BY <2>1 DEF Wake
  <2>2. CASE AnswerRequested BY <2>2 DEF AnswerRequested, WasRequested
  <2>3. CASE AcceptCall BY <2>3 DEF AcceptCall
  <2>4. CASE WaitCallEnd BY <2>4 DEF WaitCallEnd
  <2>5. CASE ChangeRequested BY <2>5 DEF ChangeRequested, WasRequested
  <2>6. CASE ReadState BY <2>6 DEF ReadState
  <2>7. CASE FirstPart
    <3>1. siren' \in BOOLEAN
      BY <2>7, Zenon DEF FirstPart
    <3>2. zonesTimer' \in Timer /\ callsAfter' = 0
      BY <2>7 DEF FirstPart
    <3>3. UNCHANGED <<alertTimer, menu, call, optionSelected>>
      BY <2>7 DEF FirstPart
    <3> QED BY <3>1, <3>2, <3>3
  <2>8. CASE SecondPart BY <2>8 DEF SecondPart
  <2>9. CASE SetCallbacks BY <2>9 DEF SetCallbacks, MenuOf
  <2>10. CASE NextPhone BY <2>10 DEF NextPhone
  <2>11. CASE CallDone
    <3>1. callsAfter' \in 0..2
      BY <2>11 DEF CallDone, Called
    <3>2. call' = "talking" /\ optionSelected' = FALSE
      BY <2>11 DEF CallDone, Called
    <3>3. UNCHANGED <<zonesTimer, alertTimer, siren, menu>>
      BY <2>11 DEF CallDone
    <3> QED BY <3>1, <3>2, <3>3
  <2>12. CASE CallFailed
    <3>1. callsAfter' \in 0..2
      BY <2>12 DEF CallFailed, Called
    <3>2. call' = call /\ optionSelected' = FALSE
      BY <2>12 DEF CallFailed, Called
    <3>3. UNCHANGED <<zonesTimer, alertTimer, siren, menu>>
      BY <2>12 DEF CallFailed
    <3> QED BY <3>1, <3>2, <3>3
  <2>13. CASE CallRefused BY <2>13 DEF CallRefused, GoesOn
  <2>14. CASE Loop BY <2>14 DEF Loop
  <2> QED BY <1>6, <2>1, <2>2, <2>3, <2>4, <2>5, <2>6, <2>7, <2>8, <2>9, <2>10, <2>11, <2>12, <2>13,
      <2>14
<1>7. CASE UNCHANGED vars BY <1>7 DEF vars
<1> QED BY <1>1, <1>2, <1>3, <1>4, <1>5, <1>6, <1>7 DEF Next, World, UserInterface, Service, Telling

\* Every step leaves requests and notices typed.
LEMMA TypeOthersStep == IInv /\ [Next]_vars => TypeOthers'
<1> SUFFICES ASSUME IInv, [Next]_vars PROVE TypeOthers'
    OBVIOUS
<1> USE DEF IInv, TypeOK, TypeOthers, State, Request, serviceV, noteV, outV, callV, tellV, uiV,
    histV, Env, Tasks
<1>1. CASE UiChoice \/ Menu \/ IncomingCall \/ HangUp \/ CheckZones
  <2>1. CASE UiChoice BY <2>1 DEF UiChoice, SetState, Idle
  <2>2. CASE Menu BY <2>2 DEF Menu, SetState, Idle
  <2>3. CASE IncomingCall BY <2>3 DEF IncomingCall, Idle
  <2>4. CASE HangUp BY <2>4 DEF HangUp
  <2>5. CASE CheckZones BY <2>5 DEF CheckZones, SetStateIfCurrent
  <2> QED BY <1>1, <2>1, <2>2, <2>3, <2>4, <2>5
<1>2. ASSUME NEW t \in Tasks, TellUi(t) PROVE TypeOthers'
  BY <1>2 DEF TellUi
<1>3. ASSUME NEW t \in Tasks, SetRequest(t) PROVE TypeOthers'
  BY <1>3 DEF SetRequest
<1>4. ASSUME NEW t \in Tasks, Notify(t) PROVE TypeOthers'
  BY <1>4 DEF Notify
<1>5. CASE CallEnds \/ ClearAlarmEvent \/ ChangeController \/ PeriodElapses \/ StartAlerting
  <2>1. CASE CallEnds BY <2>1 DEF CallEnds, Idle
  <2>2. CASE ClearAlarmEvent BY <2>2 DEF ClearAlarmEvent, Idle
  <2>3. CASE ChangeController BY <2>3 DEF ChangeController, IsArmed
  <2>4. CASE PeriodElapses BY <2>4 DEF PeriodElapses, NobodyIsHalfway, Idle
  <2>5. CASE StartAlerting BY <2>5 DEF StartAlerting, SetStateIfCurrent
  <2> QED BY <1>5, <2>1, <2>2, <2>3, <2>4, <2>5
<1>6. CASE Wake \/ AnswerRequested \/ AcceptCall \/ WaitCallEnd \/ ChangeRequested \/ ReadState \/
    FirstPart \/ SecondPart \/ SetCallbacks \/ NextPhone \/ CallDone \/ CallFailed \/ CallRefused \/
    Loop
  <2>1. CASE Wake BY <2>1 DEF Wake
  <2>2. CASE AnswerRequested BY <2>2 DEF AnswerRequested, WasRequested
  <2>3. CASE AcceptCall BY <2>3 DEF AcceptCall
  <2>4. CASE WaitCallEnd BY <2>4 DEF WaitCallEnd
  <2>5. CASE ChangeRequested BY <2>5 DEF ChangeRequested, WasRequested
  <2>6. CASE ReadState BY <2>6 DEF ReadState
  <2>7. CASE FirstPart BY <2>7 DEF FirstPart
  <2>8. CASE SecondPart BY <2>8 DEF SecondPart
  <2>9. CASE SetCallbacks BY <2>9 DEF SetCallbacks, MenuOf
  <2>10. CASE NextPhone BY <2>10 DEF NextPhone
  <2>11. CASE CallDone BY <2>11 DEF CallDone, CallTakesTime, Called, GoesOn, Idle
  <2>12. CASE CallFailed BY <2>12 DEF CallFailed, CallTakesTime, Called, GoesOn, Idle
  <2>13. CASE CallRefused BY <2>13 DEF CallRefused, GoesOn
  <2>14. CASE Loop BY <2>14 DEF Loop
  <2> QED BY <1>6, <2>1, <2>2, <2>3, <2>4, <2>5, <2>6, <2>7, <2>8, <2>9, <2>10, <2>11, <2>12, <2>13,
      <2>14
<1>7. CASE UNCHANGED vars BY <1>7 DEF vars
<1> QED BY <1>1, <1>2, <1>3, <1>4, <1>5, <1>6, <1>7 DEF Next, World, UserInterface, Service, Telling

\* Every step preserves CallInv.
LEMMA CallStep == IInv /\ [Next]_vars => CallInv'
<1> SUFFICES ASSUME IInv, [Next]_vars PROVE CallInv'
    OBVIOUS
<1> USE PhonesAssumption
<1> USE DEF IInv, TypeOK, TypeService, CallInv, serviceV, noteV, outV, callV, tellV, uiV, histV,
    Env, Tasks
<1>1. CASE UiChoice \/ Menu \/ IncomingCall \/ HangUp \/ CheckZones
  <2>1. CASE UiChoice BY <2>1 DEF UiChoice, SetState, Idle
  <2>2. CASE Menu BY <2>2 DEF Menu, SetState, Idle
  <2>3. CASE IncomingCall BY <2>3 DEF IncomingCall, Idle
  <2>4. CASE HangUp BY <2>4 DEF HangUp
  <2>5. CASE CheckZones BY <2>5 DEF CheckZones, SetStateIfCurrent
  <2> QED BY <1>1, <2>1, <2>2, <2>3, <2>4, <2>5
<1>2. ASSUME NEW t \in Tasks, TellUi(t) PROVE CallInv'
  BY <1>2 DEF TellUi
<1>3. ASSUME NEW t \in Tasks, SetRequest(t) PROVE CallInv'
  BY <1>3 DEF SetRequest
<1>4. ASSUME NEW t \in Tasks, Notify(t) PROVE CallInv'
  BY <1>4 DEF Notify
<1>5. CASE CallEnds \/ ClearAlarmEvent \/ ChangeController \/ PeriodElapses \/ StartAlerting
  <2>1. CASE CallEnds BY <2>1 DEF CallEnds, Idle
  <2>2. CASE ClearAlarmEvent BY <2>2 DEF ClearAlarmEvent, Idle
  <2>3. CASE ChangeController BY <2>3 DEF ChangeController, IsArmed
  <2>4. CASE PeriodElapses BY <2>4 DEF PeriodElapses, NobodyIsHalfway, Idle
  <2>5. CASE StartAlerting BY <2>5 DEF StartAlerting, SetStateIfCurrent
  <2> QED BY <1>5, <2>1, <2>2, <2>3, <2>4, <2>5
<1>6. CASE Wake \/ AnswerRequested \/ AcceptCall \/ WaitCallEnd \/ ChangeRequested \/ ReadState \/
    FirstPart \/ SecondPart \/ SetCallbacks \/ NextPhone \/ CallDone \/ CallFailed \/ CallRefused \/
    Loop
  <2>1. CASE Wake BY <2>1 DEF Wake
  <2>2. CASE AnswerRequested BY <2>2 DEF AnswerRequested, WasRequested
  <2>3. CASE AcceptCall BY <2>3 DEF AcceptCall
  <2>4. CASE WaitCallEnd BY <2>4 DEF WaitCallEnd
  <2>5. CASE ChangeRequested BY <2>5 DEF ChangeRequested, WasRequested
  <2>6. CASE ReadState BY <2>6 DEF ReadState
  <2>7. CASE FirstPart BY <2>7 DEF FirstPart
  <2>8. CASE SecondPart BY <2>8 DEF SecondPart
  <2>9. CASE SetCallbacks BY <2>9 DEF SetCallbacks, MenuOf
  <2>10. CASE NextPhone BY <2>10 DEF NextPhone
  <2>11. CASE CallDone BY <2>11 DEF CallDone, CallTakesTime, Called, GoesOn, Idle
  <2>12. CASE CallFailed BY <2>12 DEF CallFailed, CallTakesTime, Called, GoesOn, Idle
  <2>13. CASE CallRefused BY <2>13 DEF CallRefused, GoesOn
  <2>14. CASE Loop BY <2>14 DEF Loop
  <2> QED BY <1>6, <2>1, <2>2, <2>3, <2>4, <2>5, <2>6, <2>7, <2>8, <2>9, <2>10, <2>11, <2>12, <2>13,
      <2>14
<1>7. CASE UNCHANGED vars BY <1>7 DEF vars
<1> QED BY <1>1, <1>2, <1>3, <1>4, <1>5, <1>6, <1>7 DEF Next, World, UserInterface, Service, Telling

\* Every step preserves TimersInv.
LEMMA TimersStep == IInv /\ [Next]_vars => TimersInv'
<1> SUFFICES ASSUME IInv, [Next]_vars PROVE TimersInv'
    OBVIOUS
<1> USE DEF IInv, TimersInv, PassInv, MenuInv, ServedInv, Unserved, Halfway, UiFollowsState,
    IsArmed, TypeOK, TypeService, TypeOutputs, TypeOthers, State, Request, Timer, serviceV, noteV,
    outV, callV, tellV, uiV, histV, Env, Tasks
<1>1. CASE UiChoice \/ Menu \/ IncomingCall \/ HangUp \/ CheckZones
  <2>1. CASE UiChoice BY <2>1 DEF UiChoice, SetState, Idle
  <2>2. CASE Menu BY <2>2 DEF Menu, SetState, Idle
  <2>3. CASE IncomingCall BY <2>3 DEF IncomingCall, Idle
  <2>4. CASE HangUp BY <2>4 DEF HangUp
  <2>5. CASE CheckZones BY <2>5 DEF CheckZones, SetStateIfCurrent
  <2> QED BY <1>1, <2>1, <2>2, <2>3, <2>4, <2>5
<1>2. ASSUME NEW t \in Tasks, TellUi(t) PROVE TimersInv'
  BY <1>2 DEF TellUi
<1>3. ASSUME NEW t \in Tasks, SetRequest(t) PROVE TimersInv'
  BY <1>3 DEF SetRequest
<1>4. ASSUME NEW t \in Tasks, Notify(t) PROVE TimersInv'
  BY <1>4 DEF Notify
<1>5. CASE CallEnds \/ ClearAlarmEvent \/ ChangeController \/ PeriodElapses \/ StartAlerting
  <2>1. CASE CallEnds BY <2>1 DEF CallEnds, Idle
  <2>2. CASE ClearAlarmEvent BY <2>2 DEF ClearAlarmEvent, Idle
  <2>3. CASE ChangeController BY <2>3 DEF ChangeController, IsArmed
  <2>4. CASE PeriodElapses BY <2>4 DEF PeriodElapses, NobodyIsHalfway, Idle
  <2>5. CASE StartAlerting BY <2>5 DEF StartAlerting, SetStateIfCurrent
  <2> QED BY <1>5, <2>1, <2>2, <2>3, <2>4, <2>5
<1>6. CASE Wake \/ AnswerRequested \/ AcceptCall \/ WaitCallEnd \/ ChangeRequested \/ ReadState \/
    FirstPart \/ SecondPart \/ SetCallbacks \/ NextPhone \/ CallDone \/ CallFailed \/ CallRefused \/
    Loop
  <2>1. CASE Wake BY <2>1 DEF Wake
  <2>2. CASE AnswerRequested BY <2>2 DEF AnswerRequested, WasRequested
  <2>3. CASE AcceptCall BY <2>3 DEF AcceptCall
  <2>4. CASE WaitCallEnd BY <2>4 DEF WaitCallEnd
  <2>5. CASE ChangeRequested BY <2>5 DEF ChangeRequested, WasRequested
  <2>6. CASE ReadState BY <2>6 DEF ReadState
  <2>7. CASE FirstPart BY <2>7 DEF FirstPart
  <2>8. CASE SecondPart BY <2>8 DEF SecondPart
  <2>9. CASE SetCallbacks BY <2>9 DEF SetCallbacks, MenuOf
  <2>10. CASE NextPhone BY <2>10 DEF NextPhone
  <2>11. CASE CallDone BY <2>11 DEF CallDone, CallTakesTime, Called, GoesOn, Idle
  <2>12. CASE CallFailed BY <2>12 DEF CallFailed, CallTakesTime, Called, GoesOn, Idle
  <2>13. CASE CallRefused BY <2>13 DEF CallRefused, GoesOn
  <2>14. CASE Loop BY <2>14 DEF Loop
  <2> QED BY <1>6, <2>1, <2>2, <2>3, <2>4, <2>5, <2>6, <2>7, <2>8, <2>9, <2>10, <2>11, <2>12, <2>13,
      <2>14
<1>7. CASE UNCHANGED vars BY <1>7 DEF vars
<1> QED BY <1>1, <1>2, <1>3, <1>4, <1>5, <1>6, <1>7 DEF Next, World, UserInterface, Service, Telling

\* Every step preserves PassInv.
LEMMA PassStep == IInv /\ [Next]_vars => PassInv'
<1> SUFFICES ASSUME IInv, [Next]_vars PROVE PassInv'
    OBVIOUS
<1> USE DEF IInv, TimersInv, PassInv, MenuInv, Halfway, UiFollowsState, IsArmed, TypeOK,
    TypeService, TypeOutputs, TypeOthers, State, Request, Timer, serviceV, noteV, outV, callV,
    tellV, uiV, histV, Env, Tasks
<1>1. CASE UiChoice \/ Menu \/ IncomingCall \/ HangUp \/ CheckZones
  <2>1. CASE UiChoice BY <2>1 DEF UiChoice, SetState, Idle
  <2>2. CASE Menu BY <2>2 DEF Menu, SetState, Idle
  <2>3. CASE IncomingCall BY <2>3 DEF IncomingCall, Idle
  <2>4. CASE HangUp BY <2>4 DEF HangUp
  <2>5. CASE CheckZones BY <2>5 DEF CheckZones, SetStateIfCurrent
  <2> QED BY <1>1, <2>1, <2>2, <2>3, <2>4, <2>5
<1>2. ASSUME NEW t \in Tasks, TellUi(t) PROVE PassInv'
  BY <1>2 DEF TellUi
<1>3. ASSUME NEW t \in Tasks, SetRequest(t) PROVE PassInv'
  BY <1>3 DEF SetRequest
<1>4. ASSUME NEW t \in Tasks, Notify(t) PROVE PassInv'
  BY <1>4 DEF Notify
<1>5. CASE CallEnds \/ ClearAlarmEvent \/ ChangeController \/ PeriodElapses \/ StartAlerting
  <2>1. CASE CallEnds BY <2>1 DEF CallEnds, Idle
  <2>2. CASE ClearAlarmEvent BY <2>2 DEF ClearAlarmEvent, Idle
  <2>3. CASE ChangeController BY <2>3 DEF ChangeController, IsArmed
  <2>4. CASE PeriodElapses BY <2>4 DEF PeriodElapses, NobodyIsHalfway, Idle
  <2>5. CASE StartAlerting BY <2>5 DEF StartAlerting, SetStateIfCurrent
  <2> QED BY <1>5, <2>1, <2>2, <2>3, <2>4, <2>5
<1>6. CASE Wake \/ AnswerRequested \/ AcceptCall \/ WaitCallEnd \/ ChangeRequested \/ ReadState \/
    FirstPart \/ SecondPart \/ SetCallbacks \/ NextPhone \/ CallDone \/ CallFailed \/ CallRefused \/
    Loop
  <2>1. CASE Wake BY <2>1 DEF Wake
  <2>2. CASE AnswerRequested BY <2>2 DEF AnswerRequested, WasRequested
  <2>3. CASE AcceptCall BY <2>3 DEF AcceptCall
  <2>4. CASE WaitCallEnd BY <2>4 DEF WaitCallEnd
  <2>5. CASE ChangeRequested BY <2>5 DEF ChangeRequested, WasRequested
  <2>6. CASE ReadState BY <2>6 DEF ReadState
  <2>7. CASE FirstPart BY <2>7 DEF FirstPart
  <2>8. CASE SecondPart BY <2>8 DEF SecondPart
  <2>9. CASE SetCallbacks BY <2>9 DEF SetCallbacks, MenuOf
  <2>10. CASE NextPhone BY <2>10 DEF NextPhone
  <2>11. CASE CallDone BY <2>11 DEF CallDone, CallTakesTime, Called, GoesOn, Idle
  <2>12. CASE CallFailed BY <2>12 DEF CallFailed, CallTakesTime, Called, GoesOn, Idle
  <2>13. CASE CallRefused BY <2>13 DEF CallRefused, GoesOn
  <2>14. CASE Loop BY <2>14 DEF Loop
  <2> QED BY <1>6, <2>1, <2>2, <2>3, <2>4, <2>5, <2>6, <2>7, <2>8, <2>9, <2>10, <2>11, <2>12, <2>13,
      <2>14
<1>7. CASE UNCHANGED vars BY <1>7 DEF vars
<1> QED BY <1>1, <1>2, <1>3, <1>4, <1>5, <1>6, <1>7 DEF Next, World, UserInterface, Service, Telling

\* Every step preserves MenuInv.
LEMMA MenuStep == IInv /\ [Next]_vars => MenuInv'
<1> SUFFICES ASSUME IInv, [Next]_vars PROVE MenuInv'
    OBVIOUS
<1> USE DEF IInv, TimersInv, PassInv, MenuInv, ServedInv, Unserved, Halfway, UiFollowsState,
    IsArmed, MenuOf, TypeOK, TypeService, TypeOutputs, TypeOthers, State, Request, Timer, serviceV,
    noteV, outV, callV, tellV, uiV, histV, Env, Tasks
<1>1. CASE UiChoice \/ Menu \/ IncomingCall \/ HangUp \/ CheckZones
  <2>1. CASE UiChoice BY <2>1 DEF UiChoice, SetState, Idle
  <2>2. CASE Menu BY <2>2 DEF Menu, SetState, Idle
  <2>3. CASE IncomingCall BY <2>3 DEF IncomingCall, Idle
  <2>4. CASE HangUp BY <2>4 DEF HangUp
  <2>5. CASE CheckZones BY <2>5 DEF CheckZones, SetStateIfCurrent
  <2> QED BY <1>1, <2>1, <2>2, <2>3, <2>4, <2>5
<1>2. ASSUME NEW t \in Tasks, TellUi(t) PROVE MenuInv'
  BY <1>2 DEF TellUi
<1>3. ASSUME NEW t \in Tasks, SetRequest(t) PROVE MenuInv'
  BY <1>3 DEF SetRequest
<1>4. ASSUME NEW t \in Tasks, Notify(t) PROVE MenuInv'
  BY <1>4 DEF Notify
<1>5. CASE CallEnds \/ ClearAlarmEvent \/ ChangeController \/ PeriodElapses \/ StartAlerting
  <2>1. CASE CallEnds BY <2>1 DEF CallEnds, Idle
  <2>2. CASE ClearAlarmEvent BY <2>2 DEF ClearAlarmEvent, Idle
  <2>3. CASE ChangeController BY <2>3 DEF ChangeController, IsArmed
  <2>4. CASE PeriodElapses BY <2>4 DEF PeriodElapses, NobodyIsHalfway, Idle
  <2>5. CASE StartAlerting BY <2>5 DEF StartAlerting, SetStateIfCurrent
  <2> QED BY <1>5, <2>1, <2>2, <2>3, <2>4, <2>5
<1>6. CASE Wake \/ AnswerRequested \/ AcceptCall \/ WaitCallEnd \/ ChangeRequested \/ ReadState \/
    FirstPart \/ SecondPart \/ SetCallbacks \/ NextPhone \/ CallDone \/ CallFailed \/ CallRefused \/
    Loop
  <2>1. CASE Wake BY <2>1 DEF Wake
  <2>2. CASE AnswerRequested BY <2>2 DEF AnswerRequested, WasRequested
  <2>3. CASE AcceptCall BY <2>3 DEF AcceptCall
  <2>4. CASE WaitCallEnd BY <2>4 DEF WaitCallEnd
  <2>5. CASE ChangeRequested BY <2>5 DEF ChangeRequested, WasRequested
  <2>6. CASE ReadState BY <2>6 DEF ReadState
  <2>7. CASE FirstPart BY <2>7 DEF FirstPart
  <2>8. CASE SecondPart BY <2>8 DEF SecondPart
  <2>9. CASE SetCallbacks BY <2>9 DEF SetCallbacks, MenuOf
  <2>10. CASE NextPhone BY <2>10 DEF NextPhone
  <2>11. CASE CallDone BY <2>11 DEF CallDone, CallTakesTime, Called, GoesOn, Idle
  <2>12. CASE CallFailed BY <2>12 DEF CallFailed, CallTakesTime, Called, GoesOn, Idle
  <2>13. CASE CallRefused BY <2>13 DEF CallRefused, GoesOn
  <2>14. CASE Loop BY <2>14 DEF Loop
  <2> QED BY <1>6, <2>1, <2>2, <2>3, <2>4, <2>5, <2>6, <2>7, <2>8, <2>9, <2>10, <2>11, <2>12, <2>13,
      <2>14
<1>7. CASE UNCHANGED vars BY <1>7 DEF vars
<1> QED BY <1>1, <1>2, <1>3, <1>4, <1>5, <1>6, <1>7 DEF Next, World, UserInterface, Service, Telling

\* Every step preserves ServedInv.
LEMMA ServedStep == IInv /\ [Next]_vars => ServedInv'
<1> SUFFICES ASSUME IInv, [Next]_vars PROVE ServedInv'
    OBVIOUS
<1> USE DEF IInv, TimersInv, PassInv, MenuInv, ServedInv, Unserved, Halfway, MenuOf, CallInv,
    TypeOK, TypeService, TypeOutputs, TypeOthers, State, Request, Timer, serviceV, noteV, outV,
    callV, tellV, uiV, histV, Env, Tasks
<1>1. CASE UiChoice \/ Menu \/ IncomingCall \/ HangUp \/ CheckZones
  <2>1. CASE UiChoice BY <2>1 DEF UiChoice, SetState, Idle
  <2>2. CASE Menu BY <2>2 DEF Menu, SetState, Idle
  <2>3. CASE IncomingCall BY <2>3 DEF IncomingCall, Idle
  <2>4. CASE HangUp BY <2>4 DEF HangUp
  <2>5. CASE CheckZones BY <2>5 DEF CheckZones, SetStateIfCurrent
  <2> QED BY <1>1, <2>1, <2>2, <2>3, <2>4, <2>5
<1>2. ASSUME NEW t \in Tasks, TellUi(t) PROVE ServedInv'
  BY <1>2 DEF TellUi
<1>3. ASSUME NEW t \in Tasks, SetRequest(t) PROVE ServedInv'
  BY <1>3 DEF SetRequest
<1>4. ASSUME NEW t \in Tasks, Notify(t) PROVE ServedInv'
  BY <1>4 DEF Notify
<1>5. CASE CallEnds \/ ClearAlarmEvent \/ ChangeController \/ PeriodElapses \/ StartAlerting
  <2>1. CASE CallEnds BY <2>1 DEF CallEnds, Idle
  <2>2. CASE ClearAlarmEvent BY <2>2 DEF ClearAlarmEvent, Idle
  <2>3. CASE ChangeController BY <2>3 DEF ChangeController, IsArmed
  <2>4. CASE PeriodElapses BY <2>4 DEF PeriodElapses, NobodyIsHalfway, Idle
  <2>5. CASE StartAlerting BY <2>5 DEF StartAlerting, SetStateIfCurrent
  <2> QED BY <1>5, <2>1, <2>2, <2>3, <2>4, <2>5
<1>6. CASE Wake \/ AnswerRequested \/ AcceptCall \/ WaitCallEnd \/ ChangeRequested \/ ReadState \/
    FirstPart \/ SecondPart \/ SetCallbacks \/ NextPhone \/ CallDone \/ CallFailed \/ CallRefused \/
    Loop
  <2>1. CASE Wake BY <2>1 DEF Wake
  <2>2. CASE AnswerRequested BY <2>2 DEF AnswerRequested, WasRequested
  <2>3. CASE AcceptCall BY <2>3 DEF AcceptCall
  <2>4. CASE WaitCallEnd BY <2>4 DEF WaitCallEnd
  <2>5. CASE ChangeRequested BY <2>5 DEF ChangeRequested, WasRequested
  <2>6. CASE ReadState BY <2>6 DEF ReadState
  <2>7. CASE FirstPart BY <2>7 DEF FirstPart
  <2>8. CASE SecondPart BY <2>8 DEF SecondPart
  <2>9. CASE SetCallbacks BY <2>9 DEF SetCallbacks, MenuOf
  <2>10. CASE NextPhone BY <2>10 DEF NextPhone
  <2>11. CASE CallDone BY <2>11 DEF CallDone, CallTakesTime, Called, GoesOn, Idle
  <2>12. CASE CallFailed BY <2>12 DEF CallFailed, CallTakesTime, Called, GoesOn, Idle
  <2>13. CASE CallRefused BY <2>13 DEF CallRefused, GoesOn
  <2>14. CASE Loop BY <2>14 DEF Loop
  <2> QED BY <1>6, <2>1, <2>2, <2>3, <2>4, <2>5, <2>6, <2>7, <2>8, <2>9, <2>10, <2>11, <2>12, <2>13,
      <2>14
<1>7. CASE UNCHANGED vars BY <1>7 DEF vars
<1> QED BY <1>1, <1>2, <1>3, <1>4, <1>5, <1>6, <1>7 DEF Next, World, UserInterface, Service, Telling

\* Every step preserves SleepInv.
LEMMA SleepStep == IInv /\ [Next]_vars => SleepInv'
<1> SUFFICES ASSUME IInv, [Next]_vars PROVE SleepInv'
    OBVIOUS
<1> USE DEF IInv, SleepInv, TypeOK, TypeService, TypeOutputs, TypeOthers, State, Request, Timer,
    serviceV, noteV, outV, callV, tellV, uiV, histV, Env, Tasks
<1>1. CASE UiChoice \/ Menu \/ IncomingCall \/ HangUp \/ CheckZones
  <2>1. CASE UiChoice BY <2>1 DEF UiChoice, SetState, Idle
  <2>2. CASE Menu BY <2>2 DEF Menu, SetState, Idle
  <2>3. CASE IncomingCall BY <2>3 DEF IncomingCall, Idle
  <2>4. CASE HangUp BY <2>4 DEF HangUp
  <2>5. CASE CheckZones BY <2>5 DEF CheckZones, SetStateIfCurrent
  <2> QED BY <1>1, <2>1, <2>2, <2>3, <2>4, <2>5
<1>2. ASSUME NEW t \in Tasks, TellUi(t) PROVE SleepInv'
  BY <1>2 DEF TellUi
<1>3. ASSUME NEW t \in Tasks, SetRequest(t) PROVE SleepInv'
  BY <1>3 DEF SetRequest
<1>4. ASSUME NEW t \in Tasks, Notify(t) PROVE SleepInv'
  BY <1>4 DEF Notify
<1>5. CASE CallEnds \/ ClearAlarmEvent \/ ChangeController \/ PeriodElapses \/ StartAlerting
  <2>1. CASE CallEnds BY <2>1 DEF CallEnds, Idle
  <2>2. CASE ClearAlarmEvent BY <2>2 DEF ClearAlarmEvent, Idle
  <2>3. CASE ChangeController BY <2>3 DEF ChangeController, IsArmed
  <2>4. CASE PeriodElapses BY <2>4 DEF PeriodElapses, NobodyIsHalfway, Idle
  <2>5. CASE StartAlerting BY <2>5 DEF StartAlerting, SetStateIfCurrent
  <2> QED BY <1>5, <2>1, <2>2, <2>3, <2>4, <2>5
<1>6. CASE Wake \/ AnswerRequested \/ AcceptCall \/ WaitCallEnd \/ ChangeRequested \/ ReadState \/
    FirstPart \/ SecondPart \/ SetCallbacks \/ NextPhone \/ CallDone \/ CallFailed \/ CallRefused \/
    Loop
  <2>1. CASE Wake BY <2>1 DEF Wake
  <2>2. CASE AnswerRequested BY <2>2 DEF AnswerRequested, WasRequested
  <2>3. CASE AcceptCall BY <2>3 DEF AcceptCall
  <2>4. CASE WaitCallEnd BY <2>4 DEF WaitCallEnd
  <2>5. CASE ChangeRequested BY <2>5 DEF ChangeRequested, WasRequested
  <2>6. CASE ReadState BY <2>6 DEF ReadState
  <2>7. CASE FirstPart BY <2>7 DEF FirstPart
  <2>8. CASE SecondPart BY <2>8 DEF SecondPart
  <2>9. CASE SetCallbacks BY <2>9 DEF SetCallbacks, MenuOf
  <2>10. CASE NextPhone BY <2>10 DEF NextPhone
  <2>11. CASE CallDone BY <2>11 DEF CallDone, CallTakesTime, Called, GoesOn, Idle
  <2>12. CASE CallFailed BY <2>12 DEF CallFailed, CallTakesTime, Called, GoesOn, Idle
  <2>13. CASE CallRefused BY <2>13 DEF CallRefused, GoesOn
  <2>14. CASE Loop BY <2>14 DEF Loop
  <2> QED BY <1>6, <2>1, <2>2, <2>3, <2>4, <2>5, <2>6, <2>7, <2>8, <2>9, <2>10, <2>11, <2>12, <2>13,
      <2>14
<1>7. CASE UNCHANGED vars BY <1>7 DEF vars
<1> QED BY <1>1, <1>2, <1>3, <1>4, <1>5, <1>6, <1>7 DEF Next, World, UserInterface, Service, Telling

\* Every step preserves TurnsInv.
LEMMA TurnsStep == IInv /\ [Next]_vars => TurnsInv'
<1> SUFFICES ASSUME IInv, [Next]_vars PROVE TurnsInv'
    OBVIOUS
<1> USE PhonesAssumption
<1> USE DEF IInv, TurnsInv, CallInv, ServedInv, Unserved, MenuOf, TypeOK, TypeService, TypeOutputs,
    TypeOthers, State, Request, Timer, serviceV, noteV, outV, callV, tellV, uiV, histV, Env, Tasks
<1>1. CASE UiChoice \/ Menu \/ IncomingCall \/ HangUp \/ CheckZones
  <2>1. CASE UiChoice BY <2>1 DEF UiChoice, SetState, Idle
  <2>2. CASE Menu BY <2>2 DEF Menu, SetState, Idle
  <2>3. CASE IncomingCall BY <2>3 DEF IncomingCall, Idle
  <2>4. CASE HangUp BY <2>4 DEF HangUp
  <2>5. CASE CheckZones BY <2>5 DEF CheckZones, SetStateIfCurrent
  <2> QED BY <1>1, <2>1, <2>2, <2>3, <2>4, <2>5
<1>2. ASSUME NEW t \in Tasks, TellUi(t) PROVE TurnsInv'
  BY <1>2 DEF TellUi
<1>3. ASSUME NEW t \in Tasks, SetRequest(t) PROVE TurnsInv'
  BY <1>3 DEF SetRequest
<1>4. ASSUME NEW t \in Tasks, Notify(t) PROVE TurnsInv'
  BY <1>4 DEF Notify
<1>5. CASE CallEnds \/ ClearAlarmEvent \/ ChangeController \/ PeriodElapses \/ StartAlerting
  <2>1. CASE CallEnds BY <2>1 DEF CallEnds, Idle
  <2>2. CASE ClearAlarmEvent BY <2>2 DEF ClearAlarmEvent, Idle
  <2>3. CASE ChangeController BY <2>3 DEF ChangeController, IsArmed
  <2>4. CASE PeriodElapses BY <2>4 DEF PeriodElapses, NobodyIsHalfway, Idle
  <2>5. CASE StartAlerting BY <2>5 DEF StartAlerting, SetStateIfCurrent
  <2> QED BY <1>5, <2>1, <2>2, <2>3, <2>4, <2>5
<1>6. CASE Wake \/ AnswerRequested \/ AcceptCall \/ WaitCallEnd \/ ChangeRequested \/ ReadState \/
    FirstPart \/ SecondPart \/ SetCallbacks \/ NextPhone \/ CallDone \/ CallFailed \/ CallRefused \/
    Loop
  <2>1. CASE Wake BY <2>1 DEF Wake
  <2>2. CASE AnswerRequested BY <2>2 DEF AnswerRequested, WasRequested
  <2>3. CASE AcceptCall BY <2>3 DEF AcceptCall
  <2>4. CASE WaitCallEnd BY <2>4 DEF WaitCallEnd
  <2>5. CASE ChangeRequested BY <2>5 DEF ChangeRequested, WasRequested
  <2>6. CASE ReadState BY <2>6 DEF ReadState
  <2>7. CASE FirstPart
    <3>1. notifyTriggered' => stateNow = "ALERTING" /\ phoneIndex' = 0
      BY <2>7 DEF FirstPart, PassInv
    <3>2. 0..(0 - 1) = {}
      OBVIOUS
    <3>3. stateNow' = "ALERTING" => notifyTriggered'
      BY <2>7 DEF FirstPart
    <3>4. at' = "second"
      BY <2>7 DEF FirstPart
    <3> QED BY <3>1, <3>2, <3>3, <3>4
  <2>8. CASE SecondPart BY <2>8 DEF SecondPart
  <2>9. CASE SetCallbacks BY <2>9 DEF SetCallbacks, MenuOf
  <2>10. CASE NextPhone BY <2>10 DEF NextPhone
  <2>11. CASE CallDone BY <2>11 DEF CallDone, CallTakesTime, Called, GoesOn, Idle
  <2>12. CASE CallFailed
    <3>1. phoneIndex' \in {phoneIndex, phoneIndex + 1} /\ tried' = tried \cup {phoneIndex}
      BY <2>12 DEF CallFailed, GoesOn, Called
    <3>2. 0..(phoneIndex' - 1) \subseteq 0..(phoneIndex - 1) \cup {phoneIndex}
      <4>1. phoneIndex \in Nat
        OBVIOUS
      <4> QED BY <3>1, <4>1, NextTurn
    <3>3. notifyTriggered /\ notifyTriggered' /\ at' = "loop" /\ at = "call"
      BY <2>12 DEF CallFailed
    <3> QED BY <3>1, <3>2, <3>3
  <2>13. CASE CallRefused
    <3>1. phoneIndex' \in {phoneIndex, phoneIndex + 1} /\ tried' = tried \cup {phoneIndex}
      BY <2>13 DEF CallRefused, GoesOn, Called
    <3>2. 0..(phoneIndex' - 1) \subseteq 0..(phoneIndex - 1) \cup {phoneIndex}
      <4>1. phoneIndex \in Nat
        OBVIOUS
      <4> QED BY <3>1, <4>1, NextTurn
    <3>3. notifyTriggered /\ notifyTriggered' /\ at' = "loop" /\ at = "call"
      BY <2>13 DEF CallRefused
    <3> QED BY <3>1, <3>2, <3>3
  <2>14. CASE Loop BY <2>14 DEF Loop
  <2> QED BY <1>6, <2>1, <2>2, <2>3, <2>4, <2>5, <2>6, <2>7, <2>8, <2>9, <2>10, <2>11, <2>12, <2>13,
      <2>14
<1>7. CASE UNCHANGED vars BY <1>7 DEF vars
<1> QED BY <1>1, <1>2, <1>3, <1>4, <1>5, <1>6, <1>7 DEF Next, World, UserInterface, Service, Telling

\* Every step preserves DisarmedInv.
LEMMA DisarmedStep == IInv /\ [Next]_vars => DisarmedInv'
<1> SUFFICES ASSUME IInv, [Next]_vars PROVE DisarmedInv'
    OBVIOUS
<1> USE DEF IInv, DisarmedInv, ServedInv, CallInv, Unserved, TypeOK, TypeService, TypeOutputs,
    TypeOthers, State, Request, Timer, serviceV, noteV, outV, callV, tellV, uiV, histV, Env, Tasks
<1>1. CASE UiChoice \/ Menu \/ IncomingCall \/ HangUp \/ CheckZones
  <2>1. CASE UiChoice BY <2>1 DEF UiChoice, SetState, Idle
  <2>2. CASE Menu BY <2>2 DEF Menu, SetState, Idle
  <2>3. CASE IncomingCall BY <2>3 DEF IncomingCall, Idle
  <2>4. CASE HangUp BY <2>4 DEF HangUp
  <2>5. CASE CheckZones BY <2>5 DEF CheckZones, SetStateIfCurrent
  <2> QED BY <1>1, <2>1, <2>2, <2>3, <2>4, <2>5
<1>2. ASSUME NEW t \in Tasks, TellUi(t) PROVE DisarmedInv'
  BY <1>2 DEF TellUi
<1>3. ASSUME NEW t \in Tasks, SetRequest(t) PROVE DisarmedInv'
  BY <1>3 DEF SetRequest
<1>4. ASSUME NEW t \in Tasks, Notify(t) PROVE DisarmedInv'
  BY <1>4 DEF Notify
<1>5. CASE CallEnds \/ ClearAlarmEvent \/ ChangeController \/ PeriodElapses \/ StartAlerting
  <2>1. CASE CallEnds BY <2>1 DEF CallEnds, Idle
  <2>2. CASE ClearAlarmEvent BY <2>2 DEF ClearAlarmEvent, Idle
  <2>3. CASE ChangeController BY <2>3 DEF ChangeController, IsArmed
  <2>4. CASE PeriodElapses BY <2>4 DEF PeriodElapses, NobodyIsHalfway, Idle
  <2>5. CASE StartAlerting BY <2>5 DEF StartAlerting, SetStateIfCurrent
  <2> QED BY <1>5, <2>1, <2>2, <2>3, <2>4, <2>5
<1>6. CASE Wake \/ AnswerRequested \/ AcceptCall \/ WaitCallEnd \/ ChangeRequested \/ ReadState \/
    FirstPart \/ SecondPart \/ SetCallbacks \/ NextPhone \/ CallDone \/ CallFailed \/ CallRefused \/
    Loop
  <2>1. CASE Wake BY <2>1 DEF Wake
  <2>2. CASE AnswerRequested BY <2>2 DEF AnswerRequested, WasRequested
  <2>3. CASE AcceptCall BY <2>3 DEF AcceptCall
  <2>4. CASE WaitCallEnd BY <2>4 DEF WaitCallEnd
  <2>5. CASE ChangeRequested BY <2>5 DEF ChangeRequested, WasRequested
  <2>6. CASE ReadState BY <2>6 DEF ReadState
  <2>7. CASE FirstPart BY <2>7 DEF FirstPart
  <2>8. CASE SecondPart BY <2>8 DEF SecondPart
  <2>9. CASE SetCallbacks BY <2>9 DEF SetCallbacks, MenuOf
  <2>10. CASE NextPhone BY <2>10 DEF NextPhone
  <2>11. CASE CallDone BY <2>11 DEF CallDone, CallTakesTime, Called, GoesOn, Idle
  <2>12. CASE CallFailed BY <2>12 DEF CallFailed, CallTakesTime, Called, GoesOn, Idle
  <2>13. CASE CallRefused BY <2>13 DEF CallRefused, GoesOn
  <2>14. CASE Loop BY <2>14 DEF Loop
  <2> QED BY <1>6, <2>1, <2>2, <2>3, <2>4, <2>5, <2>6, <2>7, <2>8, <2>9, <2>10, <2>11, <2>12, <2>13,
      <2>14
<1>7. CASE UNCHANGED vars BY <1>7 DEF vars
<1> QED BY <1>1, <1>2, <1>3, <1>4, <1>5, <1>6, <1>7 DEF Next, World, UserInterface, Service, Telling

\* Every step preserves UiFollowsState.
LEMMA UiStep == IInv /\ [Next]_vars => UiFollowsState'
<1> SUFFICES ASSUME IInv, [Next]_vars PROVE UiFollowsState'
    OBVIOUS
<1> USE DEF IInv, UiFollowsState, MenuInv, IsArmed, TypeOK, TypeService, TypeOutputs, TypeOthers,
    State, Request, Timer, serviceV, noteV, outV, callV, tellV, uiV, histV, Env, Tasks
<1>1. CASE UiChoice \/ Menu \/ IncomingCall \/ HangUp \/ CheckZones
  <2>1. CASE UiChoice BY <2>1 DEF UiChoice, SetState, Idle
  <2>2. CASE Menu BY <2>2 DEF Menu, SetState, Idle
  <2>3. CASE IncomingCall BY <2>3 DEF IncomingCall, Idle
  <2>4. CASE HangUp BY <2>4 DEF HangUp
  <2>5. CASE CheckZones BY <2>5 DEF CheckZones, SetStateIfCurrent
  <2> QED BY <1>1, <2>1, <2>2, <2>3, <2>4, <2>5
<1>2. ASSUME NEW t \in Tasks, TellUi(t) PROVE UiFollowsState'
  BY <1>2 DEF TellUi
<1>3. ASSUME NEW t \in Tasks, SetRequest(t) PROVE UiFollowsState'
  BY <1>3 DEF SetRequest
<1>4. ASSUME NEW t \in Tasks, Notify(t) PROVE UiFollowsState'
  BY <1>4 DEF Notify
<1>5. CASE CallEnds \/ ClearAlarmEvent \/ ChangeController \/ PeriodElapses \/ StartAlerting
  <2>1. CASE CallEnds BY <2>1 DEF CallEnds, Idle
  <2>2. CASE ClearAlarmEvent BY <2>2 DEF ClearAlarmEvent, Idle
  <2>3. CASE ChangeController BY <2>3 DEF ChangeController, IsArmed
  <2>4. CASE PeriodElapses BY <2>4 DEF PeriodElapses, NobodyIsHalfway, Idle
  <2>5. CASE StartAlerting BY <2>5 DEF StartAlerting, SetStateIfCurrent
  <2> QED BY <1>5, <2>1, <2>2, <2>3, <2>4, <2>5
<1>6. CASE Wake \/ AnswerRequested \/ AcceptCall \/ WaitCallEnd \/ ChangeRequested \/ ReadState \/
    FirstPart \/ SecondPart \/ SetCallbacks \/ NextPhone \/ CallDone \/ CallFailed \/ CallRefused \/
    Loop
  <2>1. CASE Wake BY <2>1 DEF Wake
  <2>2. CASE AnswerRequested BY <2>2 DEF AnswerRequested, WasRequested
  <2>3. CASE AcceptCall BY <2>3 DEF AcceptCall
  <2>4. CASE WaitCallEnd BY <2>4 DEF WaitCallEnd
  <2>5. CASE ChangeRequested BY <2>5 DEF ChangeRequested, WasRequested
  <2>6. CASE ReadState BY <2>6 DEF ReadState
  <2>7. CASE FirstPart BY <2>7 DEF FirstPart
  <2>8. CASE SecondPart BY <2>8 DEF SecondPart
  <2>9. CASE SetCallbacks BY <2>9 DEF SetCallbacks, MenuOf
  <2>10. CASE NextPhone BY <2>10 DEF NextPhone
  <2>11. CASE CallDone BY <2>11 DEF CallDone, CallTakesTime, Called, GoesOn, Idle
  <2>12. CASE CallFailed BY <2>12 DEF CallFailed, CallTakesTime, Called, GoesOn, Idle
  <2>13. CASE CallRefused BY <2>13 DEF CallRefused, GoesOn
  <2>14. CASE Loop BY <2>14 DEF Loop
  <2> QED BY <1>6, <2>1, <2>2, <2>3, <2>4, <2>5, <2>6, <2>7, <2>8, <2>9, <2>10, <2>11, <2>12, <2>13,
      <2>14
<1>7. CASE UNCHANGED vars BY <1>7 DEF vars
<1> QED BY <1>1, <1>2, <1>3, <1>4, <1>5, <1>6, <1>7 DEF Next, World, UserInterface, Service, Telling

\* IInv holds initially.
LEMMA InitIInv == Init => IInv
<1> SUFFICES ASSUME Init PROVE IInv
    OBVIOUS
<1> USE DEF Init, Tasks
<1>1. TypeService
  <2>1. phoneIndex \in 0..Phones
    BY PhonesAssumption
  <2>2. tried \subseteq 0..(Phones - 1)
    OBVIOUS
  <2> QED BY <2>1, <2>2 DEF TypeService, State
<1>4. TypeOutputs
  <2>1. callsAfter \in 0..2
    OBVIOUS
  <2> QED BY <2>1, Zenon DEF TypeOutputs, Timer
<1>5. TypeOthers
  <2>1. telling \in [Tasks -> {"idle", "event", "request", "notify"}] /\ wish \in [Tasks -> Request]
    BY DEF Request
  <2> QED BY <2>1 DEF TypeOthers, State, Request
<1>2. CallInv /\ TimersInv /\ PassInv /\ MenuInv /\ SleepInv /\ DisarmedInv
  BY DEF CallInv, TimersInv, PassInv, MenuInv, SleepInv, DisarmedInv, Halfway
<1>3. ServedInv /\ TurnsInv /\ UiFollowsState
  BY DEF ServedInv, Unserved, MenuOf, TurnsInv, UiFollowsState, IsArmed
<1> QED BY <1>1, <1>2, <1>3, <1>4, <1>5 DEF IInv, TypeOK

\* IInv is an invariant of the alarm.
THEOREM Inductive == Spec => []IInv
<1>1. IInv /\ [Next]_vars => IInv'
  <2> SUFFICES ASSUME IInv, [Next]_vars PROVE IInv'
      OBVIOUS
  <2>1. TypeOK'
    BY TypeServiceStep, TypeOutputsStep, TypeOthersStep DEF TypeOK
  <2>2. CallInv' /\ TimersInv' /\ PassInv' /\ MenuInv' /\ ServedInv'
    BY CallStep, TimersStep, PassStep, MenuStep, ServedStep
  <2>3. SleepInv' /\ TurnsInv' /\ DisarmedInv' /\ UiFollowsState'
    BY SleepStep, TurnsStep, DisarmedStep, UiStep
  <2> QED BY <2>1, <2>2, <2>3 DEF IInv
<1> QED BY InitIInv, <1>1, PTL DEF Spec

\* Type correctness.
THEOREM TypeCorrect == Spec => []TypeOK
<1>1. IInv => TypeOK BY DEF IInv
<1> QED BY Inductive, <1>1, PTL

\* No request is lost between the tasks, and the timers, the siren, the callbacks for
\* calls and the user's interface follow the state, whoever has changed it.
THEOREM EverybodyFollows == Spec => []EverybodyFollowsState
<1>1. IInv => EverybodyFollowsState
  <2> SUFFICES ASSUME IInv, Quiet PROVE ServedFollowsState
      BY DEF EverybodyFollowsState, ServedFollowsState, IInv
  <2>1. at = "wait" /\ ~notified /\ \A t \in Tasks : telling[t] = "idle"
    BY DEF Quiet, Idle
  <2>2. requests = {} /\ ~notifyTriggered
    BY <2>1 DEF IInv, SleepInv
  <2>3. ~Unserved
    BY <2>1, <2>2 DEF Unserved
  <2> QED BY <2>1, <2>2, <2>3 DEF IInv, ServedInv, ServedFollowsState
<1> QED BY Inductive, <1>1, PTL

\* Calls are those of the present alert: everybody has a turn in it, whatever alerts
\* were broken off before, and at most one call is made after disarming.
THEOREM CallsFollow == Spec => []CallsFollowAlert
<1>1. IInv => CallsFollowAlert
  <2> SUFFICES ASSUME IInv PROVE CallsFollowAlert
      OBVIOUS
  <2>1. AtMostOneCallAfterDisarming
    BY DEF IInv, DisarmedInv, AtMostOneCallAfterDisarming, TypeOK, TypeOutputs
  <2>2. ASSUME AlertIsServed PROVE tried = 0..(Phones - 1)
    <3>1. ~notifyTriggered
      BY <2>2 DEF AlertIsServed, IInv, SleepInv
    <3>2. 0..(Phones - 1) \subseteq tried
      BY <2>2, <3>1 DEF AlertIsServed, IInv, TurnsInv
    <3> QED BY <3>2 DEF IInv, TypeOK, TypeService
  <2> QED BY <2>1, <2>2 DEF CallsFollowAlert, EverybodyHasTurn
<1> QED BY Inductive, <1>1, PTL

\* An alert ends only when the alarm is disarmed: nobody arms it while it alerts.
THEOREM OnlyDisarming == Spec => OnlyDisarmingEndsAlert
<1>1. IInv /\ [Next]_vars => [state = "ALERTING" => state' = "DISARMED"]_state
  <2> SUFFICES ASSUME IInv, [Next]_vars, state' # state, state = "ALERTING" PROVE state' = "DISARMED"
      OBVIOUS
  <2> USE DEF IInv, TimersInv, MenuInv, Halfway, UiFollowsState, IsArmed, TypeOK, TypeService, TypeOutputs,
      TypeOthers, State, Request, Timer, serviceV, noteV, outV, callV, tellV, uiV, histV, Env, Tasks
  <2>1. CASE UiChoice \/ Menu \/ IncomingCall \/ HangUp \/ CheckZones
    <3>1. CASE UiChoice BY <3>1 DEF UiChoice, SetState, Idle
    <3>2. CASE Menu BY <3>2 DEF Menu, SetState, Idle
    <3>3. CASE IncomingCall BY <3>3 DEF IncomingCall, Idle
    <3>4. CASE HangUp BY <3>4 DEF HangUp
    <3>5. CASE CheckZones BY <3>5 DEF CheckZones, SetStateIfCurrent
    <3> QED BY <2>1, <3>1, <3>2, <3>3, <3>4, <3>5
  <2>2. ASSUME NEW t \in Tasks, TellUi(t) PROVE state' = "DISARMED"
    BY <2>2 DEF TellUi
  <2>3. ASSUME NEW t \in Tasks, SetRequest(t) PROVE state' = "DISARMED"
    BY <2>3 DEF SetRequest
  <2>4. ASSUME NEW t \in Tasks, Notify(t) PROVE state' = "DISARMED"
    BY <2>4 DEF Notify
  <2>5. CASE CallEnds \/ ClearAlarmEvent \/ ChangeController \/ PeriodElapses \/ StartAlerting
    <3>1. CASE CallEnds BY <3>1 DEF CallEnds, Idle
    <3>2. CASE ClearAlarmEvent BY <3>2 DEF ClearAlarmEvent, Idle
    <3>3. CASE ChangeController BY <3>3 DEF ChangeController, IsArmed
    <3>4. CASE PeriodElapses BY <3>4 DEF PeriodElapses, NobodyIsHalfway, Idle
    <3>5. CASE StartAlerting BY <3>5 DEF StartAlerting, SetStateIfCurrent
    <3> QED BY <2>5, <3>1, <3>2, <3>3, <3>4, <3>5
  <2>6. CASE Wake \/ AnswerRequested \/ AcceptCall \/ WaitCallEnd \/ ChangeRequested \/ ReadState \/
      FirstPart \/ SecondPart \/ SetCallbacks \/ NextPhone \/ CallDone \/ CallFailed \/ CallRefused \/
      Loop
    <3>1. CASE Wake BY <3>1 DEF Wake
    <3>2. CASE AnswerRequested BY <3>2 DEF AnswerRequested, WasRequested
    <3>3. CASE AcceptCall BY <3>3 DEF AcceptCall
    <3>4. CASE WaitCallEnd BY <3>4 DEF WaitCallEnd
    <3>5. CASE ChangeRequested BY <3>5 DEF ChangeRequested, WasRequested
    <3>6. CASE ReadState BY <3>6 DEF ReadState
    <3>7. CASE FirstPart BY <3>7 DEF FirstPart
    <3>8. CASE SecondPart BY <3>8 DEF SecondPart
    <3>9. CASE SetCallbacks BY <3>9 DEF SetCallbacks, MenuOf
    <3>10. CASE NextPhone BY <3>10 DEF NextPhone
    <3>11. CASE CallDone BY <3>11 DEF CallDone, CallTakesTime, Called, GoesOn, Idle
    <3>12. CASE CallFailed BY <3>12 DEF CallFailed, CallTakesTime, Called, GoesOn, Idle
    <3>13. CASE CallRefused BY <3>13 DEF CallRefused, GoesOn
    <3>14. CASE Loop BY <3>14 DEF Loop
    <3> QED BY <2>6, <3>1, <3>2, <3>3, <3>4, <3>5, <3>6, <3>7, <3>8, <3>9, <3>10, <3>11, <3>12, <3>13,
        <3>14
  <2>7. CASE UNCHANGED vars BY <2>7 DEF vars
  <2> QED BY <2>1, <2>2, <2>3, <2>4, <2>5, <2>6, <2>7 DEF Next, World, UserInterface, Service, Telling
<1>2. Spec => [][state = "ALERTING" => state' = "DISARMED"]_state
  BY Inductive, <1>1, PTL DEF Spec
<1> QED BY <1>2 DEF OnlyDisarmingEndsAlert

\* An alert begins only after the delay for disarming, whatever timers earlier states
\* have left.
THEOREM AfterDelay == Spec => AlertAfterDelay
<1>1. IInv /\ [Next]_vars => [state' = "ALERTING" => delayed]_state
  <2> SUFFICES ASSUME IInv, [Next]_vars, state' # state, state' = "ALERTING" PROVE delayed
      OBVIOUS
  <2> USE DEF IInv, TimersInv, MenuInv, UiFollowsState, IsArmed, TypeOK, TypeService, TypeOutputs,
      TypeOthers, State, Request, Timer, serviceV, noteV, outV, callV, tellV, uiV, histV, Env, Tasks
  <2>1. CASE UiChoice \/ Menu \/ IncomingCall \/ HangUp \/ CheckZones
    <3>1. CASE UiChoice BY <3>1 DEF UiChoice, SetState, Idle
    <3>2. CASE Menu BY <3>2 DEF Menu, SetState, Idle
    <3>3. CASE IncomingCall BY <3>3 DEF IncomingCall, Idle
    <3>4. CASE HangUp BY <3>4 DEF HangUp
    <3>5. CASE CheckZones BY <3>5 DEF CheckZones, SetStateIfCurrent
    <3> QED BY <2>1, <3>1, <3>2, <3>3, <3>4, <3>5
  <2>2. ASSUME NEW t \in Tasks, TellUi(t) PROVE delayed
    BY <2>2 DEF TellUi
  <2>3. ASSUME NEW t \in Tasks, SetRequest(t) PROVE delayed
    BY <2>3 DEF SetRequest
  <2>4. ASSUME NEW t \in Tasks, Notify(t) PROVE delayed
    BY <2>4 DEF Notify
  <2>5. CASE CallEnds \/ ClearAlarmEvent \/ ChangeController \/ PeriodElapses \/ StartAlerting
    <3>1. CASE CallEnds BY <3>1 DEF CallEnds, Idle
    <3>2. CASE ClearAlarmEvent BY <3>2 DEF ClearAlarmEvent, Idle
    <3>3. CASE ChangeController BY <3>3 DEF ChangeController, IsArmed
    <3>4. CASE PeriodElapses BY <3>4 DEF PeriodElapses, NobodyIsHalfway, Idle
    <3>5. CASE StartAlerting BY <3>5 DEF StartAlerting, SetStateIfCurrent
    <3> QED BY <2>5, <3>1, <3>2, <3>3, <3>4, <3>5
  <2>6. CASE Wake \/ AnswerRequested \/ AcceptCall \/ WaitCallEnd \/ ChangeRequested \/ ReadState \/
      FirstPart \/ SecondPart \/ SetCallbacks \/ NextPhone \/ CallDone \/ CallFailed \/ CallRefused \/
      Loop
    <3>1. CASE Wake BY <3>1 DEF Wake
    <3>2. CASE AnswerRequested BY <3>2 DEF AnswerRequested, WasRequested
    <3>3. CASE AcceptCall BY <3>3 DEF AcceptCall
    <3>4. CASE WaitCallEnd BY <3>4 DEF WaitCallEnd
    <3>5. CASE ChangeRequested BY <3>5 DEF ChangeRequested, WasRequested
    <3>6. CASE ReadState BY <3>6 DEF ReadState
    <3>7. CASE FirstPart BY <3>7 DEF FirstPart
    <3>8. CASE SecondPart BY <3>8 DEF SecondPart
    <3>9. CASE SetCallbacks BY <3>9 DEF SetCallbacks, MenuOf
    <3>10. CASE NextPhone BY <3>10 DEF NextPhone
    <3>11. CASE CallDone BY <3>11 DEF CallDone, CallTakesTime, Called, GoesOn, Idle
    <3>12. CASE CallFailed BY <3>12 DEF CallFailed, CallTakesTime, Called, GoesOn, Idle
    <3>13. CASE CallRefused BY <3>13 DEF CallRefused, GoesOn
    <3>14. CASE Loop BY <3>14 DEF Loop
    <3> QED BY <2>6, <3>1, <3>2, <3>3, <3>4, <3>5, <3>6, <3>7, <3>8, <3>9, <3>10, <3>11, <3>12, <3>13,
        <3>14
  <2>7. CASE UNCHANGED vars BY <2>7 DEF vars
  <2> QED BY <2>1, <2>2, <2>3, <2>4, <2>5, <2>6, <2>7 DEF Next, World, UserInterface, Service, Telling
<1>2. Spec => [][state' = "ALERTING" => delayed]_state
  BY Inductive, <1>1, PTL DEF Spec
<1> QED BY <1>2 DEF AlertAfterDelay

=============================================================================
