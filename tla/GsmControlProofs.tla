-------------------------- MODULE GsmControlProofs --------------------------
(* Proofs about GsmControl, for any clients, priorities and number of      *)
(* incidents, and about a channel of a timer.                              *)
EXTENDS MCProgress, TLAPS

(***************************************************************************)
(* Type correctness                                                        *)
(***************************************************************************)

\* The two tasks of the system are tasks.
LEMMA SystemTasks == Driver \in Tasks /\ Timers \in Tasks
BY DEF Tasks

\* What the tasks ask for are methods of gsm::Controls.
LEMMA OpsTyped == ASSUME NEW t \in Tasks PROVE OpsOf(t) \subseteq Op
BY ClientsAssumption DEF OpsOf, Op

\* Every method is a command of the driver.
LEMMA OpIsCommand == Op \subseteq Command
BY DEF Op, Command

\* executed() starts a command of the driver.
LEMMA FirstCommandTyped ==
    ASSUME NEW tasks PROVE FirstCommand(tasks) \in Command
BY DEF FirstCommand, Command

\* Types hold initially.
LEMMA TypeInit == Init => TypeOK
<1> SUFFICES ASSUME Init PROVE TypeOK
    OBVIOUS
<1>1. TypeControl BY DEF Init, TypeControl, Point, Op, Command
<1>2. TypeModule BY DEF Init, TypeModule
<1>3. incidents \in 0 .. MaxIncidents BY MaxIncidentsAssumption DEF Init
<1> QED BY <1>1, <1>2, <1>3 DEF TypeOK

\* Every step leaves the control typed.
LEMMA TypeControlStep == TypeControl /\ [Next]_vars => TypeControl'
<1> SUFFICES ASSUME TypeControl, [Next]_vars PROVE TypeControl'
    OBVIOUS
<1> USE SystemTasks DEF TypeControl, Goto, Point, AsyncTask, control
<1>1. CASE CommandEnds
  <2> USE DEF Executed, Continue, FutureResult, Op, Command
  <2>1. CASE TurnedOn \/ TurnedOff BY <2>1 DEF TurnedOn, TurnedOff
  <2>3. ASSUME NEW res \in Result,
               DtmfEnabled(res) \/ SignalChecked(res) \/ SmsDeleted(res) \/ SmsSent(res)
        PROVE TypeControl'
    BY <2>3 DEF DtmfEnabled, SignalChecked, SmsDeleted, SmsSent, module
  <2>4. ASSUME NEW res \in Result, EndDone(res) \/ AcceptDone(res) \/ RejectDone(res) \/ CallStarted(res)
        PROVE TypeControl'
    BY <2>4 DEF EndDone, AcceptDone, RejectDone, CallStarted
  <2>5. ASSUME NEW res \in Result, NEW ready \in BOOLEAN, SimChecked(res, ready) PROVE TypeControl'
    BY <2>5 DEF SimChecked
  <2>6. ASSUME NEW res \in Result, NEW reg \in {"DONE", "ONGOING", "FAILED"}, RegChecked(res, reg)
        PROVE TypeControl'
    BY <2>6 DEF RegChecked
  <2>7. ASSUME NEW res \in {"OK", "NO_RESPONSE"}, DialingKnown(res) \/ CallEnded(res)
        PROVE TypeControl'
    BY <2>7 DEF DialingKnown, CallEnded
  <2> QED BY <1>1, <2>1, <2>3, <2>4, <2>5, <2>6, <2>7 DEF CommandEnds
<1>2. CASE OnHwMalfunction \/ OnSmsReceived \/ ModuleStatusTimeout \/ ConnectionRecoveryTimeout
  BY <1>2 DEF OnHwMalfunction, OnSmsReceived, ModuleStatusTimeout, ConnectionRecoveryTimeout, Schedule
<1>3. ASSUME NEW t \in Tasks, ClientStep(t) PROVE TypeControl'
  <2>1. CASE GetCtrl(t) BY <2>1, OpsTyped DEF GetCtrl
  <2>2. CASE Invoke(t)
    <3>1. op[t] \in Command BY OpIsCommand
    <3> QED BY <2>2, <3>1 DEF Invoke
  <2>3. CASE TakeCtrl(t) \/ CallRefused(t) \/ TakeResult(t)
    BY <2>3 DEF TakeCtrl, CallRefused, TakeResult
  <2> QED BY <1>3, <2>1, <2>2, <2>3 DEF ClientStep
<1>4. ASSUME NEW t \in Tasks, ExecutionStep(t) PROVE TypeControl'
  <2>1. CASE StartScheduled(t)
    <3>1. FirstCommand(seen[t]) \in Command BY FirstCommandTyped
    <3> QED BY <2>1, <3>1 DEF StartScheduled
  <2>2. CASE Seize(t) \/ ReadPending(t) \/ GiveControl(t)
    BY <2>2 DEF Seize, ReadPending, GiveControl
  <2> QED BY <1>4, <2>1, <2>2 DEF ExecutionStep
<1>5. CASE UNCHANGED vars BY <1>5 DEF vars
<1> QED BY <1>1, <1>2, <1>3, <1>4, <1>5 DEF Next

\* Every step leaves the state of the module typed.
LEMMA TypeModuleStep == TypeModule /\ [Next]_vars => TypeModule'
<1> SUFFICES ASSUME TypeModule, [Next]_vars PROVE TypeModule'
    OBVIOUS
<1> USE DEF TypeModule, control, module
<1>1. CASE CommandEnds
  <2> USE DEF Executed, Continue
  <2>1. CASE TurnedOn \/ TurnedOff BY <2>1 DEF TurnedOn, TurnedOff
  <2>3. ASSUME NEW res \in Result,
               DtmfEnabled(res) \/ SignalChecked(res) \/ SmsDeleted(res) \/ SmsSent(res)
        PROVE TypeModule'
    BY <2>3 DEF DtmfEnabled, SignalChecked, SmsDeleted, SmsSent
  <2>4. ASSUME NEW res \in Result, EndDone(res) \/ AcceptDone(res) \/ RejectDone(res) \/ CallStarted(res)
        PROVE TypeModule'
    BY <2>4 DEF EndDone, AcceptDone, RejectDone, CallStarted
  <2>5. ASSUME NEW res \in Result, NEW ready \in BOOLEAN, SimChecked(res, ready) PROVE TypeModule'
    BY <2>5 DEF SimChecked
  <2>6. ASSUME NEW res \in Result, NEW reg \in {"DONE", "ONGOING", "FAILED"}, RegChecked(res, reg)
        PROVE TypeModule'
    BY <2>6 DEF RegChecked
  <2>7. ASSUME NEW res \in {"OK", "NO_RESPONSE"}, DialingKnown(res) \/ CallEnded(res)
        PROVE TypeModule'
    BY <2>7 DEF DialingKnown, CallEnded
  <2> QED BY <1>1, <2>1, <2>3, <2>4, <2>5, <2>6, <2>7 DEF CommandEnds
<1>2. CASE OnHwMalfunction \/ OnSmsReceived \/ ModuleStatusTimeout \/ ConnectionRecoveryTimeout
  BY <1>2 DEF OnHwMalfunction, OnSmsReceived, ModuleStatusTimeout, ConnectionRecoveryTimeout, Schedule
<1>3. ASSUME NEW t \in Tasks, ClientStep(t) PROVE TypeModule'
  BY <1>3 DEF ClientStep, GetCtrl, TakeCtrl, Invoke, CallRefused, TakeResult
<1>4. ASSUME NEW t \in Tasks, ExecutionStep(t) PROVE TypeModule'
  BY <1>4 DEF ExecutionStep, Seize, ReadPending, StartScheduled, GiveControl
<1>5. CASE UNCHANGED vars BY <1>5 DEF vars
<1> QED BY <1>1, <1>2, <1>3, <1>4, <1>5 DEF Next

\* A step counts at most one incident, within the bound.
LEMMA IncidentsStep ==
    incidents \in 0 .. MaxIncidents /\ [Next]_vars => incidents' \in 0 .. MaxIncidents
<1> SUFFICES ASSUME incidents \in 0 .. MaxIncidents, [Next]_vars
             PROVE  \/ incidents' = incidents
                    \/ incidents < MaxIncidents /\ incidents' = incidents + 1
    BY MaxIncidentsAssumption
<1>1. ASSUME NEW cmd, NEW res, Completes(cmd, res)
      PROVE  \/ incidents' = incidents
             \/ incidents < MaxIncidents /\ incidents' = incidents + 1
  BY <1>1 DEF Completes
<1>2. CASE CommandEnds
  BY <1>1, <1>2 DEF CommandEnds, TurnedOn, TurnedOff, DtmfEnabled, SignalChecked, SmsDeleted, SmsSent,
     EndDone, AcceptDone, RejectDone, CallStarted, SimChecked, RegChecked, DialingKnown, CallEnded
<1>3. CASE OnHwMalfunction \/ OnSmsReceived \/ ModuleStatusTimeout \/ ConnectionRecoveryTimeout
  BY <1>3 DEF OnHwMalfunction, OnSmsReceived, ModuleStatusTimeout, ConnectionRecoveryTimeout
<1>4. ASSUME NEW t \in Tasks, ClientStep(t) \/ ExecutionStep(t) PROVE incidents' = incidents
  BY <1>4 DEF ClientStep, GetCtrl, TakeCtrl, Invoke, CallRefused, TakeResult,
     ExecutionStep, Seize, ReadPending, StartScheduled, GiveControl
<1>5. CASE UNCHANGED vars BY <1>5 DEF vars
<1> QED BY <1>2, <1>3, <1>4, <1>5 DEF Next

\* Type correctness of the control of the module.
THEOREM TypeCorrect == Spec => []TypeOK
<1>1. TypeOK /\ [Next]_vars => TypeOK'
  BY TypeControlStep, TypeModuleStep, IncidentsStep DEF TypeOK
<1> QED BY <1>1, TypeInit, PTL DEF Spec
-----------------------------------------------------------------------------
(***************************************************************************)
(* The inductive invariant                                                 *)
(***************************************************************************)

\* Tasks that lead to "turn on" if executed() sees them.
PowerTask == {"REBOOT", "TURN_ON"}

\* While the module is off its powering is in progress or is what executed() is
\* about to start, and a task that turns it off has scheduled the turning on.
\* Nobody schedules TURN_OFF itself.
PowerInv ==
    /\ "TURN_OFF" \notin pending /\ \A t \in Tasks : "TURN_OFF" \notin seen[t]
    /\ command = "turn_off" => "TURN_ON" \in pending
    /\ ~powered => \/ command \in {"turn_on", "turn_off"}
                   \/ \E t \in Tasks : pc[t] = "read" /\ pending \cap PowerTask # {}
                   \/ \E t \in Tasks : pc[t] = "dispatch" /\ seen[t] \cap PowerTask # {}

\* The tasks that obtain the controls want a method of theirs, one that has a
\* result if they wait for it, and a command that will produce a result has its
\* waiting task and an empty queue.
ResultInv ==
    /\ \A t \in Tasks : pc[t] \in {"get_ctrl", "invoke", "result"} => op[t] \in OpsOf(t)
    /\ \A t \in Tasks : pc[t] = "result" => op[t] # "end_call"
    /\ \A m \in Op \ {"end_call"} : command \in CommandsOf(m) =>
          result = Idle /\ \E t \in Tasks : pc[t] = "result" /\ op[t] = m

-----------------------------------------------------------------------------
(***************************************************************************)
(* Exclusive control                                                       *)
(***************************************************************************)

\* An end of a command either starts the next one or leads to executed().
EndsOrContinues ==
    /\ command \in Command
    /\ pc[Driver] = "idle"
    /\ \/ command' \in Command \ {"turn_off"} /\ UNCHANGED control
       \/ command' = Idle /\ Goto(Driver, "read") /\ UNCHANGED <<op, seen, mutexFree>>

LEMMA EndsShape == CommandEnds => EndsOrContinues
<1> SUFFICES ASSUME CommandEnds PROVE EndsOrContinues
    OBVIOUS
<1> USE DEF EndsOrContinues, Completes, Executed, Continue, At, Command
<1>1. CASE TurnedOn \/ TurnedOff BY <1>1 DEF TurnedOn, TurnedOff
<1>2. ASSUME NEW res \in Result,
             DtmfEnabled(res) \/ SignalChecked(res) \/ SmsDeleted(res) \/ SmsSent(res)
      PROVE  EndsOrContinues
  BY <1>2 DEF DtmfEnabled, SignalChecked, SmsDeleted, SmsSent
<1>3. ASSUME NEW res \in Result, EndDone(res) \/ AcceptDone(res) \/ RejectDone(res) \/ CallStarted(res)
      PROVE  EndsOrContinues
  BY <1>3 DEF EndDone, AcceptDone, RejectDone, CallStarted
<1>4. ASSUME NEW res \in Result, NEW ready \in BOOLEAN, SimChecked(res, ready) PROVE EndsOrContinues
  BY <1>4 DEF SimChecked
<1>5. ASSUME NEW res \in Result, NEW reg \in {"DONE", "ONGOING", "FAILED"}, RegChecked(res, reg)
      PROVE  EndsOrContinues
  BY <1>5 DEF RegChecked
<1>6. ASSUME NEW res \in {"OK", "NO_RESPONSE"}, DialingKnown(res) \/ CallEnded(res)
      PROVE  EndsOrContinues
  BY <1>6 DEF DialingKnown, CallEnded
<1> QED BY <1>1, <1>2, <1>3, <1>4, <1>5, <1>6 DEF CommandEnds

\* Control has one owner after every step.
LEMMA ExclusiveStep ==
    TypeControl /\ ExclusiveControl /\ [Next]_vars => ExclusiveControl'
<1> SUFFICES ASSUME TypeControl, ExclusiveControl, [Next]_vars PROVE ExclusiveControl'
    OBVIOUS
<1> USE SystemTasks DEF ExclusiveControl, HasControl, Goto, control, TypeControl
<1>0. Idle \notin Command
  BY DEF Idle, Command
<1>1. CASE CommandEnds
  <2>1. \A t \in Tasks : ~HasControl(t)
    BY <1>1, <1>0, EndsShape DEF EndsOrContinues
  <2> QED BY <1>0, <1>1, <2>1, EndsShape DEF EndsOrContinues
<1>2. CASE OnHwMalfunction \/ OnSmsReceived \/ ModuleStatusTimeout \/ ConnectionRecoveryTimeout
  BY <1>2 DEF OnHwMalfunction, OnSmsReceived, ModuleStatusTimeout, ConnectionRecoveryTimeout, Schedule, At
<1>3. ASSUME NEW t \in Tasks, ClientStep(t) PROVE ExclusiveControl'
  <2> USE DEF At
  <2>1. CASE GetCtrl(t) BY <2>1 DEF GetCtrl
  <2>2. CASE TakeCtrl(t) BY <2>2 DEF TakeCtrl
  <2>3. CASE Invoke(t)
    <3>1. op[t] \in Command BY OpIsCommand
    <3>2. command' # Idle /\ \A u \in Tasks : ~HasControl(u)'
      BY <1>0, <2>3, <3>1 DEF Invoke
    <3>3. mutexFree' = FALSE BY <2>3 DEF Invoke
    <3> QED BY <3>2, <3>3
  <2>4. CASE CallRefused(t) BY <2>4 DEF CallRefused
  <2>5. CASE TakeResult(t) BY <2>5 DEF TakeResult
  <2> QED BY <1>3, <2>1, <2>2, <2>3, <2>4, <2>5 DEF ClientStep
<1>4. ASSUME NEW t \in Tasks, ExecutionStep(t) PROVE ExclusiveControl'
  <2> USE DEF At
  <2>1. CASE Seize(t) BY <2>1 DEF Seize
  <2>2. CASE ReadPending(t) BY <2>2 DEF ReadPending
  <2>3. CASE StartScheduled(t)
    <3>1. command' # Idle /\ \A u \in Tasks : ~HasControl(u)'
      BY <1>0, <2>3, FirstCommandTyped DEF StartScheduled
    <3>2. mutexFree' = FALSE BY <2>3 DEF StartScheduled
    <3> QED BY <3>1, <3>2
  <2>4. CASE GiveControl(t) BY <2>4 DEF GiveControl
  <2> QED BY <1>4, <2>1, <2>2, <2>3, <2>4 DEF ExecutionStep
<1>5. CASE UNCHANGED vars BY <1>5 DEF vars
<1> QED BY <1>1, <1>2, <1>3, <1>4, <1>5 DEF Next

\* The controls have exactly one owner at any time.
THEOREM ExclusiveControlHolds == Spec => []ExclusiveControl
<1>1. Init => TypeControl /\ ExclusiveControl
  BY TypeInit DEF Init, TypeOK, ExclusiveControl, HasControl, Idle
<1>2. TypeControl /\ ExclusiveControl /\ [Next]_vars => (TypeControl /\ ExclusiveControl)'
  BY TypeControlStep, ExclusiveStep
<1> QED BY <1>1, <1>2, PTL DEF Spec

-----------------------------------------------------------------------------
(***************************************************************************)
(* Only powering while the module is off                                   *)
(***************************************************************************)

\* What the end of a command does to the power of the module.
EndsPower ==
    /\ "TURN_OFF" \notin pending => "TURN_OFF" \notin pending'
    /\ command \notin {"turn_on", "turn_off"} => powered' = powered
    /\ command = "turn_on" => \/ powered'
                              \/ Goto(Driver, "read") /\ "REBOOT" \in pending'
    /\ command = "turn_off" => Goto(Driver, "read")
          /\ pending \ {"CHECK_MODULE_STATE", "TURN_OFF"} \subseteq pending'

LEMMA EndsPowerHolds == CommandEnds => EndsPower
<1> SUFFICES ASSUME CommandEnds PROVE EndsPower
    OBVIOUS
<1> USE DEF EndsPower, Completes, Executed, Continue, control, module
<1>1. CASE TurnedOn BY <1>1 DEF TurnedOn
<1>2. CASE TurnedOff BY <1>2 DEF TurnedOff
<1>3. ASSUME NEW res \in Result,
             DtmfEnabled(res) \/ SignalChecked(res) \/ SmsDeleted(res) \/ SmsSent(res)
      PROVE  EndsPower
  BY <1>3 DEF DtmfEnabled, SignalChecked, SmsDeleted, SmsSent
<1>4. ASSUME NEW res \in Result, EndDone(res) \/ AcceptDone(res) \/ RejectDone(res) \/ CallStarted(res)
      PROVE  EndsPower
  BY <1>4 DEF EndDone, AcceptDone, RejectDone, CallStarted
<1>5. ASSUME NEW res \in Result, NEW ready \in BOOLEAN, SimChecked(res, ready) PROVE EndsPower
  BY <1>5 DEF SimChecked
<1>6. ASSUME NEW res \in Result, NEW reg \in {"DONE", "ONGOING", "FAILED"}, RegChecked(res, reg)
      PROVE  EndsPower
  BY <1>6 DEF RegChecked
<1>7. ASSUME NEW res \in {"OK", "NO_RESPONSE"}, DialingKnown(res) \/ CallEnded(res)
      PROVE  EndsPower
  BY <1>7 DEF DialingKnown, CallEnded
<1> QED BY <1>1, <1>2, <1>3, <1>4, <1>5, <1>6, <1>7 DEF CommandEnds

\* PowerInv is preserved by every step, given that control is exclusive.
LEMMA PowerStep ==
    TypeControl /\ ExclusiveControl /\ PowerInv /\ [Next]_vars => PowerInv'
<1> SUFFICES ASSUME TypeControl, ExclusiveControl, PowerInv, [Next]_vars PROVE PowerInv'
    OBVIOUS
<1> USE SystemTasks DEF PowerInv, PowerTask, Goto, control, module, TypeControl
<1>1. CASE CommandEnds
  <2>1. EndsPower /\ EndsOrContinues BY <1>1, EndsPowerHolds, EndsShape
  <2>2. command # Idle BY <2>1 DEF EndsOrContinues, Idle, Command
  <2>3. \A t \in Tasks : ~HasControl(t) BY <2>2 DEF ExclusiveControl
  <2>4. ~powered => command \in {"turn_on", "turn_off"} BY <2>3 DEF HasControl
  <2>5. ("TURN_OFF" \notin pending /\ \A t \in Tasks : "TURN_OFF" \notin seen[t])'
    BY <2>1 DEF EndsPower, EndsOrContinues
  <2>6. command' # "turn_off" BY <2>1 DEF EndsOrContinues, Idle
  <2>7. ~powered' => \E t \in Tasks : pc'[t] = "read" /\ pending' \cap PowerTask # {}
    <3>1. CASE command \notin {"turn_on", "turn_off"} BY <2>1, <2>4, <3>1 DEF EndsPower
    <3>2. CASE command = "turn_on" BY <2>1, <3>2 DEF EndsPower
    <3>3. CASE command = "turn_off" BY <2>1, <3>3 DEF EndsPower
    <3> QED BY <3>1, <3>2, <3>3
  <2> QED BY <2>5, <2>6, <2>7
<1>2. CASE OnHwMalfunction \/ OnSmsReceived \/ ModuleStatusTimeout \/ ConnectionRecoveryTimeout
  BY <1>2 DEF OnHwMalfunction, OnSmsReceived, ModuleStatusTimeout, ConnectionRecoveryTimeout, Schedule, At
<1>3. ASSUME NEW t \in Tasks, ClientStep(t) PROVE PowerInv'
  <2> USE DEF At
  <2>1. CASE GetCtrl(t) BY <2>1 DEF GetCtrl
  <2>2. CASE TakeCtrl(t) BY <2>2 DEF TakeCtrl
  <2>3. CASE Invoke(t)
    <3>1. powered BY <2>3 DEF Invoke, ExclusiveControl, HasControl, Idle
    <3>2. op[t] # "turn_off" BY DEF Op
    <3> QED BY <2>3, <3>1, <3>2 DEF Invoke
  <2>4. CASE CallRefused(t)
    <3>1. powered BY <2>4 DEF CallRefused, ExclusiveControl, HasControl, Idle
    <3> QED BY <2>4, <3>1 DEF CallRefused
  <2>5. CASE TakeResult(t) BY <2>5 DEF TakeResult
  <2> QED BY <1>3, <2>1, <2>2, <2>3, <2>4, <2>5 DEF ClientStep
<1>4. ASSUME NEW t \in Tasks, ExecutionStep(t) PROVE PowerInv'
  <2> USE DEF At
  <2>1. CASE Seize(t) BY <2>1 DEF Seize
  <2>2. CASE ReadPending(t) BY <2>2 DEF ReadPending
  <2>3. CASE StartScheduled(t)
    <3>1. command = Idle /\ \A u \in Tasks : pc[u] \in {"read", "dispatch", "invoke"} => u = t
      BY <2>3 DEF StartScheduled, ExclusiveControl, HasControl
    <3>2. ~powered => seen[t] \cap PowerTask # {}
      BY <2>3, <3>1 DEF StartScheduled, Idle
    <3>3. ~powered' => command' \in {"turn_on", "turn_off"}
      BY <2>3, <3>2 DEF StartScheduled, FirstCommand
    <3>4. command' = "turn_off" => "REBOOT" \in seen[t]
      BY <2>3 DEF StartScheduled, FirstCommand
    <3> QED BY <2>3, <3>3, <3>4 DEF StartScheduled
  <2>4. CASE GiveControl(t)
    <3>1. powered BY <2>4 DEF GiveControl, ExclusiveControl, HasControl, Idle
    <3> QED BY <2>4, <3>1 DEF GiveControl
  <2> QED BY <1>4, <2>1, <2>2, <2>3, <2>4 DEF ExecutionStep
<1>5. CASE UNCHANGED vars BY <1>5 DEF vars
<1> QED BY <1>1, <1>2, <1>3, <1>4, <1>5 DEF Next

\* Nobody obtains the controls of a module that is off.
THEOREM OnlyPowerWhileOffHolds == Spec => []OnlyPowerWhileOff
<1> DEFINE Inv == TypeControl /\ ExclusiveControl /\ PowerInv
<1>1. Init => Inv
  <2>1. Init => TypeControl BY TypeInit DEF TypeOK
  <2>2. Init => ExclusiveControl BY DEF Init, ExclusiveControl, HasControl, Idle
  <2>3. Init => PowerInv BY DEF Init, PowerInv
  <2> QED BY <2>1, <2>2, <2>3
<1>2. Inv /\ [Next]_vars => Inv'
  BY TypeControlStep, ExclusiveStep, PowerStep
<1>3. Inv => OnlyPowerWhileOff
  BY DEF ExclusiveControl, HasControl, PowerInv, OnlyPowerWhileOff, PowerCommand, Idle
<1> QED BY <1>1, <1>2, <1>3, PTL DEF Spec

-----------------------------------------------------------------------------
(***************************************************************************)
(* Results                                                                 *)
(***************************************************************************)

ResultOp == Op \ {"end_call"}

\* No command serves two methods, and Idle serves none.
LEMMA CommandsDisjoint ==
    ASSUME NEW m \in ResultOp, NEW n \in ResultOp, NEW c \in CommandsOf(m), c \in CommandsOf(n)
    PROVE  m = n /\ c # Idle
BY DEF ResultOp, Op, CommandsOf, Idle

\* The end of a command of a method continues with a command of the same method or
\* sends its result; the end of another command does neither.
EndsResult ==
    /\ \A m \in ResultOp : command \in CommandsOf(m) =>
          \/ command' \in CommandsOf(m) /\ result' = result
          \/ command' = Idle /\ FutureResult(m)
    /\ (\A m \in ResultOp : command \notin CommandsOf(m)) =>
          result' = result /\ \A m \in ResultOp : command' \notin CommandsOf(m)

LEMMA EndsResultHolds == CommandEnds => EndsResult
<1> SUFFICES ASSUME CommandEnds PROVE EndsResult
    OBVIOUS
<1> USE DEF EndsResult, Completes, Executed, Continue, ResultOp, Op, CommandsOf, Idle
<1>1. CASE TurnedOn \/ TurnedOff BY <1>1 DEF TurnedOn, TurnedOff
<1>2. ASSUME NEW res \in Result, DtmfEnabled(res) \/ SignalChecked(res) \/ SmsDeleted(res)
      PROVE  EndsResult
  BY <1>2 DEF DtmfEnabled, SignalChecked, SmsDeleted
<1>3. ASSUME NEW res \in Result, SmsSent(res) \/ EndDone(res) PROVE EndsResult
  BY <1>3 DEF SmsSent, EndDone
<1>4. ASSUME NEW res \in Result, AcceptDone(res) \/ RejectDone(res) PROVE EndsResult
  BY <1>4 DEF AcceptDone, RejectDone
<1>5. ASSUME NEW res \in Result, CallStarted(res) PROVE EndsResult
  BY <1>5 DEF CallStarted
<1>6. ASSUME NEW res \in Result, NEW ready \in BOOLEAN, SimChecked(res, ready) PROVE EndsResult
  BY <1>6 DEF SimChecked
<1>7. ASSUME NEW res \in Result, NEW reg \in {"DONE", "ONGOING", "FAILED"}, RegChecked(res, reg)
      PROVE  EndsResult
  BY <1>7 DEF RegChecked
<1>8. ASSUME NEW res \in {"OK", "NO_RESPONSE"}, DialingKnown(res) \/ CallEnded(res)
      PROVE  EndsResult
  BY <1>8 DEF DialingKnown, CallEnded
<1> QED BY <1>1, <1>2, <1>3, <1>4, <1>5, <1>6, <1>7, <1>8 DEF CommandEnds

\* Only one task asks for methods that return a result.
LEMMA OneWaiter ==
    ASSUME NEW t \in Tasks, NEW u \in Tasks, NEW m \in ResultOp, NEW n \in ResultOp,
           m \in OpsOf(t), n \in OpsOf(u)
    PROVE  t = u
<1>1. t \in Clients /\ u \in Clients /\ m \in Ops[t] /\ n \in Ops[u]
  BY DEF OpsOf, ResultOp
<1>2. Ops[t] \ {"end_call"} # {} /\ Ops[u] \ {"end_call"} # {}
  BY <1>1 DEF ResultOp
<1> QED BY <1>1, <1>2, OneResultClient

ResultsInv == ResultInv /\ ResultFollowsCommand

\* The invariant of the results is preserved by every step.
LEMMA ResultStep ==
    TypeControl /\ ExclusiveControl /\ ResultsInv /\ [Next]_vars => ResultsInv'
<1> SUFFICES ASSUME TypeControl, ExclusiveControl, ResultsInv, [Next]_vars PROVE ResultsInv'
    OBVIOUS
<1> USE SystemTasks DEF Goto, control, module, TypeControl
<1> DEFINE Waiting(t) == pc[t] = "result"
<1>a. \A t \in Tasks : Waiting(t) => op[t] \in ResultOp /\ op[t] \in OpsOf(t)
  BY DEF ResultsInv, ResultInv, ResultOp
<1>b. \A t, u \in Tasks : Waiting(t) /\ Waiting(u) => t = u
  BY <1>a, OneWaiter
<1>c. \A t \in Tasks : HasControl(t) => command = Idle
  BY DEF ExclusiveControl
<1>d. \A m \in ResultOp : Idle \notin CommandsOf(m)
  BY DEF ResultOp, Op, CommandsOf, Idle
<1>1. CASE CommandEnds
  <2>1. EndsResult /\ EndsOrContinues
    BY <1>1, EndsResultHolds, EndsShape
  <2>2. op' = op /\ pc[Driver] = "idle" /\ (pc' = pc \/ pc' = [pc EXCEPT ![Driver] = "read"])
    BY <2>1 DEF EndsOrContinues
  <2>3. \A t \in Tasks : Waiting(t) <=> pc'[t] = "result"
    BY <2>2
  <2>4. CASE \E m \in ResultOp : command \in CommandsOf(m)
    <3>1. PICK m \in ResultOp : command \in CommandsOf(m) BY <2>4
    <3>2. result = Idle /\ \E t \in Tasks : Waiting(t) /\ op[t] = m
      BY <3>1 DEF ResultsInv, ResultInv, ResultOp
    <3>3. \/ command' \in CommandsOf(m) /\ result' = Idle
          \/ command' = Idle /\ result' = m
      BY <2>1, <3>1, <3>2 DEF EndsResult, FutureResult
    <3>4. \A t \in Tasks : Waiting(t) => op[t] = m
      BY <1>b, <3>2
    <3>5. m # Idle BY DEF ResultOp, Op, Idle
    <3>6. \A n \in ResultOp : command' \in CommandsOf(n) => n = m /\ result' = Idle
      BY <1>d, <3>3, CommandsDisjoint
    <3>7. ResultFollowsCommand'
      BY <2>2, <2>3, <3>2, <3>3, <3>4, <3>5 DEF ResultFollowsCommand
    <3>8. ResultInv'
      BY <2>2, <2>3, <3>2, <3>6 DEF ResultsInv, ResultInv, ResultOp
    <3> QED BY <3>7, <3>8 DEF ResultsInv
  <2>5. CASE \A m \in ResultOp : command \notin CommandsOf(m)
    <3>1. result' = result /\ \A m \in ResultOp : command' \notin CommandsOf(m)
      BY <2>1, <2>5 DEF EndsResult
    <3>2. \A t \in Tasks : Waiting(t) => result # Idle /\ result = op[t]
      BY <1>a, <2>5 DEF ResultsInv, ResultFollowsCommand
    <3>3. ResultFollowsCommand'
      BY <2>2, <2>3, <3>1, <3>2 DEF ResultsInv, ResultFollowsCommand
    <3>4. ResultInv'
      BY <2>2, <2>3, <3>1 DEF ResultsInv, ResultInv, ResultOp
    <3> QED BY <3>3, <3>4 DEF ResultsInv
  <2> QED BY <2>4, <2>5
<1>2. CASE OnHwMalfunction \/ OnSmsReceived \/ ModuleStatusTimeout \/ ConnectionRecoveryTimeout
  BY <1>2 DEF OnHwMalfunction, OnSmsReceived, ModuleStatusTimeout, ConnectionRecoveryTimeout, Schedule, At,
     ResultsInv, ResultInv, ResultFollowsCommand
<1>3. ASSUME NEW t \in Tasks, ClientStep(t) PROVE ResultsInv'
  <2> USE DEF At
  <2>1. CASE GetCtrl(t) BY <2>1 DEF GetCtrl, ResultsInv, ResultInv, ResultFollowsCommand
  <2>2. CASE TakeCtrl(t) BY <2>2 DEF TakeCtrl, ResultsInv, ResultInv, ResultFollowsCommand
  <2>3. CASE Invoke(t)
    <3>1. pc[t] = "invoke" /\ command = Idle /\ op[t] \in OpsOf(t) /\ op[t] \in Op
      BY <1>c, <2>3 DEF Invoke, HasControl, ResultsInv, ResultInv
    <3>2. command' = op[t] /\ op' = op /\ result' = result BY <2>3 DEF Invoke
    <3>3. \A u \in Tasks : Waiting(u) => result # Idle /\ result = op[u]
      BY <1>a, <1>d, <3>1 DEF ResultsInv, ResultFollowsCommand
    <3>4. CASE op[t] = "end_call"
      <4>1. pc' = [pc EXCEPT ![t] = "idle"] BY <2>3, <3>4 DEF Invoke
      <4>2. \A m \in ResultOp : command' \notin CommandsOf(m)
        BY <3>2, <3>4 DEF ResultOp, Op, CommandsOf
      <4>3. \A u \in Tasks : Waiting(u) <=> pc'[u] = "result" BY <3>1, <4>1
      <4>4. ResultFollowsCommand'
        BY <3>2, <3>3, <4>3 DEF ResultsInv, ResultFollowsCommand
      <4>5. ResultInv'
        BY <3>2, <4>1, <4>2 DEF ResultsInv, ResultInv, ResultOp
      <4> QED BY <4>4, <4>5 DEF ResultsInv
    <3>5. CASE op[t] # "end_call"
      <4>1. pc' = [pc EXCEPT ![t] = "result"] BY <2>3, <3>5 DEF Invoke
      <4>2. op[t] \in ResultOp /\ op[t] \in CommandsOf(op[t])
        BY <3>1, <3>5 DEF ResultOp, Op, CommandsOf
      <4>3. \A u \in Tasks : ~Waiting(u) BY <1>a, <3>1, <4>2, OneWaiter
      <4>4. result = Idle BY <4>3 DEF ResultsInv, ResultFollowsCommand
      <4>5. \A u \in Tasks : pc'[u] = "result" => u = t BY <4>1, <4>3
      <4>6. ResultFollowsCommand' BY <3>2, <4>2, <4>4, <4>5 DEF ResultFollowsCommand
      <4>7. \A m \in ResultOp : command' \in CommandsOf(m) => m = op[t]
        BY <3>2, <4>2, CommandsDisjoint
      <4>8. pc'[t] = "result" BY <4>1
      <4>9. ResultInv'
        BY <3>1, <3>2, <3>5, <4>1, <4>4, <4>7, <4>8 DEF ResultsInv, ResultInv, ResultOp
      <4> QED BY <4>6, <4>9 DEF ResultsInv
    <3> QED BY <3>4, <3>5
  <2>4. CASE CallRefused(t) BY <2>4 DEF CallRefused, ResultsInv, ResultInv, ResultFollowsCommand
  <2>5. CASE TakeResult(t)
    <3>1. /\ Waiting(t) /\ result # Idle /\ result' = Idle /\ pc' = [pc EXCEPT ![t] = "idle"]
          /\ op' = op /\ command' = command
      BY <2>5 DEF TakeResult
    <3>2. \A u \in Tasks : pc'[u] # "result" BY <1>b, <3>1
    <3>3. \A m \in ResultOp : command \notin CommandsOf(m)
      BY <3>1 DEF ResultsInv, ResultInv, ResultOp
    <3>4. ResultFollowsCommand' BY <3>1, <3>2 DEF ResultFollowsCommand
    <3>5. ResultInv' BY <3>1, <3>2, <3>3 DEF ResultsInv, ResultInv, ResultOp
    <3> QED BY <3>4, <3>5 DEF ResultsInv
  <2> QED BY <1>3, <2>1, <2>2, <2>3, <2>4, <2>5 DEF ClientStep
<1>4. ASSUME NEW t \in Tasks, ExecutionStep(t) PROVE ResultsInv'
  <2> USE DEF At
  <2>1. CASE Seize(t) BY <2>1 DEF Seize, ResultsInv, ResultInv, ResultFollowsCommand
  <2>2. CASE ReadPending(t) BY <2>2 DEF ReadPending, ResultsInv, ResultInv, ResultFollowsCommand
  <2>3. CASE StartScheduled(t)
    <3>1. \A m \in ResultOp : command \notin CommandsOf(m) /\ command' \notin CommandsOf(m)
      BY <1>c, <1>d, <2>3 DEF StartScheduled, HasControl, FirstCommand, ResultOp, Op, CommandsOf
    <3>2. \A u \in Tasks : Waiting(u) => result # Idle /\ result = op[u]
      BY <1>a, <3>1 DEF ResultsInv, ResultFollowsCommand
    <3>3. /\ op' = op /\ result' = result /\ pc' = [pc EXCEPT ![t] = "idle"] /\ pc[t] = "dispatch"
      BY <2>3 DEF StartScheduled
    <3>4. \A u \in Tasks : Waiting(u) <=> pc'[u] = "result" BY <3>3
    <3>5. ResultFollowsCommand' BY <3>2, <3>3, <3>4 DEF ResultsInv, ResultFollowsCommand
    <3>6. ResultInv' BY <3>1, <3>3, <3>4 DEF ResultsInv, ResultInv, ResultOp
    <3> QED BY <3>5, <3>6 DEF ResultsInv
  <2>4. CASE GiveControl(t) BY <2>4 DEF GiveControl, ResultsInv, ResultInv, ResultFollowsCommand
  <2> QED BY <1>4, <2>1, <2>2, <2>3, <2>4 DEF ExecutionStep
<1>5. CASE UNCHANGED vars
  BY <1>5 DEF vars, ResultsInv, ResultInv, ResultFollowsCommand
<1> QED BY <1>1, <1>2, <1>3, <1>4, <1>5 DEF Next

\* A method returns its own result, and waits only while its command is in progress.
THEOREM ResultFollowsCommandHolds == Spec => []ResultFollowsCommand
<1> DEFINE Inv == TypeControl /\ ExclusiveControl /\ ResultsInv
<1>1. Init => Inv
  <2>1. Init => TypeControl BY TypeInit DEF TypeOK
  <2>2. Init => ExclusiveControl BY DEF Init, ExclusiveControl, HasControl, Idle
  <2>3. Init => ResultsInv
    BY DEF Init, ResultsInv, ResultInv, ResultFollowsCommand, CommandsOf, Op
  <2> QED BY <2>1, <2>2, <2>3
<1>2. Inv /\ [Next]_vars => Inv'
  BY TypeControlStep, ExclusiveStep, ResultStep
<1>3. Inv => ResultFollowsCommand BY DEF ResultsInv
<1> QED BY <1>1, <1>2, <1>3, PTL DEF Spec

(***************************************************************************)
(* A channel of a timer.  The handler reads DIER and then SR: no request   *)
(* comes between the two (Coincidences = {}), at any other moment it may.  *)
(***************************************************************************)

\* What the handler has read, or will still read, agrees with the timer; what is left to
\* it is not forgotten.
ChannelServingInv ==
    /\ updateState => interruptEnabled /\ flag /\ newState.callback # "earlier"
    /\ handler = "status" => (dier <=> interruptEnabled)
    /\ handler \in {"invoke", "handle"} => interruptEnabled /\ flag

\* An earlier callback is about to be replaced, unless its interrupt is disabled.
ChannelStaleInv ==
    /\ stale \in {0, 1}
    /\ state.callback = "earlier" => updateState \/ ~interruptEnabled
    /\ stale = 1 => state.callback # "earlier" \/ handler = "handle"

\* What counts once the handler is through
ChannelDue == IF updateState THEN newState ELSE state

\* What is owed was asked for with a start, and has not been invoked yet.
ChannelOwedInv ==
    /\ owed =>
        /\ updateState \/ interruptEnabled \/ (waiting /\ waitDone)
        /\ waiting \/ ChannelDue.callback = "latest"
        /\ updateState => newState.action \in {"START_SINGLE", "START_REPETITIVE", "START_WAIT"}
        /\ handler = "handle" /\ ~updateState => state.callback # "latest"
    /\ waiting => ChannelDue.action = (IF updateState THEN "START_WAIT" ELSE "STOP_WAIT")

ChannelIInv == Channel!TypeOK /\ ChannelServingInv /\ ChannelStaleInv /\ ChannelOwedInv

\* What is typed, one by one
LEMMA ChannelTyped ==
    Channel!TypeOK <=>
        /\ interruptEnabled \in BOOLEAN /\ flag \in BOOLEAN /\ updateState \in BOOLEAN
              /\ waitDone \in BOOLEAN
        /\ waiting \in BOOLEAN /\ dier \in BOOLEAN /\ owed \in BOOLEAN
        /\ state \in Channel!State /\ newState \in Channel!State
        /\ handler \in {"idle", "status", "invoke", "handle"} /\ stale \in Nat
BY Zenon DEF Channel!TypeOK

\* The same after a step
LEMMA ChannelTypedNext ==
    ASSUME interruptEnabled' \in BOOLEAN, flag' \in BOOLEAN, updateState' \in BOOLEAN,
        waitDone' \in BOOLEAN,
           waiting' \in BOOLEAN, dier' \in BOOLEAN, owed' \in BOOLEAN,
           state' \in Channel!State, newState' \in Channel!State,
           handler' \in {"idle", "status", "invoke", "handle"}, stale' \in Nat
    PROVE Channel!TypeOK'
BY Zenon DEF Channel!TypeOK

\* An earlier callback is of the same type, and its action is the same.
LEMMA ChannelEarlierState ==
    ASSUME NEW s \in Channel!State
    PROVE /\ Channel!Earlier(s) \in Channel!State /\ Channel!Earlier(s).action = s.action
          /\ Channel!Earlier(s).callback # "latest"
          /\ Channel!Earlier(s).callback = "nullptr" <=> s.callback = "nullptr"
BY DEF Channel!Earlier, Channel!State, Channel!Callback

\* It holds at the start.
LEMMA ChannelInitIInv == Channel!Init => ChannelIInv
<1> SUFFICES ASSUME Channel!Init PROVE ChannelIInv
  OBVIOUS
<1>1. Channel!Idle \in Channel!State /\ Channel!Idle.callback = "nullptr" BY DEF Channel!Idle,
    Channel!State, Channel!Callback, Channel!OnTimeout
<1>2. Channel!TypeOK
  <2>1. /\ interruptEnabled \in BOOLEAN /\ flag \in BOOLEAN /\ updateState \in BOOLEAN
      /\ waitDone \in BOOLEAN
        /\ waiting \in BOOLEAN /\ dier \in BOOLEAN /\ owed \in BOOLEAN
    BY Zenon DEF Channel!Init
  <2>2. state \in Channel!State /\ newState \in Channel!State BY <1>1 DEF Channel!Init
  <2>3. handler \in {"idle", "status", "invoke", "handle"} /\ stale \in Nat BY DEF Channel!Init
  <2> QED BY <2>1, <2>2, <2>3, ChannelTyped
<1>3. ChannelServingInv BY DEF Channel!Init, ChannelServingInv
<1>4. ChannelStaleInv BY <1>1 DEF Channel!Init, ChannelStaleInv
<1>5. ChannelOwedInv BY DEF Channel!Init, ChannelOwedInv
<1> QED BY <1>2, <1>3, <1>4, <1>5 DEF ChannelIInv

\* A request replaces what was asked for.
LEMMA ChannelRequestStep ==
    ASSUME ChannelIInv, NEW callback \in {"latest", "nullptr"},
           NEW start \in {"START_SINGLE", "START_REPETITIVE", "START_WAIT"},
               NEW then \in {"STOP", "REPEAT", "STOP_WAIT"},
           Channel!Request(callback, start, then), waiting' \in BOOLEAN, waitDone' \in BOOLEAN,
           waiting' \/ callback = "latest",
           waiting' => start = "START_WAIT" /\ then = "STOP_WAIT"
    PROVE ChannelIInv'
<1>1. /\ interruptEnabled \in BOOLEAN /\ flag \in BOOLEAN /\ updateState \in BOOLEAN /\ dier \in BOOLEAN
      /\ state \in Channel!State /\ newState \in Channel!State
            /\ handler \in {"idle", "status", "invoke", "handle"}
  BY ChannelTyped DEF ChannelIInv
<1>2. owed' = TRUE /\ stale' = 0 /\ handler' = handler /\ dier' = dier /\ handler # "status"
  BY DEF Channel!Request, Channel!MayRequest, Channel!handlerV
<1>3. callback \in Channel!Callback /\ start \in Channel!OnTimeout /\ then \in Channel!OnTimeout BY
    DEF Channel!Callback, Channel!OnTimeout
<1>4. CASE Channel!IsServingTimeout
  <2>1. /\ newState' = [callback |-> callback, action |-> start] /\ updateState' = TRUE
        /\ state' = Channel!Earlier(state) /\ interruptEnabled' = interruptEnabled /\ flag' = flag
        /\ interruptEnabled /\ flag
    BY <1>4 DEF Channel!Request, Channel!IsServingTimeout
  <2>2. /\ newState' \in Channel!State /\ newState'.callback = callback /\ newState'.action = start
      /\ state' \in Channel!State
        /\ state'.callback # "latest"
    BY <1>1, <1>3, <2>1, ChannelEarlierState DEF Channel!State
  <2>3. Channel!TypeOK' BY <1>1, <1>2, <2>1, <2>2, ChannelTypedNext
  <2>4. ChannelServingInv' BY <1>2, <2>1, <2>2 DEF ChannelServingInv
  <2>5. ChannelStaleInv' BY <1>2, <2>1, <2>2 DEF ChannelStaleInv
  <2>6. ChannelOwedInv' BY <1>2, <2>1, <2>2 DEF ChannelOwedInv, ChannelDue
  <2> QED BY <2>3, <2>4, <2>5, <2>6 DEF ChannelIInv
<1>5. CASE ~Channel!IsServingTimeout
  <2>1. /\ state' = [callback |-> callback, action |-> then] /\ flag' = FALSE /\ interruptEnabled' = TRUE
        /\ newState' = Channel!Earlier(newState) /\ updateState' = updateState
    BY <1>5 DEF Channel!Request
  <2>2. updateState = FALSE /\ handler = "idle"
    BY <1>1, <1>2, <1>5 DEF ChannelIInv, ChannelServingInv, Channel!IsServingTimeout
  <2>3. /\ state' \in Channel!State /\ state'.callback = callback /\ state'.action = then
      /\ newState' \in Channel!State
    BY <1>1, <1>3, <2>1, ChannelEarlierState DEF Channel!State
  <2>4. Channel!TypeOK' BY <1>1, <1>2, <2>1, <2>2, <2>3, ChannelTypedNext
  <2>5. ChannelServingInv' BY <1>2, <2>1, <2>2 DEF ChannelServingInv
  <2>6. ChannelStaleInv' BY <1>2, <2>1, <2>2, <2>3 DEF ChannelStaleInv
  <2>7. ChannelOwedInv' BY <1>2, <2>1, <2>2, <2>3 DEF ChannelOwedInv, ChannelDue
  <2> QED BY <2>4, <2>5, <2>6, <2>7 DEF ChannelIInv
<1> QED BY <1>4, <1>5

\* stop(): nothing is asked for any more.
LEMMA ChannelStopStep == ASSUME ChannelIInv, Channel!Stop PROVE ChannelIInv'
<1>1. /\ interruptEnabled \in BOOLEAN /\ flag \in BOOLEAN /\ updateState \in BOOLEAN /\ dier \in BOOLEAN
      /\ waitDone \in BOOLEAN /\ waiting \in BOOLEAN
      /\ state \in Channel!State /\ newState \in Channel!State
            /\ handler \in {"idle", "status", "invoke", "handle"}
  BY ChannelTyped DEF ChannelIInv
<1>2. /\ owed' = FALSE /\ stale' = 0 /\ handler' = handler /\ dier' = dier /\ handler # "status"
      /\ ~waiting /\ waiting' = waiting /\ waitDone' = waitDone /\ flag' = flag
            /\ state' = Channel!Earlier(state)
  BY DEF Channel!Stop, Channel!MayRequest, Channel!handlerV
<1>3. state' \in Channel!State BY <1>1, <1>2, ChannelEarlierState
<1>4. CASE Channel!IsServingTimeout
  <2>1. /\ newState' = [callback |-> "nullptr", action |-> "STOP"] /\ updateState' = TRUE
        /\ interruptEnabled' = interruptEnabled /\ interruptEnabled /\ flag
    BY <1>4 DEF Channel!Stop, Channel!IsServingTimeout
  <2>2. newState' \in Channel!State /\ newState'.callback = "nullptr" BY <2>1 DEF Channel!State,
      Channel!Callback, Channel!OnTimeout
  <2>3. Channel!TypeOK' BY <1>1, <1>2, <1>3, <2>1, <2>2, ChannelTypedNext
  <2> QED BY <1>2, <2>1, <2>2, <2>3 DEF ChannelIInv, ChannelServingInv, ChannelStaleInv, ChannelOwedInv
<1>5. CASE ~Channel!IsServingTimeout
  <2>1. interruptEnabled' = FALSE /\ newState' = Channel!Earlier(newState) /\ updateState' = updateState
    BY <1>5 DEF Channel!Stop
  <2>2. updateState = FALSE /\ handler = "idle"
    BY <1>1, <1>2, <1>5 DEF ChannelIInv, ChannelServingInv, Channel!IsServingTimeout
  <2>3. newState' \in Channel!State BY <1>1, <2>1, ChannelEarlierState
  <2>4. Channel!TypeOK' BY <1>1, <1>2, <1>3, <2>1, <2>2, <2>3, ChannelTypedNext
  <2> QED BY <1>2, <2>1, <2>2, <2>4 DEF ChannelIInv, ChannelServingInv, ChannelStaleInv, ChannelOwedInv
<1> QED BY <1>4, <1>5

\* The timer counts, the handler reads its registers, a waiting thread goes on.
LEMMA ChannelOthersStep == ASSUME ChannelIInv,
    Channel!Match \/ Channel!WaitEnds \/ Channel!ReadDier \/ Channel!ReadStatus PROVE ChannelIInv'
<1>1. /\ interruptEnabled \in BOOLEAN /\ flag \in BOOLEAN /\ updateState \in BOOLEAN /\ dier \in BOOLEAN
      /\ waitDone \in BOOLEAN /\ waiting \in BOOLEAN /\ owed \in BOOLEAN /\ stale \in Nat
      /\ state \in Channel!State /\ newState \in Channel!State
            /\ handler \in {"idle", "status", "invoke", "handle"}
  BY ChannelTyped DEF ChannelIInv
<1>2. UNCHANGED <<interruptEnabled, state, newState, updateState, waitDone, stale>>
  BY DEF Channel!Match, Channel!WaitEnds, Channel!ReadDier, Channel!ReadStatus, Channel!requestV,
      Channel!handlerV
<1>3. CASE Channel!Match
  <2>1. flag' = TRUE /\ UNCHANGED <<waiting, handler, dier, owed>> BY <1>3 DEF Channel!Match,
      Channel!requestV, Channel!handlerV
  <2>2. Channel!TypeOK' BY <1>1, <1>2, <2>1, ChannelTypedNext
  <2> QED BY <1>2, <2>1, <2>2 DEF ChannelIInv, ChannelServingInv, ChannelStaleInv, ChannelOwedInv,
      ChannelDue
<1>4. CASE Channel!WaitEnds
  <2>1. waiting' = FALSE /\ owed' = FALSE /\ UNCHANGED <<flag, handler, dier>> BY <1>4
      DEF Channel!WaitEnds, Channel!handlerV
  <2>2. Channel!TypeOK' BY <1>1, <1>2, <2>1, ChannelTypedNext
  <2> QED BY <1>2, <2>1, <2>2 DEF ChannelIInv, ChannelServingInv, ChannelStaleInv, ChannelOwedInv,
      ChannelDue
<1>5. CASE Channel!ReadDier
  <2>1. handler = "idle" /\ handler' = "status" /\ dier' = interruptEnabled
      /\ UNCHANGED <<flag, waiting, owed>>
    BY <1>5 DEF Channel!ReadDier, Channel!requestV
  <2>2. Channel!TypeOK' BY <1>1, <1>2, <2>1, ChannelTypedNext
  <2> QED BY <1>2, <2>1, <2>2 DEF ChannelIInv, ChannelServingInv, ChannelStaleInv, ChannelOwedInv,
      ChannelDue
<1>6. CASE Channel!ReadStatus
  <2>1. /\ handler = "status" /\ handler' = (IF dier /\ flag THEN "invoke" ELSE "idle")
        /\ UNCHANGED <<flag, dier, waiting, owed>>
    BY <1>6 DEF Channel!ReadStatus, Channel!requestV
  <2>2. Channel!TypeOK' BY <1>1, <1>2, <2>1, ChannelTypedNext
  <2> QED BY <1>2, <2>1, <2>2 DEF ChannelIInv, ChannelServingInv, ChannelStaleInv, ChannelOwedInv,
      ChannelDue
<1> QED BY <1>3, <1>4, <1>5, <1>6

\* invoke_callback(): what is invoked is owed no more; a callback of before is invoked once,
\* as its replacement waits for the handler.
LEMMA ChannelInvokeStep == ASSUME ChannelIInv, Channel!InvokeCallback PROVE ChannelIInv'
<1>1. /\ interruptEnabled \in BOOLEAN /\ flag \in BOOLEAN /\ updateState \in BOOLEAN /\ dier \in BOOLEAN
      /\ waitDone \in BOOLEAN /\ waiting \in BOOLEAN /\ owed \in BOOLEAN /\ stale \in Nat
      /\ state \in Channel!State /\ newState \in Channel!State
            /\ handler \in {"idle", "status", "invoke", "handle"}
  BY ChannelTyped DEF ChannelIInv
<1>2. /\ handler = "invoke" /\ handler' = "handle"
    /\ stale' = stale + (IF state.callback = "earlier" THEN 1 ELSE 0)
      /\ UNCHANGED <<interruptEnabled, flag, state, newState, updateState, waitDone, waiting, dier>>
  BY DEF Channel!InvokeCallback
<1>3. owed' <=> owed /\ state.callback # "latest" BY DEF Channel!InvokeCallback
<1>4. owed' \in BOOLEAN BY Zenon, <1>1 DEF Channel!InvokeCallback
<1>5. interruptEnabled /\ flag BY <1>2 DEF ChannelIInv, ChannelServingInv
<1>6. Channel!TypeOK' BY <1>1, <1>2, <1>4, ChannelTypedNext
<1>7. ChannelServingInv' BY <1>2, <1>5 DEF ChannelIInv, ChannelServingInv
<1>8. ChannelStaleInv' BY <1>2, <1>5 DEF ChannelIInv, ChannelStaleInv
<1>9. ChannelOwedInv' BY <1>2, <1>3, <1>5 DEF ChannelIInv, ChannelOwedInv, ChannelDue
<1> QED BY <1>6, <1>7, <1>8, <1>9 DEF ChannelIInv

\* handle_timeout(): what was asked for last is scheduled.
LEMMA ChannelHandleTimeoutStep == ASSUME ChannelIInv, Channel!HandleTimeout PROVE ChannelIInv'
<1>1. /\ interruptEnabled \in BOOLEAN /\ flag \in BOOLEAN /\ updateState \in BOOLEAN /\ dier \in BOOLEAN
      /\ waitDone \in BOOLEAN /\ waiting \in BOOLEAN /\ owed \in BOOLEAN /\ stale \in Nat
      /\ state \in Channel!State /\ newState \in Channel!State
            /\ handler \in {"idle", "status", "invoke", "handle"}
  BY ChannelTyped DEF ChannelIInv
<1> DEFINE s == ChannelDue
<1>2. s \in Channel!State /\ s.action \in Channel!OnTimeout BY <1>1 DEF ChannelDue, Channel!State
<1>3. /\ handler = "handle" /\ handler' = "idle" /\ updateState' = FALSE /\ flag' = FALSE
      /\ UNCHANGED <<newState, waiting, dier, stale>>
  BY DEF Channel!HandleTimeout
<1> DEFINE next == CASE s.action = "START_SINGLE"     -> "STOP"
                     [] s.action = "START_REPETITIVE" -> "REPEAT"
                     [] s.action = "START_WAIT"       -> "STOP_WAIT"
                     [] OTHER -> s.action
           enabled == CASE s.action \in {"START_SINGLE", "START_REPETITIVE", "START_WAIT"} -> TRUE
                        [] s.action \in {"STOP", "STOP_WAIT"} -> FALSE
                        [] OTHER -> interruptEnabled
<1>4. state' = [s EXCEPT !.action = next] /\ interruptEnabled' = enabled BY DEF Channel!HandleTimeout,
    ChannelDue
<1>5. waitDone' = (waitDone \/ s.action = "STOP_WAIT") BY DEF Channel!HandleTimeout, ChannelDue
<1>6. owed' = (owed \/ state' = [callback |-> "latest", action |-> "REPEAT"]) BY DEF Channel!HandleTimeout
<1>7. /\ next \in Channel!OnTimeout
      /\ s.action = "START_SINGLE" => next = "STOP" /\ enabled = TRUE
      /\ s.action = "START_REPETITIVE" => next = "REPEAT" /\ enabled = TRUE
      /\ s.action = "START_WAIT" => next = "STOP_WAIT" /\ enabled = TRUE
      /\ s.action \in {"STOP", "STOP_WAIT"} => next = s.action /\ enabled = FALSE
      /\ s.action = "REPEAT" => next = s.action /\ enabled = interruptEnabled
  BY <1>2 DEF Channel!OnTimeout
<1> HIDE DEF s, next, enabled
<1>8. state' \in Channel!State /\ state'.callback = s.callback /\ state'.action = next
  BY <1>2, <1>4, <1>7 DEF Channel!State
<1>9. interruptEnabled /\ (s.callback = "earlier" => updateState) /\ (updateState => s.callback # "earlier")
  BY <1>3 DEF ChannelIInv, ChannelServingInv, ChannelStaleInv, s, ChannelDue
<1>10. interruptEnabled' \in BOOLEAN /\ waitDone' \in BOOLEAN /\ owed' \in BOOLEAN
  <2>1. enabled \in BOOLEAN BY <1>1, <1>2, <1>7 DEF Channel!OnTimeout
  <2>2. waitDone' \in BOOLEAN BY Zenon, <1>1, <1>5
  <2>3. owed' \in BOOLEAN BY Zenon, <1>1, <1>6
  <2> QED BY <1>4, <2>1, <2>2, <2>3
<1>11. Channel!TypeOK' BY <1>1, <1>3, <1>8, <1>10, ChannelTypedNext
<1>12. ChannelServingInv' BY <1>3 DEF ChannelServingInv
<1>13. ChannelStaleInv' BY <1>3, <1>8, <1>9 DEF ChannelIInv, ChannelStaleInv
<1>14. waiting => s.action = (IF updateState THEN "START_WAIT" ELSE "STOP_WAIT")
  BY DEF ChannelIInv, ChannelOwedInv, s
<1>15. owed => /\ waiting \/ s.callback = "latest"
               /\ updateState => s.action \in {"START_SINGLE", "START_REPETITIVE", "START_WAIT"}
               /\ ~updateState => waiting
  BY <1>3 DEF ChannelIInv, ChannelOwedInv, s, ChannelDue
<1>16. ChannelOwedInv'
  <2>1. ChannelDue' = state' BY <1>3 DEF ChannelDue
  <2>2. owed' => waiting \/ s.callback = "latest"
    <3>1. CASE state' = [callback |-> "latest", action |-> "REPEAT"] BY <1>8, <3>1
    <3>2. CASE owed BY <1>15, <3>2
    <3> QED BY <1>6, <3>1, <3>2
  <2>3. owed' => interruptEnabled' \/ (waiting /\ waitDone')
    <3>1. CASE state' = [callback |-> "latest", action |-> "REPEAT"]
      <4>1. next = "REPEAT" BY <1>8, <3>1
      <4> QED BY <1>2, <1>4, <1>7, <1>9, <4>1 DEF Channel!OnTimeout
    <3>2. CASE owed
      BY <1>4, <1>5, <1>7, <1>14, <1>15, <3>2
    <3> QED BY <1>6, <3>1, <3>2
  <2>4. waiting' => ChannelDue'.action = "STOP_WAIT"
    BY <1>3, <1>7, <1>8, <1>14, <2>1
  <2> QED BY <1>3, <1>8, <2>1, <2>2, <2>3, <2>4 DEF ChannelOwedInv
<1> QED BY <1>11, <1>12, <1>13, <1>16 DEF ChannelIInv

\* No step breaks it.
LEMMA ChannelNextIInv == ASSUME ChannelIInv, [Channel!Next]_Channel!vars PROVE ChannelIInv'
<1>1. CASE Channel!InvokeInTicks
  <2>1. Channel!Request("latest", "START_SINGLE", "STOP") /\ waitDone' = waitDone /\ waiting' = waiting
      /\ ~waiting
    BY <1>1 DEF Channel!InvokeInTicks, Channel!Request, Channel!MayRequest
  <2>2. waitDone' \in BOOLEAN /\ waiting' \in BOOLEAN BY <2>1, ChannelTyped DEF ChannelIInv
  <2> QED BY <2>1, <2>2, ChannelRequestStep
<1>2. CASE Channel!EveryTicksInvoke
  <2>1. Channel!Request("latest", "START_REPETITIVE", "REPEAT") /\ waitDone' = waitDone
      /\ waiting' = waiting /\ ~waiting
    BY <1>2 DEF Channel!EveryTicksInvoke, Channel!Request, Channel!MayRequest
  <2>2. waitDone' \in BOOLEAN /\ waiting' \in BOOLEAN BY <2>1, ChannelTyped DEF ChannelIInv
  <2> QED BY <2>1, <2>2, ChannelRequestStep
<1>3. CASE Channel!WaitTicks
  <2>1. Channel!Request("nullptr", "START_WAIT", "STOP_WAIT") /\ waitDone' = FALSE /\ waiting' = TRUE
    BY <1>3 DEF Channel!WaitTicks
  <2> QED BY <2>1, ChannelRequestStep
<1>4. CASE UNCHANGED Channel!vars
  BY <1>4 DEF ChannelIInv, Channel!TypeOK, ChannelServingInv, ChannelStaleInv, ChannelOwedInv,
      ChannelDue, Channel!vars, Channel!requestV, Channel!handlerV
<1> QED BY <1>1, <1>2, <1>3, <1>4, ChannelStopStep, ChannelOthersStep, ChannelInvokeStep,
    ChannelHandleTimeoutStep DEF Channel!Next, Channel!Handler

\* The invariant of a channel holds in each of its behaviours.
THEOREM ChannelInductive == Channel!Spec => []ChannelIInv
BY ChannelInitIInv, ChannelNextIInv, PTL DEF Channel!Spec

\* timing.h: an earlier callback is called once at most after a request, and the request is not
\* lost, wherever the handler of the timer is when it comes.
THEOREM LatestWins == Channel!Spec => []LatestRequestWins
<1>1. ChannelIInv => LatestRequestWins
  <2> SUFFICES ASSUME ChannelIInv PROVE LatestRequestWins
    OBVIOUS
  <2>1. Channel!StaleAtMostOnce BY DEF ChannelIInv, ChannelStaleInv, Channel!StaleAtMostOnce
  <2>2. Channel!RequestIsKept
    BY DEF ChannelIInv, ChannelOwedInv, ChannelServingInv, ChannelDue, Channel!RequestIsKept,
        Channel!IsServingTimeout
  <2> QED BY <2>1, <2>2 DEF LatestRequestWins, Channel!LatestRequestWins
<1> QED BY ChannelInductive, <1>1, PTL

\* Also besides the other parts.
THEOREM LatestWinsAmongParts == FairAll => []LatestRequestWins
<1>1. AllInit => Channel!Init BY DEF AllInit
<1>2. [AllNext]_allVars => [Channel!Next]_Channel!vars
  BY DEF AllNext, ControlStep, KeysStep, ChannelStep, WiredStep, InControl, InKeys, InChannel, InWired,
         allVars, channelV, Channel!vars, Channel!requestV, Channel!handlerV
<1>3. FairAll => Channel!Spec BY <1>1, <1>2, PTL DEF FairAll, Channel!Spec
<1> QED BY <1>3, LatestWins
=============================================================================
