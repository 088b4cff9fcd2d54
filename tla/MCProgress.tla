----------------------------- MODULE MCProgress -----------------------------
(* Small parts that have to make progress: the control of the module with  *)
(* two clients, the keyboard, a channel of a timer and the wired zones.    *)
(* They touch none of each other's state: each behaviour is one of one of  *)
(* them, the others rest as they are at the start.                         *)
EXTENDS MCGsmControl

VARIABLES
    part,
    keyState, notice, taken, rearming, timer, exti, samples, finger, contact, bouncing, reported,
    interruptEnabled, flag, state, newState, updateState, waitDone, waiting, handler, dier, owed, stale,
    activations, level, zone_index, zone_activation, active_zones, measuring

OfThree(choices) == {[z \in 0..2 |-> choice[z + 1]] : choice \in choices}
SomeActivations ==
    OfThree({<<"ON_OPEN", "ON_CLOSE", "ON_OPEN">>, <<"ON_OPEN", "NEVER", "ON_CLOSE">>, <<"NEVER", "NEVER", "NEVER">>})
SomeLevels ==
    OfThree({<<"low", "between", "high">>, <<"high", "low", "low">>, <<"between", "high", "low">>})

Keys    == INSTANCE Keyboard WITH SampleCountLimit <- 5, Coincidences <- {}, state <- keyState
Channel == INSTANCE TimerChannel WITH Coincidences <- {}
Wired   == INSTANCE Zones WITH Count <- 3, Choices <- SomeActivations, Levels <- SomeLevels

keysV    == <<keyState, notice, taken, rearming, timer, exti, samples, finger, contact, bouncing, reported>>
channelV == <<interruptEnabled, flag, state, newState, updateState, waitDone, waiting, handler, dier, owed, stale>>
wiredV   == <<activations, level, zone_index, zone_activation, active_zones, measuring>>

allVars == <<part, vars, keysV, channelV, wiredV>>

AllInit ==
    /\ part \in {"control", "keys", "channel", "wired"}
    /\ Init /\ Keys!Init /\ Channel!Init /\ Wired!Init
    /\ part # "wired" => Wired!Enabled = {} /\ level[0] = "low"

\* Steps of one part
InControl(action) == part = "control" /\ action /\ UNCHANGED <<part, keysV, channelV, wiredV>>
InKeys(action)    == part = "keys"    /\ action /\ UNCHANGED <<part, vars, channelV, wiredV>>
InChannel(action) == part = "channel" /\ action /\ UNCHANGED <<part, vars, keysV, wiredV>>
InWired(action)   == part = "wired"   /\ action /\ UNCHANGED <<part, vars, keysV, channelV>>

ControlStep == InControl(Next)
KeysStep    == InKeys(Keys!Next)
ChannelStep == InChannel(Channel!Next)
WiredStep   == InWired(Wired!Next)

AllNext == ControlStep \/ KeysStep \/ ChannelStep \/ WiredStep

-----------------------------------------------------------------------------
(* The fairness of each part is that of its module.  As a behaviour keeps  *)
(* to one part, one condition serves several, and TLC has fewer of them.   *)
FairHandlers ==
    WF_allVars(InControl(ExecutionStep(Timers)) \/ InKeys(Keys!Service) \/ InChannel(Channel!Match) \/ InWired(Wired!Isr))
FairTimeouts ==
    WF_allVars(InControl(ExecutionStep(Driver)) \/ InKeys(Keys!Timeout) \/ InChannel(Channel!WaitEnds))
FairEnds ==
    WF_allVars(InControl(CommandEnds) \/ InKeys(Keys!Bounce /\ contact # finger) \/ InChannel(Channel!Handler))
FairReading ==
    SF_allVars(\/ InControl("CHECK_MODULE_STATE" \notin pending /\ ReadPending(Driver))
               \/ InKeys(Keys!Bounce /\ Keys!Ready)
               \/ InChannel(Channel!ReadDier /\ Channel!IsServingTimeout))
FairAlarm == SF_allVars(InControl(TakeCtrl("alarm") \/ ClientWork("alarm")) \/ InKeys(Keys!Settle))
FairGsm   == SF_allVars(InControl(TakeCtrl("gsm") \/ ClientWork("gsm")))

FairAll ==
    /\ AllInit /\ [][AllNext]_allVars
    /\ FairHandlers /\ FairTimeouts /\ FairEnds
    /\ FairReading /\ FairAlarm /\ FairGsm

-----------------------------------------------------------------------------
\* A key that is held is reported, and once only, whatever its contact, late notices and
\* service_keyboard() do.
PressIsReportedOnce == Keys!PressIsReportedOnce

\* A request for a timeout replaces earlier ones, whatever the handler was doing.
LatestRequestWins == Channel!LatestRequestWins

\* Unless other requests keep coming, the callback of the channel is called, every period.
RequestIsServed == Channel!RequestIsServed

\* No zone is starved by others in select_measurement(): each comes to be what it measures.
ZonesSettle == Wired!ZonesSettle
=============================================================================
