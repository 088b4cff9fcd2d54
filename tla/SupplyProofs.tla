---------------------------- MODULE SupplyProofs ----------------------------
(* Proofs about the supply system: type correctness and its four safety    *)
(* invariants.  IInv is inductive: what the pins, the flags of the          *)
(* interrupts and the points of the threads say about each other.          *)
EXTENDS Supply, TLAPS

\* The source, its handler, the edge it listens to and what the charger was told.
SourceInv ==
    /\ enBat => source = "BATTERY"
    /\ isr # "to_socket" => batterySource = (source = "BATTERY")
    /\ isr = "to_socket" => source = "SOCKET"
    /\ isr = "to_battery" => source = "BATTERY"
    /\ isr \in {"none", "fuse_timer"} =>
          /\ sourceEdge = "falling" => (~socket => sourceBit)
          /\ sourceEdge = "rising" => (socket => sourceBit)
          /\ source = "SOCKET" => sourceExti = "socket_unpowered" /\ sourceEdge = "falling"
          /\ source = "BATTERY" => \/ sourceExti = "socket_powered" /\ sourceEdge = "rising"
                                   \/ /\ sourceExti = "socket_unstable" /\ sourceEdge = "falling"
                                      /\ cc1Enabled

\* The charger's pin, and what an exclusive store of the ADC's handler rests on.
ChargerInv ==
    /\ chrgBat => ~batterySource
    /\ adc = "idle" => chrgBat = (charging /\ ~batterySource)
    /\ adc \in {"load", "store"} => charging
    /\ adc = "stop" => ~charging
    /\ adc = "store" /\ monitor => ~batterySource

\* The siren's and the 12V's pins, and what an exclusive store of the alarm's task rests on.
OutputsInv ==
    /\ en12V = ~protectionOn
    /\ enSiren => ~protectionOn
    /\ alarm = "idle" => enSiren = (sirenOn /\ ~protectionOn)
    /\ alarm \in {"load", "store"} => sirenOn
    /\ alarm = "off" => ~sirenOn
    /\ alarm = "store" /\ adc \in {"idle", "stop"} /\ monitor => ~protectionOn

\* Which detection and which timeout each state of the fuse has.
FuseInv ==
    /\ protectionOn => cc2Enabled /\ fuseTimer = "protection" /\ ~detecting /\ ~fuseBit
    /\ ~protectionOn => fuseExti # "unset"
    /\ fuseTimer = "over_current_pulse" => cc2Enabled /\ ~detecting /\ ~fuseBit
    /\ ~protectionOn /\ fuseTimer # "over_current_pulse" => detecting /\ (overCurrent => fuseBit)

IInv == TypeOK /\ SourceInv /\ ChargerInv /\ OutputsInv /\ FuseInv

\* Every step leaves the source's part typed.
LEMMA TypeSourceStep == IInv /\ [Next]_vars => TypeSource'
<1> SUFFICES ASSUME IInv, [Next]_vars PROVE TypeSource'
    OBVIOUS
<1> USE DEF IInv, TypeOK, TypeSource, Source, SourceExti, sourceV, fuseV, chargerV, outputsV, threads, world
<1>1. CASE SocketChanges \/ OverCurrentChanges \/ Match1 \/ Match2
  <2>1. CASE SocketChanges BY <2>1 DEF SocketChanges
  <2>2. CASE OverCurrentChanges BY <2>2 DEF OverCurrentChanges
  <2>3. CASE Match1 BY <2>3 DEF Match1
  <2>4. CASE Match2 BY <2>4 DEF Match2
  <2> QED BY <1>1, <2>1, <2>2, <2>3, <2>4
<1>2. CASE SocketUnpowered \/ BatteryEnabled \/ SocketPowered \/ SocketUnstable \/
          TimerIsr \/ SocketStable
  <2>1. CASE SocketUnpowered BY <2>1 DEF SocketUnpowered, SourceExtiIsr, DetectSocketPowered, DetectSocketUnpowered,
          StartSourceTimeout, StopSourceTimeout, ChargerSourceChanged
  <2>2. CASE BatteryEnabled BY <2>2 DEF BatteryEnabled, SourceExtiIsr, DetectSocketPowered, DetectSocketUnpowered,
          StartSourceTimeout, StopSourceTimeout, ChargerSourceChanged
  <2>3. CASE SocketPowered BY <2>3 DEF SocketPowered, SourceExtiIsr, DetectSocketPowered, DetectSocketUnpowered,
          StartSourceTimeout, StopSourceTimeout, ChargerSourceChanged
  <2>4. CASE SocketUnstable BY <2>4 DEF SocketUnstable, SourceExtiIsr, DetectSocketPowered, DetectSocketUnpowered,
          StartSourceTimeout, StopSourceTimeout, ChargerSourceChanged
  <2>5. CASE TimerIsr BY <2>5 DEF TimerIsr, SourceExtiIsr, DetectSocketPowered, DetectSocketUnpowered,
          StartSourceTimeout, StopSourceTimeout, ChargerSourceChanged
  <2>6. CASE SocketStable BY <2>6 DEF SocketStable, SourceExtiIsr, DetectSocketPowered, DetectSocketUnpowered,
          StartSourceTimeout, StopSourceTimeout, ChargerSourceChanged
  <2> QED BY <1>2, <2>1, <2>2, <2>3, <2>4, <2>5, <2>6
<1>3. CASE OverCurrentDetected \/ RepeatedOverCurrent \/ PulseElapsed \/
          NoOverCurrentElapsed \/ ProtectionElapsed \/ NoFuseTimeout
  <2>1. CASE OverCurrentDetected BY <2>1 DEF OverCurrentDetected, FuseExtiIsr, FuseTimerIsr, StartFuseTimeout,
          StopFuseTimeout, DetectOverCurrent, IgnoreOverCurrent, OutputProtectionChanged
  <2>2. CASE RepeatedOverCurrent BY <2>2 DEF RepeatedOverCurrent, FuseExtiIsr, FuseTimerIsr, StartFuseTimeout,
          StopFuseTimeout, DetectOverCurrent, IgnoreOverCurrent, OutputProtectionChanged
  <2>3. CASE PulseElapsed BY <2>3 DEF PulseElapsed, FuseExtiIsr, FuseTimerIsr, StartFuseTimeout, StopFuseTimeout,
          DetectOverCurrent, IgnoreOverCurrent, OutputProtectionChanged
  <2>4. CASE NoOverCurrentElapsed BY <2>4 DEF NoOverCurrentElapsed, FuseExtiIsr, FuseTimerIsr, StartFuseTimeout,
          StopFuseTimeout, DetectOverCurrent, IgnoreOverCurrent, OutputProtectionChanged
  <2>5. CASE ProtectionElapsed BY <2>5 DEF ProtectionElapsed, FuseExtiIsr, FuseTimerIsr, StartFuseTimeout,
          StopFuseTimeout, DetectOverCurrent, IgnoreOverCurrent, OutputProtectionChanged
  <2>6. CASE NoFuseTimeout BY <2>6 DEF NoFuseTimeout, FuseExtiIsr, FuseTimerIsr, StartFuseTimeout, StopFuseTimeout,
          DetectOverCurrent, IgnoreOverCurrent, OutputProtectionChanged
  <2> QED BY <1>3, <2>1, <2>2, <2>3, <2>4, <2>5, <2>6
<1>4. CASE DisableCharging \/ LoadBatterySource \/ EnableChargingExcl
  <2>1. CASE DisableCharging BY <2>1 DEF DisableCharging, AdcAt
  <2>2. CASE LoadBatterySource BY <2>2 DEF LoadBatterySource, AdcAt
  <2>3. CASE EnableChargingExcl BY <2>3 DEF EnableChargingExcl, AdcAt
  <2> QED BY <1>4, <2>1, <2>2, <2>3
<1>5. CASE TurnOnSiren \/ LoadProtection \/ EnableSirenExcl \/ TurnOffSiren \/
          DisableSiren
  <2>1. CASE TurnOnSiren BY <2>1 DEF TurnOnSiren, AlarmAt
  <2>2. CASE LoadProtection BY <2>2 DEF LoadProtection, AlarmAt
  <2>3. CASE EnableSirenExcl BY <2>3 DEF EnableSirenExcl, AlarmAt
  <2>4. CASE TurnOffSiren BY <2>4 DEF TurnOffSiren, AlarmAt
  <2>5. CASE DisableSiren BY <2>5 DEF DisableSiren, AlarmAt
  <2> QED BY <1>5, <2>1, <2>2, <2>3, <2>4, <2>5
<1>6. ASSUME NEW voltage \in Voltage, BatteryMeasured(voltage) PROVE TypeSource'
  BY <1>6 DEF BatteryMeasured, AdcAt, Voltage
<1>7. CASE UNCHANGED vars BY <1>7 DEF vars
<1> QED BY <1>1, <1>2, <1>3, <1>4, <1>5, <1>6, <1>7 DEF Next, World, Isr, AdcWork, AlarmWork

\* Every step leaves the fuse's part typed.
LEMMA TypeFuseStep == IInv /\ [Next]_vars => TypeFuse'
<1> SUFFICES ASSUME IInv, [Next]_vars PROVE TypeFuse'
    OBVIOUS
<1> USE DEF IInv, TypeOK, TypeFuse, FuseExti, FuseTimer, sourceV, fuseV, chargerV, outputsV, threads, world
<1>1. CASE SocketChanges \/ OverCurrentChanges \/ Match1 \/ Match2
  <2>1. CASE SocketChanges BY <2>1 DEF SocketChanges
  <2>2. CASE OverCurrentChanges BY <2>2 DEF OverCurrentChanges
  <2>3. CASE Match1 BY <2>3 DEF Match1
  <2>4. CASE Match2 BY <2>4 DEF Match2
  <2> QED BY <1>1, <2>1, <2>2, <2>3, <2>4
<1>2. CASE SocketUnpowered \/ BatteryEnabled \/ SocketPowered \/ SocketUnstable \/
          TimerIsr \/ SocketStable
  <2>1. CASE SocketUnpowered BY <2>1 DEF SocketUnpowered, SourceExtiIsr, DetectSocketPowered, DetectSocketUnpowered,
          StartSourceTimeout, StopSourceTimeout, ChargerSourceChanged
  <2>2. CASE BatteryEnabled BY <2>2 DEF BatteryEnabled, SourceExtiIsr, DetectSocketPowered, DetectSocketUnpowered,
          StartSourceTimeout, StopSourceTimeout, ChargerSourceChanged
  <2>3. CASE SocketPowered BY <2>3 DEF SocketPowered, SourceExtiIsr, DetectSocketPowered, DetectSocketUnpowered,
          StartSourceTimeout, StopSourceTimeout, ChargerSourceChanged
  <2>4. CASE SocketUnstable BY <2>4 DEF SocketUnstable, SourceExtiIsr, DetectSocketPowered, DetectSocketUnpowered,
          StartSourceTimeout, StopSourceTimeout, ChargerSourceChanged
  <2>5. CASE TimerIsr BY <2>5 DEF TimerIsr, SourceExtiIsr, DetectSocketPowered, DetectSocketUnpowered,
          StartSourceTimeout, StopSourceTimeout, ChargerSourceChanged
  <2>6. CASE SocketStable BY <2>6 DEF SocketStable, SourceExtiIsr, DetectSocketPowered, DetectSocketUnpowered,
          StartSourceTimeout, StopSourceTimeout, ChargerSourceChanged
  <2> QED BY <1>2, <2>1, <2>2, <2>3, <2>4, <2>5, <2>6
<1>3. CASE OverCurrentDetected \/ RepeatedOverCurrent \/ PulseElapsed \/
          NoOverCurrentElapsed \/ ProtectionElapsed \/ NoFuseTimeout
  <2>1. CASE OverCurrentDetected BY <2>1 DEF OverCurrentDetected, FuseExtiIsr, FuseTimerIsr, StartFuseTimeout,
          StopFuseTimeout, DetectOverCurrent, IgnoreOverCurrent, OutputProtectionChanged
  <2>2. CASE RepeatedOverCurrent BY <2>2 DEF RepeatedOverCurrent, FuseExtiIsr, FuseTimerIsr, StartFuseTimeout,
          StopFuseTimeout, DetectOverCurrent, IgnoreOverCurrent, OutputProtectionChanged
  <2>3. CASE PulseElapsed BY <2>3 DEF PulseElapsed, FuseExtiIsr, FuseTimerIsr, StartFuseTimeout, StopFuseTimeout,
          DetectOverCurrent, IgnoreOverCurrent, OutputProtectionChanged
  <2>4. CASE NoOverCurrentElapsed BY <2>4 DEF NoOverCurrentElapsed, FuseExtiIsr, FuseTimerIsr, StartFuseTimeout,
          StopFuseTimeout, DetectOverCurrent, IgnoreOverCurrent, OutputProtectionChanged
  <2>5. CASE ProtectionElapsed BY <2>5 DEF ProtectionElapsed, FuseExtiIsr, FuseTimerIsr, StartFuseTimeout,
          StopFuseTimeout, DetectOverCurrent, IgnoreOverCurrent, OutputProtectionChanged
  <2>6. CASE NoFuseTimeout BY <2>6 DEF NoFuseTimeout, FuseExtiIsr, FuseTimerIsr, StartFuseTimeout, StopFuseTimeout,
          DetectOverCurrent, IgnoreOverCurrent, OutputProtectionChanged
  <2> QED BY <1>3, <2>1, <2>2, <2>3, <2>4, <2>5, <2>6
<1>4. CASE DisableCharging \/ LoadBatterySource \/ EnableChargingExcl
  <2>1. CASE DisableCharging BY <2>1 DEF DisableCharging, AdcAt
  <2>2. CASE LoadBatterySource BY <2>2 DEF LoadBatterySource, AdcAt
  <2>3. CASE EnableChargingExcl BY <2>3 DEF EnableChargingExcl, AdcAt
  <2> QED BY <1>4, <2>1, <2>2, <2>3
<1>5. CASE TurnOnSiren \/ LoadProtection \/ EnableSirenExcl \/ TurnOffSiren \/
          DisableSiren
  <2>1. CASE TurnOnSiren BY <2>1 DEF TurnOnSiren, AlarmAt
  <2>2. CASE LoadProtection BY <2>2 DEF LoadProtection, AlarmAt
  <2>3. CASE EnableSirenExcl BY <2>3 DEF EnableSirenExcl, AlarmAt
  <2>4. CASE TurnOffSiren BY <2>4 DEF TurnOffSiren, AlarmAt
  <2>5. CASE DisableSiren BY <2>5 DEF DisableSiren, AlarmAt
  <2> QED BY <1>5, <2>1, <2>2, <2>3, <2>4, <2>5
<1>6. ASSUME NEW voltage \in Voltage, BatteryMeasured(voltage) PROVE TypeFuse'
  BY <1>6 DEF BatteryMeasured, AdcAt, Voltage
<1>7. CASE UNCHANGED vars BY <1>7 DEF vars
<1> QED BY <1>1, <1>2, <1>3, <1>4, <1>5, <1>6, <1>7 DEF Next, World, Isr, AdcWork, AlarmWork

\* Every step leaves the charger, the outputs and the threads typed.
LEMMA TypeOutputsStep == IInv /\ [Next]_vars => TypeOutputs'
<1> SUFFICES ASSUME IInv, [Next]_vars PROVE TypeOutputs'
    OBVIOUS
<1> USE DEF IInv, TypeOK, TypeOutputs, sourceV, fuseV, chargerV, outputsV, threads, world
<1>1. CASE SocketChanges \/ OverCurrentChanges \/ Match1 \/ Match2
  <2>1. CASE SocketChanges BY <2>1 DEF SocketChanges
  <2>2. CASE OverCurrentChanges BY <2>2 DEF OverCurrentChanges
  <2>3. CASE Match1 BY <2>3 DEF Match1
  <2>4. CASE Match2 BY <2>4 DEF Match2
  <2> QED BY <1>1, <2>1, <2>2, <2>3, <2>4
<1>2. CASE SocketUnpowered \/ BatteryEnabled \/ SocketPowered \/ SocketUnstable \/
          TimerIsr \/ SocketStable
  <2>1. CASE SocketUnpowered BY <2>1 DEF SocketUnpowered, SourceExtiIsr, DetectSocketPowered, DetectSocketUnpowered,
          StartSourceTimeout, StopSourceTimeout, ChargerSourceChanged
  <2>2. CASE BatteryEnabled BY <2>2 DEF BatteryEnabled, SourceExtiIsr, DetectSocketPowered, DetectSocketUnpowered,
          StartSourceTimeout, StopSourceTimeout, ChargerSourceChanged
  <2>3. CASE SocketPowered BY <2>3 DEF SocketPowered, SourceExtiIsr, DetectSocketPowered, DetectSocketUnpowered,
          StartSourceTimeout, StopSourceTimeout, ChargerSourceChanged
  <2>4. CASE SocketUnstable BY <2>4 DEF SocketUnstable, SourceExtiIsr, DetectSocketPowered, DetectSocketUnpowered,
          StartSourceTimeout, StopSourceTimeout, ChargerSourceChanged
  <2>5. CASE TimerIsr BY <2>5 DEF TimerIsr, SourceExtiIsr, DetectSocketPowered, DetectSocketUnpowered,
          StartSourceTimeout, StopSourceTimeout, ChargerSourceChanged
  <2>6. CASE SocketStable BY <2>6 DEF SocketStable, SourceExtiIsr, DetectSocketPowered, DetectSocketUnpowered,
          StartSourceTimeout, StopSourceTimeout, ChargerSourceChanged
  <2> QED BY <1>2, <2>1, <2>2, <2>3, <2>4, <2>5, <2>6
<1>3. CASE OverCurrentDetected \/ RepeatedOverCurrent \/ PulseElapsed \/
          NoOverCurrentElapsed \/ ProtectionElapsed \/ NoFuseTimeout
  <2>1. CASE OverCurrentDetected BY <2>1 DEF OverCurrentDetected, FuseExtiIsr, FuseTimerIsr, StartFuseTimeout,
          StopFuseTimeout, DetectOverCurrent, IgnoreOverCurrent, OutputProtectionChanged
  <2>2. CASE RepeatedOverCurrent BY <2>2 DEF RepeatedOverCurrent, FuseExtiIsr, FuseTimerIsr, StartFuseTimeout,
          StopFuseTimeout, DetectOverCurrent, IgnoreOverCurrent, OutputProtectionChanged
  <2>3. CASE PulseElapsed BY <2>3, ZenonT(30) DEF PulseElapsed, FuseExtiIsr, FuseTimerIsr, StartFuseTimeout, StopFuseTimeout,
          DetectOverCurrent, IgnoreOverCurrent, OutputProtectionChanged
  <2>4. CASE NoOverCurrentElapsed BY <2>4 DEF NoOverCurrentElapsed, FuseExtiIsr, FuseTimerIsr, StartFuseTimeout,
          StopFuseTimeout, DetectOverCurrent, IgnoreOverCurrent, OutputProtectionChanged
  <2>5. CASE ProtectionElapsed BY <2>5 DEF ProtectionElapsed, FuseExtiIsr, FuseTimerIsr, StartFuseTimeout,
          StopFuseTimeout, DetectOverCurrent, IgnoreOverCurrent, OutputProtectionChanged
  <2>6. CASE NoFuseTimeout BY <2>6 DEF NoFuseTimeout, FuseExtiIsr, FuseTimerIsr, StartFuseTimeout, StopFuseTimeout,
          DetectOverCurrent, IgnoreOverCurrent, OutputProtectionChanged
  <2> QED BY <1>3, <2>1, <2>2, <2>3, <2>4, <2>5, <2>6
<1>4. CASE DisableCharging \/ LoadBatterySource \/ EnableChargingExcl
  <2>1. CASE DisableCharging BY <2>1 DEF DisableCharging, AdcAt
  <2>2. CASE LoadBatterySource BY <2>2 DEF LoadBatterySource, AdcAt
  <2>3. CASE EnableChargingExcl BY <2>3 DEF EnableChargingExcl, AdcAt
  <2> QED BY <1>4, <2>1, <2>2, <2>3
<1>5. CASE TurnOnSiren \/ LoadProtection \/ EnableSirenExcl \/ TurnOffSiren \/
          DisableSiren
  <2>1. CASE TurnOnSiren BY <2>1 DEF TurnOnSiren, AlarmAt
  <2>2. CASE LoadProtection BY <2>2 DEF LoadProtection, AlarmAt
  <2>3. CASE EnableSirenExcl BY <2>3 DEF EnableSirenExcl, AlarmAt
  <2>4. CASE TurnOffSiren BY <2>4 DEF TurnOffSiren, AlarmAt
  <2>5. CASE DisableSiren BY <2>5 DEF DisableSiren, AlarmAt
  <2> QED BY <1>5, <2>1, <2>2, <2>3, <2>4, <2>5
<1>6. ASSUME NEW voltage \in Voltage, BatteryMeasured(voltage) PROVE TypeOutputs'
  BY <1>6 DEF BatteryMeasured, AdcAt, Voltage
<1>7. CASE UNCHANGED vars BY <1>7 DEF vars
<1> QED BY <1>1, <1>2, <1>3, <1>4, <1>5, <1>6, <1>7 DEF Next, World, Isr, AdcWork, AlarmWork

\* Every step keeps the source, its handler and its edge consistent.
LEMMA SourceStep == IInv /\ [Next]_vars => SourceInv'
<1> SUFFICES ASSUME IInv, [Next]_vars PROVE SourceInv'
    OBVIOUS
<1> USE DEF IInv, TypeOK, SourceInv, TypeSource, TypeOutputs, Source, SourceExti, sourceV, fuseV, chargerV, outputsV, threads, world
<1>1. CASE SocketChanges \/ OverCurrentChanges \/ Match1 \/ Match2
  <2>1. CASE SocketChanges BY <2>1 DEF SocketChanges
  <2>2. CASE OverCurrentChanges BY <2>2 DEF OverCurrentChanges
  <2>3. CASE Match1 BY <2>3 DEF Match1
  <2>4. CASE Match2 BY <2>4 DEF Match2
  <2> QED BY <1>1, <2>1, <2>2, <2>3, <2>4
<1>2. CASE SocketUnpowered \/ BatteryEnabled \/ SocketPowered \/ SocketUnstable \/
          TimerIsr \/ SocketStable
  <2>1. CASE SocketUnpowered BY <2>1 DEF SocketUnpowered, SourceExtiIsr, DetectSocketPowered, DetectSocketUnpowered,
          StartSourceTimeout, StopSourceTimeout, ChargerSourceChanged
  <2>2. CASE BatteryEnabled BY <2>2 DEF BatteryEnabled, SourceExtiIsr, DetectSocketPowered, DetectSocketUnpowered,
          StartSourceTimeout, StopSourceTimeout, ChargerSourceChanged
  <2>3. CASE SocketPowered BY <2>3 DEF SocketPowered, SourceExtiIsr, DetectSocketPowered, DetectSocketUnpowered,
          StartSourceTimeout, StopSourceTimeout, ChargerSourceChanged
  <2>4. CASE SocketUnstable BY <2>4 DEF SocketUnstable, SourceExtiIsr, DetectSocketPowered, DetectSocketUnpowered,
          StartSourceTimeout, StopSourceTimeout, ChargerSourceChanged
  <2>5. CASE TimerIsr BY <2>5 DEF TimerIsr, SourceExtiIsr, DetectSocketPowered, DetectSocketUnpowered,
          StartSourceTimeout, StopSourceTimeout, ChargerSourceChanged
  <2>6. CASE SocketStable BY <2>6 DEF SocketStable, SourceExtiIsr, DetectSocketPowered, DetectSocketUnpowered,
          StartSourceTimeout, StopSourceTimeout, ChargerSourceChanged
  <2> QED BY <1>2, <2>1, <2>2, <2>3, <2>4, <2>5, <2>6
<1>3. CASE OverCurrentDetected \/ RepeatedOverCurrent \/ PulseElapsed \/
          NoOverCurrentElapsed \/ ProtectionElapsed \/ NoFuseTimeout
  <2>1. CASE OverCurrentDetected BY <2>1 DEF OverCurrentDetected, FuseExtiIsr, FuseTimerIsr, StartFuseTimeout,
          StopFuseTimeout, DetectOverCurrent, IgnoreOverCurrent, OutputProtectionChanged
  <2>2. CASE RepeatedOverCurrent BY <2>2 DEF RepeatedOverCurrent, FuseExtiIsr, FuseTimerIsr, StartFuseTimeout,
          StopFuseTimeout, DetectOverCurrent, IgnoreOverCurrent, OutputProtectionChanged
  <2>3. CASE PulseElapsed BY <2>3 DEF PulseElapsed, FuseExtiIsr, FuseTimerIsr, StartFuseTimeout, StopFuseTimeout,
          DetectOverCurrent, IgnoreOverCurrent, OutputProtectionChanged
  <2>4. CASE NoOverCurrentElapsed BY <2>4 DEF NoOverCurrentElapsed, FuseExtiIsr, FuseTimerIsr, StartFuseTimeout,
          StopFuseTimeout, DetectOverCurrent, IgnoreOverCurrent, OutputProtectionChanged
  <2>5. CASE ProtectionElapsed BY <2>5 DEF ProtectionElapsed, FuseExtiIsr, FuseTimerIsr, StartFuseTimeout,
          StopFuseTimeout, DetectOverCurrent, IgnoreOverCurrent, OutputProtectionChanged
  <2>6. CASE NoFuseTimeout BY <2>6 DEF NoFuseTimeout, FuseExtiIsr, FuseTimerIsr, StartFuseTimeout, StopFuseTimeout,
          DetectOverCurrent, IgnoreOverCurrent, OutputProtectionChanged
  <2> QED BY <1>3, <2>1, <2>2, <2>3, <2>4, <2>5, <2>6
<1>4. CASE DisableCharging \/ LoadBatterySource \/ EnableChargingExcl
  <2>1. CASE DisableCharging BY <2>1 DEF DisableCharging, AdcAt
  <2>2. CASE LoadBatterySource BY <2>2 DEF LoadBatterySource, AdcAt
  <2>3. CASE EnableChargingExcl BY <2>3 DEF EnableChargingExcl, AdcAt
  <2> QED BY <1>4, <2>1, <2>2, <2>3
<1>5. CASE TurnOnSiren \/ LoadProtection \/ EnableSirenExcl \/ TurnOffSiren \/
          DisableSiren
  <2>1. CASE TurnOnSiren BY <2>1 DEF TurnOnSiren, AlarmAt
  <2>2. CASE LoadProtection BY <2>2 DEF LoadProtection, AlarmAt
  <2>3. CASE EnableSirenExcl BY <2>3 DEF EnableSirenExcl, AlarmAt
  <2>4. CASE TurnOffSiren BY <2>4 DEF TurnOffSiren, AlarmAt
  <2>5. CASE DisableSiren BY <2>5 DEF DisableSiren, AlarmAt
  <2> QED BY <1>5, <2>1, <2>2, <2>3, <2>4, <2>5
<1>6. ASSUME NEW voltage \in Voltage, BatteryMeasured(voltage) PROVE SourceInv'
  BY <1>6 DEF BatteryMeasured, AdcAt, Voltage
<1>7. CASE UNCHANGED vars BY <1>7 DEF vars
<1> QED BY <1>1, <1>2, <1>3, <1>4, <1>5, <1>6, <1>7 DEF Next, World, Isr, AdcWork, AlarmWork

\* Every step keeps the charger's pin consistent.
LEMMA ChargerStep == IInv /\ [Next]_vars => ChargerInv'
<1> SUFFICES ASSUME IInv, [Next]_vars PROVE ChargerInv'
    OBVIOUS
<1> USE DEF IInv, TypeOK, SourceInv, ChargerInv, TypeOutputs, sourceV, fuseV, chargerV, outputsV, threads, world
<1>1. CASE SocketChanges \/ OverCurrentChanges \/ Match1 \/ Match2
  <2>1. CASE SocketChanges BY <2>1 DEF SocketChanges
  <2>2. CASE OverCurrentChanges BY <2>2 DEF OverCurrentChanges
  <2>3. CASE Match1 BY <2>3 DEF Match1
  <2>4. CASE Match2 BY <2>4 DEF Match2
  <2> QED BY <1>1, <2>1, <2>2, <2>3, <2>4
<1>2. CASE SocketUnpowered \/ BatteryEnabled \/ SocketPowered \/ SocketUnstable \/
          TimerIsr \/ SocketStable
  <2>1. CASE SocketUnpowered BY <2>1 DEF SocketUnpowered, SourceExtiIsr, DetectSocketPowered, DetectSocketUnpowered,
          StartSourceTimeout, StopSourceTimeout, ChargerSourceChanged
  <2>2. CASE BatteryEnabled BY <2>2 DEF BatteryEnabled, SourceExtiIsr, DetectSocketPowered, DetectSocketUnpowered,
          StartSourceTimeout, StopSourceTimeout, ChargerSourceChanged
  <2>3. CASE SocketPowered BY <2>3 DEF SocketPowered, SourceExtiIsr, DetectSocketPowered, DetectSocketUnpowered,
          StartSourceTimeout, StopSourceTimeout, ChargerSourceChanged
  <2>4. CASE SocketUnstable BY <2>4 DEF SocketUnstable, SourceExtiIsr, DetectSocketPowered, DetectSocketUnpowered,
          StartSourceTimeout, StopSourceTimeout, ChargerSourceChanged
  <2>5. CASE TimerIsr BY <2>5 DEF TimerIsr, SourceExtiIsr, DetectSocketPowered, DetectSocketUnpowered,
          StartSourceTimeout, StopSourceTimeout, ChargerSourceChanged
  <2>6. CASE SocketStable BY <2>6 DEF SocketStable, SourceExtiIsr, DetectSocketPowered, DetectSocketUnpowered,
          StartSourceTimeout, StopSourceTimeout, ChargerSourceChanged
  <2> QED BY <1>2, <2>1, <2>2, <2>3, <2>4, <2>5, <2>6
<1>3. CASE OverCurrentDetected \/ RepeatedOverCurrent \/ PulseElapsed \/
          NoOverCurrentElapsed \/ ProtectionElapsed \/ NoFuseTimeout
  <2>1. CASE OverCurrentDetected BY <2>1 DEF OverCurrentDetected, FuseExtiIsr, FuseTimerIsr, StartFuseTimeout,
          StopFuseTimeout, DetectOverCurrent, IgnoreOverCurrent, OutputProtectionChanged
  <2>2. CASE RepeatedOverCurrent BY <2>2 DEF RepeatedOverCurrent, FuseExtiIsr, FuseTimerIsr, StartFuseTimeout,
          StopFuseTimeout, DetectOverCurrent, IgnoreOverCurrent, OutputProtectionChanged
  <2>3. CASE PulseElapsed BY <2>3 DEF PulseElapsed, FuseExtiIsr, FuseTimerIsr, StartFuseTimeout, StopFuseTimeout,
          DetectOverCurrent, IgnoreOverCurrent, OutputProtectionChanged
  <2>4. CASE NoOverCurrentElapsed BY <2>4 DEF NoOverCurrentElapsed, FuseExtiIsr, FuseTimerIsr, StartFuseTimeout,
          StopFuseTimeout, DetectOverCurrent, IgnoreOverCurrent, OutputProtectionChanged
  <2>5. CASE ProtectionElapsed BY <2>5 DEF ProtectionElapsed, FuseExtiIsr, FuseTimerIsr, StartFuseTimeout,
          StopFuseTimeout, DetectOverCurrent, IgnoreOverCurrent, OutputProtectionChanged
  <2>6. CASE NoFuseTimeout BY <2>6 DEF NoFuseTimeout, FuseExtiIsr, FuseTimerIsr, StartFuseTimeout, StopFuseTimeout,
          DetectOverCurrent, IgnoreOverCurrent, OutputProtectionChanged
  <2> QED BY <1>3, <2>1, <2>2, <2>3, <2>4, <2>5, <2>6
<1>4. CASE DisableCharging \/ LoadBatterySource \/ EnableChargingExcl
  <2>1. CASE DisableCharging BY <2>1 DEF DisableCharging, AdcAt
  <2>2. CASE LoadBatterySource BY <2>2 DEF LoadBatterySource, AdcAt
  <2>3. CASE EnableChargingExcl BY <2>3 DEF EnableChargingExcl, AdcAt
  <2> QED BY <1>4, <2>1, <2>2, <2>3
<1>5. CASE TurnOnSiren \/ LoadProtection \/ EnableSirenExcl \/ TurnOffSiren \/
          DisableSiren
  <2>1. CASE TurnOnSiren BY <2>1 DEF TurnOnSiren, AlarmAt
  <2>2. CASE LoadProtection BY <2>2 DEF LoadProtection, AlarmAt
  <2>3. CASE EnableSirenExcl BY <2>3 DEF EnableSirenExcl, AlarmAt
  <2>4. CASE TurnOffSiren BY <2>4 DEF TurnOffSiren, AlarmAt
  <2>5. CASE DisableSiren BY <2>5 DEF DisableSiren, AlarmAt
  <2> QED BY <1>5, <2>1, <2>2, <2>3, <2>4, <2>5
<1>6. ASSUME NEW voltage \in Voltage, BatteryMeasured(voltage) PROVE ChargerInv'
  BY <1>6 DEF BatteryMeasured, AdcAt, Voltage
<1>7. CASE UNCHANGED vars BY <1>7 DEF vars
<1> QED BY <1>1, <1>2, <1>3, <1>4, <1>5, <1>6, <1>7 DEF Next, World, Isr, AdcWork, AlarmWork

\* Every step keeps the siren's and the 12V's pins consistent.
LEMMA OutputsStep == IInv /\ [Next]_vars => OutputsInv'
<1> SUFFICES ASSUME IInv, [Next]_vars PROVE OutputsInv'
    OBVIOUS
<1> USE DEF IInv, TypeOK, OutputsInv, TypeOutputs, sourceV, fuseV, chargerV, outputsV, threads, world
<1>1. CASE SocketChanges \/ OverCurrentChanges \/ Match1 \/ Match2
  <2>1. CASE SocketChanges BY <2>1 DEF SocketChanges
  <2>2. CASE OverCurrentChanges BY <2>2 DEF OverCurrentChanges
  <2>3. CASE Match1 BY <2>3 DEF Match1
  <2>4. CASE Match2 BY <2>4 DEF Match2
  <2> QED BY <1>1, <2>1, <2>2, <2>3, <2>4
<1>2. CASE SocketUnpowered \/ BatteryEnabled \/ SocketPowered \/ SocketUnstable \/
          TimerIsr \/ SocketStable
  <2>1. CASE SocketUnpowered BY <2>1 DEF SocketUnpowered, SourceExtiIsr, DetectSocketPowered, DetectSocketUnpowered,
          StartSourceTimeout, StopSourceTimeout, ChargerSourceChanged
  <2>2. CASE BatteryEnabled BY <2>2 DEF BatteryEnabled, SourceExtiIsr, DetectSocketPowered, DetectSocketUnpowered,
          StartSourceTimeout, StopSourceTimeout, ChargerSourceChanged
  <2>3. CASE SocketPowered BY <2>3 DEF SocketPowered, SourceExtiIsr, DetectSocketPowered, DetectSocketUnpowered,
          StartSourceTimeout, StopSourceTimeout, ChargerSourceChanged
  <2>4. CASE SocketUnstable BY <2>4 DEF SocketUnstable, SourceExtiIsr, DetectSocketPowered, DetectSocketUnpowered,
          StartSourceTimeout, StopSourceTimeout, ChargerSourceChanged
  <2>5. CASE TimerIsr BY <2>5 DEF TimerIsr, SourceExtiIsr, DetectSocketPowered, DetectSocketUnpowered,
          StartSourceTimeout, StopSourceTimeout, ChargerSourceChanged
  <2>6. CASE SocketStable BY <2>6 DEF SocketStable, SourceExtiIsr, DetectSocketPowered, DetectSocketUnpowered,
          StartSourceTimeout, StopSourceTimeout, ChargerSourceChanged
  <2> QED BY <1>2, <2>1, <2>2, <2>3, <2>4, <2>5, <2>6
<1>3. CASE OverCurrentDetected \/ RepeatedOverCurrent \/ PulseElapsed \/
          NoOverCurrentElapsed \/ ProtectionElapsed \/ NoFuseTimeout
  <2>1. CASE OverCurrentDetected BY <2>1 DEF OverCurrentDetected, FuseExtiIsr, FuseTimerIsr, StartFuseTimeout,
          StopFuseTimeout, DetectOverCurrent, IgnoreOverCurrent, OutputProtectionChanged
  <2>2. CASE RepeatedOverCurrent BY <2>2 DEF RepeatedOverCurrent, FuseExtiIsr, FuseTimerIsr, StartFuseTimeout,
          StopFuseTimeout, DetectOverCurrent, IgnoreOverCurrent, OutputProtectionChanged
  <2>3. CASE PulseElapsed BY <2>3 DEF PulseElapsed, FuseExtiIsr, FuseTimerIsr, StartFuseTimeout, StopFuseTimeout,
          DetectOverCurrent, IgnoreOverCurrent, OutputProtectionChanged
  <2>4. CASE NoOverCurrentElapsed BY <2>4 DEF NoOverCurrentElapsed, FuseExtiIsr, FuseTimerIsr, StartFuseTimeout,
          StopFuseTimeout, DetectOverCurrent, IgnoreOverCurrent, OutputProtectionChanged
  <2>5. CASE ProtectionElapsed BY <2>5 DEF ProtectionElapsed, FuseExtiIsr, FuseTimerIsr, StartFuseTimeout,
          StopFuseTimeout, DetectOverCurrent, IgnoreOverCurrent, OutputProtectionChanged
  <2>6. CASE NoFuseTimeout BY <2>6 DEF NoFuseTimeout, FuseExtiIsr, FuseTimerIsr, StartFuseTimeout, StopFuseTimeout,
          DetectOverCurrent, IgnoreOverCurrent, OutputProtectionChanged
  <2> QED BY <1>3, <2>1, <2>2, <2>3, <2>4, <2>5, <2>6
<1>4. CASE DisableCharging \/ LoadBatterySource \/ EnableChargingExcl
  <2>1. CASE DisableCharging BY <2>1 DEF DisableCharging, AdcAt
  <2>2. CASE LoadBatterySource BY <2>2 DEF LoadBatterySource, AdcAt
  <2>3. CASE EnableChargingExcl BY <2>3 DEF EnableChargingExcl, AdcAt
  <2> QED BY <1>4, <2>1, <2>2, <2>3
<1>5. CASE TurnOnSiren \/ LoadProtection \/ EnableSirenExcl \/ TurnOffSiren \/
          DisableSiren
  <2>1. CASE TurnOnSiren BY <2>1 DEF TurnOnSiren, AlarmAt
  <2>2. CASE LoadProtection BY <2>2 DEF LoadProtection, AlarmAt
  <2>3. CASE EnableSirenExcl BY <2>3 DEF EnableSirenExcl, AlarmAt
  <2>4. CASE TurnOffSiren BY <2>4 DEF TurnOffSiren, AlarmAt
  <2>5. CASE DisableSiren BY <2>5 DEF DisableSiren, AlarmAt
  <2> QED BY <1>5, <2>1, <2>2, <2>3, <2>4, <2>5
<1>6. ASSUME NEW voltage \in Voltage, BatteryMeasured(voltage) PROVE OutputsInv'
  BY <1>6 DEF BatteryMeasured, AdcAt, Voltage
<1>7. CASE UNCHANGED vars BY <1>7 DEF vars
<1> QED BY <1>1, <1>2, <1>3, <1>4, <1>5, <1>6, <1>7 DEF Next, World, Isr, AdcWork, AlarmWork

\* Every step keeps the fuse's detection and timeout consistent.
LEMMA FuseStep == IInv /\ [Next]_vars => FuseInv'
<1> SUFFICES ASSUME IInv, [Next]_vars PROVE FuseInv'
    OBVIOUS
<1> USE DEF IInv, TypeOK, FuseInv, TypeFuse, TypeOutputs, FuseExti, FuseTimer, sourceV, fuseV, chargerV, outputsV, threads, world
<1>1. CASE SocketChanges \/ OverCurrentChanges \/ Match1 \/ Match2
  <2>1. CASE SocketChanges BY <2>1 DEF SocketChanges
  <2>2. CASE OverCurrentChanges BY <2>2 DEF OverCurrentChanges
  <2>3. CASE Match1 BY <2>3 DEF Match1
  <2>4. CASE Match2 BY <2>4 DEF Match2
  <2> QED BY <1>1, <2>1, <2>2, <2>3, <2>4
<1>2. CASE SocketUnpowered \/ BatteryEnabled \/ SocketPowered \/ SocketUnstable \/
          TimerIsr \/ SocketStable
  <2>1. CASE SocketUnpowered BY <2>1 DEF SocketUnpowered, SourceExtiIsr, DetectSocketPowered, DetectSocketUnpowered,
          StartSourceTimeout, StopSourceTimeout, ChargerSourceChanged
  <2>2. CASE BatteryEnabled BY <2>2 DEF BatteryEnabled, SourceExtiIsr, DetectSocketPowered, DetectSocketUnpowered,
          StartSourceTimeout, StopSourceTimeout, ChargerSourceChanged
  <2>3. CASE SocketPowered BY <2>3 DEF SocketPowered, SourceExtiIsr, DetectSocketPowered, DetectSocketUnpowered,
          StartSourceTimeout, StopSourceTimeout, ChargerSourceChanged
  <2>4. CASE SocketUnstable BY <2>4 DEF SocketUnstable, SourceExtiIsr, DetectSocketPowered, DetectSocketUnpowered,
          StartSourceTimeout, StopSourceTimeout, ChargerSourceChanged
  <2>5. CASE TimerIsr BY <2>5 DEF TimerIsr, SourceExtiIsr, DetectSocketPowered, DetectSocketUnpowered,
          StartSourceTimeout, StopSourceTimeout, ChargerSourceChanged
  <2>6. CASE SocketStable BY <2>6 DEF SocketStable, SourceExtiIsr, DetectSocketPowered, DetectSocketUnpowered,
          StartSourceTimeout, StopSourceTimeout, ChargerSourceChanged
  <2> QED BY <1>2, <2>1, <2>2, <2>3, <2>4, <2>5, <2>6
<1>3. CASE OverCurrentDetected \/ RepeatedOverCurrent \/ PulseElapsed \/
          NoOverCurrentElapsed \/ ProtectionElapsed \/ NoFuseTimeout
  <2>1. CASE OverCurrentDetected BY <2>1 DEF OverCurrentDetected, FuseExtiIsr, FuseTimerIsr, StartFuseTimeout,
          StopFuseTimeout, DetectOverCurrent, IgnoreOverCurrent, OutputProtectionChanged
  <2>2. CASE RepeatedOverCurrent BY <2>2 DEF RepeatedOverCurrent, FuseExtiIsr, FuseTimerIsr, StartFuseTimeout,
          StopFuseTimeout, DetectOverCurrent, IgnoreOverCurrent, OutputProtectionChanged
  <2>3. CASE PulseElapsed BY <2>3 DEF PulseElapsed, FuseExtiIsr, FuseTimerIsr, StartFuseTimeout, StopFuseTimeout,
          DetectOverCurrent, IgnoreOverCurrent, OutputProtectionChanged
  <2>4. CASE NoOverCurrentElapsed BY <2>4 DEF NoOverCurrentElapsed, FuseExtiIsr, FuseTimerIsr, StartFuseTimeout,
          StopFuseTimeout, DetectOverCurrent, IgnoreOverCurrent, OutputProtectionChanged
  <2>5. CASE ProtectionElapsed BY <2>5 DEF ProtectionElapsed, FuseExtiIsr, FuseTimerIsr, StartFuseTimeout,
          StopFuseTimeout, DetectOverCurrent, IgnoreOverCurrent, OutputProtectionChanged
  <2>6. CASE NoFuseTimeout BY <2>6 DEF NoFuseTimeout, FuseExtiIsr, FuseTimerIsr, StartFuseTimeout, StopFuseTimeout,
          DetectOverCurrent, IgnoreOverCurrent, OutputProtectionChanged
  <2> QED BY <1>3, <2>1, <2>2, <2>3, <2>4, <2>5, <2>6
<1>4. CASE DisableCharging \/ LoadBatterySource \/ EnableChargingExcl
  <2>1. CASE DisableCharging BY <2>1 DEF DisableCharging, AdcAt
  <2>2. CASE LoadBatterySource BY <2>2 DEF LoadBatterySource, AdcAt
  <2>3. CASE EnableChargingExcl BY <2>3 DEF EnableChargingExcl, AdcAt
  <2> QED BY <1>4, <2>1, <2>2, <2>3
<1>5. CASE TurnOnSiren \/ LoadProtection \/ EnableSirenExcl \/ TurnOffSiren \/
          DisableSiren
  <2>1. CASE TurnOnSiren BY <2>1 DEF TurnOnSiren, AlarmAt
  <2>2. CASE LoadProtection BY <2>2 DEF LoadProtection, AlarmAt
  <2>3. CASE EnableSirenExcl BY <2>3 DEF EnableSirenExcl, AlarmAt
  <2>4. CASE TurnOffSiren BY <2>4 DEF TurnOffSiren, AlarmAt
  <2>5. CASE DisableSiren BY <2>5 DEF DisableSiren, AlarmAt
  <2> QED BY <1>5, <2>1, <2>2, <2>3, <2>4, <2>5
<1>6. ASSUME NEW voltage \in Voltage, BatteryMeasured(voltage) PROVE FuseInv'
  BY <1>6 DEF BatteryMeasured, AdcAt, Voltage
<1>7. CASE UNCHANGED vars BY <1>7 DEF vars
<1> QED BY <1>1, <1>2, <1>3, <1>4, <1>5, <1>6, <1>7 DEF Next, World, Isr, AdcWork, AlarmWork

\* IInv holds initially.
LEMMA InitIInv == Init => IInv
<1> SUFFICES ASSUME Init PROVE IInv
    OBVIOUS
<1>1. TypeOK
  BY DEF Init, TypeOK, TypeSource, TypeFuse, TypeOutputs, Source, SourceExti, FuseExti, FuseTimer
<1>2. SourceInv BY DEF Init, SourceInv
<1>3. ChargerInv /\ OutputsInv /\ FuseInv BY DEF Init, ChargerInv, OutputsInv, FuseInv
<1> QED BY <1>1, <1>2, <1>3 DEF IInv

\* IInv is an invariant of the supply system.
THEOREM Inductive == Spec => []IInv
<1>1. IInv /\ [Next]_vars => IInv'
  BY TypeSourceStep, TypeFuseStep, TypeOutputsStep, SourceStep, ChargerStep, OutputsStep, FuseStep
  DEF IInv, TypeOK
<1> QED BY InitIInv, <1>1, PTL DEF Spec

\* Type correctness.
THEOREM TypeCorrect == Spec => []TypeOK
<1>1. IInv => TypeOK BY DEF IInv
<1> QED BY Inductive, <1>1, PTL

\* The battery is never charged while it is connected: the charger's pin is set
\* only while the charger has been told of the socket, and the battery is
\* connected only after it has been told of the battery.
THEOREM NeverCharged == Spec => []NeverChargeConnectedBattery
<1>1. IInv => NeverChargeConnectedBattery
  BY DEF IInv, TypeOK, TypeSource, TypeOutputs, Source, SourceInv, ChargerInv, NeverChargeConnectedBattery
<1> QED BY Inductive, <1>1, PTL

\* The protection cuts the siren and 12V.
THEOREM ProtectionCuts == Spec => []ProtectionCutsOutputs
<1>1. IInv => ProtectionCutsOutputs
  BY DEF IInv, TypeOK, TypeOutputs, OutputsInv, ProtectionCutsOutputs
<1> QED BY Inductive, <1>1, PTL

\* The outputs follow the requests.
THEOREM OutputsFollow == Spec => []OutputsFollowRequests
<1>1. IInv => OutputsFollowRequests
  BY DEF IInv, TypeOK, TypeSource, TypeOutputs, Source, SourceInv, ChargerInv, OutputsInv, OutputsFollowRequests
<1> QED BY Inductive, <1>1, PTL

\* No change of the lines is missed.
THEOREM NothingMissed == Spec => []NoChangeMissed
<1>1. IInv => NoChangeMissed
  BY DEF IInv, TypeOK, TypeSource, TypeFuse, TypeOutputs, Source, SourceExti, FuseExti, FuseTimer,
         SourceInv, FuseInv, NoChangeMissed
<1> QED BY Inductive, <1>1, PTL
=============================================================================
