------------------------------- MODULE Supply -------------------------------
(***************************************************************************)
(* The supply system (SupplySystem): source.cpp chooses between socket and *)
(* battery, charger.cpp charges the battery, fuse.cpp protects the 12V     *)
(* outputs and outputs.cpp switches them.                                  *)
(*                                                                         *)
(* Three contexts run this code, each preempting the next: the handlers of *)
(* EXTI9_5 and TIM2 (one priority, EXTI first), the ADC's handler, which   *)
(* reports the battery's voltage, and the alarm's task, which switches the *)
(* siren.  TIM2's counter never stops: the flag of a compare channel is    *)
(* raised by every match, also when the channel's interrupt is disabled.   *)
(***************************************************************************)
EXTENDS Naturals

Source    == {"SOCKET", "BATTERY"}
\* Battery voltage, as charger_battery_measured() tells it apart: below
\* DAMAGED_BATTERY_mV, up to START_CHARGING_mV, below STOP_CHARGING_mV, above.
Voltage   == {"damaged", "low", "normal", "full"}
SourceExti == {"socket_unpowered", "socket_powered", "socket_unstable"}
FuseExti  == {"unset", "over_current", "repeated_over_current"}
FuseTimer == {"over_current_pulse", "no_over_current", "protection"}

VARIABLES
    \* The world.
    socket,      \* DET_SOCK: socket voltage is present
    overCurrent, \* DET_12V_SC: current of the 12V outputs is over the limit
    \* source.cpp
    source,      \* the source in use
    sourceExti,  \* its on_exti
    sourceEdge,  \* edge of DET_SOCK that EXTI detects
    sourceBit,   \* EXTI->PR, DET_SOCK
    cc1Enabled, cc1Flag,  \* TIM2 channel 1: CC1IE, CC1IF
    enBat,       \* pin EN_BAT: the battery is connected to the supply
    \* fuse.cpp
    fuseExti, fuseTimer,  \* its on_exti and on_timer
    detecting,   \* EXTI detects a rising edge of DET_12V_SC
    fuseBit,     \* EXTI->PR, DET_12V_SC
    cc2Enabled, cc2Flag,  \* TIM2 channel 2
    \* charger.cpp and outputs.cpp
    charging, batterySource, chrgBat,        \* chrgBat: pin CHRG_BAT
    sirenOn, protectionOn, en12V, enSiren,   \* pins EN_12V_SRC and EN_SIREN
    \* execution
    isr,         \* what the interrupt handler has yet to do
    adc, alarm,  \* points of the ADC's handler and of the alarm's task
    monitor,     \* the processor's exclusive monitor: the next STREX succeeds
    stable       \* history: socket voltage is present since the debounce has started

world   == <<socket, overCurrent>>
sourceV == <<source, sourceExti, sourceEdge, sourceBit, cc1Enabled, cc1Flag, enBat>>
fuseV   == <<fuseExti, fuseTimer, detecting, fuseBit, cc2Enabled, cc2Flag>>
chargerV == <<charging, batterySource, chrgBat>>
outputsV == <<sirenOn, protectionOn, en12V, enSiren>>
threads == <<adc, alarm>>
vars == <<world, sourceV, fuseV, chargerV, outputsV, isr, threads, monitor, stable>>

TypeSource ==
    /\ socket \in BOOLEAN
    /\ source \in Source
    /\ sourceExti \in SourceExti
    /\ sourceEdge \in {"rising", "falling"}
    /\ sourceBit \in BOOLEAN
    /\ cc1Enabled \in BOOLEAN /\ cc1Flag \in BOOLEAN
    /\ enBat \in BOOLEAN
    /\ stable \in BOOLEAN

TypeFuse ==
    /\ overCurrent \in BOOLEAN
    /\ fuseExti \in FuseExti
    /\ fuseTimer \in FuseTimer
    /\ detecting \in BOOLEAN
    /\ fuseBit \in BOOLEAN
    /\ cc2Enabled \in BOOLEAN /\ cc2Flag \in BOOLEAN

TypeOutputs ==
    /\ charging \in BOOLEAN /\ batterySource \in BOOLEAN /\ chrgBat \in BOOLEAN
    /\ sirenOn \in BOOLEAN /\ protectionOn \in BOOLEAN
    /\ en12V \in BOOLEAN /\ enSiren \in BOOLEAN
    /\ isr \in {"none", "to_battery", "to_socket", "fuse_timer"}
    /\ adc \in {"idle", "stop", "load", "store"}
    /\ alarm \in {"idle", "off", "load", "store"}
    /\ monitor \in BOOLEAN

TypeOK == TypeSource /\ TypeFuse /\ TypeOutputs

\* init(): 12V is enabled when the first protection timeout elapses.
Init ==
    /\ socket \in BOOLEAN /\ overCurrent \in BOOLEAN
    /\ source = IF socket THEN "SOCKET" ELSE "BATTERY"
    /\ sourceExti = IF socket THEN "socket_unpowered" ELSE "socket_powered"
    /\ sourceEdge = IF socket THEN "falling" ELSE "rising"
    /\ sourceBit = FALSE
    /\ cc1Enabled = FALSE /\ cc1Flag = FALSE
    /\ enBat = FALSE
    /\ fuseExti = "unset" /\ fuseTimer = "protection"
    /\ detecting = FALSE /\ fuseBit = FALSE
    /\ cc2Enabled = TRUE /\ cc2Flag = FALSE
    /\ charging = FALSE /\ batterySource = ~socket /\ chrgBat = FALSE
    /\ sirenOn = FALSE /\ protectionOn = TRUE /\ en12V = FALSE /\ enSiren = FALSE
    /\ isr = "none" /\ adc = "idle" /\ alarm = "idle"
    /\ monitor = FALSE
    /\ stable = FALSE

-----------------------------------------------------------------------------
(* The world and the counter of TIM2. *)

SocketChanges ==
    /\ socket' = ~socket
    /\ sourceBit' = (sourceBit \/ sourceEdge = (IF socket THEN "falling" ELSE "rising"))
    /\ stable' = (stable /\ ~socket)
    /\ UNCHANGED <<overCurrent, source, sourceExti, sourceEdge, cc1Enabled, cc1Flag, enBat,
                   fuseV, chargerV, outputsV, isr, threads, monitor>>

OverCurrentChanges ==
    /\ overCurrent' = ~overCurrent
    /\ fuseBit' = (fuseBit \/ (detecting /\ ~overCurrent))
    /\ UNCHANGED <<socket, sourceV, fuseExti, fuseTimer, detecting, cc2Enabled, cc2Flag,
                   chargerV, outputsV, isr, threads, monitor, stable>>

Match1 ==
    /\ cc1Flag' = TRUE
    /\ UNCHANGED <<world, source, sourceExti, sourceEdge, sourceBit, cc1Enabled, enBat,
                   fuseV, chargerV, outputsV, isr, threads, monitor, stable>>

Match2 ==
    /\ cc2Flag' = TRUE
    /\ UNCHANGED <<world, sourceV, fuseExti, fuseTimer, detecting, fuseBit, cc2Enabled,
                   chargerV, outputsV, isr, threads, monitor, stable>>

-----------------------------------------------------------------------------
(* source.cpp and charger_source_changed() *)

\* Both write EXTI->PR, choose the edge and raise the line if it is too late for an edge.
DetectSocketPowered   == sourceEdge' = "rising"  /\ sourceBit' = socket
DetectSocketUnpowered == sourceEdge' = "falling" /\ sourceBit' = ~socket

StartSourceTimeout == cc1Enabled' = TRUE  /\ cc1Flag' = FALSE
StopSourceTimeout  == cc1Enabled' = FALSE /\ cc1Flag' = FALSE

ChargerSourceChanged(new) ==
    /\ batterySource' = (new = "BATTERY")
    /\ monitor' = FALSE
    /\ chrgBat' = IF new = "BATTERY" THEN FALSE ELSE chrgBat \/ charging

\* exti_isr() sees DET_SOCK first.
SourceExtiIsr(handler) == isr = "none" /\ sourceBit /\ sourceExti = handler

\* socket_unpowered_exti_isr() up to enable_battery().
SocketUnpowered ==
    /\ SourceExtiIsr("socket_unpowered")
    /\ source' = "BATTERY"
    /\ ChargerSourceChanged("BATTERY")
    /\ isr' = "to_battery"
    /\ UNCHANGED <<world, sourceExti, sourceEdge, sourceBit, cc1Enabled, cc1Flag, enBat,
                   fuseV, charging, outputsV, threads, stable>>

\* The rest of socket_unpowered_exti_isr().
BatteryEnabled ==
    /\ isr = "to_battery"
    /\ enBat' = TRUE
    /\ sourceExti' = "socket_powered"
    /\ DetectSocketPowered
    /\ isr' = "none"
    /\ UNCHANGED <<world, source, cc1Enabled, cc1Flag, fuseV, chargerV, outputsV,
                   threads, monitor, stable>>

SocketPowered ==
    /\ SourceExtiIsr("socket_powered")
    /\ sourceExti' = "socket_unstable"
    /\ StartSourceTimeout
    /\ DetectSocketUnpowered
    /\ stable' = socket
    /\ UNCHANGED <<world, source, enBat, fuseV, chargerV, outputsV, isr, threads, monitor>>

SocketUnstable ==
    /\ SourceExtiIsr("socket_unstable")
    /\ StopSourceTimeout
    /\ sourceExti' = "socket_powered"
    /\ DetectSocketPowered
    /\ UNCHANGED <<world, source, enBat, fuseV, chargerV, outputsV, isr, threads, monitor, stable>>

\* timer_isr(): whichever channel has raised the interrupt, both flags are examined.
\* socket_stable_timer_isr() up to disable_battery().
TimerIsr ==
    /\ isr = "none" /\ ~sourceBit /\ ~fuseBit
    /\ (cc1Enabled /\ cc1Flag) \/ (cc2Enabled /\ cc2Flag)
    /\ IF cc1Flag
       THEN source' = "SOCKET" /\ enBat' = FALSE /\ isr' = "to_socket"
       ELSE isr' = "fuse_timer" /\ UNCHANGED <<source, enBat>>
    /\ UNCHANGED <<world, sourceExti, sourceEdge, sourceBit, cc1Enabled, cc1Flag, fuseV,
                   chargerV, outputsV, threads, monitor, stable>>

\* The rest of socket_stable_timer_isr().
SocketStable ==
    /\ isr = "to_socket"
    /\ ChargerSourceChanged("SOCKET")
    /\ sourceExti' = "socket_unpowered"
    /\ DetectSocketUnpowered
    /\ StopSourceTimeout
    /\ isr' = "fuse_timer"
    /\ UNCHANGED <<world, source, enBat, fuseV, charging, outputsV, threads, stable>>
-----------------------------------------------------------------------------
(* fuse.cpp and output_protection_changed() *)

StartFuseTimeout == cc2Enabled' = TRUE  /\ cc2Flag' = FALSE
StopFuseTimeout  == cc2Enabled' = FALSE /\ cc2Flag' = FALSE

\* Mutant: the level is not examined.
DetectOverCurrentEdge == detecting' = TRUE /\ fuseBit' = FALSE

DetectOverCurrent == detecting' = TRUE  /\ fuseBit' = overCurrent
IgnoreOverCurrent == detecting' = FALSE /\ fuseBit' = FALSE

\* Mutant: the siren is not turned on again.
OutputProtectionChangedSilent(applied) ==
    /\ protectionOn' = applied
    /\ monitor' = FALSE
    /\ en12V' = ~applied
    /\ enSiren' = (~applied /\ enSiren)
    /\ UNCHANGED sirenOn

OutputProtectionChanged(applied) ==
    /\ protectionOn' = applied
    /\ monitor' = FALSE
    /\ en12V' = ~applied
    /\ enSiren' = (~applied /\ (enSiren \/ sirenOn))
    /\ UNCHANGED sirenOn

FuseExtiIsr(handler) == isr = "none" /\ ~sourceBit /\ fuseBit /\ fuseExti = handler

OverCurrentDetected ==
    /\ FuseExtiIsr("over_current")
    /\ fuseTimer' = "over_current_pulse"
    /\ StartFuseTimeout
    /\ IgnoreOverCurrent
    /\ UNCHANGED <<world, sourceV, fuseExti, chargerV, outputsV, isr, threads, monitor, stable>>

RepeatedOverCurrent ==
    /\ FuseExtiIsr("repeated_over_current")
    /\ OutputProtectionChanged(TRUE)
    /\ IgnoreOverCurrent
    /\ fuseTimer' = "protection"
    /\ StartFuseTimeout
    /\ UNCHANGED <<world, sourceV, fuseExti, chargerV, isr, threads, stable>>

\* fuse_timer_isr(), the last thing timer_isr() does.
FuseTimerIsr(handler) == isr = "fuse_timer" /\ cc2Flag /\ fuseTimer = handler /\ isr' = "none"

\* Mutant: on_timer is not set for the protection.
PulseElapsedForgets ==
    /\ FuseTimerIsr("over_current_pulse")
    /\ StartFuseTimeout
    /\ IF overCurrent
       THEN OutputProtectionChanged(TRUE) /\ UNCHANGED <<fuseExti, fuseTimer, detecting, fuseBit>>
       ELSE /\ fuseTimer' = "no_over_current"
            /\ fuseExti' = "repeated_over_current"
            /\ DetectOverCurrent
            /\ UNCHANGED <<outputsV, monitor>>
    /\ UNCHANGED <<world, sourceV, chargerV, threads, stable>>

PulseElapsed ==
    /\ FuseTimerIsr("over_current_pulse")
    /\ StartFuseTimeout
    /\ IF overCurrent
       THEN /\ OutputProtectionChanged(TRUE)
            /\ fuseTimer' = "protection"
            /\ UNCHANGED <<fuseExti, detecting, fuseBit>>
       ELSE /\ fuseTimer' = "no_over_current"
            /\ fuseExti' = "repeated_over_current"
            /\ DetectOverCurrent
            /\ UNCHANGED <<outputsV, monitor>>
    /\ UNCHANGED <<world, sourceV, chargerV, threads, stable>>

NoOverCurrentElapsed ==
    /\ FuseTimerIsr("no_over_current")
    /\ StopFuseTimeout
    /\ fuseExti' = "over_current"
    /\ UNCHANGED <<world, sourceV, fuseTimer, detecting, fuseBit, chargerV, outputsV,
                   threads, monitor, stable>>

ProtectionElapsed ==
    /\ FuseTimerIsr("protection")
    /\ StopFuseTimeout
    /\ fuseExti' = "over_current"
    /\ DetectOverCurrent
    /\ OutputProtectionChanged(FALSE)
    /\ UNCHANGED <<world, sourceV, fuseTimer, chargerV, threads, stable>>

NoFuseTimeout ==
    /\ isr = "fuse_timer" /\ ~cc2Flag
    /\ isr' = "none"
    /\ UNCHANGED <<world, sourceV, fuseV, chargerV, outputsV, threads, monitor, stable>>
-----------------------------------------------------------------------------
(* charger_battery_measured(), in the ADC's interrupt handler *)

AdcAt(point) == isr = "none" /\ adc = point

BatteryMeasured(voltage) ==
    /\ AdcAt("idle")
    /\ \/ charging /\ voltage \in {"full", "damaged"} /\ charging' = FALSE /\ adc' = "stop"
       \/ ~charging /\ voltage = "low" /\ charging' = TRUE /\ adc' = "load"
    /\ UNCHANGED <<world, sourceV, fuseV, batterySource, chrgBat, outputsV, isr, alarm, monitor, stable>>

DisableCharging ==
    /\ AdcAt("stop")
    /\ chrgBat' = FALSE
    /\ adc' = "idle"
    /\ UNCHANGED <<world, sourceV, fuseV, charging, batterySource, outputsV, isr, alarm, monitor, stable>>

\* safe_enable_charging(): LDREXB of battery_source.
LoadBatterySource ==
    /\ AdcAt("load")
    /\ monitor' = ~batterySource
    /\ adc' = IF batterySource THEN "idle" ELSE "store"
    /\ UNCHANGED <<world, sourceV, fuseV, chargerV, outputsV, isr, alarm, stable>>

\* Mutant: a plain store to the port.
EnableChargingPlain ==
    /\ AdcAt("store")
    /\ chrgBat' = TRUE
    /\ adc' = "idle"
    /\ monitor' = FALSE
    /\ UNCHANGED <<world, sourceV, fuseV, charging, batterySource, outputsV, isr, alarm, stable>>

\* enable_charging_excl(): STREXW to the port.
EnableChargingExcl ==
    /\ AdcAt("store")
    /\ chrgBat' = (chrgBat \/ monitor)
    /\ adc' = IF monitor THEN "idle" ELSE "load"
    /\ monitor' = FALSE
    /\ UNCHANGED <<world, sourceV, fuseV, charging, batterySource, outputsV, isr, alarm, stable>>
-----------------------------------------------------------------------------
(* outputs.cpp, in the alarm's task *)

AlarmAt(point) == isr = "none" /\ adc = "idle" /\ alarm = point

TurnOnSiren ==
    /\ AlarmAt("idle")
    /\ sirenOn' = TRUE
    /\ alarm' = "load"
    /\ UNCHANGED <<world, sourceV, fuseV, chargerV, protectionOn, en12V, enSiren, isr, adc, monitor, stable>>

\* safe_enable_siren(): LDREXB of protection_on.
LoadProtection ==
    /\ AlarmAt("load")
    /\ monitor' = ~protectionOn
    /\ alarm' = IF protectionOn THEN "idle" ELSE "store"
    /\ UNCHANGED <<world, sourceV, fuseV, chargerV, outputsV, isr, adc, stable>>

\* Mutant: a plain store to the port.
EnableSirenPlain ==
    /\ AlarmAt("store")
    /\ enSiren' = TRUE
    /\ alarm' = "idle"
    /\ monitor' = FALSE
    /\ UNCHANGED <<world, sourceV, fuseV, chargerV, sirenOn, protectionOn, en12V, isr, adc, stable>>

\* enable_siren_excl(): STREXW to the port.
EnableSirenExcl ==
    /\ AlarmAt("store")
    /\ enSiren' = (enSiren \/ monitor)
    /\ alarm' = IF monitor THEN "idle" ELSE "load"
    /\ monitor' = FALSE
    /\ UNCHANGED <<world, sourceV, fuseV, chargerV, sirenOn, protectionOn, en12V, isr, adc, stable>>

TurnOffSiren ==
    /\ AlarmAt("idle")
    /\ sirenOn' = FALSE
    /\ alarm' = "off"
    /\ UNCHANGED <<world, sourceV, fuseV, chargerV, protectionOn, en12V, enSiren, isr, adc, monitor, stable>>

DisableSiren ==
    /\ AlarmAt("off")
    /\ enSiren' = FALSE
    /\ alarm' = "idle"
    /\ UNCHANGED <<world, sourceV, fuseV, chargerV, sirenOn, protectionOn, en12V, isr, adc, monitor, stable>>
-----------------------------------------------------------------------------
World == SocketChanges \/ OverCurrentChanges \/ Match1 \/ Match2

Isr == \/ SocketUnpowered \/ BatteryEnabled \/ SocketPowered \/ SocketUnstable
       \/ TimerIsr \/ SocketStable
       \/ OverCurrentDetected \/ RepeatedOverCurrent
       \/ PulseElapsed \/ NoOverCurrentElapsed \/ ProtectionElapsed \/ NoFuseTimeout

AdcWork == DisableCharging \/ LoadBatterySource \/ EnableChargingExcl

AlarmWork == LoadProtection \/ EnableSirenExcl \/ DisableSiren

Next == \/ World \/ Isr \/ AdcWork \/ AlarmWork \/ TurnOnSiren \/ TurnOffSiren
        \/ \E voltage \in Voltage : BatteryMeasured(voltage)

Spec == Init /\ [][Next]_vars

\* Interrupts are served, the counter reaches a compare value, and the lower
\* contexts run in the meantime; conversions are far apart, so they neither keep the
\* alarm's task from running nor separate every LDREX from its STREX (SF).
Fairness ==
    /\ WF_vars(Isr) /\ WF_vars(cc1Enabled /\ Match1) /\ WF_vars(cc2Enabled /\ Match2)
    /\ WF_vars(AdcWork) /\ SF_vars(AlarmWork) /\ SF_vars(monitor /\ EnableSirenExcl)

FairSpec == Spec /\ Fairness
-----------------------------------------------------------------------------
(* Properties *)

\* The battery is never charged while it is connected to the supply, not even
\* between two instructions of a switch (periph.h: "IMPORTANT to disconnect while
\* charging"), however the ADC's handler is interrupted between its check of
\* battery_source and its write to the port.
NeverChargeConnectedBattery == ~(enBat /\ chrgBat)

\* While the protection is on, 12V and the siren are off, however the alarm's task
\* is interrupted between its check of protection_on and its write to the port.
ProtectionCutsOutputs == protectionOn => ~en12V /\ ~enSiren

\* Between handlers and calls each output is what was last requested, as far as
\* the source and the protection allow: no request is lost to an interrupt.
OutputsFollowRequests ==
    isr = "none" =>
        /\ enBat => source = "BATTERY"
        /\ en12V = ~protectionOn
        /\ adc = "idle" => chrgBat = (charging /\ source = "SOCKET")
        /\ alarm = "idle" => enSiren = (sirenOn /\ ~protectionOn)

\* No change of the lines is missed while edges are not listened to or another
\* handler runs: if the state does not fit a line, an interrupt or a timeout that
\* deals with it is on the way, and there is a handler for it.
NoChangeMissed ==
    isr = "none" =>
        /\ source = "SOCKET" /\ ~socket => sourceBit
        /\ source = "BATTERY" /\ socket => sourceBit \/ cc1Enabled
        /\ ~protectionOn /\ overCurrent => fuseBit \/ (cc2Enabled /\ fuseTimer = "over_current_pulse")
        /\ protectionOn => cc2Enabled /\ fuseTimer = "protection"
        /\ fuseBit => fuseExti # "unset"

\* source.cpp of socket_stable_timer_isr(): "Socket voltage is present during all
\* debounce time."  A flag of channel 1 that was raised by a match nobody waited
\* for is taken for the end of a debounce when channel 2 raises TIM2's interrupt.
SwitchedAfterDebounce == [][source = "BATTERY" /\ source' = "SOCKET" => stable]_vars

\* Lasting lines decide: a lasting socket voltage is used, without it the battery
\* is connected (init_source() leaves EN_BAT alone: a system started from the
\* battery connects it when it has been on the socket).
SourceFollowsSocket ==
    /\ <>[]socket => <>[](source = "SOCKET")
    /\ <>(source = "SOCKET") /\ <>[](~socket /\ ~overCurrent) => <>[](source = "BATTERY" /\ enBat)

\* If the socket settles (its handlers come first): 12V returns when the over
\* current is gone, a lasting one trips the protection again and again, and a siren
\* that stays requested sounds.
FuseRecovers ==
    <>[]socket \/ <>[]~socket =>
    /\ <>[]~overCurrent => <>[]en12V
    /\ <>[]overCurrent => []<>protectionOn
    /\ <>[](~overCurrent /\ sirenOn) => <>[]enSiren

\* Source and fuse recover from whatever the lines and the conversions did before.
SupplyRecovers == SourceFollowsSocket /\ FuseRecovers
=============================================================================
