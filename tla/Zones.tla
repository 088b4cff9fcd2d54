------------------------------- MODULE Zones -------------------------------
(***************************************************************************)
(* Wired zones (wired_zones.cpp) as the handler of the ADC drives them     *)
(* (voltage_meter.cpp): the enabled zones are measured in turn, each       *)
(* result is read with the activation the zone was selected for, and the   *)
(* user may change the activations at any moment in between.               *)
(***************************************************************************)
EXTENDS Naturals

CONSTANTS
    Count,      \* ZONES_COUNT
    Choices,    \* what the user may set: functions from zones to activations
    Levels      \* what the sensors may do: functions from zones to levels

VARIABLES
    activations,        \* get_zone_activations_for_isr()
    level,              \* current of each sensor against the thresholds: "low", "between", "high"
    zone_index, zone_activation, active_zones,
    measuring           \* a zone was selected

vars == <<activations, level, zone_index, zone_activation, active_zones, measuring>>

ZoneIds == 0..Count - 1

Enabled == {z \in ZoneIds : activations[z] # "NEVER"}

-----------------------------------------------------------------------------
\* A zone that is active now leaves, and one that is not comes, only beyond the farther threshold
ActivatedBy(activation, l, activeNow) ==
    \/ l = "between" /\ activeNow
    \/ l = IF activation = "ON_OPEN" THEN "low" ELSE "high"

\* process_measurement(): the zone's bit, then the index
Processed ==
    IF ActivatedBy(zone_activation, level[zone_index], zone_index \in active_zones)
    THEN active_zones \cup {zone_index}
    ELSE active_zones \ {zone_index}

After(z) == (z + 1) % Count

\* Mutant: the search begins with the first zone.
FirstEnabledFromZero(start) == CHOOSE z \in Enabled : \A other \in Enabled : z <= other

\* The enabled zone that is met first from start on
FirstEnabled(start) ==
    CHOOSE z \in Enabled : \A other \in Enabled : (z + Count - start) % Count <= (other + Count - start) % Count

\* select_measurement()
Select(start, active) ==
    /\ active_zones' = active \cap Enabled
    /\ measuring' = (Enabled # {})
    /\ IF Enabled = {} THEN zone_index' = start /\ UNCHANGED zone_activation
       ELSE zone_index' = FirstEnabled(start) /\ zone_activation' = activations[zone_index']

-----------------------------------------------------------------------------
\* start() of both
Init ==
    /\ activations \in Choices /\ level \in Levels
    /\ measuring = (Enabled # {}) /\ active_zones = {}
    /\ zone_index = IF Enabled = {} THEN 0 ELSE FirstEnabled(0)
    /\ zone_activation = IF Enabled = {} THEN "NEVER" ELSE activations[zone_index]

SetActivations == activations' \in Choices \ {activations} /\ UNCHANGED <<level, zone_index, zone_activation, active_zones, measuring>>
SensorChanges  == level' \in Levels \ {level} /\ UNCHANGED <<activations, zone_index, zone_activation, active_zones, measuring>>

\* isr() when the samples of a measurement are complete, or nothing was selected
Isr ==
    /\ IF measuring THEN Select(After(zone_index), Processed) ELSE Select(zone_index, active_zones)
    /\ UNCHANGED <<activations, level>>

Next == SetActivations \/ SensorChanges \/ Isr

Spec     == Init /\ [][Next]_vars
FairSpec == Spec /\ WF_vars(Isr)     \* a timer triggers the ADC

-----------------------------------------------------------------------------
TypeOK ==
    /\ activations \in Choices /\ level \in Levels
    /\ zone_index \in ZoneIds /\ zone_activation \in {"NEVER", "ON_OPEN", "ON_CLOSE"}
    /\ active_zones \subseteq ZoneIds /\ measuring \in BOOLEAN

Level(z, activation, l) == activations[z] = activation /\ level[z] = l

\* No zone is starved, whatever is done with the others meanwhile: one that keeps calling
\* comes to be active and stays so, one that keeps silent or disabled comes to be inactive,
\* and one whose current is between the thresholds does not flicker.
ZonesSettle ==
    \A z \in ZoneIds :
        LET OnlyIn  == <>[](z \in active_zones)
            OnlyOut == <>[](z \notin active_zones)
        IN  /\ <>[]Level(z, "ON_OPEN", "low") \/ <>[]Level(z, "ON_CLOSE", "high") => OnlyIn
            /\ <>[]Level(z, "ON_OPEN", "high") \/ <>[]Level(z, "ON_CLOSE", "low") => OnlyOut
            /\ <>[](activations[z] = "NEVER") => OnlyOut
            /\ <>[]Level(z, "ON_OPEN", "between") \/ <>[]Level(z, "ON_CLOSE", "between") => OnlyIn \/ OnlyOut
=============================================================================
