CONSTANTS
    Clients <- AlarmOnly
    Ops <- AlarmOps
    Priority <- AlarmPriorities
    ChoiceTimeout = TRUE
    MaxIncidents = 1
SPECIFICATION FairSpec
PROPERTIES
    ControlIsObtained
CHECK_DEADLOCK FALSE
