CONSTANTS
    Clients <- AlarmAndGsm
    Ops <- AlarmAndGsmOps
    Priority <- AlarmAndGsmPriorities
    ChoiceTimeout = FALSE
    MaxIncidents = 1
SPECIFICATION FairAll

    
PROPERTIES
    MethodReturns
    
    
    ZonesSettle
