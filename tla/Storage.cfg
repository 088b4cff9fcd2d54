CONSTANTS
    d = d
    s1 = s1
    s2 = s2
    Values <- SomeValues
    Default = d
    Absent = Absent
    Torn = Torn
    MaxBlocks = 2
    DebounceSamples = 2
    MaxPolls = 2
    MaxPages = 3
    NetworkTimes <- SomeTimes
    Shifts = {0, 1}
    StartTimes <- Starts
    MaxTicks = 3
    Coincidences = {}
SPECIFICATION FairAll
INVARIANTS
    SettingsAreKept
    
    OperationIsWhole
    
PROPERTIES
    
    OperationEnds
    CallsEnd
