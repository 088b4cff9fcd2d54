CONSTANTS
    Clients <- AllClients
    Ops <- AllOps
    Priority <- AllPriorities
    ChoiceTimeout = TRUE
    MaxIncidents = 2
    Writers = {"alarm", "gsm"}
    Size = 32
    BulkSize = 16
    MaxLength = 12
    Stamps <- NoDays
    Texts <- SomeTexts
    Calendar = calendar
    MaxLog = 3
    AlarmDelay = 2
    Numbers = {"a", "b", "c"}
    NoNumber = "none"
    MaxPhones = 3
SPECIFICATION AllSpec
INVARIANTS
    ExclusiveControl
    ResultFollowsCommand
    RecorderIsTold
    ControllerFollowsAlarm
    
PROPERTIES
    
    DroppedOnlyForFullFile
    
CHECK_DEADLOCK FALSE
