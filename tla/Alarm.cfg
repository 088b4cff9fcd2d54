CONSTANT Phones = 1
SPECIFICATION FairSpec
INVARIANTS
    EverybodyFollowsState
    CallsFollowAlert
PROPERTIES
    OnlyDisarmingEndsAlert
    AlertAfterDelay
    
