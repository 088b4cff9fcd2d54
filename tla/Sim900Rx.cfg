CONSTANTS
    MaxMessages = 2
    Coincidences = {}
    Size = 8
SPECIFICATION FairAll
INVARIANTS
    
    ReadsWhatWasReceived
PROPERTIES
    
    
    CommandEnds
