CONSTANTS
    w1 = w1
    w2 = w2
    calendar = calendar
    Calendar = calendar
    Writers <- Two
    Size = 32
    BulkSize = 16
    MaxLength = 16
    Stamps <- AfterADay
    Texts <- SomeTexts
    Coincidences = {}
SPECIFICATION Spec
INVARIANT WritesWithinSlot
