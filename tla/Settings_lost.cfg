CONSTANTS
    d = d
    s1 = s1
    s2 = s2
    Values <- SomeValues
    Default = d
    Absent = Absent
    Torn = Torn
SPECIFICATION Spec
PROPERTY RemovesPreviousOnlyWithCurrent
