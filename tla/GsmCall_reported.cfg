CONSTANTS
    Callers = {"known", "unknown"}
    MaxFaults = 0
SPECIFICATION Spec
INVARIANT EndIsReported
