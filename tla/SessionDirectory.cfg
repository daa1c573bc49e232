SPECIFICATION Spec
CONSTANTS
    r1 = r1
    r2 = r2
    Requests <- MCRequests
    NoRequest = NoRequest
    Keys = {k1}
    NoKey = NoKey
    Fields <- MCFields
    Attempts = 2
    Conflicts = 2
    MaxTime = 2
    MaxUpdates <- MCMaxUpdates
    MaxFaults = 2
INVARIANTS OneSessionPerKey DirectoryCatchesUp
PROPERTIES NoOldValueReturns
CHECK_DEADLOCK FALSE
