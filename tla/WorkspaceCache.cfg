SPECIFICATION FairCacheSpec
CONSTANTS
    Sessions = {1, 2}
    Heads <- MCHeads
    FirstHead <- MCFirstHead
    NoHead = NoHead
    MaxAttempts = 2
    MaxCacheFaults = 2
INVARIANTS ReadyMeansInstalled RowsAreAccountedFor
PROPERTIES JobFinishes
CHECK_DEADLOCK FALSE
