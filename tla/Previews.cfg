SPECIFICATION FairPreviewSpec
CONSTANTS
    Dirs <- MCDirs
    Has <- MCHas
    MaxRestarts = 1
    MaxCommands = 3
    MaxCrashes = 2
INVARIANTS NoServerIsLeftBehind ActivePreviewRuns
PROPERTY StartingEnds
CHECK_DEADLOCK FALSE
