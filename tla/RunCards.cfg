SPECIFICATION FairCardsSpec
CONSTANTS
    Chunks = 2
    MaxAttempts = 2
    MaxEvents = 3
    MaxCardFaults = 3
INVARIANTS ChunksArriveOnce RowIsKeptUntilPosted
PROPERTIES NotedResponseIsPosted
CHECK_DEADLOCK FALSE
