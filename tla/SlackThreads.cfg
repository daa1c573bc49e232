SPECIFICATION Spec
CONSTANTS
    PageSize = 2
    MaxMessages = 3
    MaxRetries = 1
    MaxFaults = 1
INVARIANTS OneSessionIsAsked SubmittedOnce ContextIsComplete MentionIsAnswered
CHECK_DEADLOCK FALSE
