SPECIFICATION MCSpec
CONSTANTS
  ResumeAttempts = 3
  MaxQueued = 2
  MaxFaults = 3
INVARIANTS RunIsOnRunningSandboxUntilEviction LostSocketIsNoticedUntilEviction LatestPreviewCommandWinsUntilEviction
PROPERTIES QueuedRunIsServedUnlessEvicted EndedSessionFreesSandboxUnlessEvicted SleeperIsLeftAlone
