SPECIFICATION Spec
CONSTANTS
  PlanRuns = {p1, p2}
  TurnRuns = {t1}
  NoRun = NoRun
  MaxRefinementRounds = 1
  MaxVerificationAttempts = 2
  MaxDrops = 1
SYMMETRY RunSymmetry
INVARIANTS QueueIsTailOfRequests ReadySessionIsDrained RunStateFollowsSession ApproveShipsFrozenRevision
PROPERTIES OutcomeIsFinal KeepsRunLedger
CHECK_DEADLOCK FALSE
