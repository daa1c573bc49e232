SPECIFICATION MCFairSpec
CONSTANTS
  PlanRuns = {p1, p2}
  TurnRuns = {t1}
  NoRun = NoRun
  MaxRefinementRounds = 1
  MaxVerificationAttempts = 2
  MaxDrops = 0
PROPERTIES RunMakesProgress RequestIsAnswered
CHECK_DEADLOCK FALSE
