SPECIFICATION MCSpec
CONSTANTS
  Participants = {p1, p2}
  MaxRefinementRounds = 2
  MaxRuns = 2
  MaxThreads = 3
  MaxReplies = 1
SYMMETRY ParticipantSymmetry
INVARIANTS NoFeedbackIsLostUntilLatePlan PagesShowTheTables
CHECK_DEADLOCK FALSE
