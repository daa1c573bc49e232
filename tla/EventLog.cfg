SPECIFICATION MCSpec
CONSTANTS
  Clients = {c1, c2}
  CompactAfter = 2
  MaxEvents = 4
SYMMETRY ClientSymmetry
INVARIANTS SteadyPagesShowThePrefix NothingIsRepeated
CHECK_DEADLOCK FALSE
