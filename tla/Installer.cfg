CONSTANTS
  Operators = {admin, root}
  Daily = daily
  MaxBuilds = 2
  MaxVersion = 2
  MaxRuns = 2
  MaxFaults = 1
SPECIFICATION FairSpec
INVARIANTS TypeOK OnlyAnnounced UnitsHaveTargets
PROPERTIES UpdateInstalls
CHECK_DEADLOCK FALSE
