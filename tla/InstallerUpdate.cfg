CONSTANTS
  Operators = {admin}
  Daily = daily
  MaxBuilds = 2
  MaxVersion = 2
  MaxRuns = 2
  MaxFaults = 0
SPECIFICATION Spec
INVARIANTS UpdateRestarts
CHECK_DEADLOCK FALSE
