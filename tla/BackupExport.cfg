CONSTANTS
  NPages = 2
  MaxCommits = 3
  MaxBackups = 2
  MaxFaults = 0
SPECIFICATION Spec
INVARIANT ContainsDatabase
