CONSTANTS
  NPages = 2
  MaxCommits = 3
  MaxBackups = 2
  MaxFaults = 2
SPECIFICATION Spec
INVARIANTS TypeOK QuietExact CleanStopComplete
