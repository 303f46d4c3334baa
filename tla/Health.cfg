CONSTANTS
  Warning = 2
  Critical = 3
  CPUReadings <- MCCPUReadings
  MemoryReadings <- MCMemoryReadings
  DiskReadings <- MCDiskReadings
  MaxDisks = 2
  States = {"active", "failed"}
  TrackedLists <- MCTrackedLists
SPECIFICATION Spec
INVARIANTS TypeOK WorstShown BlindNotHealthy FeedFaithful
