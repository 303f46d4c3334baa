CONSTANTS
  Handlers = {h1}
  NSubjects = 1
  Statuses <- MCStatuses
  Retention = 1
  MaxTime = 3
  MaxClock = 3
  MaxFaults = 2
SPECIFICATION FairSpec
PROPERTIES ComesUp TickServed OldRowsGo
