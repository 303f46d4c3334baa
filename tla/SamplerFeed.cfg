CONSTANTS
  Handlers = {h1}
  NSubjects = 2
  Statuses <- MCStatuses
  Retention = 1
  MaxTime = 3
  MaxClock = 6
  MaxFaults = 2
SPECIFICATION Spec
INVARIANTS TypeOK NoDegradedSample FeedChains FeedComplete
PROPERTIES ImplementsFeed MonotonicReads
