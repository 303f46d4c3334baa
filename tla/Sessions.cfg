CONSTANTS
  Requests = {r1, r2}
  TTL = 2
  MaxTime = 4
  MaxSessions = 2
  MaxFaults = 2
SPECIFICATION FairSpec
INVARIANTS TypeOK AuditTruthful
PROPERTIES RowsOnlyAge EndedOnlyByLogout ImplementsStore ExpiredGo
