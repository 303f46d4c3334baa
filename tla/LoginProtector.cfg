CONSTANTS
  Requests = {r1, r2}
  Addresses = {a1, a2}
  MaxFails = 2
  Window = 4
  Lockout = 4
  MaxTime = 8
  MaxRestarts = 1
SPECIFICATION FairSpec
INVARIANTS TypeOK CountBounded GuessesBounded LockEarned
PROPERTIES LockKept Unlocks
CHECK_DEADLOCK FALSE
