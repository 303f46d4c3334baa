CONSTANTS
  Collectors = {p1, p2}
  Ifaces = {i1, i2}
  W = 2
  MaxTime = 3
  MaxBytes = 2
  MaxResets = 1
SPECIFICATION Spec
SYMMETRY CollectorSymmetry
INVARIANTS TypeOK RateExact RateTimely
