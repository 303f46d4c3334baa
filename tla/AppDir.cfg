CONSTANTS
  Commands = {c1, c2, c3}
  Ports = {1, 2}
  DefaultPort = 1
  Users = {u1}
  Passwords = {p1}
  MaxFaults = 1
SPECIFICATION Spec
CHECK_DEADLOCK FALSE
SYMMETRY Symmetric
INVARIANTS TypeOK SettingsKept ThresholdsSane
