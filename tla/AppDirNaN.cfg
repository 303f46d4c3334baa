CONSTANTS
  Commands = {c1, c2}
  Ports = {1}
  DefaultPort = 1
  Users = {u1, u2}
  Passwords = {p1}
  MaxFaults = 0
SPECIFICATION Spec
CHECK_DEADLOCK FALSE
INVARIANTS ThresholdsOrdered
