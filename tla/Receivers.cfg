\* Lists of up to three of two addresses and of two ports.
SPECIFICATION Spec
CONSTANTS
  Addresses = {a1, a2}
  Ports = {p1, p2}
  LOCALHOST = localhost
  MaxLength = 3
INVARIANTS
  ListensToAll
CHECK_DEADLOCK FALSE
