SPECIFICATION SpecEarly
CONSTANTS
  User = {u1, u2}
  Nick = {n1, n2}
  ChanName = {c1}
  Fd = {4, 5}
  Inputs = {"ACCEPT", "NICK", "USER", "JOIN", "QUIT", "PART"}
  Capacity = 2
  MaxChan = 1
  MaxSlot = 2
  MaxOper = 0
  NULL = NULL
  Early = {u1}
CHECK_DEADLOCK FALSE
PROPERTIES CommandReturns
INVARIANTS TypeOK
