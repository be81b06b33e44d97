SPECIFICATION SpecEarly
CONSTANTS
  User = {u1, u2, u3}
  Nick = {n1, n2}
  ChanName = {}
  Fd = {4, 5, 6}
  Inputs = {"ACCEPT", "NICK", "USER", "QUIT", "CLOSE", "EXHAUST"}
  Capacity = 1
  MaxChan = 0
  MaxSlot = 1
  MaxOper = 0
  NULL = NULL
  Early = {}
CHECK_DEADLOCK FALSE
SYMMETRY Symmetry
INVARIANTS CountersExact NoDoubleInsert RegisteredFindable
