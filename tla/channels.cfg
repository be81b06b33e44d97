SPECIFICATION SpecEarly
CONSTANTS
  User = {u1, u2}
  Nick = {n1, n2}
  ChanName = {c1, c2}
  Fd = {4, 5}
  Inputs = {"CLOSE", "OVERWRITE", "QUIT", "JOIN", "REJOIN", "NOTICE", "PART", "LIST"}
  Capacity = 2
  MaxChan = 2
  MaxSlot = 2
  MaxOper = 1
  NULL = NULL
  Early = {u1, u2}
CHECK_DEADLOCK FALSE
SYMMETRY Symmetry
INVARIANTS UniqueChannelName UnlinkedEmpty
CONSTRAINT Followed
