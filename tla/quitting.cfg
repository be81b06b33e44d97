SPECIFICATION SpecEarly
CONSTANTS
  User = {u1, u2, u3}
  Nick = {n1, n2, n3}
  ChanName = {c1, c2, c3}
  Fd = {4, 5, 6}
  Inputs = {"JOIN", "QUIT"}
  Capacity = 2
  MaxChan = 3
  MaxSlot = 3
  MaxOper = 0
  NULL = NULL
  Early = {u1, u2, u3}
CHECK_DEADLOCK FALSE
SYMMETRY Symmetry
INVARIANTS CountIsMembers QuitLeavesAll
PROPERTIES KeepsMembership
