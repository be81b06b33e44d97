SPECIFICATION SpecEarly
CONSTANTS
  User = {u1, u2}
  Nick = {n1, n2}
  ChanName = {c1}
  Fd = {4, 5}
  Inputs = {"NICK", "USER", "ACCEPT"}
  Capacity = 2
  MaxChan = 1
  MaxSlot = 2
  MaxOper = 0
  NULL = NULL
  Early = {}
CHECK_DEADLOCK FALSE
SYMMETRY Symmetry
INVARIANTS UniqueNickname
