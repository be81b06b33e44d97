SPECIFICATION SpecEarly
CONSTANTS
  User = {u1, u2, u3}
  Nick = {n1, n2, n3}
  ChanName = {c1}
  Fd = {4, 5, 6}
  Inputs = {"JOIN", "QUIT", "OPER", "MODE", "CLOSE"}
  Capacity = 3
  MaxChan = 2
  MaxSlot = 3
  MaxOper = 1
  NULL = NULL
  Early = {u1, u2, u3}
CHECK_DEADLOCK FALSE
SYMMETRY Symmetry
PROPERTIES ModeByMember
