SPECIFICATION SpecEarly
CONSTANTS
  User = {u1, u2, u3}
  Nick = {n1, n2,n3}
  ChanName = {c1}
  Fd = {4, 5}
  Inputs = {"JOIN", "QUIT", "MODE","NICK","USER","ACCEPT"}
  Capacity = 2
  MaxChan = 1
  MaxSlot = 2
  MaxOper = 0
  NULL = NULL
  Early = {u1,u2}
CHECK_DEADLOCK FALSE
PROPERTIES FounderOrOperator
