SPECIFICATION Spec
CONSTANTS
  Char = {x, SP}
  SP = SP
  NUL = NUL
  NULL = NULL
  Limits <- MCLimits
  MAX_PREALLOC = 3
  SLOTS = 2
  StaticBuf = 2
  MaxText = 6
  Pieces <- MCPieces
INVARIANTS HeaderTrue SplitWhole
PROPERTIES KeepsText
