SPECIFICATION Spec
CONSTANTS
  Char <- MCChar
  NUL = "nul"
  SP = "sp"
  CR = "cr"
  LF = "lf"
  NULL = NULL
  UNSET = UNSET
  Streams <- MCStreams
  Buffer = 3
  Words <- MCWords
  Texts <- MCTexts
INVARIANTS LinesAsSent
PROPERTIES WildExactly MeaningKept
CHECK_DEADLOCK FALSE
