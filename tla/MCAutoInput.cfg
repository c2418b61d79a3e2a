\* Two waits and three lines, the end of the input among them.
SPECIFICATION FairInputSpec
CONSTANTS
  MaxLine = 3
  MaxWait = 2
INVARIANTS
  InputInvariant
PROPERTIES
  LinesAreHeard
CHECK_DEADLOCK FALSE
