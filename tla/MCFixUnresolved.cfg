\* A conflict that git cannot write markers for.
SPECIFICATION Spec
CONSTANTS
  LoopCount = 1
  Faults = {}
  Others = {"base"}
  MaxTurn = 1
  MaxSelection = 1
PROPERTIES
  UnresolvedIsNotPushed
CHECK_DEADLOCK FALSE
