\* Two selections of any phase with every fault, while others push.
SPECIFICATION Spec
CONSTANTS
  LoopCount = 2
  Faults = {"git", "session", "gh", "db", "crash"}
  Others = {"push", "base", "remove"}
  MaxTurn = 1
  MaxSelection = 2
INVARIANTS
  ResolvedHoldsBase
  OnlyReviewedIsPushed
PROPERTIES
  TheirsIsKept
  PublishedHoldsReviewed
  LoopSpec
CHECK_DEADLOCK FALSE
