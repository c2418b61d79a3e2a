\* Two attempts with every fault and crash, while others push and remove the worktree.
SPECIFICATION FairSpec
CONSTANTS
  LoopCount = 2
  Faults = {"git", "session", "design", "gh", "db", "crash"}
  Others = {"push", "remove"}
  MaxTurn = 1
  MaxProcess = 2
INVARIANTS
  OnlyVerifiedIsPushed
  NoOrphanSession
PROPERTIES
  PublishedHoldsAccepted
  CallEnds
CHECK_DEADLOCK FALSE
