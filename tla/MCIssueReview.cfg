\* An issue with or without a label of each kind, every fault and crashes.
SPECIFICATION FairSpec
CONSTANTS
  Labels = {"none", "design_ready", "design_approved", "implementation_ready", "failed"}
  Faults = {"sync", "save", "output", "comment", "publish", "db", "crash"}
  MaxJob = 5
  MaxStart = 3
INVARIANTS
  OneTrackedJob
  ReviewedResultIsSaved
  ImplementationFollowsPostedDesign
  PullRequestHoldsArtifact
PROPERTIES
  RunningSettles
CHECK_DEADLOCK FALSE
