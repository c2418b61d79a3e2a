\* Reviews, fixes, conflicts and verifications with every fault.
SPECIFICATION FairSpec
CONSTANTS
  Labels = {"none", "review_approved", "review_fix_failed"}
  Verifies = {TRUE, FALSE}
  Faults = {"git", "db", "save", "post", "close", "crash"}
  MaxJob = 4
  MaxStart = 2
INVARIANTS
  OneTrackedJob
  VerificationKeepsDecision
  CommandIsStopped
PROPERTIES
  DecisionIsPosted
  RunningSettles
CHECK_DEADLOCK FALSE
