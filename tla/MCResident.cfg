\* Both providers, every fault, jobs of both kinds.
SPECIFICATION FairSpec
CONSTANTS
  Capacity = 1
  Providers = {"codex", "copilot"}
  Models = {m1, m2}
  Faults = {"prepare", "session", "model", "die"}
  MaxJob = 3
PROPERTIES
  ServiceSpec
  NotClosedInTurn
  EndReturns
  InputComesBack
CHECK_DEADLOCK FALSE
