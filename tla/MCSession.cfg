\* Sessions of both providers, with every fault.
SPECIFICATION FairSpec
CONSTANTS
  Providers = {"codex", "copilot"}
  Capacity = 1
  Pipe = 1
  MaxCall = 5
  MaxSaid = 1
  MaxNotes = 2
  Faults = {"refuse", "die", "line", "cancel"}
INVARIANTS
  NobodyWaitsInVain
  ResultIsOfTurn
PROPERTY
  CallReturns
CHECK_DEADLOCK FALSE
