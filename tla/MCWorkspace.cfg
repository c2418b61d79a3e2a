\* Two processes and one config command. With an unreadable file no process starts
\* and no command but init runs, whose number is bounded: the system may stop.
SPECIFICATION Spec
CONSTANTS
  P1 = P1
  P2 = P2
  C1 = C1
  C2 = C2
  Processes <- MCProcesses
  Edits <- MCEdits
  Commands <- MCCommands
  Faults <- MCFaults
  MaxChange = 2
SYMMETRY MCSymmetry
INVARIANTS
  ChangesAreKept
  FileHoldsWhatWasTold
PROPERTIES
  JobHasItsChanges
CHECK_DEADLOCK FALSE
