\* Two jobs that compete for one slot, and one command.
CONSTANTS
  Jobs = {j1, j2}
  Bulk = {}
  Workers = {w1, w2}
  NormalLimit = 1
  BulkLimit = 1
  InitialStates = {"Queued"}
  MaxCommands = 1
  MaxFaults = 0
  MaxCrashes = 0
SPECIFICATION Spec
SYMMETRY Symmetry
CHECK_DEADLOCK FALSE
INVARIANTS
  WorkersWithinLimit
  NoLostWake
