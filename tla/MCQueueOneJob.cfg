\* One bulk member; a failed save, two commands and a restart against its workers.
CONSTANTS
  Jobs = {j1}
  Bulk = {j1}
  Workers = {w1, w2}
  NormalLimit = 1
  BulkLimit = 2
  InitialStates = {"Queued"}
  MaxCommands = 2
  MaxFaults = 1
  MaxCrashes = 1
SPECIFICATION Spec
SYMMETRY Symmetry
CHECK_DEADLOCK FALSE
INVARIANTS
  SlotHasOwner
  SlotDiscipline
  SingleWorker
PROPERTY
  RevivalIsKnown
