\* One job under fairness; one command and one restart of the application.
CONSTANTS
  Jobs = {j1}
  Bulk = {j1}
  Workers = {w1, w2}
  NormalLimit = 1
  BulkLimit = 1
  InitialStates = {"Queued"}
  MaxCommands = 1
  MaxFaults = 0
  MaxCrashes = 1
SPECIFICATION FairSpec
CHECK_DEADLOCK FALSE
PROPERTIES
  SchedulableIsServed
  InterruptedWorkersStop
  CleanupEnds
