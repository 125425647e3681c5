SPECIFICATION PartsSpec
CONSTANTS
  MaxAttempts = 3
  MaxSeq = 2
  Policies = {p1, p2}
  MaxProcesses = 3
  MaxFaults = 1
  MaxCrashes = 1
  Commands = {k1, k2}
  Configs = {x, y}
  Base = base
  MaxRevision = 2
INVARIANTS
  MappingIsTrue
  ReadyRunsApplied
  CommandAppliesOnce
PROPERTIES
  DialogIsStable
  DispatchEnds
  OperationEnds
CHECK_DEADLOCK FALSE
