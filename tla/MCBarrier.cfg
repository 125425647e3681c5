SPECIFICATION Spec
CONSTANTS
  Dialogs = {d1, d2}
  QueueCapacity = 2
  MaxMessages = 2
  MaxRequests = 2
  MaxAttempts = 2
  MaxActions = 2
  MaxWaits = 0
  StorageLow = {FALSE}
  ControlCapacity = 2
  PolicyMayFail = FALSE
  StoreMayFail = FALSE
  FailureClasses = {"task"}
  OutputMayExceed = {FALSE}
  Features = {"hold", "delete", "cancel", "stop", "settings", "auth", "create", "resume"}
INVARIANTS
  DeletedIsInert
  SwapIsExclusive
PROPERTIES
  StartIsFenced
  QuiescenceIsStable
SYMMETRY DialogSymmetry
CHECK_DEADLOCK FALSE
