SPECIFICATION Spec
CONSTANTS
  Dialogs = {d1}
  QueueCapacity = 2
  MaxMessages = 2
  MaxRequests = 2
  MaxAttempts = 2
  MaxActions = 3
  MaxWaits = 1
  StorageLow = {FALSE}
  ControlCapacity = 2
  PolicyMayFail = TRUE
  StoreMayFail = FALSE
  FailureClasses = {"task", "policy"}
  OutputMayExceed = {TRUE, FALSE}
  Features = {"respond", "steer", "stop", "reconcile", "retry", "crash"}
INVARIANTS
  SteeredNeverStarted
  NothingIsStranded
  OverBudgetIsStopped
PROPERTIES
  RerunOnlyAfterSettled
  EndedStaysEnded
CHECK_DEADLOCK FALSE
