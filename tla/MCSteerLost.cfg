SPECIFICATION Spec
CONSTANTS
  Dialogs = {d1}
  QueueCapacity = 2
  MaxMessages = 2
  MaxRequests = 2
  MaxAttempts = 2
  MaxActions = 3
  MaxWaits = 0
  StorageLow = {FALSE}
  ControlCapacity = 2
  PolicyMayFail = FALSE
  StoreMayFail = TRUE
  FailureClasses = {"task"}
  OutputMayExceed = {FALSE}
  Features = {"steer"}
INVARIANTS
  SteeredNeverStarted
CHECK_DEADLOCK FALSE
