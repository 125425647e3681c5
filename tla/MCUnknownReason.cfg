SPECIFICATION Spec
CONSTANTS
  Dialogs = {d1}
  QueueCapacity = 2
  MaxMessages = 1
  MaxRequests = 1
  MaxAttempts = 1
  MaxActions = 2
  MaxWaits = 0
  StorageLow = {FALSE}
  ControlCapacity = 2
  PolicyMayFail = FALSE
  StoreMayFail = FALSE
  FailureClasses = {"task"}
  OutputMayExceed = {FALSE}
  Features = {"stop"}
INVARIANTS
  UnknownReasonIsExact
CHECK_DEADLOCK FALSE
