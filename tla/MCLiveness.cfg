SPECIFICATION FairSpec
CONSTANTS
  Dialogs = {d1}
  QueueCapacity = 2
  MaxMessages = 2
  MaxRequests = 2
  MaxAttempts = 2
  MaxActions = 3
  MaxWaits = 0
  StorageLow = {TRUE, FALSE}
  ControlCapacity = 2
  PolicyMayFail = FALSE
  StoreMayFail = FALSE
  FailureClasses = {"task"}
  OutputMayExceed = {FALSE}
  Features = {"cancel", "steer", "stop"}
PROPERTIES
  ExecutorProgress
CHECK_DEADLOCK FALSE
