SPECIFICATION FairSpec
CONSTANTS
  Commands = {c1, c2}
  StashCapacity = 1
INVARIANTS
  AuthorizationIsEarned
  NativeOncePerCommand
PROPERTIES
  NotRevived
  PendingEnds
