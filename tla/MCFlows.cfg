SPECIFICATION Spec
CONSTANTS
  Initialize = Initialize
  Interrupts = {interrupt}
  Others = {turn}
  Requests = {}
  NoOne = NoOne
  Messages = {m1, m2}
  MaximumQueuedEvents = 3
  MaximumQueuedDelta = 2
  MaxPushed = 6
  Reads = {}
  Writes = {w1}
  Questions = {}
  MaxRequests = 1
  MaximumToolCalls = 1
  MaximumInteractions = 1
  Dialogs = {d1}
  None = None
  Limit = 2
  Budget = 3
  Sizes = {1, 3}
  MaxEvents = 3
  MaxDrops = 1
  MaxCrashes = 1
  Ids = {c1}
  Disks = {"ample"}
  Undecided = Undecided
  Nothing = Nothing
  Dialog = Dialog
  MaxHolds = 1
  Home = d1
  MaxRows = 3
  MaxVersion = 3
  Bindings = {b1}
  ExportLimit = 4
  ExportBudget = 2
  SourceChunk = 4
  ReplicaChunk = 2
  RuneCut = 1
  TextSizes = {3, 6}
  MaxMessages = 2
  MaxFacts = 3
  MaxAssets = 0
  MaxLost = 1
INVARIANTS
  StreamIsSound
PROPERTIES
  StreamKeepsPromises
  FeedIsSound
  EverythingArrives
CHECK_DEADLOCK FALSE
