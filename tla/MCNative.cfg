SPECIFICATION Spec
CONSTANTS
  Reads = {i1, i2}
  Writes = {w1}
  Questions = {q1}
  MaxRequests = 2
  MaximumToolCalls = 1
  MaximumInteractions = 1
  Initialize = Initialize
  Interrupts = {interrupt}
  Others = {turn}
  Requests = {r1}
  NoOne = NoOne
  Names = {n1, n2, n3}
  Wanted = {n1, n2}
  Enabled = {n1}
  Cursors = {c1, c2, c3}
  MaximumPages = 3
  MaxEntries = 2
INVARIANTS
  EffectsAreTrue
  AnswersAreTrue
  VerifiedMeansEnforced
PROPERTIES
  EndIsQuiet
  SessionIsSound
SYMMETRY Interchangeable
CHECK_DEADLOCK FALSE
