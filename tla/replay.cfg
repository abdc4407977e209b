CONSTANTS
  w1 = w1
  w2 = w2
  Ingesters = {"live"}
  Values = {1}
  LastRevision = 2
  Retained <- MCEmpty
  Extract <- MCPair
  Unlisted = {}
  Paired = TRUE
  MaxUpserts = 1
  MaxIngestCrashes = 0
  Processors = {"worker"}
  Batches = {"b1"}
  Replayers = {w1, w2}
  ReplayCanary = 1
  MaxAttempts = 2
  MaxClaims = 3
SPECIFICATION Spec
CHECK_DEADLOCK FALSE
PROPERTIES
  PauseIsFinal
  ReplaySparesAi
  ImplementsLease
SYMMETRY Successors
