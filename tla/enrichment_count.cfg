CONSTANTS
  Ingesters = {}
  Values = {1, 2}
  LastRevision = 1
  Retained <- MCRetained
  Extract <- MCRaised
  Unlisted = {}
  Paired = FALSE
  MaxUpserts = 0
  MaxIngestCrashes = 0
  Processors = {"worker", "request"}
  Batches = {"b1"}
  Replayers = {}
  ReplayCanary = 1
  MaxAttempts = 1
  MaxClaims = 0
SPECIFICATION EnrichSpec
CHECK_DEADLOCK FALSE
INVARIANT
  CountedOnce
