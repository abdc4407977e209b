CONSTANTS
  Ingesters = {"live"}
  Values = {1, 2}
  LastRevision = 2
  Retained <- MCRetained
  Extract <- MCRaised
  Unlisted = {2}
  Paired = FALSE
  MaxUpserts = 3
  MaxIngestCrashes = 0
  Processors = {"worker"}
  Batches = {"b1"}
  Replayers = {}
  ReplayCanary = 1
  MaxAttempts = 1
  MaxClaims = 0
SPECIFICATION EnrichSpec
CHECK_DEADLOCK FALSE
INVARIANT
  StaleNeverServed
