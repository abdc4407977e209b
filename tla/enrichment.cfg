\* Two ingestions and two processors, a listed edit and one that is no listing, a crash.
CONSTANTS
  live = live
  import = import
  worker = worker
  request = request
  Ingesters = {live, import}
  Values = {1, 2}
  LastRevision = 3
  Retained <- MCRetained
  Extract <- MCRaised
  Unlisted = {3}
  Paired = FALSE
  MaxUpserts = 2
  MaxIngestCrashes = 1
  Processors = {worker, request}
  Batches = {"b1"}
  Replayers = {}
  ReplayCanary = 1
  MaxAttempts = 1
  MaxClaims = 0
SPECIFICATION EnrichSpec
CHECK_DEADLOCK FALSE
INVARIANTS
  CurationInv
  AiValuesHold
  AiValuesCurrent
PROPERTIES
  FilledOnce
SYMMETRY Interchangeable
