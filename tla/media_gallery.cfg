\* Two runners, an album stored in any order, an unusable photo, one fault.
CONSTANTS
  Listing = 1
  Photos = {2}
  Malformed = {1}
  Rejected = {1}
  Edited = {2}
  MaxRevision <- MCMaxRevision
  Runners = {"worker", "successor"}
  CanaryAssets = 2
  MaxFailures = 2
  MaxFaults = 1
  MaxCommands = 1
SPECIFICATION FairSpec
INVARIANTS
  MediaInv
  RunningIsProven
  CompletedIsPublished
PROPERTIES
  ImplementsLease
  GalleryCompletes
  WorkSettles
