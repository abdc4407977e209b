\* The caption of the album is edited once.
CONSTANTS
  Listing = 1
  Photos = {2}
  Malformed = {}
  Rejected = {}
  Edited = {1}
  MaxRevision <- MCMaxRevision
  Runners = {"worker"}
  CanaryAssets = 9
  MaxFailures = 1
  MaxFaults = 0
  MaxCommands = 0
SPECIFICATION FairSpec
PROPERTIES
  GalleryCompletes
