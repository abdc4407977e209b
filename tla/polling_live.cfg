\* What the traversal must get done.
CONSTANTS
  Pollers = {1}
  MaxId = 2
  Overlap = 0
  MaxMessages = 2
  ForwardCap = 1
  SweepSize = 1
  MaxDefers = 1
  MaxCrashes = 1
SPECIFICATION FairSpec
PROPERTIES
  PollingReachesHead
  StoredIdsAreSwept
