\* An overlap as large as the forward page, which the settings allow.
CONSTANTS
  Pollers = {1}
  MaxId = 3
  Overlap = 2
  MaxMessages = 2
  ForwardCap = 4
  SweepSize = 1
  MaxDefers = 0
  MaxCrashes = 0
SPECIFICATION FairSpec
PROPERTIES
  PollingReachesHead
