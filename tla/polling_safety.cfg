\* Two overlapping pollers, late observers, expired leases.
CONSTANTS
  Pollers = {1, 2}
  MaxId = 2
  Overlap = 0
  MaxMessages = 2
  ForwardCap = 1
  SweepSize = 1
  MaxDefers = 1
  MaxCrashes = 0
SPECIFICATION Spec
INVARIANTS
  PollingInv
PROPERTIES
  HistoryCertified
