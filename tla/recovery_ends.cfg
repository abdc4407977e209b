\* A drainer that dies between its last acknowledgement and finish_batch.
CONSTANTS
  r1 = r1
  r2 = r2
  r3 = r3
  bad = bad
  Rows = {r1, r2}
  Malformed = {}
  worker = worker
  operator = operator
  Drainers = {worker}
  BatchSize = 1
  CanarySize = 2
  MaxFailures = 2
  MaxCommands = 0
  MaxCrashes = 1
SPECIFICATION FairSpec
PROPERTIES
  CanaryEnds
