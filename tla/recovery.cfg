\* The worker and an operator drain, a malformed row, a pause or a resumption, a crash.
CONSTANTS
  r1 = r1
  r2 = r2
  r3 = r3
  bad = bad
  Rows = {r1, bad}
  Malformed = {bad}
  worker = worker
  operator = operator
  Drainers = {worker, operator}
  BatchSize = 1
  CanarySize = 1
  MaxFailures = 2
  MaxCommands = 1
  MaxCrashes = 1
SPECIFICATION FairSpec
INVARIANTS
  RecoveryInv
PROPERTIES
  RowsSettle
