\* Worker and successor, who serve the owner too, two messages, one budget of a day.
CONSTANTS
  worker = worker
  successor = successor
  r1 = r1
  r2 = r2
  q1 = q1
  e1 = e1
  e2 = e2
  Listed = {r2}
  Enriching <- MCEnriching
  Workers = {worker, successor}
  Owners = {worker, successor}
  Callers = {worker, successor}
  Revisions = {r1, r2}
  Requests = {q1}
  Keys = {r1, r2, q1, e1, e2}
  Calibrated = {r1, r2}
  CanarySize = 1
  Ceiling = 2
  Limit = 2
  Outcomes = {"succeeded"}
  Legacy = 1
  DayLength = 2
  MaxTime = 2
  Aging = {r1}
  AutoApply = TRUE
  MaxUpsets = 1
SPECIFICATION Spec
SYMMETRY Interchangeable
CHECK_DEADLOCK FALSE
INVARIANTS
  AutomaticInv
  DailyLimit
  CallsApart
  NeverResubmitted
PROPERTIES
  ImplementsLease
