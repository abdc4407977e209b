\* The worker and an operator's apply, with a fault and two edits of one second.
CONSTANTS
  Absent = Absent
  original = original
  edited = edited
  rival = rival
  export = export
  Messages = {1}
  Revisions = {edited, rival}
  Originals = {}
  Edits = {edited, rival}
  Candidates = {edited}
  ExportRevisions = {}
  SourceTime <- MCSourceTime
  Moment <- MCMoment
  Projections <- MCProjections
  LegacyRecords <- MCEdited
  Operators = {"operator"}
  Importers = {}
  MaxDataFailures = 1
  MaxQueue = 1
  MaxFaults = 1
  MaxRuns = 1
SPECIFICATION Spec
CHECK_DEADLOCK FALSE
INVARIANTS
  AcknowledgedInv
  AppliedCoversReceipts
  BudgetHolds
PROPERTIES
  TerminalIsFinal
  ImplementsHistory
