\* A batch writer beside the worker, over records older than the archive.
CONSTANTS
  Absent = Absent
  original = original
  edited = edited
  rival = rival
  export = export
  Messages = {1}
  Revisions = {original, edited, export}
  Originals = {original}
  Edits = {edited}
  Candidates = {edited, export}
  ExportRevisions = {export}
  SourceTime <- MCSourceTime
  Moment <- MCMoment
  Projections <- MCProjections
  LegacyRecords <- MCLegacy
  Operators = {}
  Importers = {"importer"}
  MaxDataFailures = 1
  MaxQueue = 1
  MaxFaults = 0
  MaxRuns = 1
SPECIFICATION Spec
CHECK_DEADLOCK FALSE
INVARIANTS
  ReceiptEvidence
  DeletedStaysHidden
PROPERTIES
  DeletionFreezesContent
  SourceOrderKept
