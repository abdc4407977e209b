\* A backfill page meets a deletion that is on file and not yet processed.
CONSTANTS
  Absent = Absent
  original = original
  Messages = {1}
  Revisions = {original}
  Originals = {original}
  Edits = {}
  Candidates = {original}
  ExportRevisions = {}
  SourceTime <- MCSourceTime
  Moment <- MCMoment
  Projections <- MCProjections
  LegacyRecords <- MCPublished
  Operators = {}
  Importers = {}
  MaxDataFailures = 1
  MaxQueue = 1
  MaxFaults = 0
  MaxRuns = 0
SPECIFICATION BackfillSpec
CHECK_DEADLOCK FALSE
INVARIANTS
  DeletionHidesListing
