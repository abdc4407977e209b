\* What the worker must get done, with a fault and edits in one second.
CONSTANTS
  Absent = Absent
  original = original
  edited = edited
  rival = rival
  export = export
  Messages = {1}
  Revisions = {edited, rival}
  Originals = {}
  Edits = {edited, rival}
  Candidates = {}
  ExportRevisions = {}
  SourceTime <- MCSourceTime
  Moment <- MCMoment
  Projections <- MCProjections
  LegacyRecords <- MCEdited
  Operators = {}
  Importers = {}
  MaxDataFailures = 1
  MaxQueue = 1
  MaxFaults = 1
  MaxRuns = 0
SPECIFICATION FairSpec
CHECK_DEADLOCK FALSE
PROPERTIES
  LandedSettles
  DeletionConverges
  ContentConverges
