\* Two invocations in one directory, the second with legacy data.
SPECIFICATION Spec
CONSTANTS
  Objectives <- OneObjective
  MaxRuns = 2
  LegacyRuns = {2}
  MaxLosses = 2
  Depth = 2
  Absent = Absent
INVARIANTS FilesWhole NewerFirst ExitIsDurable TemporaryIsRemoved
CHECK_DEADLOCK FALSE
