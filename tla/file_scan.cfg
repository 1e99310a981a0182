SPECIFICATION Spec
CONSTANTS
  NoLimit = NoLimit
  Unreadable = Unreadable
  Files <- MCFiles
  Layouts <- MCLayouts
  Projections <- MCProjections
  Limits <- MCLimits
  BatchSize = 2
  Wrap = 16
INVARIANTS
  ScanIsExact
  FailsForCause
  ColumnsDisjoint
PROPERTY ScanEnds
\* a scan ends
CHECK_DEADLOCK FALSE
