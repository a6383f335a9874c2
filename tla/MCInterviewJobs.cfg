SPECIFICATION MCSpec
CONSTANTS
  Job = {j1, j2}
  NoJob = NoJob
  Worker = {w1, w2}
  MaxAttempts = 2
  MaxReportAttempts = 2
  MaxSegments = 2
SYMMETRY Symmetry
INVARIANTS EndingHasJob ReportIsWhole
PROPERTIES Implements
CHECK_DEADLOCK FALSE
