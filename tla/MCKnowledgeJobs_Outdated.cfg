SPECIFICATION Spec
CONSTANTS
  Job = {j1, j2}
  NoJob = NoJob
  Worker = {w1, w2}
  TargetType = {"file", "remote", "connection"}
  Content = {c1, c2}
  MaxAttempts = 2
  MaxVersion = 2
  MaxEdits = 1
SYMMETRY Symmetry
PROPERTY OutdatedNeverOverwrites
CHECK_DEADLOCK FALSE
