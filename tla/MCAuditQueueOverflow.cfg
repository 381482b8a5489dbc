\* Entries that arrive while the spool is replayed.
CONSTANTS
  e1 = e1
  e2 = e2
  e3 = e3
  e4 = e4
  Entries <- ThreeEntries
  MaxQueue = 1
  BatchSize = 1
  MaxAttempts = 2
  MaxCrashes = 0
  MaxUnclear = 0
  QuietReplay = FALSE
SPECIFICATION Spec
PROPERTY SpoolSurvives
CHECK_DEADLOCK FALSE
