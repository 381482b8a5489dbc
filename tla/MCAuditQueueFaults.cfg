\* Failures, unclear answers, a crash and restarts, with a spool that is not
\* appended to while it is replayed.
CONSTANTS
  e1 = e1
  e2 = e2
  e3 = e3
  e4 = e4
  Entries <- FourEntries
  MaxQueue = 2
  BatchSize = 1
  MaxAttempts = 2
  MaxCrashes = 1
  MaxUnclear = 1
  QuietReplay = TRUE
SPECIFICATION Spec
INVARIANTS TypeOK NoDuplicates SpoolInSight
PROPERTIES ImplementsAuditLog BacklogDrains ShutdownEnds
CHECK_DEADLOCK FALSE
