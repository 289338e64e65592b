SPECIFICATION Spec
CONSTANTS
  Jobs = {j1}
  FailedIds = {f1}
  Files = {m1, m2}
  Requests = {r1}
  Workers = {w1, w2}
  None = None
  UserOps = {"delete", "retry"}
  Faults = {"lost", "abort", "cancel", "broker", "request"}
  MaxFaults = 1
  MaxMsgs = 2
  MaxRetries = 2
  CategoryCaps = {0, 5}
  BeatTasks = {"cleanup_expired_jobs", "cleanup_dlq"}
CHECK_DEADLOCK FALSE
SYMMETRY Symmetric
INVARIANTS TypeOK NoDoubleProcessing
PROPERTIES AttemptsNeverRefunded ImplementsLifecycle
