SPECIFICATION Spec
CONSTANTS
  Jobs = {j1}
  FailedIds = {f1, f2}
  Files = {m1, m2}
  Requests = {r1, r2}
  Workers = {w1, w2}
  None = None
  UserOps = {"retry", "replay"}
  Faults = {"soft_limit"}
  MaxFaults = 1
  MaxMsgs = 1
  MaxRetries = 0
  CategoryCaps = {0}
  BeatTasks = {"cleanup_expired_jobs"}
CHECK_DEADLOCK FALSE
SYMMETRY Symmetric
INVARIANTS FailedHasDlqRow CompletedHasFile
