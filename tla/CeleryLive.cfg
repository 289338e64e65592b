SPECIFICATION FairSpec
CONSTANTS
  Jobs = {j1}
  FailedIds = {f1, f2}
  Files = {m1, m2, m3}
  Requests = {r1}
  Workers = {w1, w2}
  None = None
  UserOps = {"web_delete"}
  Faults = {"lost", "abort", "cancel", "broker", "request", "unlink"}
  MaxFaults = 2
  MaxMsgs = 1
  MaxRetries = 1
  CategoryCaps = {0, 5}
  BeatTasks = {"cleanup_expired_jobs"}
CHECK_DEADLOCK FALSE
INVARIANTS OrphansAreLosses
PROPERTIES PendingIsPickedUp EveryJobSettles
