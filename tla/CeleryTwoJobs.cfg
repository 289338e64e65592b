SPECIFICATION Spec
CONSTANTS
  Jobs = {j1, j2}
  FailedIds = {f1, f2}
  Files = {m1, m2}
  Requests = {r1}
  Workers = {w1, w2}
  None = None
  UserOps = {"replay", "delete"}
  Faults = {"lost"}
  MaxFaults = 2
  MaxMsgs = 1
  MaxRetries = 0
  CategoryCaps = {0}
  BeatTasks = {}
CHECK_DEADLOCK FALSE
SYMMETRY Symmetric
INVARIANTS NoDoubleProcessing
PROPERTIES DeadLetterReplayed
