SPECIFICATION FairSpec
CONSTANTS
  r1 = r1
  r2 = r2
  Requests = {r1, r2}
  Ndjson = {r1}
  MaxConcurrency = 1
  MaxLines = 1
  Codes = {"network_error"}
CHECK_DEADLOCK FALSE
INVARIANTS TypeOK SlotAccounting OneOutcome StoppedOrLeaving StreamWellFormed FailureLeavesNoFile
PROPERTIES EveryRequestConcludes NothingOutlivesTheRequest
