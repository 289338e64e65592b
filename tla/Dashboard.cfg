SPECIFICATION Spec
CONSTANTS
  j1 = j1
  j2 = j2
  opt = opt
  Jobs = {j1, j2}
  Urls = {"u1", "u2"}
  FormUrls = {"u1"}
  UrlChoices <- TwoJobs
  Opt = opt
  SnapshotLimit = 1
  MaxBackoff = 2
  MaxUpsets = 1
  MaxQueue = 1
  MaxListeners = 2
CHECK_DEADLOCK FALSE
INVARIANTS OneRowPerJob QuietStreamShowsEnds
