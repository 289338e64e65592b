SPECIFICATION FairSpec
CONSTANTS
  j1 = j1
  j2 = j2
  opt = opt
  Jobs = {j1}
  Urls = {"u1", "u2"}
  FormUrls = {"u1"}
  UrlChoices <- OneJob
  Opt = opt
  SnapshotLimit = 1
  MaxBackoff = 2
  MaxUpsets = 3
  MaxQueue = 1
  MaxListeners = 2
CHECK_DEADLOCK FALSE
INVARIANTS TypeOK SubmitLockedWhileSent OpenStreamIsHeard QuietStreamShowsEnds
PROPERTIES StreamComesBack
