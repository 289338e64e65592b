SPECIFICATION FairSpec
CONSTANTS
  Sites <- SmallSites
  Blocked = {"private"}
  MAX_DEPTH = 5
  MAX_REDIRECTS = 5
  MAX_RETRIES = 3
CHECK_DEADLOCK FALSE
INVARIANTS TypeOK OutputIsPlaintext DrmIsNeverFetched
PROPERTIES StreamEnds
