SPECIFICATION FairSpec
CONSTANTS
  q1 = q1
  q2 = q2
  Resources = {q1, q2}
  Pages <- SmallPages
  BodyCap = 2
  ManifestCap = 1
  CANDIDATES_CAP = 1
  REQUEST_HEADERS_CAP = 1
  BLOB_CAP = 2
  BlobSizes = {0, 1, 3}
CHECK_DEADLOCK FALSE
INVARIANTS TypeOK BookkeepingBounded EarlyDrmIsReported NothingLeftArmed
PROPERTIES VerdictIsJustified CaptureEnds
