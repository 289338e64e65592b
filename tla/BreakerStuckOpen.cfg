SPECIFICATION FairSpec
CONSTANTS
  i1 = i1
  i2 = i2
  c1 = c1
  c2 = c2
  c3 = c3
  Instances = {i1}
  Calls = {c1, c2, c3}
  Home <- OneProcess
  UseRedis = TRUE
  failure_threshold = 1
  success_threshold = 1
  half_open_max_calls = 1
  MaxCancels = 0
  KeysExpire = TRUE
  MaxCredit = 2
  NoCall = NoCall
CHECK_DEADLOCK FALSE
PROPERTIES BreakerRecovers
