SPECIFICATION FairSpec
CONSTANTS
  i1 = i1
  i2 = i2
  c1 = c1
  c2 = c2
  c3 = c3
  Instances = {i1}
  Calls = {c1, c2, c3}
  Home <- OneProcess
  UseRedis = FALSE
  failure_threshold = 2
  success_threshold = 2
  half_open_max_calls = 2
  MaxCancels = 2
  KeysExpire = FALSE
  MaxCredit = 2
  NoCall = NoCall
CHECK_DEADLOCK FALSE
INVARIANTS TypeOK NoSlotLeak
PROPERTIES BreakerRecovers
