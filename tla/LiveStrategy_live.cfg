CONSTANTS
  Device = {d1, d2}
  Conn = {c1, c2}
  RequestId = {r1}
  NoRequestId = NoRequestId
  NoDevice = NoDevice
  Free = Free
  Settings = Settings
  MaxSession = 2
  LeaseTicks = 2
  Skew = 0
  Limits = {1}
  MaxVersion = 0
  MaxRetry = 1
SPECIFICATION LiveFairSpec
PROPERTIES
  LapsedIsReaped
  ClaimsEnd
INVARIANTS
  AnswersConsistent
