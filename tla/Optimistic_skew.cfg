CONSTANTS
  Device = {d1, d2}
  Conn = {c1, c2}
  RequestId = {}
  NoRequestId = NoRequestId
  NoDevice = NoDevice
  Free = Free
  Settings = Settings
  MaxSession = 2
  LeaseTicks = 2
  Skew = 1
  Limits = {1, 2}
  MaxVersion = 0
  MaxRetry = 0
SPECIFICATION Spec
INVARIANTS LimitRespected
