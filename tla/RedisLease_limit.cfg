CONSTANTS
  Device = {d1, d2}
  Conn = {c1, c2}
  RequestId = {r1}
  NoRequestId = NoRequestId
  NoDevice = NoDevice
  Free = Free
  Settings = Settings
  MaxSession = 2
  LeaseTicks = 1
  Skew = 0
  Limits = {1}
  MaxVersion = 0
  MaxRetry = 1
  MaxCalls = 1
  Several = {"REDIS_LEASE"}
  Briefly = {}
  Tried = {"REDIS_LEASE"}
SPECIFICATION StrategiesSpec
INVARIANT
  LimitRespected
SYMMETRY Symmetry
