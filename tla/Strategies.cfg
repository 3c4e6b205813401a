CONSTANTS
  Device = {d1, d2}
  Conn = {c1, c2}
  RequestId = {r1}
  NoRequestId = NoRequestId
  NoDevice = NoDevice
  Free = Free
  Settings = Settings
  MaxSession = 3
  LeaseTicks = 1
  Skew = 0
  Limits = {1, 2}
  MaxVersion = 0
  MaxRetry = 1
  MaxCalls = 1
  Several = {"REDIS_LEASE"}
  Briefly = {"NAIVE", "TXN_RR", "REDIS_LEASE"}
  Tried = {"NAIVE", "TXN_RR", "SERIALIZABLE", "CONSTRAINT", "TRIGGER", "REDIS_LEASE"}
SPECIFICATION StrategiesSpec
INVARIANTS
  
  OneSlotEach
PROPERTIES
  VersionsFollow
SYMMETRY Symmetry
