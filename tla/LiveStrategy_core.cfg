CONSTANTS
  Device = {d1, d2, d3}
  Conn = {c1, c2}
  RequestId = {}
  NoRequestId = NoRequestId
  NoDevice = NoDevice
  Free = Free
  Settings = Settings
  MaxSession = 3
  LeaseTicks = 2
  Skew = 0
  Limits = {1, 2}
  MaxVersion = 3
  MaxRetry = 0
SPECIFICATION LiveSpec
SYMMETRY Symmetry
INVARIANTS LimitInv OneOpenPerDevice
PROPERTIES NeverRevived FinalStatusesFinal ChangesBumpVersion PreemptOldestOnly PromiseKept
