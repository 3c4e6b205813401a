\* The server runs with CONSTRAINT; no statement fails of itself.
CONSTANTS
  Worker = {w1}
  Variants = {"ATOMIC"}
  CasMaxAttempts = 1
  RetryMax = 1
  Free = Free
  Tab = {tab}
  Bench = bench
  NoRunner = NoRunner
  Streams = {"CONSTRAINT", "NAIVE"}
  Default = "CONSTRAINT"
  MaxTrials = 1
  Concurrency = 2
  PoolSize = 2
  Menus = {{"CONSTRAINT", "NAIVE"}, {"INDEX"}}
  MaxBatches = 2
  MaxSwitches = 0
  MaxFaults = 0
SPECIFICATION MCSpec
INVARIANTS RestoredAfterwards
CHECK_DEADLOCK FALSE
