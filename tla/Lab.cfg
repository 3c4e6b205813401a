CONSTANTS
  Worker = {w1, w2, w3}
  Variants = {"NAIVE_RMW", "ATOMIC", "LOCKED", "CAS"}
  CasMaxAttempts = 3
  RetryMax = 1
  Free = Free
  Tab = {tab}
  Bench = bench
  NoRunner = NoRunner
  Streams = {"CONSTRAINT", "TRIGGER"}
  Default = "NAIVE"
  MaxTrials = 1
  Concurrency = 2
  PoolSize = 2
  Menus = {{"CONSTRAINT", "TRIGGER"}, {"INDEX"}, {"NAIVE_RMW"}, {"LOCKED"}, {"ATOMIC", "CAS"}}
  MaxBatches = 2
  MaxSwitches = 1
  MaxFaults = 1
SPECIFICATION MCSpec
INVARIANTS
  LossIsUnanswered
  CasNeverGivesUp
  TrialsUndisturbed
  ArtifactsRestored
  IndexesRestored
CHECK_DEADLOCK FALSE
PROPERTIES
  LockIsFreed
