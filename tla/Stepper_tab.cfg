CONSTANTS
  Loadable = {"CLASSIC_DEADLOCK", "ORDERED_LOCKING"}
  MaxLoads = 2
  MaxKills = 1
  Overlap = FALSE
SPECIFICATION FairSpec
\* Both scripts may be at their end, and nothing left to load.
CHECK_DEADLOCK FALSE
INVARIANTS
  FencedResults
  CleanSlate
PROPERTIES
  BusySettles
