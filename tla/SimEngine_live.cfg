CONSTANTS
  Device = {d1, d2}
  NoDevice = NoDevice
  Pressing = {p1, p2}
  MaxSession = 2
  MaxStreams = 1
  Strategies = {"PESSIMISTIC"}
  Policy = "TAKEOVER"
  OfflineToo = TRUE
  MaxRuns = 1
  Outlives = FALSE
SPECIFICATION FairSpec
\* A finished run is not followed by another here.
CHECK_DEADLOCK FALSE
PROPERTIES PlayingEnds LapsedIsSwept
