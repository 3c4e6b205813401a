CONSTANTS
  Device = {d1, d2}
  NoDevice = NoDevice
  Pressing = {p1, p2}
  MaxSession = 2
  MaxStreams = 1
  Strategies = {"NAIVE", "PESSIMISTIC"}
  Policy = "ASK"
  OfflineToo = TRUE
  MaxRuns = 2
  Outlives = FALSE
  MaxChosen = 2
  MaxStarts = 2
  PrepareEnds = TRUE
SPECIFICATION SimulationSpec
SYMMETRY Symmetry
INVARIANTS PlayingHasSession NothingLeftBehind SettingsTake
\* Both runs may be over.
CHECK_DEADLOCK FALSE
