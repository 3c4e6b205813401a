CONSTANTS
  \* account
  Client = {panel, other}
  Panel = {panel, other}
  Socket = {s1, s2, s3}
  Push = {p1, p2}
  NoClient = NoClient
  NoSocket = NoSocket
  MaxVersion = 2
  MaxDrops = 1
  \* simulation
  VDevice = {d1}
  MaxSimRuns = 2
  MaxChanges = 1
  MaxSeq = 3
  MaxWire = 2
  MaxCuts = 1
  Prompt = TRUE
  \* stepper
  MaxRequests = 4
  MaxUnheard = 1
  \* theory
  Transaction = {1, 2, 3}
  Item = {A, B}
  MaxOps = 4
  \* nerds
  Window = {nerds, t1, t2}
  Nerds = nerds
  MaxTrace = 2
  MaxActs = 2
  MaxFetching = 2
  MaxUnsaved = 1
  \* story
  Top <- ChapterTops
  Bottom = 4
  Line = 1
  MaxEntries = 3
  MaxMoves = 3
SPECIFICATION PagesSpec
\* Every bound may be used up.
CHECK_DEADLOCK FALSE
INVARIANTS
  OnlineIsConnected
  NotBehind
  QuietMeansSame
  InTimestampOrder
  ObsoleteUnseen
  VerdictRight
  LessonsHold
  TraceReaches
  HashFollows
PROPERTIES
  CatchesUp
  
