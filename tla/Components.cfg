SPECIFICATION ComponentSpec
CONSTANTS
  e1 = e1
  e2 = e2
  t1 = t1
  t2 = t2
  w1 = w1
  w2 = w2
  EventIds = {e1, e2}
  Timestamp <- Timestamps
  ThreatIds = {t1, t2}
  Workers = {w1, w2}
  Statements = 2
  MaxEvents = 1
  MaxFailures = 1
  MaxCrashes = 1
  MaxMarks = 2
  Threshold = 2
  Window = 1
  Capacity = 3
  MaxRenames = 4
  FileTime = 3
  Platforms = {"linux", "windows"}
  TailLines = 2
  Back = 2
  MaxClock = 3
  MaxEntries = 3
  Classes = {"a", "b"}
  MaxPerMinute = 1
  Cooldown = 2
  Minute = 2
  AlertTime = 4
  MaxThreats = 4
  Threats = {1, 2}
  Pids = {"p"}
  Modes = {"manual", "semi_auto", "full_auto"}
  Categories = {"RANSOMWARE", "CREDENTIAL_THEFT", "C2_COMMUNICATION", "PERSISTENCE"}
  Windows = {TRUE, FALSE}
  MaxProcesses = 2
  CpuReadings = {0, 4, 5, 7, 20}
  CpuAverage = 5
  CpuPeak = 12
  HistorySize = 3
  Keys = {"a", "b", "c"}
  Threads = {1, 2}
  CacheSize = 2
  Ttls = {1, 2}
  CacheTime = 3
  MaxOps = 4
  Clients = {"c"}
  Limit = 2
  WindowLength = 3
  ApiTime = 10
  MaxRequests = 4
SYMMETRY Symmetry
CHECK_DEADLOCK FALSE
INVARIANTS
  LostOnlyByRollback
  MigrationCompletes
  ThrottleLifts
  RecentlyUsedKept
  MinuteBounded
  SuspensionsUndoable
PROPERTIES
  BurstNotOverlooked
  NoEntryEscapes
  RepeatsOverlap
  WaitingHelps
