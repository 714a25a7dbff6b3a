SPECIFICATION SystemSpec
CONSTANTS
  watched = watched
  trusted = trusted
  Kinds = {"process", "network", "registry", "service"}
  Items = {watched, trusted}
  Ignored = {trusted}
  Versions = {1, 2}
  MaxChanges = 2
  MaxMisreads = 1
  MaxCrashes = 1
  Monitors = {"process", "file"}
  Capacity = 2
  MaxItems = 2
CHECK_DEADLOCK FALSE
INVARIANTS
  BaselineWasReported
  RunningIsTrue
  ThreatsReachAll
  StoreOutlivesEvents
PROPERTIES
  CreatedOnlyWhatWasAbsent
  LastingChangesNoticed
  ShutdownCompletes
