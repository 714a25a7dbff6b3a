SPECIFICATION DetectionSpec
CONSTANTS
  rename = rename
  source = source
  word = word
  shell1 = shell1
  shell2 = shell2
  dropper = dropper
  host = host
  None = None
  Keys = {rename, source}
  Ongoing = {rename}
  Workers = {w1, w2}
  Trackers = {o1, o2, o3}
  Threshold = 2
  Window = 1
  MaxHistory = 3
  Again = 3
  Cooldown = 2
  MaxEvents = 4
  MaxTime = 3
  Inputs <- SomeInputs
  Apps = {word}
  Pids = {shell1, shell2}
  Images = {dropper}
  Sources = {host}
  Recency <- RecencyOf
  MinFailures = 2
  ChainWindow = 2
  ChainHistory = 2
  ChainCooldown = 2
  ChainEvents = 4
  ChainTime = 2
  Files <- SomeFiles
  Settings <- SomeSettings
  Events <- SomeEvents
  RulesEvents = 1
SYMMETRY Symmetry
CHECK_DEADLOCK FALSE
INVARIANT
  ExclusionsHonoured
