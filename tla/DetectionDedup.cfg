SPECIFICATION Spec
CONSTANTS
  k1 = k1
  k2 = k2
  k3 = k3
  NoKey = NoKey
  Keys = {k1, k2, k3}
  Workers = {w1, w2}
  Reports <- SomeReports
  Window = 2
  CacheMax = 1
  MaxEvents = 3
  MaxTime = 2
  MayFail = TRUE
SYMMETRY Symmetry
CHECK_DEADLOCK FALSE
INVARIANTS
  SilencedBehindAnother
PROPERTIES
  RepeatsSpaced
