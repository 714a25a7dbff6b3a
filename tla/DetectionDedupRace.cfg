SPECIFICATION Spec
CONSTANTS
  k1 = k1
  k2 = k2
  k3 = k3
  NoKey = NoKey
  Keys = {k1}
  Workers = {w1, w2}
  Reports <- OneKey
  Window = 2
  CacheMax = 1
  MaxEvents = 2
  MaxTime = 1
  MayFail = FALSE
CHECK_DEADLOCK FALSE
PROPERTIES
  OneThreatPerWindow
