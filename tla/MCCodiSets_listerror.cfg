SPECIFICATION TurnsSpec
CONSTANTS
  Device = {d1}
  Look = {l1, l2}
  NoLook = NoLook
  Save = {s1, s2}
  Refresh = {}
  CacheCapacity = 2
  Faults = {"list"}
CHECK_DEADLOCK FALSE
INVARIANT SavedSetsKept
