SPECIFICATION Spec
CONSTANTS
  Device = {d1, d2}
  Look = {l1, l2}
  NoLook = NoLook
  Save = {s1, s2}
  Refresh = {}
  CacheCapacity = 2
  Faults = {}
CHECK_DEADLOCK FALSE
INVARIANT SavedSetsKept
