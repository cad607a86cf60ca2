SPECIFICATION FairSpec
CONSTANTS
  Device = {d1}
  Look = {l1}
  NoLook = NoLook
  Save = {s1}
  Refresh = {r1, r2}
  CacheCapacity = 2
  Faults = {}
CHECK_DEADLOCK FALSE
PROPERTY RefreshCompletes
