SPECIFICATION FairSpec
CONSTANTS
  Device = {d1}
  Look = {l1}
  NoLook = NoLook
  Save = {s1, s2}
  Refresh = {r1, r2}
  CacheCapacity = 1
  Faults = {"list", "put", "download"}
CHECK_DEADLOCK FALSE
PROPERTIES MakeAnswered ColdRefreshCompletes
