SPECIFICATION Spec
CONSTANTS
  Device = {d1}
  Category = {c1}
  Photo = {p1, p2}
  NoPhoto = NoPhoto
  Tap = {t1, t2}
  RowShown = RowShown
  CacheCapacity = 2
  KeyBefore <- DecimalBefore
  Faults = {}
CHECK_DEADLOCK FALSE
INVARIANTS ItemsKept
