SPECIFICATION Spec
CONSTANTS
  Device = {d1, d2}
  Category = {c1}
  Photo = {p1, p2}
  NoPhoto = NoPhoto
  Tap = {t1, t2}
  RowShown = RowShown
  CacheCapacity = 1
  KeyBefore <- DecimalBefore
  Faults = {"put", "ack", "list", "download", "restart"}
CHECK_DEADLOCK FALSE
SYMMETRY Symmetry
INVARIANTS TypeOK ItemsContiguous SlotsInReach NoMissingDownload
PROPERTIES RowComplete SlotsGrow FolderSpec
