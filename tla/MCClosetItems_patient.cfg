SPECIFICATION FairPatientSpec
CONSTANTS
  Device = {d1}
  Category = {c1, c2}
  Photo = {p1, p2}
  NoPhoto = NoPhoto
  Tap = {t1, t2}
  RowShown = RowShown
  CacheCapacity = 1
  KeyBefore <- DecimalBefore
  Faults = {"put", "ack", "restart"}
CHECK_DEADLOCK FALSE
INVARIANTS SlotsCurrent SlotsWereAdded ItemsKept
PROPERTIES FolderAppends FetchCompletes ItemShown
