SPECIFICATION Spec
CONSTANTS
  Device = {d1, d2}
  Look = {l1, l2}
  NoLook = NoLook
  Save = {s1, s2}
  Refresh = {r1, r2}
  CacheCapacity = 1
  Faults = {"list", "put", "download", "garbage", "restart"}
CHECK_DEADLOCK FALSE
SYMMETRY Symmetry
INVARIANTS TypeOK FolderContiguous NoMissingDownload GroupAccounts CacheAgrees ShownWasSaved AlertIsOwn
PROPERTIES GalleryGrows CompleteRefresh FolderSpec
