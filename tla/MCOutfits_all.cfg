SPECIFICATION OutfitSpec
CONSTANTS
  Device = {d1}
  Screen = {m1, m2}
  Category = {c1, c2}
  Item = {i1, i2}
  NoItem = NoItem
  Contents <- TwoPhotos
  Look <- ScreenLooks
  NoLook = NoLook
  Save = {s1}
  Refresh = {r1}
  CacheCapacity = 1
  Faults = {"put", "restart"}
CHECK_DEADLOCK FALSE
SYMMETRY Symmetry
INVARIANTS OutfitTypeOK OutfitOnScreen
PROPERTIES ChosenIsMarked CheckedIsWorn
