SPECIFICATION Spec
CONSTANTS
  Device = {d1, d2}
  Category = {c1, c2}
  NoCategory = NoCategory
  Shot = {s1, s2, s3}
  NoShot = NoShot
CHECK_DEADLOCK FALSE
SYMMETRY Symmetry
INVARIANTS TypeOK PreviewIsOwn PreviewIsLatest
PROPERTIES FiledAsChecked
