SPECIFICATION Spec
CONSTANTS
  Email = {e1, e2}
  Request = {q1, q2}
  Photos = 3
  Heights = {1, 2}
  MaxPrepares = 2
  MaxStops = 3
  MaxOffset = 9
CHECK_DEADLOCK FALSE
SYMMETRY Symmetry
INVARIANTS AccountsExplained MainNeedsLogIn PhotosInColumns BarFollowsPage
PROPERTIES ButtonsFollowPage
