SPECIFICATION Spec
CONSTANTS
  Key = {1, 2, 3, 4}
  MinKey = 0
  BlankKey = 0
  Gone = gone
  LeafSize = 3
  DirSize = 4
  MaxRows = 6
  MaxLeaves = 5
INVARIANT NoPanic
CHECK_DEADLOCK FALSE
