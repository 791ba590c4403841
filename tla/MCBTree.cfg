SPECIFICATION Spec
CONSTANTS
  Key = {0, 1, 2, 3, 4}
  MinKey = 0
  BlankKey = 2
  Gone = gone
  LeafSize = 3
  DirSize = 4
  MaxRows = 5
  MaxLeaves = 5
INVARIANTS TypeOK OrderHolds EachLeafOnce ChainsHoldOneKey ExactUntilBeheaded
CHECK_DEADLOCK FALSE
