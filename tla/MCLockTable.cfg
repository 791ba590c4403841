\* Three transactions over two blocks.
SPECIFICATION FairSpec
CONSTANTS
  Tx = {t1, t2, t3}
  Block = {b1, b2}
  None = None
INVARIANTS
  TypeOK
  TableMatchesHolders
  NoPanic
  WaitIsFutile
PROPERTIES
  ImplementsBlockLocks
  MutexComesBack
  SomeCallEnds
