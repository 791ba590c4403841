\* Two transactions, two buffers and three blocks.
SPECIFICATION FairSpec
CONSTANTS
  Tx = {t1, t2}
  Block = {b1, b2, b3}
  Value = {v1, v2}
  Buffer = {1, 2}
  None = None
  MaxPins = 2
INVARIANTS
  TypeOK
  AvailablesCounted
  PinsCounted
  IndexIsFresh
  OneCopy
  NothingLost
  WaitIsFutile
PROPERTIES
  MutexComesBack
