\* The opener and two concurrent transactions, over two blocks.
SPECIFICATION Spec
SYMMETRY Symmetry
CONSTANTS
  Tx = {t0, t1, t2}
  Opener = t0
  Block = {b1, b2}
  TempBlock = {}
  Value = {v1, v2}
  None = None
  Missing = Missing
  MaxUpdates = 2
  MaxRecords = 6
INVARIANTS
  TypeOK
  LocksOutlastChanges
PROPERTIES
  ImplementsAtomicStore
  WriteAhead
