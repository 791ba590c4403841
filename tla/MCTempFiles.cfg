\* One of the blocks belongs to a temporary file.
SPECIFICATION Spec
SYMMETRY Symmetry
CONSTANTS
  Tx = {t0, t1}
  Opener = t0
  Block = {b1, b2}
  TempBlock = {b1}
  Value = {v1, v2}
  None = None
  Missing = Missing
  MaxUpdates = 2
  MaxRecords = 4
INVARIANT
  RecoveryFindsItsBlocks
