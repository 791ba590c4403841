\* Blocks of one boundary word and three words of records.
SPECIFICATION Spec
CONSTANTS
  small = small
  medium = medium
  full = full
  large = large
  Record = {small, medium, full, large}
  Size <- MCSize
  BlockSize = 4
  None = None
  MaxBlocks = 3
INVARIANTS
  TypeOK
  LayoutHolds
  SavedIsDurable
PROPERTIES
  DamageNeedsCause
  ImplementsDurableLog
