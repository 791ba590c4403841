\* Two transactions scan, insert, change and delete rows of up to two blocks.
SPECIFICATION Spec
SYMMETRY Symmetry
CONSTANTS
  Tx = {t1, t2}
  Field = {zero, v}
  Zero = zero
  Gone = gone
  NumSlots = 2
  MaxBlocks = 2
  MaxRows = 2
INVARIANTS
  TypeOK
  PassIsExact
PROPERTIES
  ImplementsRowStore
CHECK_DEADLOCK FALSE
