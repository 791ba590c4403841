\* A product with a table that is empty.
SPECIFICATION Spec
CONSTANTS
  MaxI32 = 1
  RowsPerBlock = 1
  Schema <- MCSchema
  Indexed = {"b"}
  Query <- MCJoin
  Available = {4}
  Datum <- MCDatum
  MaxRows <- MCJoinRows
  NoPlan = NoPlan
  NoRow = NoRow
INVARIANTS
  ReadsARecord
