\* Fourteen queries over up to four rows, three values of which one is null, in
\* blocks of one row, with few and with many buffers.
SPECIFICATION Spec
CONSTANTS
  MaxI32 = 1
  RowsPerBlock = 1
  Schema <- MCSchema
  Indexed = {"b"}
  Query <- MCQuery
  Available = {2, 4}
  Datum <- MCDatum
  MaxRows <- MCMaxRows
  NoPlan = NoPlan
  NoRow = NoRow
INVARIANTS
  AnswersAreExact
PROPERTIES
  ImplementsCursor
