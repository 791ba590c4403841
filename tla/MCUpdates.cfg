\* One table of two fields; two slots, two values, five statements.
SPECIFICATION Spec
CONSTANTS
  Schema <- MCSchema
  Index <- MCIndex
  Expression <- MCExpression
  Datum = {0, 1}
  MaxSlots = 2
  MaxUpdates = 5
INVARIANTS
  IndexesAgree
  CatalogsAgree
