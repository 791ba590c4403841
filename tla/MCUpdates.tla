----------------------------- MODULE MCUpdates -----------------------------
EXTENDS Updates

On(name, f) == [name |-> name, table |-> "t", field |-> f]

MCSchema == [t |-> <<"a", "b">>]
\* Two for the same field, one for another with the name of the first, and
\* one for a field that the table does not have.
MCIndex == {On("i", "a"), On("j", "a"), On("i", "b"), On("j", "c")}
\* The constants, the fields, and what differs from a field.
MCExpression ==
  LET of(op(_)) == [row \in [{"a", "b"} -> Datum] |-> op(row)]
  IN  [t |-> {of(LAMBDA row : 0), of(LAMBDA row : 1), of(LAMBDA row : row["a"]),
              of(LAMBDA row : row["b"]), of(LAMBDA row : 1 - row["a"])}]
=============================================================================
