----------------------------- MODULE MCQueries -----------------------------
EXTENDS Queries

MCSchema == [t |-> {"a", "d"}, u |-> {"b"}, v |-> {"c"}, w |-> {"e"}]

Ask(from, where) ==
  [tables |-> from, predicate |-> where, group_by |-> <<>>, aggregates |-> <<>>,
   extends |-> <<>>, order_by |-> <<>>, fields |-> {}]

On(f, g) == Equality(Field(f), Field(g))
Is(f, v) == Equality(Field(f), Constant(v))
Calculated(op, f, g) == Operation(op, Field(f), Field(g))
As(e, f) == [expression |-> e, field |-> f]
Fn(fn, f) == [fn |-> fn, field |-> f]

OneTable ==
  {[Ask(<<"u">>, <<Is("b", Null)>>) EXCEPT
      !.extends = <<As(Operation("add", Field("b"), Constant(1)), "x")>>],
   [Ask(<<"u">>, <<Is("b", 1)>>) EXCEPT
      !.extends = <<As(Operation("add", Field("b"), Constant(1)), "x"),
                    As(Calculated("div", "x", "b"), "y")>>,
      !.fields = {"x", "y"}],
   [Ask(<<"u">>, <<>>) EXCEPT !.order_by = <<"b">>],
   [Ask(<<"t">>, <<>>) EXCEPT !.group_by = <<"a">>, !.aggregates = <<Fn("avg", "d")>>],
   [Ask(<<"t">>, <<Equality(Calculated("sub", "a", "d"), Calculated("mul", "a", "d"))>>) EXCEPT
      !.order_by = <<"d", "a">>]}

Join == Ask(<<"u", "v">>, <<On("b", "c")>>)

TwoTables ==
  {Join,
   [Ask(<<"u", "v">>, <<>>) EXCEPT !.order_by = <<"c", "b">>],
   [Ask(<<"u", "v">>, <<On("c", "b"), Is("b", 1)>>) EXCEPT !.fields = {"c"}],
   [Ask(<<"u", "v">>, <<>>) EXCEPT !.group_by = <<"b">>,
      !.aggregates = <<Fn("sum", "c")>>, !.order_by = <<"c">>],
   Ask(<<"u", "v">>, <<Equality(Calculated("add", "b", "c"), Constant(1))>>)}

MoreFields ==
  {Ask(<<"t", "u", "v">>, <<On("a", "b"), On("c", "d")>>),
   [Ask(<<"t", "u">>, <<>>) EXCEPT !.group_by = <<"b">>,
      !.aggregates = <<Fn("min", "a"), Fn("count", "d")>>],
   [Ask(<<"t", "u">>, <<>>) EXCEPT !.group_by = <<"b">>, !.aggregates = <<Fn("max", "a")>>]}

ThreeTables == {Ask(<<"u", "v", "w">>, <<On("b", "c"), On("c", "e")>>)}

\* Four rows are two equal ones on either side of a join, or two in one of
\* three tables that are joined.
MCQuery == OneTable \cup TwoTables \cup ThreeTables \cup MoreFields
MCMaxRows == [q \in MCQuery |-> IF "t" \in Range(q.tables) THEN 3 ELSE 4]
MCJoin == {Join}
MCJoinRows == [q \in MCJoin |-> 2]
MCDatum == {0, 1, Null}
=============================================================================
