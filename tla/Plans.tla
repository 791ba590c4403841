-------------------------------- MODULE Plans --------------------------------
(***************************************************************************)
(* From a query to a scan: the planners of src/src/planner/ and the open   *)
(* of each plan of src/src/plan/, src/src/index/plan/,                     *)
(* src/src/materialization/ and src/src/multibuffer/.                      *)
(*                                                                         *)
(* A planner compares estimates that come from the statistics of           *)
(* StatManager.  These are recomputed at every hundredth request only, so  *)
(* that they may be of any age, and the choices between plans are left     *)
(* open: a planner gives the set of the plans that it may make.            *)
(***************************************************************************)
EXTENDS Scans

CONSTANTS
  Schema,     \* the tables, with the set of the fields of each
  Indexed     \* the fields with an index

ASSUME PlansAssumption ==
  \A t1, t2 \in DOMAIN Schema : t1 # t2 => Schema[t1] \cap Schema[t2] = {}

-----------------------------------------------------------------------------
(* Terms: an equation of two expressions.  An IsNull is an equation with   *)
(* the null constant, which is what every operation takes it for.          *)

Equality(l, r) == [lhs |-> l, rhs |-> r]

RECURSIVE fields_of(_)
fields_of(e) ==
  CASE e.kind = "constant" -> {}
    [] e.kind = "field" -> {e.field}
    [] OTHER -> fields_of(e.lhs) \cup fields_of(e.rhs)

is_applied_to(t, schema) == fields_of(t.lhs) \cup fields_of(t.rhs) \subseteq schema

select_sub_predicates(predicate, schema) ==
  SelectSeq(predicate, LAMBDA t : is_applied_to(t, schema))

join_sub_predicates(predicate, schema1, schema2) ==
  SelectSeq(predicate, LAMBDA t : /\ ~is_applied_to(t, schema1)
                                  /\ ~is_applied_to(t, schema2)
                                  /\ is_applied_to(t, schema1 \cup schema2))

other_sides(t, f) ==
  {e \in {t.lhs, t.rhs} : <<Field(f), e>> \in {<<t.lhs, t.rhs>>, <<t.rhs, t.lhs>>}}

RECURSIVE try_get_constant(_)
try_get_constant(e) ==
  CASE e.kind = "constant" -> {e.value}
    [] e.kind = "field" -> {}
    [] OTHER -> LET l == try_get_constant(e.lhs)
                    r == try_get_constant(e.rhs)
                IN  IF Null \in l \cup r THEN {Null}
                    ELSE UNION {operated(e.kind, a, b) : a \in l, b \in r}

\* What the first term says that f is equal to: the set of it, or of nothing.
equates_with_constant(predicate, f) ==
  LET said(t) == UNION {try_get_constant(e) : e \in other_sides(t, f)}
      i == SelectInSeq(predicate, LAMBDA t : said(t) # {})
  IN  IF i = 0 THEN {} ELSE said(predicate[i])

equates_with_field(predicate, f) ==
  LET said(t) == {e.field : e \in {d \in other_sides(t, f) : d.kind = "field"}}
      i == SelectInSeq(predicate, LAMBDA t : said(t) # {})
  IN  IF i = 0 THEN {} ELSE said(predicate[i])

-----------------------------------------------------------------------------
(* Plans.                                                                  *)

TablePlan(t) == [kind |-> "table", table |-> t]
IndexSelectPlan(t, f, v) == [kind |-> "index_select", table |-> t, field |-> f, value |-> v]
IndexJoinPlan(p, t, f, join_field) ==
  [kind |-> "index_join", p1 |-> p, table |-> t, field |-> f, join_field |-> join_field]
SelectPlan(p, predicate) == [kind |-> "select", base |-> p, predicate |-> predicate]
ProductPlan(p1, p2) == [kind |-> "product", p1 |-> p1, p2 |-> p2]
MultiBufferProductPlan(p1, p2) == [kind |-> "multibuffer", p1 |-> p1, p2 |-> p2]
SortPlan(p, fields) == [kind |-> "sort", base |-> p, fields |-> fields]
MergeJoinPlan(p1, p2, f1, f2) ==
  [kind |-> "merge_join", p1 |-> SortPlan(p1, <<f1>>), p2 |-> SortPlan(p2, <<f2>>),
   field1 |-> f1, field2 |-> f2]
GroupByPlan(p, fields, aggregates) ==
  [kind |-> "group_by", base |-> SortPlan(p, fields), group_fields |-> fields,
   aggregates |-> aggregates]
ExtendPlan(p, e, f) == [kind |-> "extend", base |-> p, expression |-> e, field |-> f]
ProjectPlan(p, fields) == [kind |-> "project", base |-> p, fields |-> fields]

RECURSIVE schema(_)
schema(p) ==
  CASE p.kind \in {"table", "index_select"} -> Schema[p.table]
    [] p.kind = "index_join" -> schema(p.p1) \cup Schema[p.table]
    [] p.kind \in {"product", "multibuffer", "merge_join"} -> schema(p.p1) \cup schema(p.p2)
    [] p.kind \in {"select", "sort"} -> schema(p.base)
    [] p.kind = "extend" -> schema(p.base) \cup {p.field}
    [] p.kind = "project" -> p.fields
    [] p.kind = "group_by" ->
         Range(p.group_fields) \cup {p.aggregates[i].field : i \in DOMAIN p.aggregates}

-----------------------------------------------------------------------------
(* Opening a plan.                                                         *)

\* The rows of a scan from where it is, all fields copied, or a panic: the
\* loop of MaterializePlan, MultiBufferProductPlan and split_into_runs.
RECURSIVE copied(_, _)
copied_at(r, fields, values) ==
  IF ~r.found THEN [rows |-> <<>>, panics |-> r.scan = Panicked]
  ELSE IF ~(fields \subseteq DOMAIN values) THEN [rows |-> <<>>, panics |-> TRUE]
  ELSE [copied(r.scan, fields) EXCEPT !.rows = <<values>> \o @]

copied_from(r, fields) == copied_at(r, fields, row(r.scan))

copied(s, fields) == copied_from(next(s), fields)

\* A scan that is made of copies, unless the copying panics.
From(copies, s) == IF \E c \in copies : c.panics THEN Panicked ELSE s

sorted_copies(fields, copies) ==
  From({copies}, SortScan(fields, merged(fields, split_into_runs(fields, copies.rows))))

chunked_copies(lhs, rhs, available) ==
  From({lhs, rhs}, multibuffer_before_first(
    [kind |-> "multibuffer", rows |-> rhs.rows, next_block_slot |-> 0,
     base |-> ProductScan(TableScan(lhs.rows), TableScan(<<>>)),
     chunk_size |-> best_factor(available, file_num_blocks(rhs.rows))]).scan)

\* Opens p over the contents of the tables, with so many buffers available.
RECURSIVE open(_, _, _)
open(p, tables, available) ==
  LET base == open(p.base, tables, available)
      s1 == open(p.p1, tables, available)
      s2 == open(p.p2, tables, available)
      copy(q, s) == copied(s, schema(q))
      indexed == [rows |-> tables[p.table], left |-> <<>>, on |-> 0] @@ p
  IN
  CASE p.kind = "table" -> TableScan(tables[p.table])
    [] p.kind = "index_select" -> before_first(indexed).scan
    [] p.kind = "index_join" ->
         before_first([s1 |-> s1, is_empty |-> FALSE] @@ indexed).scan
    [] p.kind \in {"select", "extend"} -> Result([p EXCEPT !.base = base], FALSE).scan
    [] p.kind = "project" -> Result([p EXCEPT !.base = base], FALSE).scan
    [] p.kind = "product" -> ProductScan(s1, s2)
    [] p.kind = "sort" ->
         sorted_copies(p.fields, copy(p.base, before_first(base).scan))
    [] p.kind = "group_by" ->
         before_first([kind |-> "group_by", base |-> base, group_fields |-> Range(p.group_fields),
                       aggregates |-> p.aggregates, more_group |-> FALSE,
                       values |-> <<>>]).scan
    [] p.kind = "merge_join" ->
         before_first([kind |-> "merge_join", s1 |-> s1, s2 |-> s2, field1 |-> p.field1,
                       field2 |-> p.field2, join_value |-> {}]).scan
    [] p.kind = "multibuffer" ->
         chunked_copies(copy(p.p1, s1), copy(p.p2, s2), available)

-----------------------------------------------------------------------------
(* The rest of a query above its tables is the same for both planners.     *)

add_extends(p, extends) ==
  FoldLeft(LAMBDA q, e : ExtendPlan(q, e.expression, e.field), p, extends)

\* A query without GROUP BY, ORDER BY or fields has the empty sequence there.
complete(q, p) ==
  LET grouped == IF q.group_by = <<>> THEN p ELSE GroupByPlan(p, q.group_by, q.aggregates)
      extended == add_extends(grouped, q.extends)
      sorted == IF q.order_by = <<>> THEN extended ELSE SortPlan(extended, q.order_by)
  IN  IF q.fields = {} THEN sorted ELSE ProjectPlan(sorted, q.fields)

-----------------------------------------------------------------------------
(* BasicQueryPlanner: the last table first, then each of the others on the *)
(* side that the estimates are for.                                        *)

basic_products(tables) ==
  LET either(plans, t) ==
        UNION {{ProductPlan(p, TablePlan(t)), ProductPlan(TablePlan(t), p)} : p \in plans}
  IN  FoldLeft(either, {TablePlan(Last(tables))}, Front(tables))

basic_plans(q) ==
  {complete(q, IF q.predicate = <<>> THEN p ELSE SelectPlan(p, q.predicate)) :
     p \in basic_products(q.tables)}

-----------------------------------------------------------------------------
(* TablePlanner and HeuristicQueryPlanner.                                 *)

add_select_predicates(p, predicate) ==
  LET terms == select_sub_predicates(predicate, schema(p))
  IN  IF terms = <<>> THEN p ELSE SelectPlan(p, terms)

add_join_predicates(p, predicate, t, current) ==
  LET terms == join_sub_predicates(predicate, current, Schema[t])
  IN  IF terms = <<>> THEN p ELSE SelectPlan(p, terms)

\* The first field with an index that the predicate equates with a constant,
\* in whatever order the map of the indexes has them.
make_select_plans(t, predicate) ==
  LET usable == {f \in Indexed \cap Schema[t] : equates_with_constant(predicate, f) # {}}
      tables == IF usable = {} THEN {TablePlan(t)}
                ELSE UNION {{IndexSelectPlan(t, f, v) : v \in equates_with_constant(predicate, f)} :
                              f \in usable}
  IN  {add_select_predicates(p, predicate) : p \in tables}

make_product_plan(t, predicate, current) ==
  MultiBufferProductPlan(current, add_select_predicates(TablePlan(t), predicate))

make_index_joins(t, predicate, current) ==
  {add_join_predicates(
     add_select_predicates(IndexJoinPlan(current, t, fg[1], fg[2]), predicate),
     predicate, t, schema(current)) :
     fg \in {x \in (Indexed \cap Schema[t]) \X schema(current) :
               x[2] \in equates_with_field(predicate, x[1])}}

make_join_plans(t, predicate, current) ==
  IF join_sub_predicates(predicate, Schema[t], schema(current)) = <<>> THEN {}
  ELSE IF make_index_joins(t, predicate, current) # {}
  THEN make_index_joins(t, predicate, current)
  ELSE {add_join_predicates(make_product_plan(t, predicate, current),
                            predicate, t, schema(current))}

\* A join with one of the tables that are left if there is one, else a product.
RECURSIVE joined_with(_, _, _)
joined_with(current, tables, predicate) ==
  LET joins(t) == make_join_plans(t, predicate, current)
      products(t) == {make_product_plan(t, predicate, current)}
      chosen(t) == IF \A u \in tables : joins(u) = {} THEN products(t) ELSE joins(t)
  IN  IF tables = {} THEN {current}
      ELSE UNION {joined_with(p, tables \ {t}, predicate) :
                    <<t, p>> \in {<<u, o>> \in tables \X UNION {chosen(u) : u \in tables} :
                                    o \in chosen(u)}}

heuristic_plans(q) ==
  LET tables == Range(q.tables)
  IN  {complete(q, p) :
         p \in UNION {UNION {joined_with(p, tables \ {t}, q.predicate) :
                               p \in make_select_plans(t, q.predicate)} : t \in tables}}
=============================================================================
