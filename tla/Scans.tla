------------------------------- MODULE Scans -------------------------------
(***************************************************************************)
(* The scans of src/src/scan/, src/src/index/scan/,                        *)
(* src/src/materialization/ and src/src/multibuffer/: trees of iterators,  *)
(* each of which moves those below it.                                     *)
(*                                                                         *)
(* A scan is a record with its kind, its state and its children, a row a   *)
(* function from the names of its fields.  A call returns the scan as it   *)
(* leaves it and what it answers.  A table scan goes through the records   *)
(* one by one and reads nothing before the first and after the last (the   *)
(* module TableScans has its blocks, its locks and its errors), and an     *)
(* index has the records of its table (the module BTree has its blocks).   *)
(* The tables that are scanned together have no field in common.           *)
(***************************************************************************)
EXTENDS Integers, Sequences, FiniteSets, FiniteSetsExt, SequencesExt, Functions, TLC

CONSTANTS
  MaxI32,         \* the greatest i32; the least is -MaxI32 - 1
  RowsPerBlock    \* of a temporary table

ASSUME ScansAssumption == MaxI32 \in Nat /\ RowsPerBlock \in Nat \ {0}

\* A null is greater than every value and equals itself: Value::cmp.
Null == MaxI32 + 1

i32(n) == ((n + MaxI32 + 1) % (2 * MaxI32 + 2)) - MaxI32 - 1

\* Division truncates towards zero.
quotient(a, b) == LET abs(n) == IF n < 0 THEN -n ELSE n
                      q == abs(a) \div abs(b)
                  IN  IF (a < 0) = (b < 0) THEN q ELSE -q

-----------------------------------------------------------------------------
(* Expressions and predicates.  What one of them gives is a set: of its    *)
(* value, or of none where the code panics.                                *)

Constant(v) == [kind |-> "constant", value |-> v]
Field(f) == [kind |-> "field", field |-> f]
Operation(op, l, r) == [kind |-> op, lhs |-> l, rhs |-> r]

\* Sums wrap, as they do in a release build.
operated(op, a, b) ==
  IF Null \in {a, b} \/ (op = "div" /\ b = 0) THEN {Null}
  ELSE CASE op = "add" -> {i32(a + b)}
         [] op = "sub" -> {i32(a - b)}
         [] op = "mul" -> {i32(a * b)}
         [] op = "div" -> {quotient(a, b)} \ {MaxI32 + 1}

RECURSIVE evaluate(_, _)
evaluate(e, row) ==
  CASE e.kind = "constant" -> {e.value}
    [] e.kind = "field" -> IF e.field \in DOMAIN row THEN {row[e.field]} ELSE {}
    [] OTHER -> UNION {operated(e.kind, a, b) :
                         a \in evaluate(e.lhs, row), b \in evaluate(e.rhs, row)}

\* A term that a null is equal to a null is satisfied.
term_satisfied(t, row) ==
  {a = b : a \in evaluate(t.lhs, row), b \in evaluate(t.rhs, row)}

\* The terms are tried in order, until one is not satisfied.
is_satisfied(predicate, row) ==
  LET unmet == SelectInSeq(predicate, LAMBDA t : term_satisfied(t, row) # {TRUE})
  IN  IF unmet = 0 THEN {TRUE} ELSE term_satisfied(predicate[unmet], row)

-----------------------------------------------------------------------------
(* A panic below is a panic above.                                         *)

Panicked == [kind |-> "panicked"]

Result(s, found) ==
  IF \E c \in {"base", "s1", "s2"} \cap DOMAIN s : s[c].kind = "panicked"
  THEN [scan |-> Panicked, found |-> FALSE]
  ELSE [scan |-> s, found |-> found]

Panic == Result(Panicked, FALSE)

TableScan(rows) == [kind |-> "table", rows |-> rows, at |-> 0]

RECURSIVE before_first(_), after_last(_), next(_), previous(_), row(_)

table_row(s) == IF s.at \in DOMAIN s.rows THEN s.rows[s.at] ELSE <<>>

sort_row(s) == IF s.current = 0 THEN <<>> ELSE table_row(s.runs[s.current])

with_value(s, r, values) ==
  IF values = {} THEN r ELSE (s.field :> CHOOSE v \in values : TRUE) @@ r

\* What get_value gives for each field; it panics on those that are not in
\* the domain.
row(s) ==
  CASE s.kind = "table" -> table_row(s)
    [] s.kind \in {"index_select", "index_join"} ->
         LET rhs == IF s.on = 0 THEN <<>> ELSE s.rows[s.on]
         IN  IF s.kind = "index_select" THEN rhs ELSE rhs @@ row(s.s1)
    [] s.kind \in {"select", "multibuffer"} -> row(s.base)
    [] s.kind = "project" -> Restrict(row(s.base), s.fields \cap DOMAIN row(s.base))
    [] s.kind = "extend" ->
         with_value(s, row(s.base), evaluate(s.expression, row(s.base)))
    [] s.kind \in {"product", "merge_join"} -> row(s.s1) @@ row(s.s2)
    [] s.kind = "sort" -> sort_row(s)
    [] s.kind = "group_by" -> s.values
    [] s.kind = "panicked" -> <<>>

-----------------------------------------------------------------------------
(* Tables and indexes.                                                     *)

table_next(s) ==
  LET to == IF s.at <= Len(s.rows) THEN s.at + 1 ELSE s.at
  IN  Result([s EXCEPT !.at = to], to <= Len(s.rows))

table_previous(s) ==
  LET to == IF s.at > 0 THEN s.at - 1 ELSE 0
  IN  Result([s EXCEPT !.at = to], to > 0)

\* The records that an index has for a value, the latest inserted first.
entries(s, v) ==
  Reverse(SelectSeq([i \in DOMAIN s.rows |-> i], LAMBDA i : s.rows[i][s.field] = v))

index_next(s) ==
  IF s.left = <<>> THEN Result(s, FALSE)
  ELSE Result([s EXCEPT !.left = Tail(@), !.on = Head(s.left)], TRUE)

reset_index(s) ==
  IF s.join_field \in DOMAIN row(s.s1)
  THEN [s EXCEPT !.left = entries(s, row(s.s1)[s.join_field])]
  ELSE Panicked

\* reset_index is called although there may be no record to take a value from.
index_join_from(s, lhs) ==
  Result(reset_index([s EXCEPT !.s1 = lhs.scan, !.is_empty = ~lhs.found]), FALSE)

index_join_before_first(s) == index_join_from(s, next(before_first(s.s1).scan))

RECURSIVE index_join_next(_)
index_join_after(s, lhs) ==
  IF lhs.found THEN index_join_next(reset_index([s EXCEPT !.s1 = lhs.scan]))
  ELSE index_next([s EXCEPT !.s1 = lhs.scan])

index_join_next(s) ==
  IF s.kind = "panicked" \/ s.is_empty THEN Result(s, FALSE)
  ELSE IF s.left # <<>> THEN index_next(s)
  ELSE index_join_after(s, next(s.s1))

-----------------------------------------------------------------------------
(* Selection and product.                                                  *)

met(s, r) == IF r.found THEN is_satisfied(s.predicate, row(r.scan)) ELSE {TRUE}

\* The base has moved to r; without a match the loop goes on.
selected(s, r) ==
  IF met(s, r) = {} THEN Panic ELSE Result([s EXCEPT !.base = r.scan], r.found)

select_next_at(s, r) ==
  IF met(s, r) = {FALSE} THEN next([s EXCEPT !.base = r.scan]) ELSE selected(s, r)

select_next(s) == select_next_at(s, next(s.base))

select_previous_at(s, r) ==
  IF met(s, r) = {FALSE} THEN previous([s EXCEPT !.base = r.scan]) ELSE selected(s, r)

select_previous(s) == select_previous_at(s, previous(s.base))

\* Whether the left side has a record is not looked at.
product_before_first(s) ==
  Result([s EXCEPT !.s1 = next(before_first(@).scan).scan,
                   !.s2 = before_first(@).scan], FALSE)

product_after_last(s) ==
  Result([s EXCEPT !.s1 = previous(after_last(@).scan).scan,
                   !.s2 = after_last(@).scan], FALSE)

\* The right side has come to its end: the left one moves, and the right one
\* starts again.
product_turned(s, outer, right, inner) ==
  Result([s EXCEPT !.s1 = outer.scan, !.s2 = IF outer.found THEN inner.scan ELSE right],
         outer.found /\ inner.found)

product_next_outer(s, right) == product_turned(s, next(s.s1), right, next(right))

product_next_inner(s, inner) ==
  IF inner.found THEN Result([s EXCEPT !.s2 = inner.scan], TRUE)
  ELSE product_next_outer(s, before_first(inner.scan).scan)

product_next(s) == product_next_inner(s, next(s.s2))

\* Mutant: the right side stays where it is.
product_previous_unwound(s, inner) ==
  IF inner.found THEN Result([s EXCEPT !.s2 = inner.scan], TRUE)
  ELSE product_turned(s, previous(s.s1), inner.scan, previous(inner.scan))

product_previous_inner(s, inner) ==
  IF inner.found THEN Result([s EXCEPT !.s2 = inner.scan], TRUE)
  ELSE product_turned(s, previous(s.s1), inner.scan, previous(after_last(inner.scan).scan))

product_previous(s) == product_previous_inner(s, previous(s.s2))

ProductScan(s1, s2) ==
  product_before_first([kind |-> "product", s1 |-> s1, s2 |-> s2]).scan

-----------------------------------------------------------------------------
(* Sorting: the runs of SortPlan, and the SortScan of what is left.        *)

\* compare gives Ordering::Less.
Less(fields, r1, r2) ==
  \E i \in DOMAIN fields :
    /\ r1[fields[i]] < r2[fields[i]]
    /\ \A j \in 1..i-1 : r1[fields[j]] = r2[fields[j]]

\* A record less than the one before it begins a run.
split_into_runs(fields, rows) ==
  LET Add(runs, r) ==
        IF Last(runs) # <<>> /\ Less(fields, r, Last(Last(runs)))
        THEN Append(runs, <<r>>)
        ELSE Append(Front(runs), Append(Last(runs), r))
  IN  FoldLeft(Add, << <<>> >>, rows)

RECURSIVE merge_two_runs(_, _, _)
merge_two_runs(fields, p1, p2) ==
  IF <<>> \in {p1, p2} THEN p1 \o p2
  ELSE IF Less(fields, p1[1], p2[1])
  THEN <<p1[1]>> \o merge_two_runs(fields, Tail(p1), p2)
  ELSE <<p2[1]>> \o merge_two_runs(fields, p1, Tail(p2))

\* Pairs are taken from the end.
RECURSIVE merge_runs(_, _)
merge_runs(fields, runs) ==
  IF Len(runs) < 2 THEN runs
  ELSE <<merge_two_runs(fields, Last(runs), Last(Front(runs)))>>
         \o merge_runs(fields, Front(Front(runs)))

RECURSIVE merged(_, _)
merged(fields, runs) ==
  IF Len(runs) = 1 THEN runs[1] ELSE merged(fields, merge_runs(fields, runs))

\* The second run is the dummy.
sort_before_first(s) ==
  LET first == [i \in 1..2 |-> table_next([s.runs[i] EXCEPT !.at = 0])]
  IN  Result([s EXCEPT !.current = 0,
                       !.runs = [i \in 1..2 |-> first[i].scan],
                       !.has_nexts = [i \in 1..2 |-> first[i].found]], FALSE)

sort_moved(s, r) ==
  [s EXCEPT !.runs[s.current] = r.scan, !.has_nexts[s.current] = r.found]

sort_chosen(s) ==
  LET first == /\ s.has_nexts[1]
               /\ \/ ~s.has_nexts[2]
                  \/ Less(s.fields, table_row(s.runs[1]), table_row(s.runs[2]))
  IN  IF TRUE \in Range(s.has_nexts)
      THEN Result([s EXCEPT !.current = IF first THEN 1 ELSE 2], TRUE)
      ELSE Result(s, FALSE)

sort_next(s) ==
  sort_chosen(IF s.current = 0 THEN s ELSE sort_moved(s, table_next(s.runs[s.current])))

save_position(s) == [s EXCEPT !.saved_position = [i \in 1..2 |-> s.runs[i].at]]

\* Neither has_nexts nor current is restored.
restore_position(s) ==
  [s EXCEPT !.runs = [i \in 1..2 |-> [s.runs[i] EXCEPT !.at = s.saved_position[i]]]]

SortScan(fields, run) ==
  sort_before_first(
    [kind |-> "sort", fields |-> fields, runs |-> <<TableScan(run), TableScan(<<>>)>>,
     has_nexts |-> <<FALSE, FALSE>>, current |-> 0, saved_position |-> <<0, 0>>]).scan

-----------------------------------------------------------------------------
(* Merge join.  join_value is the set of the value, or of none.            *)

value1(s) == sort_row(s.s1)[s.field1]
value2(s) == sort_row(s.s2)[s.field2]

RECURSIVE to_equal_values(_, _, _)
moved1(s, r) == to_equal_values([s EXCEPT !.s1 = r.scan], r.found, TRUE)
moved2(s, r) == to_equal_values([s EXCEPT !.s2 = r.scan], TRUE, r.found)

to_equal_values(s, has_next1, has_next2) ==
  IF ~(has_next1 /\ has_next2) THEN Result(s, FALSE)
  ELSE CASE value1(s) < value2(s) -> moved1(s, sort_next(s.s1))
         [] value1(s) > value2(s) -> moved2(s, sort_next(s.s2))
         [] value1(s) = value2(s) ->
              Result([s EXCEPT !.join_value = {value1(s)}, !.s2 = save_position(@)], TRUE)

again1(s, r) == r.found /\ {value1([s EXCEPT !.s1 = r.scan])} = s.join_value
again2(s, r) == r.found /\ {value2([s EXCEPT !.s2 = r.scan])} = s.join_value

\* Mutant: the right side is not taken back to where the equal values began.
merge_join_next_onwards(s, r1, r2) ==
  IF again2(s, r2) THEN Result([s EXCEPT !.s2 = r2.scan], TRUE)
  ELSE to_equal_values([s EXCEPT !.s1 = r1.scan, !.s2 = r2.scan], r1.found, r2.found)

\* Both sides have moved, or only the right one.
merge_join_moved(s, r1, r2) ==
  IF again2(s, r2) THEN Result([s EXCEPT !.s2 = r2.scan], TRUE)
  ELSE IF again1(s, r1)
  THEN Result([s EXCEPT !.s1 = r1.scan, !.s2 = restore_position(r2.scan)], TRUE)
  ELSE to_equal_values([s EXCEPT !.s1 = r1.scan, !.s2 = r2.scan], r1.found, r2.found)

merge_join_next(s) == merge_join_moved(s, sort_next(s.s1), sort_next(s.s2))

\* join_value stays.
merge_join_before_first(s) ==
  Result([s EXCEPT !.s1 = before_first(@).scan, !.s2 = before_first(@).scan], FALSE)

-----------------------------------------------------------------------------
(* Grouping.                                                               *)

\* What the aggregation functions make of the values of a group.  The nulls are
\* left out; a sum is kept in 64 bits and cut to 32 when it is read.
non_nulls(values) == SelectSeq(values, LAMBDA v : v # Null)
total(values) == FoldLeft(LAMBDA a, b : a + b, 0, non_nulls(values))

CountFn(values) == Len(non_nulls(values))
SumFn(values) == i32(total(values))
AvgFn(values) == quotient(total(values), CountFn(values))
MaxFn(values) == Max(Range(non_nulls(values)))
MinFn(values) == Min(Range(non_nulls(values)))

aggregated(fn, values) ==
  IF fn = "count" THEN CountFn(values)
  ELSE IF non_nulls(values) = <<>> THEN Null
  ELSE CASE fn = "sum" -> SumFn(values)
         [] fn = "avg" -> AvgFn(values)
         [] fn = "max" -> MaxFn(values)
         [] fn = "min" -> MinFn(values)

group_at(s, r) == [s EXCEPT !.base = r.scan, !.more_group = r.found]

group_before_first(s) == Result(group_at(s, next(before_first(s.base).scan)), FALSE)

group_key(s) == Restrict(row(s.base), s.group_fields)

\* The group that s is in: its rows, and the scan at the row after them.
RECURSIVE rest_of_group(_, _)
group_going_on(s, to, members) ==
  IF to.more_group /\ group_key(to) = group_key(s) THEN rest_of_group(to, members)
  ELSE [scan |-> to, members |-> members]

rest_of_group(s, members) ==
  group_going_on(s, group_at(s, next(s.base)), Append(members, row(s.base)))

\* The first function on a field is the one whose value is read.
group_values(s, members) ==
  LET fields == {s.aggregates[i].field : i \in DOMAIN s.aggregates}
      fn(f) == s.aggregates[SelectInSeq(s.aggregates, LAMBDA a : a.field = f)].fn
      column(f) == [i \in DOMAIN members |-> members[i][f]]
  IN  group_key(s) @@ [f \in fields |-> aggregated(fn(f), column(f))]

group_done(s, group) ==
  Result([group.scan EXCEPT !.values = group_values(s, group.members)], TRUE)

group_next(s) ==
  IF s.more_group THEN group_done(s, rest_of_group(s, <<>>)) ELSE Result(s, FALSE)

-----------------------------------------------------------------------------
(* The product with a temporary table in chunks of some of its blocks.     *)

\* The greatest k with k ^ i <= n; a root taken in floating point may be one less.
root(n, i) == CHOOSE k \in 0..n : k ^ i <= n /\ (k + 1) ^ i > n

best_factor(available, size) ==
  LET fits(i) == root(size, i) <= available - 2
      i == CHOOSE i \in 1..size+1 : fits(i) /\ \A j \in 1..i-1 : ~fits(j)
  IN  IF available < 3 THEN 1 ELSE root(size, i)

file_num_blocks(rows) ==
  IF rows = <<>> THEN 1 ELSE (Len(rows) + RowsPerBlock - 1) \div RowsPerBlock

\* It goes through the records of the blocks from first to before end.
ChunkScan(rows, first, end) ==
  LET last == IF end * RowsPerBlock < Len(rows) THEN end * RowsPerBlock ELSE Len(rows)
  IN  TableScan(SubSeq(rows, first * RowsPerBlock + 1, last))

use_next_chunk(s) ==
  LET first == s.next_block_slot
      blocks == file_num_blocks(s.rows)
      end == IF first + s.chunk_size < blocks THEN first + s.chunk_size ELSE blocks
      chunk == ChunkScan(s.rows, first, end)
  IN  IF first >= blocks THEN Result(s, FALSE)
      ELSE Result([s EXCEPT !.base = ProductScan(before_first(s.base.s1).scan, chunk),
                            !.next_block_slot = end], TRUE)

multibuffer_before_first(s) == use_next_chunk([s EXCEPT !.next_block_slot = 0])

RECURSIVE multibuffer_next(_)
multibuffer_in(chunk) == IF chunk.found THEN multibuffer_next(chunk.scan) ELSE chunk

multibuffer_after(s, r) ==
  IF r.found THEN Result([s EXCEPT !.base = r.scan], TRUE)
  ELSE IF r.scan.kind = "panicked" THEN Panic
  ELSE multibuffer_in(use_next_chunk([s EXCEPT !.base = r.scan]))

multibuffer_next(s) == multibuffer_after(s, product_next(s.base))

-----------------------------------------------------------------------------
(* enum Scan: a call goes to the kind of the scan.                         *)

\* A scan that passes a call on to its base.
moved(s, r) == Result([s EXCEPT !.base = r.scan], r.found)

before_first(s) ==
  CASE s.kind = "table" -> Result([s EXCEPT !.at = 0], FALSE)
    [] s.kind = "index_select" -> Result([s EXCEPT !.left = entries(s, s.value)], FALSE)
    [] s.kind = "index_join" -> index_join_before_first(s)
    [] s.kind \in {"select", "project", "extend"} ->
         moved(s, before_first(s.base))
    [] s.kind = "product" -> product_before_first(s)
    [] s.kind = "sort" -> sort_before_first(s)
    [] s.kind = "merge_join" -> merge_join_before_first(s)
    [] s.kind = "group_by" -> group_before_first(s)
    [] s.kind = "multibuffer" -> multibuffer_before_first(s)
    [] s.kind = "panicked" -> Panic

next(s) ==
  CASE s.kind = "table" -> table_next(s)
    [] s.kind = "index_select" -> index_next(s)
    [] s.kind = "index_join" -> index_join_next(s)
    [] s.kind = "select" -> select_next(s)
    [] s.kind \in {"project", "extend"} ->
         moved(s, next(s.base))
    [] s.kind = "product" -> product_next(s)
    [] s.kind = "sort" -> sort_next(s)
    [] s.kind = "merge_join" -> merge_join_next(s)
    [] s.kind = "group_by" -> group_next(s)
    [] s.kind = "multibuffer" -> multibuffer_next(s)
    [] s.kind = "panicked" -> Panic

\* The others are unimplemented.
after_last(s) ==
  CASE s.kind = "table" -> Result([s EXCEPT !.at = Len(s.rows) + 1], FALSE)
    [] s.kind \in {"select", "project", "extend"} ->
         moved(s, after_last(s.base))
    [] s.kind = "product" -> product_after_last(s)
    [] OTHER -> Panic

previous(s) ==
  CASE s.kind = "table" -> table_previous(s)
    [] s.kind = "select" -> select_previous(s)
    [] s.kind \in {"project", "extend"} ->
         moved(s, previous(s.base))
    [] s.kind = "product" -> product_previous(s)
    [] OTHER -> Panic
=============================================================================
