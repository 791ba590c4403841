------------------------------ MODULE Queries ------------------------------
(***************************************************************************)
(* A client with a query: one of the planners makes a plan of it, and the  *)
(* client moves through the scan that the plan opens, forwards and         *)
(* backwards, as it likes.  The tables do not change meanwhile: the client *)
(* has their locks.                                                        *)
(***************************************************************************)
EXTENDS Plans

CONSTANTS
  Query,          \* the queries
  Available,      \* how many buffers there may be when a plan is opened
  Datum,          \* bound on what a field contains, for TLC
  MaxRows,        \* bound on the rows of the tables of a query, for TLC
  NoPlan, NoRow

VARIABLES
  query,
  tables,         \* the rows of the tables of the query
  plan,           \* the plan that is open
  scan,
  found,          \* the last answer
  rows,           \* history: the rows that one pass through the new scan gives
  at,             \* history: where the answers put the scan among them
  opened,         \* history: whether that pass panics, and whether the left
                  \*   side of a product or an index join has no row
  call,           \* history: the last call
  strayed         \* history: what no scan answers for has been asked

vars == <<query, tables, plan, scan, found, rows, at, opened, call, strayed>>

ASSUME QueriesAssumption ==
  /\ Datum \subseteq -MaxI32-1..Null
  /\ Available \subseteq Nat /\ MaxRows \in [Query -> Nat]

\* The kinds of the nodes of a plan, and the plans on the left of those that
\* move to a record of it before they know that there is one.
RECURSIVE nodes(_)
nodes(p) == {p} \cup UNION {nodes(p[c]) : c \in {"base", "p1", "p2"} \cap DOMAIN p}

kinds(p) == {n.kind : n \in nodes(p)}

empty_left(p, available) ==
  \E n \in nodes(p) :
    /\ n.kind \in {"product", "multibuffer", "index_join"}
    /\ copied(open(n.p1, tables, available), schema(n.p1)).rows = <<>>

NotOpened == [panics |-> FALSE, empty_left |-> FALSE]

Init ==
  /\ query \in Query
  /\ tables = [t \in Range(query.tables) |-> <<>>]
  /\ plan = NoPlan /\ scan = Panicked /\ found = FALSE
  /\ rows = <<>> /\ at = 0 /\ opened = NotOpened
  /\ call = "close" /\ strayed = FALSE

Insert(t, r) ==
  /\ plan = NoPlan
  /\ SumFunction([u \in DOMAIN tables |-> Len(tables[u])]) < MaxRows[query]
  /\ tables' = [tables EXCEPT ![t] = Append(@, r)]
  /\ UNCHANGED <<query, plan, scan, found, rows, at, opened, call, strayed>>

\* MergeJoinPlan is made by its callers, for two tables and an equation.
merge_join_plans(q) ==
  {complete(q, MergeJoinPlan(TablePlan(q.tables[1]), TablePlan(q.tables[2]), f, g)) :
     <<f, g>> \in {x \in (Schema[q.tables[1]] \X Schema[Last(q.tables)]) :
                     Len(q.tables) = 2 /\ q.predicate = <<Equality(Field(x[1]), Field(x[2]))>>}}

Open(p, available) ==
  /\ \E s \in {open(p, tables, available)}, empty \in {empty_left(p, available)} :
     \E all \in {copied(s, schema(p))} :
       /\ plan' = p /\ scan' = s
       /\ rows' = all.rows
       /\ opened' = [panics |-> all.panics, empty_left |-> empty]
       /\ strayed' = (all.panics \/ empty)
  /\ found' = FALSE /\ at' = 0 /\ call' = "open"
  /\ UNCHANGED <<query, tables>>

Close ==
  /\ plan # NoPlan
  /\ plan' = NoPlan /\ scan' = Panicked /\ found' = FALSE
  /\ rows' = <<>> /\ at' = 0 /\ opened' = NotOpened
  /\ call' = "close" /\ strayed' = FALSE
  /\ UNCHANGED <<query, tables>>

\* A scan that has panicked takes the transaction with it.
Usable == plan # NoPlan /\ scan # Panicked

\* A rewind heals a product, not a merge join that has met a row.
Rewind(r, place) ==
  /\ scan' = r.scan /\ found' = FALSE /\ at' = place
  /\ strayed' = \/ opened.panics \/ opened.empty_left
                \/ "merge_join" \in kinds(plan) /\ (strayed \/ at # 0)
  /\ UNCHANGED <<query, tables, plan, rows, opened>>

BeforeFirst ==
  /\ Usable
  /\ call' = "before_first"
  /\ Rewind(before_first(scan), 0)

Move(r, place, past_the_end) ==
  /\ scan' = r.scan /\ found' = r.found
  /\ at' = IF r.found THEN place ELSE past_the_end
  /\ UNCHANGED <<query, tables, plan, rows, opened>>

\* The last answer was FALSE.
ended == call \in {"next", "previous"} /\ ~found

\* After a FALSE, from either side, a product asked for the next row begins
\* its right side again with no record on its left.
MoveNext ==
  /\ Usable
  /\ call' = "next"
  /\ Move(next(scan), at + 1, Len(rows) + 1)
  /\ strayed' = (strayed \/ (ended /\ {"product", "multibuffer"} \cap kinds(plan) # {}))

\* Backwards go those that have an after_last.
Backward == kinds(plan) \subseteq {"table", "select", "project", "extend", "product"}

AfterLast ==
  /\ Usable /\ Backward
  /\ call' = "after_last"
  /\ Rewind(after_last(scan), Len(rows) + 1)

MovePrevious ==
  /\ Usable /\ Backward
  /\ call' = "previous"
  /\ Move(previous(scan), at - 1, 0)
  /\ UNCHANGED strayed

Next ==
  \/ \E t \in DOMAIN tables : \E r \in [Schema[t] -> Datum] : Insert(t, r)
  \/ /\ plan = NoPlan
     /\ \E p \in basic_plans(query) \cup heuristic_plans(query) \cup merge_join_plans(query) :
          \E available \in Available : Open(p, available)
  \/ Close \/ BeforeFirst \/ AfterLast \/ MoveNext \/ MovePrevious

Spec == Init /\ [][Next]_vars

-----------------------------------------------------------------------------
(* What a query asks for, of sets of records and without plans.            *)

\* A choice of one record of each table, and its fields together.
joined(choice) ==
  [f \in UNION {Schema[t] : t \in DOMAIN tables} |->
     LET t == CHOOSE u \in DOMAIN tables : f \in Schema[u] IN tables[t][choice[t]][f]]

Matches ==
  {c \in [DOMAIN tables -> 1..MaxRows[query]] :
     /\ \A t \in DOMAIN tables : c[t] \in DOMAIN tables[t]
     /\ \A i \in DOMAIN query.predicate :
          LET e == query.predicate[i]
          IN  evaluate(e.lhs, joined(c)) = evaluate(e.rhs, joined(c))}

AggregateOf(a, members) ==
  LET known == {c \in members : joined(c)[a.field] # Null}
      values == {joined(c)[a.field] : c \in known}
      sum == MapThenSumSet(LAMBDA c : joined(c)[a.field], known)
  IN  CASE a.fn = "count" -> Cardinality(known)
        [] a.fn # "count" /\ known = {} -> Null
        [] a.fn = "sum" /\ known # {} -> i32(sum)
        [] a.fn = "avg" /\ known # {} -> quotient(sum, Cardinality(known))
        [] a.fn = "min" /\ known # {} -> Min(values)
        [] a.fn = "max" /\ known # {} -> Max(values)

\* The rows before AS and ORDER BY, each with something that tells it from
\* another that is equal: its records, or the values it is grouped by.
Asked ==
  LET by == Range(query.group_by)
      key(c) == Restrict(joined(c), by)
      Of(i) == query.aggregates[i]
  IN  IF by = {} THEN {<<c, joined(c)>> : c \in Matches}
      ELSE {<<k, k @@ [f \in {Of(i).field : i \in DOMAIN query.aggregates} |->
                         AggregateOf(CHOOSE a \in Range(query.aggregates) : a.field = f,
                                     {c \in Matches : key(c) = k})]>> :
              k \in {key(c) : c \in Matches}}

\* What the client is to see of such a row.
Shown(r) ==
  LET extended == FoldLeft(LAMBDA x, e :
                             (e.field :> CHOOSE v \in evaluate(e.expression, x) : TRUE) @@ x,
                           r, query.extends)
  IN  IF query.fields = {} THEN extended ELSE Restrict(extended, query.fields)

-----------------------------------------------------------------------------
\* Whichever plan a planner makes, a pass through its scan gives each row of
\* the answer as many times as the tables have it, in the order asked for,
\* and no other: products, selections by an index, joins by an index, by
\* merging or in chunks, sorting in runs and grouping are all the same to the
\* client.  A plan with an empty left side is excepted: see ReadsARecord.
AnswersAreExact ==
  (plan # NoPlan /\ at = 0 /\ ~opened.empty_left) =>
    LET asked == {<<a, Shown(a[2])>> : a \in Asked}
        Times(r) == Cardinality({a \in asked : a[2] = r})
    IN  /\ ~opened.panics
        /\ \A r \in Range(rows) \cup {a[2] : a \in asked} :
             Cardinality({i \in DOMAIN rows : rows[i] = r}) = Times(r)
        /\ \A i, j \in DOMAIN rows : i < j => ~Less(query.order_by, rows[j], rows[i])

\* However the client mixes next, previous, before_first and after_last, the
\* scans of a plan together are a cursor on these rows: the positions of all
\* the scans below stay in step.  Excepted are an empty left side, a next
\* after a FALSE if there is a product, and a merge join that is rewound.
cursor == INSTANCE Cursor WITH shown <- IF found THEN row(scan) ELSE NoRow

ImplementsCursor == cursor!Init /\ [][cursor!Next \/ strayed']_cursor!vars

\* When the scan of a plan that BasicQueryPlanner has made says that there is
\* a row, there is a record for each of its fields, and no call panics:
\* "SELECT: Retrieve data from one or more tables", says README.md:33.
ReadsARecord ==
  plan \in basic_plans(query) =>
    /\ scan # Panicked
    /\ found => schema(plan) \subseteq DOMAIN row(scan)
=============================================================================
