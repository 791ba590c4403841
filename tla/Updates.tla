------------------------------ MODULE Updates ------------------------------
(***************************************************************************)
(* The catalog of src/src/metadata/, the statements of                     *)
(* src/src/planner/index_update_planner.rs and the opening of              *)
(* src/src/db.rs, as one connection sees them.                             *)
(*                                                                         *)
(* A statement is a sequence of changes, each of one record of a table or  *)
(* of one entry of an index.  Every change may fail, for a lock or for a   *)
(* buffer, and a statement that fails leaves those before it.  Locks and   *)
(* recovery make the transactions one after the other, each whole or not   *)
(* at all: that is shown of the module Transactions.  An index is a set of *)
(* entries in files of its name: its tree is in the module BTree, which    *)
(* begins where the first opening of the index has been committed.         *)
(***************************************************************************)
EXTENDS Naturals, Sequences, FiniteSets, SequencesExt, FiniteSetsExt, Functions

CONSTANTS
  Schema,       \* the tables that may be created, with the fields of each
  Index,        \* the indexes that may be created: name, table and field
  Datum,        \* what a field may contain, 0 among it
  Expression,   \* what a modification may set a field to: functions of the row
  MaxSlots,     \* bound on the slots of a table, for TLC
  MaxUpdates    \* bound on the statements, for TLC

VARIABLES
  directory,    \* whether it exists
  blocks,       \* the files of indexes that have a block: appending is not undone
  process,      \* "none", "creating", "open", or "dead" after a panic
  stored,       \* the database as it has been committed
  db,           \* and as the current transaction sees it
  created,      \* history: the first opening has been committed
  updates       \* how many statements there were, for the bound

vars == <<directory, blocks, process, stored, db, created, updates>>

\* The two files of an index.
Part == {"leaf", "directory"}

ASSUME UpdatesAssumption ==
  /\ DOMAIN Schema \subseteq STRING \ {"tblcat", "fldcat", "idxcat"}
  /\ \A t \in DOMAIN Schema :
       Schema[t] \in Seq(STRING) /\ IsInjective(Schema[t]) /\ Schema[t] # <<>>
  /\ Index \subseteq [name : STRING, table : DOMAIN Schema, field : STRING]
  /\ \A t \in DOMAIN Schema : Expression[t] \subseteq [[Range(Schema[t]) -> Datum] -> Datum]
  /\ 0 \in Datum /\ MaxSlots \in Nat /\ MaxUpdates \in Nat

-----------------------------------------------------------------------------
(* The catalog.                                                            *)

catalog ==
  [tblcat |-> <<"slotsize", "tblname">>,
   fldcat |-> <<"type", "length", "offset", "tblname", "fldname">>,
   idxcat |-> <<"index_name", "table_name", "field_name">>]

get_layout(d, t) == {r.field : r \in {x \in Range(d.fldcat) : x.table = t}}

\* The index of each field of a table that has one, the last in idxcat.
get_index_info(d, t) ==
  LET of(f) == {k \in DOMAIN d.idxcat : d.idxcat[k].table = t /\ d.idxcat[k].field = f}
  IN  [f \in {i.field : i \in {x \in Range(d.idxcat) : x.table = t}} |->
         d.idxcat[Max(of(f))].name]

\* IndexInfo::new unwraps the specification of the field.
index_info_panics(d, t) == ~(DOMAIN get_index_info(d, t) \subseteq get_layout(d, t))

-----------------------------------------------------------------------------
(* What a statement changes.                                               *)

AddTable(t) == [do |-> "add_table", table |-> t]
AddField(t, f) == [do |-> "add_field", table |-> t, field |-> f]
AddIndex(i) == [do |-> "add_index", index |-> i]
Take(t, s) == [do |-> "take", table |-> t, slot |-> s]
Free(t, s) == [do |-> "free", table |-> t, slot |-> s]
SetValue(t, s, f, v) == [do |-> "set", table |-> t, slot |-> s, field |-> f, value |-> v]
Enter(name, v, s) == [do |-> "enter", index |-> name, entry |-> <<v, s>>]
Erase(name, v, s) == [do |-> "erase", index |-> name, entry |-> <<v, s>>]
OpenIndex(name) == [do |-> "open", index |-> name]

\* A slot of a new block has zeros; one that is taken again has what the row
\* before it has left.
formatted(t) == [used |-> TRUE, values |-> [f \in Range(Schema[t]) |-> 0]]

taken(slots, t, s) ==
  IF s \in DOMAIN slots THEN [slots EXCEPT ![s].used = TRUE] ELSE Append(slots, formatted(t))

\* told is a history of the fields that have been set since their index was
\* created, torn one of a statement that has failed in the middle: a client
\* that goes on after that is not followed any further.
applied(d, c) ==
  CASE c.do = "add_table" -> [d EXCEPT !.tblcat = Append(@, c.table)]
    [] c.do = "add_field" ->
         [d EXCEPT !.fldcat = Append(@, [table |-> c.table, field |-> c.field])]
    [] c.do = "add_index" ->
         [d EXCEPT !.idxcat = Append(@, c.index),
                   !.told = {x \in @ : <<x[1], x[3]>> # <<c.index.table, c.index.field>>}]
    [] c.do = "take" -> [d EXCEPT !.slots[c.table] = taken(@, c.table, c.slot)]
    [] c.do = "free" ->
         [d EXCEPT !.slots[c.table][c.slot].used = FALSE,
                   !.told = {x \in @ : <<x[1], x[2]>> # <<c.table, c.slot>>}]
    [] c.do = "set" ->
         [d EXCEPT !.slots[c.table][c.slot].values[c.field] = c.value,
                   !.told = @ \cup {<<c.table, c.slot, c.field>>}]
    [] c.do = "enter" -> [d EXCEPT !.entries[c.index] = @ \cup {c.entry}]
    [] c.do = "erase" -> [d EXCEPT !.entries[c.index] = @ \ {c.entry}]
    [] c.do = "open" -> d

\* Mutant: no look for a table of the name.
create_table_unchecked(d, t, fields) ==
  <<AddTable(t)>> \o [i \in DOMAIN fields |-> AddField(t, fields[i])]

create_table(d, t, fields) ==
  IF get_layout(d, t) # {} THEN <<>>
  ELSE <<AddTable(t)>> \o [i \in DOMAIN fields |-> AddField(t, fields[i])]

create_index(i) == <<AddIndex(i)>>

\* The first slot that is not used.
free_slot(slots) ==
  LET free == {s \in DOMAIN slots : ~slots[s].used}
  IN  IF free = {} THEN Len(slots) + 1 ELSE Min(free)

\* values is a sequence of fields with a value each.
insert(d, t, values) ==
  LET s == free_slot(d.slots[t])
      info == get_index_info(d, t)
      set(x) == <<SetValue(t, s, x[1], x[2])>>
                  \o IF x[1] \in DOMAIN info THEN <<Enter(info[x[1]], x[2], s)>> ELSE <<>>
  IN  <<Take(t, s)>> \o FlattenSeq([i \in DOMAIN values |-> set(values[i])])

\* A slot has a row for which the field of where has its value.
matches(d, t, where, s) ==
  d.slots[t][s].used /\ \A f \in DOMAIN where : d.slots[t][s].values[f] = where[f]

\* changes[s] for each slot s of such a row.
for_each(d, t, where, changes) ==
  FlattenSeq([s \in DOMAIN d.slots[t] |->
                IF matches(d, t, where, s) THEN changes[s] ELSE <<>>])

\* order is one in which the map of the indexes gives them.
delete(d, t, where, order) ==
  LET info == get_index_info(d, t)
      gone(s) == [k \in DOMAIN order |->
                    Erase(info[order[k]], d.slots[t][s].values[order[k]], s)]
                   \o <<Free(t, s)>>
  IN  for_each(d, t, where, [s \in DOMAIN d.slots[t] |-> gone(s)])

\* Mutant: the old value is read after the new one was set.
modify_reads_late(d, t, f, expression, where) ==
  LET info == get_index_info(d, t)
      new(s) == expression[d.slots[t][s].values]
      changed(s) == <<SetValue(t, s, f, new(s))>>
                      \o IF f \notin DOMAIN info THEN <<>>
                         ELSE <<Erase(info[f], new(s), s), Enter(info[f], new(s), s)>>
  IN  for_each(d, t, where, [s \in DOMAIN d.slots[t] |-> changed(s)])

\* The index is opened first, also if there is no such row.
modify(d, t, f, expression, where) ==
  LET info == get_index_info(d, t)
      new(s) == expression[d.slots[t][s].values]
      old(s) == d.slots[t][s].values[f]
      changed(s) == <<SetValue(t, s, f, new(s))>>
                      \o IF f \notin DOMAIN info THEN <<>>
                         ELSE <<Erase(info[f], old(s), s), Enter(info[f], new(s), s)>>
  IN  (IF f \in DOMAIN info THEN <<OpenIndex(info[f])>> ELSE <<>>)
        \o for_each(d, t, where, [s \in DOMAIN d.slots[t] |-> changed(s)])

\* d after a statement that has got as far as change n.
after(d, changes, n) ==
  LET state[k \in 0..n] == IF k = 0 THEN d ELSE applied(state[k - 1], changes[k])
  IN  state[n]

-----------------------------------------------------------------------------
(* Opening.                                                                *)

Empty ==
  [tblcat |-> <<>>, fldcat |-> <<>>, idxcat |-> <<>>,
   slots |-> [t \in DOMAIN Schema |-> <<>>],
   entries |-> [name \in {i.name : i \in Index} |-> {}],
   told |-> {}, formatted |-> {}, torn |-> FALSE]

Init ==
  /\ directory = FALSE /\ blocks = {} /\ process = "none"
  /\ stored = Empty /\ db = Empty
  /\ created = FALSE /\ updates = 0

\* The manager of the tables makes two of the catalog, that of the indexes
\* the third.
new_catalog(d) ==
  LET Add(x, t) == after(x, create_table(x, t, catalog[t]), 1 + Len(catalog[t]))
  IN  Add(Add(Add(d, "tblcat"), "fldcat"), "idxcat")

Create ==
  /\ process = "none" /\ ~directory
  /\ directory' = TRUE /\ process' = "creating"
  /\ db' = new_catalog(db)
  /\ UNCHANGED <<blocks, stored, created, updates>>

Created ==
  /\ process = "creating"
  /\ process' = "open"
  /\ stored' = db /\ created' = TRUE
  /\ UNCHANGED <<directory, blocks, db, updates>>

\* Recovery has made db what is stored.  The layout of idxcat is unwrapped.
Open ==
  /\ process = "none" /\ directory
  /\ process' = IF get_layout(db, "idxcat") = {} THEN "dead" ELSE "open"
  /\ UNCHANGED <<directory, blocks, stored, db, created, updates>>

Crash ==
  /\ process # "none"
  /\ process' = "none" /\ db' = stored
  /\ UNCHANGED <<directory, blocks, stored, created, updates>>

-----------------------------------------------------------------------------
(* Statements.                                                             *)

\* Time for a statement.
Ready == process = "open" /\ ~db.torn /\ updates < MaxUpdates

\* The indexes of those changes at the places ks that are of one of the kinds.
indexes(changes, ks, kinds) ==
  {changes[k].index : k \in {j \in ks \cap DOMAIN changes : changes[j].do \in kinds}}

\* The indexes with such a file whose formatting was rolled back.  It is not
\* formatted again, for the file has a block.
blank(part) == {x[1] : x \in {y \in blocks \ db.formatted : y[2] = part}}

\* The first n changes of a statement, which are all if it does not fail, and
\* perhaps a part of the next.  The client commits or rolls back after every
\* statement or after several.  A change of an index opens it, which appends
\* and formats the blocks that its files lack.  A search in a directory
\* without its first entry panics with the mutex of the planner in hand; a
\* leaf that was not formatted overflows to itself, and is not followed.
Run(changes, n, partly) ==
  LET searched == indexes(changes, 1..n, {"enter", "erase"})
      opened(ks) == indexes(changes, ks, {"open", "enter", "erase"})
  IN
  /\ Ready
  /\ updates' = updates + 1
  /\ n \in 0..Len(changes)
  /\ partly => n < Len(changes)
  /\ \E parts \in IF partly THEN {{}, {"leaf"}, Part} ELSE {{}} :
       blocks' = blocks \cup (opened(1..n) \X Part) \cup (opened({n + 1}) \X parts)
  /\ process' = IF searched \cap blank("directory") # {} THEN "dead" ELSE "open"
  /\ db' = [after(db, changes, n) EXCEPT
              !.torn = \/ @ \/ partly \/ n \in 1..Len(changes)-1
                       \/ searched \cap blank("leaf") # {},
              !.formatted = @ \cup (blocks' \ blocks)]
  /\ UNCHANGED <<directory, stored, created>>

CreateTable(t, n, partly) == Run(create_table(db, t, Schema[t]), n, partly)

CreateIndex(i, n, partly) == Run(create_index(i), n, partly)

\* TablePlan::new unwraps the layout of the table.
Known(t) == get_layout(db, t) # {} /\ ~index_info_panics(db, t)

Insert(t, values, n, partly) ==
  /\ Known(t)
  /\ free_slot(db.slots[t]) <= MaxSlots
  /\ Run(insert(db, t, values), n, partly)

Delete(t, where, order, n, partly) ==
  Known(t) /\ Run(delete(db, t, where, order), n, partly)

Modify(t, f, expression, where, n, partly) ==
  Known(t) /\ Run(modify(db, t, f, expression, where), n, partly)

\* The panic has the mutexes of the planner and of the catalog in hand, and
\* no later statement gets them.
Panic(t) ==
  /\ process = "open" /\ ~Known(t)
  /\ process' = "dead"
  /\ UNCHANGED <<directory, blocks, stored, db, created, updates>>

Commit ==
  /\ process = "open"
  /\ stored' = db
  /\ UNCHANGED <<directory, blocks, process, db, created, updates>>

Rollback ==
  /\ process = "open"
  /\ db' = stored
  /\ UNCHANGED <<directory, blocks, process, stored, created, updates>>

\* Values for some of the fields of a table, in any order.
Values(t) ==
  UNION {[1..k -> Range(Schema[t]) \X Datum] : k \in 1..Len(Schema[t])}

Where(t) == {<<>>} \cup UNION {[{f} -> Datum] : f \in Range(Schema[t])}

Statement ==
  \E partly \in BOOLEAN :
    \/ \E i \in Index, n \in 0..1 : CreateIndex(i, n, partly)
    \/ \E t \in DOMAIN Schema :
         \/ Panic(t)
         \/ \E n \in 0..Len(Schema[t])+1 : CreateTable(t, n, partly)
         \/ \E values \in {x \in Values(t) : IsInjective([i \in DOMAIN x |-> x[i][1]])} :
              \E n \in 0..1+2*Len(Schema[t]) : Insert(t, values, n, partly)
         \/ \E where \in Where(t) :
              \/ \E order \in SetToSeqs(DOMAIN get_index_info(db, t)) :
                   \E n \in 0..MaxSlots*(1+Len(order)) : Delete(t, where, order, n, partly)
              \/ \E f \in Range(Schema[t]), expression \in Expression[t] :
                   \E n \in 0..1+3*MaxSlots : Modify(t, f, expression, where, n, partly)

Next ==
  \/ Create \/ Created \/ Open \/ Crash \/ Commit \/ Rollback
  \/ Ready /\ Statement

Spec == Init /\ [][Next]_vars

-----------------------------------------------------------------------------
\* Another index has the same name, and with it the same file.
shares_its_file(d, i) == Cardinality({k \in DOMAIN d.idxcat : d.idxcat[k].name = i.name}) > 1

\* An index that is in use has exactly one entry for each row whose field has
\* been set since the index was created, with the value that the row has now,
\* and none for a slot that is free or was taken again without a value for
\* the field.  Excepted are statements that failed in the middle and were not
\* rolled back, and indexes with the name of another.
IndexesAgree ==
  \A i \in Range(db.idxcat) :
    (/\ ~db.torn /\ ~shares_its_file(db, i)
     /\ i.name = get_index_info(db, i.table)[i.field]) =>
       db.entries[i.name] =
         {<<db.slots[x[1]][x[2]].values[x[3]], x[2]>> :
            x \in {y \in db.told : y[1] = i.table /\ y[3] = i.field}}

\* Each table is once in tblcat and each of its fields once in fldcat, for
\* those of the catalog too, whatever has crashed or been rolled back before;
\* an opening panics only if the very first one was not finished, and a crash
\* before its commit is never made good again.
CatalogsAgree ==
  /\ ~db.torn =>
       /\ IsInjective(db.tblcat) /\ IsInjective(db.fldcat)
       /\ {r.table : r \in Range(db.fldcat)} = Range(db.tblcat)
       /\ \A t \in Range(db.tblcat) \cap DOMAIN Schema : get_layout(db, t) = Range(Schema[t])
  /\ created => get_layout(stored, "idxcat") = Range(catalog["idxcat"])
=============================================================================
