---------------------------- MODULE UpdatesProofs ----------------------------
(***************************************************************************)
(* Proofs about Updates: its types, that every index that is in use has    *)
(* the entries of its rows, and that the catalog agrees with itself.       *)
(***************************************************************************)
EXTENDS Updates, Integers, NaturalsInduction, SequenceTheorems,
        FiniteSetTheorems, WellFoundedInduction, TLAPS

-----------------------------------------------------------------------------
(* Induction about sets of numbers, and functions defined by recursion.    *)

\* A set of numbers that has one has a least one.
LEMMA LeastExists ==
  ASSUME NEW S, S \subseteq Nat, S # {}
  PROVE  \E i \in S : \A j \in S : i <= j
<1>1. IsWellFoundedOn(OpToRel(<, Nat), Nat)
  BY NatLessThanWellFounded
<1>2. PICK x \in S : \A y \in S : ~ (<<y, x>> \in OpToRel(<, Nat))
  BY <1>1, WFMin
<1>3. \A y \in S : x =< y
  <2> TAKE y \in S
  <2>1. <<y, x>> \in OpToRel(<, Nat) <=> y < x
    BY DEF OpToRel
  <2>2. x \in Nat /\ y \in Nat /\ ~ (y < x)
    BY <1>2, <2>1
  <2> QED
    BY <2>2
<1> QED
  BY <1>2, <1>3

\* A set of numbers up to n that has one has a greatest one.
LEMMA GreatestExists ==
  ASSUME NEW n \in Nat, NEW S \in SUBSET (0..n), S # {}
  PROVE  \E i \in S : \A j \in S : j <= i
<1> DEFINE T == {n - j : j \in S}
<1>1. T \subseteq Nat /\ T # {}
  <2>1. \A j \in S : n - j \in Nat
    OBVIOUS
  <2> QED
    BY <2>1
<1>2. PICK k \in T : \A m \in T : k <= m
  <2> HIDE DEF T
  <2> QED
    BY <1>1, LeastExists
<1>3. PICK i \in S : k = n - i
  BY <1>2
<1>4. \A j \in S : i >= j
  BY <1>2, <1>3
<1> QED
  BY <1>4

LEMMA MinProperty ==
  ASSUME NEW S \in SUBSET Nat, S # {}
  PROVE  Min(S) \in S /\ \A j \in S : Min(S) <= j
<1> QED
  BY LeastExists DEF Min

LEMMA MaxProperty ==
  ASSUME NEW n \in Nat, NEW S \in SUBSET (0..n), S # {}
  PROVE  Max(S) \in S /\ \A j \in S : j <= Max(S)
<1> QED
  BY GreatestExists DEF Max

\* A set with 0 and, up to m, with the successor of each member.
LEMMA UpTo ==
  ASSUME NEW m \in Nat, NEW S, 0 \in S, \A n \in 1..m : n - 1 \in S => n \in S
  PROVE  0..m \subseteq S
<1> SUFFICES ASSUME (0..m) \ S # {} PROVE FALSE
  OBVIOUS
<1> DEFINE T == (0..m) \ S
<1>1. \E i \in T : \A j \in T : i <= j
  <2>1. T \subseteq Nat /\ T # {}
    OBVIOUS
  <2> HIDE DEF T
  <2> QED
    BY <2>1, LeastExists
<1>2. PICK i \in T : \A j \in T : i <= j
  BY <1>1
<1>3. i \in 1..m /\ i - 1 \in 0..m /\ ~(i <= i - 1)
  BY <1>2
<1> QED
  BY <1>2, <1>3

\* f and g begin with the same, and go on with the same from the same.
InStep(f, g, m) ==
  f[0] = g[0] /\ \A n \in 1..m : f[n - 1] = g[n - 1] => f[n] = g[n]

\* Two functions with the same beginning and the same recursion are the same.
LEMMA SameRecursion ==
  ASSUME NEW m \in Nat, NEW f, NEW g, InStep(f, g, m)
  PROVE  \A n \in 0..m : f[n] = g[n]
<1> DEFINE S == {n \in 0..m : f[n] = g[n]}
<1>1. 0 \in S /\ \A n \in 1..m : n - 1 \in S => n \in S
  BY DEF InStep
<1>2. 0..m \subseteq S
  <2> HIDE DEF S
  <2> QED
    BY <1>1, UpTo
<1> QED
  BY <1>2

\* f begins with base and goes on by the steps up to m.
Recursive(f, m, base, step) ==
  f[0] = base /\ \A n \in 1..m : f[n] = step[n][f[n - 1]]

\* A recursion by steps that stay in a set has a solution in it.
LEMMA RecursionExists ==
  ASSUME NEW m \in Nat, NEW D, NEW base \in D, NEW step,
         \A n \in 1..m : \A x \in D : step[n][x] \in D
  PROVE  \E f : f \in [0..m -> D] /\ Recursive(f, m, base, step)
<1> DEFINE Solves(f, k) == f[0] = base /\ \A n \in 1..k : f[n] = step[n][f[n - 1]]
           S == {k \in 0..m : \E f \in [0..k -> D] : Solves(f, k)}
<1>1. 0 \in S
  <2>1. Solves([n \in 0..0 |-> base], 0)
    OBVIOUS
  <2>2. [n \in 0..0 |-> base] \in [0..0 -> D]
    OBVIOUS
  <2>3. \E f \in [0..0 -> D] : Solves(f, 0)
    <3> HIDE DEF Solves
    <3> QED
      BY <2>1, <2>2
  <2> QED
    BY <2>3
<1>2. ASSUME NEW k \in 1..m, k - 1 \in S PROVE k \in S
  <2>1. PICK f \in [0..(k - 1) -> D] : Solves(f, k - 1)
    BY <1>2
  <2> DEFINE g == [n \in 0..k |-> IF n = k THEN step[k][f[k - 1]] ELSE f[n]]
  <2>2. \A n \in 0..k : n = k \/ n \in 0..(k - 1)
    BY <1>2
  <2>3. k - 1 \in 0..(k - 1) /\ 0 \in 0..(k - 1)
    BY <1>2
  <2>4. g \in [0..k -> D]
    <3>1. step[k][f[k - 1]] \in D
      BY <2>1, <2>3
    <3> QED
      BY <2>2, <3>1
  <2>5. Solves(g, k)
    <3>1. g[0] = base
      BY <2>1, <2>3
    <3>2. ASSUME NEW n \in 1..k PROVE g[n] = step[n][g[n - 1]]
      <4>1. g[n - 1] = f[n - 1] /\ n \in 0..k
        BY <1>2
      <4>2. CASE n = k
        BY <4>1, <4>2
      <4>3. CASE n # k
        <5>1. n \in 1..(k - 1)
          BY <1>2, <4>3
        <5> QED
          BY <2>1, <4>1, <4>3, <5>1
      <4> QED
        BY <4>2, <4>3
    <3> QED
      BY <3>1, <3>2
  <2>6. k \in 0..m
    BY <1>2
  <2> QED
    BY <2>4, <2>5, <2>6
<1>3. m \in S
  <2> HIDE DEF S
  <2>1. 0..m \subseteq S
    BY <1>1, <1>2, UpTo
  <2> QED
    BY <2>1
<1> QED
  BY <1>3 DEF Recursive
-----------------------------------------------------------------------------
(* The databases and what a change makes of them.                          *)

Name == {i.name : i \in Index}

\* The strings.  Those of the catalog are named, for no prover here knows that
\* a string that is written out is in STRING.
Word ==
  STRING \cup {"tblcat", "fldcat", "idxcat", "slotsize", "tblname", "type", "length",
               "offset", "fldname", "index_name", "table_name", "field_name"}

Field == [table : Word, field : Word]

Row(t) == [used : BOOLEAN, values : [Range(Schema[t]) -> Datum]]

Rows ==
  {x \in [DOMAIN Schema -> UNION {Seq(Row(t)) : t \in DOMAIN Schema}] :
     \A t \in DOMAIN Schema : x[t] \in Seq(Row(t))}

Cell == (DOMAIN Schema) \X Nat \X Word

Database ==
  [tblcat : Seq(Word), fldcat : Seq(Field), idxcat : Seq(Index),
   slots : Rows, entries : [Name -> SUBSET (Datum \X Nat)],
   told : SUBSET Cell, formatted : SUBSET (Name \X Part), torn : BOOLEAN]

Change ==
  UNION {{AddTable(t) : t \in Word},
         {AddField(t, f) : t \in Word, f \in Word},
         {AddIndex(i) : i \in Index},
         {Take(t, s) : t \in DOMAIN Schema, s \in Nat},
         {Free(t, s) : t \in DOMAIN Schema, s \in Nat},
         {SetValue(t, s, f, v) : t \in DOMAIN Schema, s \in Nat, f \in Word, v \in Datum},
         {Enter(name, v, s) : name \in Name, v \in Datum, s \in Nat},
         {Erase(name, v, s) : name \in Name, v \in Datum, s \in Nat},
         {OpenIndex(name) : name \in Name}}

\* What a change makes of the parts of a database,
Placed(slots, t, r) == [slots EXCEPT ![t] = r]
Entered(entries, name, e) == [entries EXCEPT ![name] = @ \cup {e}]
Erased(entries, name, e) == [entries EXCEPT ![name] = @ \ {e}]
Freed(slots, s) == [slots EXCEPT ![s].used = FALSE]
Valued(slots, s, f, v) == [slots EXCEPT ![s].values[f] = v]
CellTold(told, t, s, f) == told \cup {<<t, s, f>>}
ColumnForgotten(told, t, f) == {x \in told : <<x[1], x[3]>> # <<t, f>>}
RowForgotten(told, t, s) == {x \in told : <<x[1], x[2]>> # <<t, s>>}

\* and the database with such a part in place of its own.
WithTables(d, x) == [d EXCEPT !.tblcat = x]
WithFields(d, x) == [d EXCEPT !.fldcat = x]
WithIndexes(d, x, y) == [d EXCEPT !.idxcat = x, !.told = y]
WithSlots(d, x) == [d EXCEPT !.slots = x]
WithRows(d, x, y) == [d EXCEPT !.slots = x, !.told = y]
WithEntries(d, x) == [d EXCEPT !.entries = x]
WithTorn(d, x, y) == [d EXCEPT !.torn = x, !.formatted = y]

LEMMA RowsType ==
  ASSUME NEW x \in Rows, NEW t \in DOMAIN Schema, NEW r \in Seq(Row(t))
  PROVE  /\ x[t] \in Seq(Row(t))
         /\ [x EXCEPT ![t] = r] \in Rows
<1>1. \A u \in DOMAIN Schema : [x EXCEPT ![t] = r][u] \in Seq(Row(u))
  BY DEF Rows
<1>2. [x EXCEPT ![t] = r] \in [DOMAIN Schema -> UNION {Seq(Row(u)) : u \in DOMAIN Schema}]
  BY DEF Rows
<1> QED
  BY <1>1, <1>2 DEF Rows

LEMMA SchemaType ==
  ASSUME NEW t \in DOMAIN Schema
  PROVE  t \in Word /\ Schema[t] \in Seq(Word) /\ IsInjective(Schema[t]) /\ Schema[t] # <<>>
<1>1. STRING \subseteq Word
  BY DEF Word
<1> HIDE DEF Word
<1>2. Seq(STRING) \subseteq Seq(Word)
  BY <1>1, SeqMonotonic
<1> QED
  BY <1>1, <1>2, UpdatesAssumption

LEMMA OfIndex ==
  ASSUME NEW i \in Index
  PROVE  i.name \in Name /\ i.table \in DOMAIN Schema /\ i.field \in Word
<1> QED
  BY UpdatesAssumption DEF Name, Word

LEMMA FormattedType ==
  ASSUME NEW t \in DOMAIN Schema PROVE formatted(t) \in Row(t)
<1> QED
  BY UpdatesAssumption DEF formatted, Row

LEMMA TakenType ==
  ASSUME NEW t \in DOMAIN Schema, NEW slots \in Seq(Row(t)), NEW s \in Nat
  PROVE  taken(slots, t, s) \in Seq(Row(t))
<1>1. CASE s \in DOMAIN slots
  <2>1. s \in 1..Len(slots) /\ slots[s] \in Row(t)
    BY <1>1
  <2>2. [slots[s] EXCEPT !.used = TRUE] \in Row(t)
    BY <2>1 DEF Row
  <2> QED
    BY <1>1, <2>1, <2>2 DEF taken
<1>2. CASE s \notin DOMAIN slots
  BY <1>2, FormattedType DEF taken
<1> QED
  BY <1>1, <1>2

\* An update where there is nothing changes nothing.
LEMMA UpdateOutside ==
  ASSUME NEW R, NEW slots \in Seq(R), NEW s \in Nat, s \notin DOMAIN slots, NEW f, NEW v
  PROVE  /\ [slots EXCEPT ![s].used = v] = slots
         /\ [slots EXCEPT ![s].values[f] = v] = slots
<1>1. slots = [x \in DOMAIN slots |-> slots[x]]
  OBVIOUS
<1> QED
  BY <1>1

LEMMA FreedType ==
  ASSUME NEW t \in DOMAIN Schema, NEW slots \in Seq(Row(t)), NEW s \in Nat
  PROVE  Freed(slots, s) \in Seq(Row(t))
<1>1. CASE s \in DOMAIN slots
  <2>1. s \in 1..Len(slots) /\ slots[s] \in Row(t)
    BY <1>1
  <2>2. [slots[s] EXCEPT !.used = FALSE] \in Row(t)
    BY <2>1 DEF Row
  <2> QED
    BY <1>1, <2>1, <2>2 DEF Freed
<1>2. CASE s \notin DOMAIN slots
  <2>1. [slots EXCEPT ![s].used = FALSE] = slots
    BY <1>2, UpdateOutside
  <2> QED
    BY <2>1 DEF Freed
<1> QED
  BY <1>1, <1>2

LEMMA ValueType ==
  ASSUME NEW t \in DOMAIN Schema, NEW slots \in Seq(Row(t)), NEW s \in Nat,
         NEW f \in Word, NEW v \in Datum
  PROVE  Valued(slots, s, f, v) \in Seq(Row(t))
<1>1. CASE s \in DOMAIN slots
  <2>1. s \in 1..Len(slots) /\ slots[s] \in Row(t)
    BY <1>1
  <2>2. [slots[s] EXCEPT !.values[f] = v] \in Row(t)
    BY <2>1 DEF Row
  <2> QED
    BY <1>1, <2>1, <2>2 DEF Valued
<1>2. CASE s \notin DOMAIN slots
  <2>1. [slots EXCEPT ![s].values[f] = v] = slots
    BY <1>2, UpdateOutside
  <2> QED
    BY <2>1 DEF Valued
<1> QED
  BY <1>1, <1>2

\* What applied makes of each kind of change.
LEMMA AppliedTable ==
  ASSUME NEW d, NEW t
  PROVE  applied(d, AddTable(t)) =
           WithTables(d, Append(d.tblcat, t))
<1> QED
  BY DEF applied, AddTable, WithTables

LEMMA AppliedField ==
  ASSUME NEW d, NEW t, NEW f
  PROVE  applied(d, AddField(t, f)) =
           WithFields(d, Append(d.fldcat, [table |-> t, field |-> f]))
<1> QED
  BY DEF applied, AddField, WithFields

LEMMA AppliedIndex ==
  ASSUME NEW d, NEW i
  PROVE  applied(d, AddIndex(i)) =
           WithIndexes(d, Append(d.idxcat, i), ColumnForgotten(d.told, i.table, i.field))
<1> QED
  BY DEF applied, AddIndex, WithIndexes, ColumnForgotten

LEMMA AppliedTake ==
  ASSUME NEW d, NEW t, NEW s
  PROVE  applied(d, Take(t, s)) =
           WithSlots(d, Placed(d.slots, t, taken(d.slots[t], t, s)))
<1> QED
  BY DEF applied, Take, WithSlots, Placed

LEMMA AppliedFree ==
  ASSUME NEW d, NEW t, NEW s
  PROVE  applied(d, Free(t, s)) =
           WithRows(d, Placed(d.slots, t, Freed(d.slots[t], s)), RowForgotten(d.told, t, s))
<1> QED
  BY DEF applied, Free, WithRows, Placed, Freed, RowForgotten

LEMMA AppliedSet ==
  ASSUME NEW d, NEW t, NEW s, NEW f, NEW v
  PROVE  applied(d, SetValue(t, s, f, v)) =
           WithRows(d, Placed(d.slots, t, Valued(d.slots[t], s, f, v)),
                    CellTold(d.told, t, s, f))
<1> QED
  BY DEF applied, SetValue, WithRows, Placed, Valued, CellTold

LEMMA AppliedEnter ==
  ASSUME NEW d, NEW name, NEW v, NEW s
  PROVE  applied(d, Enter(name, v, s)) =
           WithEntries(d, Entered(d.entries, name, <<v, s>>))
<1> QED
  BY DEF applied, Enter, WithEntries, Entered

LEMMA AppliedErase ==
  ASSUME NEW d, NEW name, NEW v, NEW s
  PROVE  applied(d, Erase(name, v, s)) =
           WithEntries(d, Erased(d.entries, name, <<v, s>>))
<1> QED
  BY DEF applied, Erase, WithEntries, Erased

LEMMA AppliedOpen ==
  ASSUME NEW d, NEW name
  PROVE  applied(d, OpenIndex(name)) = d
<1> QED
  BY DEF applied, OpenIndex

\* A part of a database is replaced by another of its type.
LEMMA Replaced ==
  ASSUME NEW d \in Database
  PROVE  /\ \A x \in Seq(Word) : WithTables(d, x) \in Database
         /\ \A x \in Seq(Field) : WithFields(d, x) \in Database
         /\ \A x \in Seq(Index), y \in SUBSET Cell : WithIndexes(d, x, y) \in Database
         /\ \A x \in Rows : WithSlots(d, x) \in Database
         /\ \A x \in Rows, y \in SUBSET Cell : WithRows(d, x, y) \in Database
         /\ \A x \in [Name -> SUBSET (Datum \X Nat)] : WithEntries(d, x) \in Database
         /\ \A x \in BOOLEAN, y \in SUBSET (Name \X Part) : WithTorn(d, x, y) \in Database
<1> QED
  BY DEF Database, WithTables, WithFields, WithIndexes, WithSlots, WithRows, WithEntries,
         WithTorn

LEMMA PartsType ==
  ASSUME NEW d \in Database
  PROVE  /\ d.tblcat \in Seq(Word) /\ d.fldcat \in Seq(Field) /\ d.idxcat \in Seq(Index)
         /\ d.slots \in Rows /\ d.entries \in [Name -> SUBSET (Datum \X Nat)]
         /\ d.told \in SUBSET Cell /\ d.torn \in BOOLEAN
         /\ d.formatted \in SUBSET (Name \X Part)
         /\ \A t \in DOMAIN Schema : d.slots[t] \in Seq(Row(t))
<1> QED
  BY DEF Database, Rows

\* Every change makes a database of a database.
LEMMA AppliedType ==
  ASSUME NEW d \in Database, NEW c \in Change
  PROVE  applied(d, c) \in Database
<1>1. CASE \E t \in Word : c = AddTable(t)
  <2>1. PICK t \in Word : c = AddTable(t)
    BY <1>1
  <2>2. Append(d.tblcat, t) \in Seq(Word)
    BY PartsType
  <2> QED
    BY <2>1, <2>2, AppliedTable, Replaced
<1>2. CASE \E t \in Word, f \in Word : c = AddField(t, f)
  <2>1. PICK t \in Word, f \in Word : c = AddField(t, f)
    BY <1>2
  <2>2. Append(d.fldcat, [table |-> t, field |-> f]) \in Seq(Field)
    <3>1. [table |-> t, field |-> f] \in Field
      BY <2>1 DEF Field
    <3> QED
      BY <3>1, PartsType
  <2> QED
    BY <2>1, <2>2, AppliedField, Replaced
<1>3. CASE \E i \in Index : c = AddIndex(i)
  <2>1. PICK i \in Index : c = AddIndex(i)
    BY <1>3
  <2>2. Append(d.idxcat, i) \in Seq(Index)
    BY PartsType
  <2>3. ColumnForgotten(d.told, i.table, i.field) \in SUBSET Cell
    BY PartsType DEF ColumnForgotten
  <2> QED
    BY <2>1, <2>2, <2>3, AppliedIndex, Replaced
<1>4. CASE \E t \in DOMAIN Schema, s \in Nat : c = Take(t, s)
  <2>1. PICK t \in DOMAIN Schema, s \in Nat : c = Take(t, s)
    BY <1>4
  <2>2. d.slots \in Rows /\ d.slots[t] \in Seq(Row(t))
    BY PartsType
  <2>3. taken(d.slots[t], t, s) \in Seq(Row(t))
    BY <2>2, TakenType
  <2>4. Placed(d.slots, t, taken(d.slots[t], t, s)) \in Rows
    BY <2>2, <2>3, RowsType DEF Placed
  <2> QED
    BY <2>1, <2>4, AppliedTake, Replaced
<1>5. CASE \E t \in DOMAIN Schema, s \in Nat : c = Free(t, s)
  <2>1. PICK t \in DOMAIN Schema, s \in Nat : c = Free(t, s)
    BY <1>5
  <2>2. d.slots \in Rows /\ d.slots[t] \in Seq(Row(t))
    BY PartsType
  <2>3. Freed(d.slots[t], s) \in Seq(Row(t))
    BY <2>2, FreedType
  <2>4. Placed(d.slots, t, Freed(d.slots[t], s)) \in Rows
    BY <2>2, <2>3, RowsType DEF Placed
  <2>5. RowForgotten(d.told, t, s) \in SUBSET Cell
    BY PartsType DEF RowForgotten
  <2> QED
    BY <2>1, <2>4, <2>5, AppliedFree, Replaced
<1>6. CASE \E t \in DOMAIN Schema, s \in Nat, f \in Word, v \in Datum :
             c = SetValue(t, s, f, v)
  <2>1. PICK t \in DOMAIN Schema, s \in Nat, f \in Word, v \in Datum :
               c = SetValue(t, s, f, v)
    BY <1>6
  <2>2. d.slots \in Rows /\ d.slots[t] \in Seq(Row(t))
    BY PartsType
  <2>3. Valued(d.slots[t], s, f, v) \in Seq(Row(t))
    BY <2>2, ValueType
  <2>4. Placed(d.slots, t, Valued(d.slots[t], s, f, v)) \in Rows
    BY <2>2, <2>3, RowsType DEF Placed
  <2>5. CellTold(d.told, t, s, f) \in SUBSET Cell
    BY PartsType DEF Cell, CellTold
  <2>6. applied(d, SetValue(t, s, f, v)) =
           WithRows(d, Placed(d.slots, t, Valued(d.slots[t], s, f, v)),
                    CellTold(d.told, t, s, f))
    BY AppliedSet
  <2> QED
    BY <2>1, <2>4, <2>5, <2>6, Replaced
<1>7. CASE \E name \in Name, v \in Datum, s \in Nat : c = Enter(name, v, s)
  <2>1. PICK name \in Name, v \in Datum, s \in Nat : c = Enter(name, v, s)
    BY <1>7
  <2>2. Entered(d.entries, name, <<v, s>>) \in [Name -> SUBSET (Datum \X Nat)]
    BY PartsType DEF Entered
  <2> QED
    BY <2>1, <2>2, AppliedEnter, Replaced
<1>8. CASE \E name \in Name, v \in Datum, s \in Nat : c = Erase(name, v, s)
  <2>1. PICK name \in Name, v \in Datum, s \in Nat : c = Erase(name, v, s)
    BY <1>8
  <2>2. Erased(d.entries, name, <<v, s>>) \in [Name -> SUBSET (Datum \X Nat)]
    BY PartsType DEF Erased
  <2> QED
    BY <2>1, <2>2, AppliedErase, Replaced
<1>9. CASE \E name \in Name : c = OpenIndex(name)
  BY <1>9, AppliedOpen
<1> QED
  BY <1>1, <1>2, <1>3, <1>4, <1>5, <1>6, <1>7, <1>8, <1>9 DEF Change

-----------------------------------------------------------------------------
(* Changes one after the other.                                            *)

\* g has the databases before and after each of the first n changes.
Follows(g, d, changes, n) ==
  /\ g \in [0..n -> Database] /\ g[0] = d
  /\ \A k \in 1..n : g[k] = applied(g[k - 1], changes[k])

LEMMA AfterFollows ==
  ASSUME NEW d \in Database, NEW changes \in Seq(Change), NEW n \in 0..Len(changes)
  PROVE  \E g : Follows(g, d, changes, n) /\ after(d, changes, n) = g[n]
<1> DEFINE Is(f) == f = [k \in 0..n |-> IF k = 0 THEN d ELSE applied(f[k - 1], changes[k])]
           state == CHOOSE f : Is(f)
           step == [k \in 1..n |-> [x \in Database |-> applied(x, changes[k])]]
<1>1. after(d, changes, n) = state[n]
  BY DEF after
<1>2. n \in Nat /\ \A k \in 1..n : changes[k] \in Change
  BY LenProperties, ElementOfSeq
<1>3. \A k \in 1..n : \A x \in Database : step[k][x] \in Database
  BY <1>2, AppliedType
<1>4. PICK f : f \in [0..n -> Database] /\ Recursive(f, n, d, step)
  <2> HIDE DEF step
  <2> QED
    BY <1>2, <1>3, RecursionExists
<1>5. \A k \in 1..n : k - 1 \in 0..n /\ k \in 0..n
  BY <1>2
<1>6. Follows(f, d, changes, n)
  BY <1>4, <1>5 DEF Recursive, Follows
<1>7. Is(f)
  <2>1. \A k \in 0..n : k = 0 \/ k \in 1..n
    BY <1>2
  <2>2. \A k \in 0..n : f[k] = IF k = 0 THEN d ELSE applied(f[k - 1], changes[k])
    <3> TAKE k \in 0..n
    <3>1. CASE k = 0
      BY <3>1, <1>6 DEF Follows
    <3>2. CASE k # 0
      BY <3>2, <2>1, <1>6 DEF Follows
    <3> QED
      BY <3>1, <3>2
  <2> QED
    BY <2>2, <1>4
<1>8. Is(state)
  <2> HIDE DEF Is
  <2> QED
    BY <1>7
<1>9. state[0] = d /\ \A k \in 1..n : state[k] = applied(state[k - 1], changes[k])
  <2>1. state = [k \in 0..n |-> IF k = 0 THEN d ELSE applied(state[k - 1], changes[k])]
    BY <1>8
  <2> HIDE DEF state
  <2>2. 0 \in 0..n /\ \A k \in 1..n : k \in 0..n /\ k # 0
    BY <1>2
  <2> QED
    BY <2>1, <2>2
<1>10. \A k \in 0..n : f[k] = state[k]
  <2> HIDE DEF state
  <2>1. InStep(f, state, n)
    BY <1>6, <1>9 DEF InStep, Follows
  <2> QED
    BY <1>2, <2>1, SameRecursion
<1> QED
  <2> HIDE DEF state
  <2>1. n \in 0..n
    BY <1>2
  <2> QED
    BY <1>1, <1>6, <1>10, <2>1

LEMMA AfterType ==
  ASSUME NEW d \in Database, NEW changes \in Seq(Change), NEW n \in 0..Len(changes)
  PROVE  after(d, changes, n) \in Database
<1>1. n \in 0..n
  BY LenProperties
<1> QED
  BY <1>1, AfterFollows DEF Follows

\* What every change keeps, any number of them keeps.
LEMMA AfterKeeps ==
  ASSUME NEW d \in Database, NEW changes \in Seq(Change), NEW n \in 0..Len(changes),
         NEW S, d \in S,
         \A k \in 1..n : \A x \in S \cap Database : applied(x, changes[k]) \in S
  PROVE  after(d, changes, n) \in S
<1>1. PICK g : Follows(g, d, changes, n) /\ after(d, changes, n) = g[n]
  BY AfterFollows
<1>2. n \in Nat
  BY LenProperties
<1> DEFINE T == {k \in 0..n : g[k] \in S}
<1>3. 0 \in T
  BY <1>1, <1>2 DEF Follows
<1>4. \A k \in 1..n : k - 1 \in T => k \in T
  <2> TAKE k \in 1..n
  <2> HAVE k - 1 \in T
  <2>1. k - 1 \in 0..n /\ k \in 0..n
    BY <1>2
  <2>2. g[k - 1] \in S \cap Database
    BY <1>1, <2>1 DEF Follows
  <2> QED
    BY <1>1, <2>1, <2>2 DEF Follows
<1>5. 0..n \subseteq T
  <2> HIDE DEF T
  <2> QED
    BY <1>2, <1>3, <1>4, UpTo
<1>6. n \in 0..n
  BY <1>2
<1> QED
  BY <1>1, <1>5, <1>6

\* The whole of a statement.
done(d, changes) == after(d, changes, Len(changes))

LEMMA DoneType ==
  ASSUME NEW d \in Database, NEW changes \in Seq(Change)
  PROVE  done(d, changes) \in Database
<1>1. Len(changes) \in 0..Len(changes)
  BY LenProperties
<1> QED
  BY <1>1, AfterType DEF done

LEMMA AfterNone ==
  ASSUME NEW d \in Database, NEW changes \in Seq(Change)
  PROVE  after(d, changes, 0) = d
<1>1. 0 \in 0..Len(changes)
  BY LenProperties
<1> QED
  BY <1>1, AfterFollows DEF Follows

LEMMA DoneNone ==
  ASSUME NEW d \in Database PROVE done(d, <<>>) = d
<1>1. <<>> \in Seq(Change) /\ Len(<<>>) = 0
  BY EmptySeq
<1> QED
  BY <1>1, AfterNone DEF done

LEMMA DoneOne ==
  ASSUME NEW d \in Database, NEW c \in Change
  PROVE  done(d, <<c>>) = applied(d, c)
<1>1. <<c>> \in Seq(Change) /\ Len(<<c>>) = 1 /\ <<c>>[1] = c /\ 1 \in 0..1 /\ 1 \in 1..1
  OBVIOUS
<1> DEFINE changes == <<c>>
<1> HIDE DEF changes
<1>2. PICK g : Follows(g, d, changes, 1) /\ after(d, changes, 1) = g[1]
  BY <1>1, AfterFollows DEF changes
<1>3. g[1] = applied(g[1 - 1], changes[1]) /\ g[0] = d
  BY <1>1, <1>2 DEF Follows
<1>4. done(d, changes) = after(d, changes, 1)
  BY <1>1 DEF done, changes
<1> QED
  BY <1>1, <1>2, <1>3, <1>4 DEF changes

\* Two sequences of changes one after the other.
LEMMA DoneConcat ==
  ASSUME NEW d \in Database, NEW a \in Seq(Change), NEW b \in Seq(Change)
  PROVE  a \o b \in Seq(Change) /\ done(d, a \o b) = done(done(d, a), b)
<1> DEFINE ab == a \o b
           m == Len(a)
           k == Len(b)
<1>1. /\ ab \in Seq(Change) /\ Len(ab) = m + k /\ m \in Nat /\ k \in Nat
      /\ \A i \in 1..m : ab[i] = a[i]
      /\ \A i \in 1..k : ab[m + i] = b[i]
  <2>1. \A i \in 1..k : ab[m + i] = b[i]
    BY ConcatProperties, LenProperties
  <2> QED
    BY <2>1, ConcatProperties, LenProperties
<1> HIDE DEF ab, m, k
<1>2. PICK g : Follows(g, d, ab, m + k) /\ done(d, ab) = g[m + k]
  BY <1>1, AfterFollows DEF done
<1>3. PICK f : Follows(f, d, a, m) /\ done(d, a) = f[m]
  BY <1>1, AfterFollows DEF done, m
<1>4. PICK h : Follows(h, f[m], b, k) /\ done(f[m], b) = h[k]
  <2>1. f[m] \in Database
    BY <1>3, DoneType
  <2>2. k \in 0..Len(b) /\ done(f[m], b) = after(f[m], b, k)
    BY <1>1 DEF done, k
  <2> DEFINE x == f[m]
  <2> HIDE DEF x
  <2>3. \E h : Follows(h, x, b, k) /\ after(x, b, k) = h[k]
    BY <2>1, <2>2, AfterFollows DEF x
  <2> QED
    BY <2>2, <2>3 DEF x
<1>5. \A i \in 0..m : g[i] = f[i]
  <2>1. \A i \in 1..m : i \in 1..(m + k)
    BY <1>1
  <2>2. InStep(g, f, m)
    BY <1>1, <1>2, <1>3, <2>1 DEF InStep, Follows
  <2> QED
    BY <1>1, <2>2, SameRecursion
<1> DEFINE e == [i \in 0..k |-> g[m + i]]
<1>6. \A i \in 0..k : e[i] = h[i]
  <2>1. e[0] = h[0]
    <3>1. 0 \in 0..k /\ m + 0 = m /\ m \in 0..m
      BY <1>1
    <3>2. h[0] = f[m] /\ g[m] = f[m]
      BY <1>4, <1>5, <3>1 DEF Follows
    <3> QED
      BY <3>1, <3>2
  <2>2. \A i \in 1..k : e[i] = applied(e[i - 1], b[i])
    <3> TAKE i \in 1..k
    <3>1. m + i \in 1..(m + k) /\ (m + i) - 1 = m + (i - 1) /\ i \in 0..k /\ i - 1 \in 0..k
      BY <1>1
    <3> QED
      BY <1>1, <1>2, <3>1 DEF Follows
  <2> HIDE DEF e
  <2>3. InStep(e, h, k)
    BY <1>4, <2>1, <2>2 DEF InStep, Follows
  <2> QED
    BY <1>1, <2>3, SameRecursion
<1>7. g[m + k] = h[k]
  BY <1>1, <1>6
<1> QED
  BY <1>1, <1>2, <1>3, <1>4, <1>7 DEF ab

\* A sequence of sequences of changes: g has the databases between them.
Passes(g, d, seqs, m) ==
  /\ g \in [0..m -> Database] /\ g[0] = d
  /\ \A k \in 1..m : g[k] = done(g[k - 1], seqs[k])

LEMMA DoneFlatten ==
  ASSUME NEW d \in Database, NEW C \in SUBSET Change, NEW seqs \in Seq(Seq(C))
  PROVE  /\ FlattenSeq(seqs) \in Seq(C)
         /\ \E g : Passes(g, d, seqs, Len(seqs)) /\ done(d, FlattenSeq(seqs)) = g[Len(seqs)]
<1> DEFINE m == Len(seqs)
<1>1. m \in Nat /\ \A k \in 1..m : seqs[k] \in Seq(C)
  BY LenProperties, ElementOfSeq
<1> Seq(C) \subseteq Seq(Change)
  BY SeqMonotonic
<1>2. CASE m = 0
  <2>1. seqs = <<>> /\ FlattenSeq(seqs) = <<>>
    BY <1>2, EmptySeq DEF FlattenSeq
  <2>2. Passes([k \in 0..0 |-> d], d, seqs, 0)
    BY DEF Passes
  <2>3. done(d, FlattenSeq(seqs)) = [k \in 0..0 |-> d][0]
    BY <2>1, DoneNone
  <2>4. \E g : Passes(g, d, seqs, 0) /\ done(d, FlattenSeq(seqs)) = g[0]
    BY <2>2, <2>3
  <2> QED
    BY <1>2, <2>1, <2>4, EmptySeq
<1>3. CASE m # 0
  <2> DEFINE Is(f) == f = [k \in 1..m |-> IF k = 1 THEN seqs[k] ELSE f[k - 1] \o seqs[k]]
             flatten == CHOOSE f : Is(f)
             step == [k \in 1..m |-> [x \in Seq(C) |-> x \o seqs[k]]]
  <2>1. FlattenSeq(seqs) = flatten[m]
    BY <1>3 DEF FlattenSeq
  <2>2. \A k \in 1..m : \A x \in Seq(C) : step[k][x] \in Seq(C)
    BY <1>1, ConcatProperties
  <2> DEFINE none == <<>>
             D == Seq(C)
  <2>3. none \in D
    BY EmptySeq
  <2> HIDE DEF step, none, D, m
  <2>4. PICK f : f \in [0..m -> D] /\ Recursive(f, m, none, step)
    BY <1>1, <2>2, <2>3, RecursionExists DEF D
  <2>5. /\ f[0] = <<>> /\ f[0] \in Seq(C)
        /\ \A k \in 1..m : /\ f[k - 1] \in Seq(C) /\ f[k] \in Seq(C)
                           /\ f[k] = f[k - 1] \o seqs[k]
    <3>1. \A k \in 1..m : k - 1 \in 0..m /\ k \in 0..m
      BY <1>1
    <3>2. \A k \in 1..m : f[k - 1] \in Seq(C) /\ f[k] \in Seq(C)
      BY <2>4, <3>1 DEF D
    <3>3. \A k \in 1..m : f[k] = step[k][f[k - 1]]
      BY <2>4 DEF Recursive
    <3>4. f[0] = <<>> /\ f[0] \in Seq(C)
      BY <2>3, <2>4 DEF Recursive, none, D
    <3> QED
      BY <3>2, <3>3, <3>4 DEF step
  <2>6. f[1] = seqs[1]
    <3>1. 1 \in 1..m /\ 1 - 1 = 0
      BY <1>1, <1>3
    <3>2. f[1] = <<>> \o seqs[1]
      BY <2>5, <3>1
    <3> QED
      BY <1>1, <3>1, <3>2, ConcatEmptySeq
  <2> DEFINE F == [k \in 1..m |-> f[k]]
  <2>7. Is(F)
    <3>1. \A k \in 1..m : F[k] = IF k = 1 THEN seqs[k] ELSE F[k - 1] \o seqs[k]
      <4> TAKE k \in 1..m
      <4>1. CASE k = 1
        BY <2>6, <4>1
      <4>2. CASE k # 1
        <5>1. k - 1 \in 1..m
          BY <1>1, <4>2
        <5> QED
          BY <2>5, <4>2, <5>1
      <4> QED
        BY <4>1, <4>2
    <3> QED
      BY <3>1
  <2>8. Is(flatten)
    <3> HIDE DEF Is
    <3> QED
      BY <2>7
  <2>9. \A k \in 1..m : flatten[k] = IF k = 1 THEN seqs[k] ELSE flatten[k - 1] \o seqs[k]
    <3>1. flatten = [k \in 1..m |-> IF k = 1 THEN seqs[k] ELSE flatten[k - 1] \o seqs[k]]
      BY <2>8
    <3> HIDE DEF flatten
    <3> QED
      BY <3>1
  <2> HIDE DEF flatten, F, Is
  <2>10. \A k \in 1..m : flatten[k] = f[k]
    <3> DEFINE T == {k \in 0..m : k # 0 => flatten[k] = f[k]}
    <3>1. 0 \in T
      BY <1>1
    <3>2. \A k \in 1..m : k - 1 \in T => k \in T
      <4> TAKE k \in 1..m
      <4> HAVE k - 1 \in T
      <4>1. CASE k = 1
        BY <1>1, <2>6, <2>9, <4>1
      <4>2. CASE k # 1
        <5>1. k - 1 # 0 /\ k \in 0..m
          BY <1>1, <4>2
        <5> QED
          BY <2>5, <2>9, <4>2, <5>1
      <4> QED
        BY <4>1, <4>2
    <3>3. 0..m \subseteq T
      <4> HIDE DEF T
      <4> QED
        BY <1>1, <3>1, <3>2, UpTo
    <3>4. \A k \in 1..m : k \in 0..m /\ k # 0
      BY <1>1
    <3> QED
      BY <3>3, <3>4
  <2> DEFINE g == [k \in 0..m |-> done(d, f[k])]
  <2>11. Passes(g, d, seqs, m)
    <3>1. g[0] = d /\ \A k \in 0..m : f[k] \in Seq(C)
      BY <1>1, <2>4, <2>5, DoneNone DEF D
    <3>2. g \in [0..m -> Database]
      BY <3>1, DoneType
    <3>3. \A k \in 1..m : g[k] = done(g[k - 1], seqs[k])
      <4> TAKE k \in 1..m
      <4>1. k - 1 \in 0..m /\ k \in 0..m
        BY <1>1
      <4>2. done(d, f[k - 1] \o seqs[k]) = done(done(d, f[k - 1]), seqs[k])
        BY <1>1, <2>5, DoneConcat
      <4> QED
        BY <2>5, <4>1, <4>2
    <3> QED
      BY <3>1, <3>2, <3>3 DEF Passes
  <2>12. m \in 1..m /\ m \in 0..m
    BY <1>1, <1>3
  <2>13. FlattenSeq(seqs) = f[m] /\ f[m] \in Seq(C) /\ g[m] = done(d, f[m])
    BY <2>1, <2>5, <2>10, <2>12
  <2> HIDE DEF g
  <2> QED
    BY <2>11, <2>13 DEF m
<1> QED
  BY <1>2, <1>3 DEF m

-----------------------------------------------------------------------------
(* What the invariants say of one database.                                *)

\* The index at place k of idxcat alone has its name, and no later one is for
\* the same field.
Serves(d, k) ==
  /\ k \in DOMAIN d.idxcat
  /\ \A j \in DOMAIN d.idxcat :
       /\ d.idxcat[j].name = d.idxcat[k].name => j = k
       /\ (d.idxcat[j].table = d.idxcat[k].table /\ d.idxcat[j].field = d.idxcat[k].field) =>
            j <= k

\* The row at slot s of t has v in f, and was told so.
HasTold(d, t, s, f, v) == <<t, s, f>> \in d.told /\ v = d.slots[t][s].values[f]

EntriesExact(d, i) ==
  \A v \in Datum, s \in Nat :
    <<v, s>> \in d.entries[i.name] <=> HasTold(d, i.table, s, i.field, v)

IndexesExact(d) == \A k \in DOMAIN d.idxcat : Serves(d, k) => EntriesExact(d, d.idxcat[k])

\* Only a slot in use has been told anything.
TellsRows(d) ==
  \A t \in DOMAIN Schema, s \in Nat, f \in Word :
    <<t, s, f>> \in d.told =>
      /\ s \in DOMAIN d.slots[t] /\ d.slots[t][s].used
      /\ f \in Range(Schema[t])

\* A file of which no index has the name is empty.
NoStrayEntries(d) ==
  \A name \in Name :
    (\A k \in DOMAIN d.idxcat : d.idxcat[k].name # name) => d.entries[name] = {}

RowsGood(d) ==
  d \in Database /\ TellsRows(d) /\ NoStrayEntries(d) /\ IndexesExact(d)

SameCatalog(x, d) ==
  x.tblcat = d.tblcat /\ x.fldcat = d.fldcat /\ x.idxcat = d.idxcat /\ x.torn = d.torn

LEMMA IndexType ==
  ASSUME NEW d \in Database, NEW k \in DOMAIN d.idxcat
  PROVE  /\ k \in Nat /\ d.idxcat[k] \in Index /\ d.idxcat[k].name \in Name
         /\ d.idxcat[k].table \in DOMAIN Schema /\ d.idxcat[k].field \in Word
<1>1. d.idxcat \in Seq(Index)
  BY PartsType
<1>2. k \in Nat /\ d.idxcat[k] \in Index
  BY <1>1, ElementOfSeq, LenProperties
<1> QED
  BY <1>2, OfIndex

\* The name of the index of a field is that of the last one for it.
LEMMA IndexOfField ==
  ASSUME NEW d \in Database, NEW t, NEW f \in DOMAIN get_index_info(d, t)
  PROVE  \E k \in DOMAIN d.idxcat :
           /\ d.idxcat[k].table = t /\ d.idxcat[k].field = f
           /\ get_index_info(d, t)[f] = d.idxcat[k].name
           /\ \A j \in DOMAIN d.idxcat :
                (d.idxcat[j].table = t /\ d.idxcat[j].field = f) => j <= k
<1> DEFINE S == {k \in DOMAIN d.idxcat : d.idxcat[k].table = t /\ d.idxcat[k].field = f}
           m == Len(d.idxcat)
<1>1. m \in Nat /\ DOMAIN d.idxcat = 1..m
  BY PartsType, LenProperties
<1>2. f \in {i.field : i \in {x \in Range(d.idxcat) : x.table = t}}
  BY DEF get_index_info
<1>3. get_index_info(d, t)[f] = d.idxcat[Max(S)].name
  BY <1>2 DEF get_index_info
<1>4. S # {}
  BY <1>2 DEF Range
<1>5. S \in SUBSET (0..m)
  BY <1>1
<1> HIDE DEF S, m
<1>6. Max(S) \in S /\ \A j \in S : j <= Max(S)
  BY <1>1, <1>4, <1>5, MaxProperty
<1> QED
  BY <1>3, <1>6 DEF S

LEMMA IndexedFields ==
  ASSUME NEW d \in Database, NEW k \in DOMAIN d.idxcat
  PROVE  d.idxcat[k].field \in DOMAIN get_index_info(d, d.idxcat[k].table)
<1> QED
  BY DEF get_index_info, Range

\* Of the names that get_index_info gives, only that for its field is the name
\* of an index that serves.
LEMMA ServingName ==
  ASSUME NEW d \in Database, NEW k, Serves(d, k), NEW t,
         NEW f \in DOMAIN get_index_info(d, t)
  PROVE  /\ get_index_info(d, t)[f] \in Name
         /\ get_index_info(d, t)[f] = d.idxcat[k].name <=>
              (t = d.idxcat[k].table /\ f = d.idxcat[k].field)
<1>1. PICK j \in DOMAIN d.idxcat :
        /\ d.idxcat[j].table = t /\ d.idxcat[j].field = f
        /\ get_index_info(d, t)[f] = d.idxcat[j].name
        /\ \A i \in DOMAIN d.idxcat :
             (d.idxcat[i].table = t /\ d.idxcat[i].field = f) => i <= j
  BY IndexOfField
<1>2. d.idxcat[j].name \in Name /\ j \in Nat /\ k \in Nat
  BY IndexType DEF Serves
<1>3. ASSUME d.idxcat[j].name = d.idxcat[k].name
      PROVE  t = d.idxcat[k].table /\ f = d.idxcat[k].field
  BY <1>1, <1>3 DEF Serves
<1>4. ASSUME t = d.idxcat[k].table, f = d.idxcat[k].field
      PROVE  d.idxcat[j].name = d.idxcat[k].name
  <2>1. j <= k /\ k <= j
    BY <1>1, <1>4 DEF Serves
  <2>2. j = k
    BY <1>2, <2>1
  <2> QED
    BY <2>2
<1> QED
  BY <1>1, <1>2, <1>3, <1>4

\* Every name that get_index_info gives is in idxcat.
LEMMA NameInCatalog ==
  ASSUME NEW d \in Database, NEW t, NEW f \in DOMAIN get_index_info(d, t)
  PROVE  /\ get_index_info(d, t)[f] \in Name
         /\ \E k \in DOMAIN d.idxcat : d.idxcat[k].name = get_index_info(d, t)[f]
<1> QED
  BY IndexOfField, IndexType

LEMMA SameInfo ==
  ASSUME NEW d, NEW x, SameCatalog(x, d), NEW t
  PROVE  get_index_info(x, t) = get_index_info(d, t)
<1> QED
  BY DEF get_index_info, SameCatalog

LEMMA SameServes ==
  ASSUME NEW d, NEW x, SameCatalog(x, d), NEW k
  PROVE  Serves(x, k) <=> Serves(d, k)
<1> QED
  BY DEF Serves, SameCatalog

\* What the parts of a database with rows changed are.
LEMMA WithParts ==
  ASSUME NEW d \in Database, NEW x, NEW y
  PROVE  /\ SameCatalog(WithSlots(d, x), d) /\ WithSlots(d, x).slots = x
         /\ WithSlots(d, x).told = d.told /\ WithSlots(d, x).entries = d.entries
         /\ SameCatalog(WithRows(d, x, y), d) /\ WithRows(d, x, y).slots = x
         /\ WithRows(d, x, y).told = y /\ WithRows(d, x, y).entries = d.entries
         /\ SameCatalog(WithEntries(d, x), d) /\ WithEntries(d, x).slots = d.slots
         /\ WithEntries(d, x).told = d.told /\ WithEntries(d, x).entries = x
<1> QED
  BY DEF Database, SameCatalog, WithSlots, WithRows, WithEntries

LEMMA PlacedRows ==
  ASSUME NEW d \in Database, NEW t \in DOMAIN Schema, NEW r
  PROVE  /\ Placed(d.slots, t, r)[t] = r
         /\ \A u \in DOMAIN Schema : u # t => Placed(d.slots, t, r)[u] = d.slots[u]
<1>1. DOMAIN d.slots = DOMAIN Schema
  BY DEF Database, Rows
<1> QED
  BY <1>1 DEF Placed

LEMMA RowAt ==
  ASSUME NEW d \in Database, NEW t \in DOMAIN Schema, NEW s \in DOMAIN d.slots[t]
  PROVE  s \in Nat /\ d.slots[t][s] \in Row(t)
<1>1. d.slots[t] \in Seq(Row(t))
  BY PartsType
<1> QED
  BY <1>1, ElementOfSeq, LenProperties

LEMMA ValuedRows ==
  ASSUME NEW d \in Database, NEW t \in DOMAIN Schema, NEW s \in DOMAIN d.slots[t],
         NEW f \in Range(Schema[t]), NEW v \in Datum
  PROVE  /\ DOMAIN Valued(d.slots[t], s, f, v) = DOMAIN d.slots[t]
         /\ \A r \in DOMAIN d.slots[t] :
              /\ Valued(d.slots[t], s, f, v)[r].used = d.slots[t][r].used
              /\ \A g \in Range(Schema[t]) :
                   Valued(d.slots[t], s, f, v)[r].values[g] =
                     IF r = s /\ g = f THEN v ELSE d.slots[t][r].values[g]
<1>1. d.slots[t][s] \in Row(t)
  BY RowAt
<1> QED
  BY <1>1 DEF Valued, Row

LEMMA FreedRows ==
  ASSUME NEW d \in Database, NEW t \in DOMAIN Schema, NEW s \in DOMAIN d.slots[t]
  PROVE  /\ DOMAIN Freed(d.slots[t], s) = DOMAIN d.slots[t]
         /\ \A r \in DOMAIN d.slots[t] :
              /\ r # s => Freed(d.slots[t], s)[r].used = d.slots[t][r].used
              /\ Freed(d.slots[t], s)[r].values = d.slots[t][r].values
<1>1. d.slots[t][s] \in Row(t)
  BY RowAt
<1> QED
  BY <1>1 DEF Freed, Row

-----------------------------------------------------------------------------
(* What is done to a row and to its entries keeps what holds of them.      *)

\* y is x with an entry of v for slot s in the index of f, in place of that
\* of the value that is there.
EntriesFollow(x, y, t, s, f, v) ==
  /\ \A name \in Name :
       (\A g \in DOMAIN get_index_info(x, t) : g = f => name # get_index_info(x, t)[g]) =>
         y.entries[name] = x.entries[name]
  /\ \A k \in DOMAIN x.idxcat :
       (Serves(x, k) /\ x.idxcat[k].table = t /\ x.idxcat[k].field = f) =>
         \A e \in Datum \X Nat :
           e \in y.entries[x.idxcat[k].name] <=>
             \/ e = <<v, s>>
             \/ /\ e \in x.entries[x.idxcat[k].name]
                /\ e # <<x.slots[t][s].values[f], s>>

\* A field of a row in use gets the value v, and its index an entry with it in
\* place of one with the value that was there.
LEMMA FieldSet ==
  ASSUME NEW x, RowsGood(x), NEW y \in Database, SameCatalog(y, x),
         NEW t \in DOMAIN Schema, NEW s \in DOMAIN x.slots[t], x.slots[t][s].used,
         NEW f \in Range(Schema[t]), NEW v \in Datum,
         y.slots = Placed(x.slots, t, Valued(x.slots[t], s, f, v)),
         y.told = CellTold(x.told, t, s, f), EntriesFollow(x, y, t, s, f, v)
  PROVE  RowsGood(y)
<1>1. x \in Database /\ y.idxcat = x.idxcat /\ s \in Nat
  BY RowAt DEF RowsGood, SameCatalog
<1>2. /\ DOMAIN y.slots[t] = DOMAIN x.slots[t]
      /\ \A r \in DOMAIN x.slots[t] :
           /\ y.slots[t][r].used = x.slots[t][r].used
           /\ \A g \in Range(Schema[t]) :
                y.slots[t][r].values[g] = IF r = s /\ g = f THEN v ELSE x.slots[t][r].values[g]
      /\ \A u \in DOMAIN Schema : u # t => y.slots[u] = x.slots[u]
  <2> DEFINE rows == Valued(x.slots[t], s, f, v)
  <2>1. DOMAIN rows = DOMAIN x.slots[t]
    BY <1>1, ValuedRows
  <2>2. \A r \in DOMAIN x.slots[t] :
          /\ rows[r].used = x.slots[t][r].used
          /\ \A g \in Range(Schema[t]) :
               rows[r].values[g] = IF r = s /\ g = f THEN v ELSE x.slots[t][r].values[g]
    BY <1>1, ValuedRows
  <2> HIDE DEF rows
  <2>3. y.slots = Placed(x.slots, t, rows)
    BY DEF rows
  <2>4. y.slots[t] = rows /\ \A u \in DOMAIN Schema : u # t => y.slots[u] = x.slots[u]
    BY <1>1, <2>3, PlacedRows
  <2> QED
    BY <2>1, <2>2, <2>4
<1>3. \A u \in DOMAIN Schema, r \in Nat, g \in Word :
        <<u, r, g>> \in y.told <=> (<<u, r, g>> \in x.told \/ (u = t /\ r = s /\ g = f))
  BY DEF CellTold
<1>4. TellsRows(y)
  BY <1>2, <1>3 DEF RowsGood, TellsRows
<1>5. NoStrayEntries(y)
  <2> SUFFICES ASSUME NEW name \in Name, \A k \in DOMAIN x.idxcat : x.idxcat[k].name # name
               PROVE  y.entries[name] = {}
    BY <1>1 DEF NoStrayEntries
  <2>1. x.entries[name] = {}
    BY DEF RowsGood, NoStrayEntries
  <2>2. \A g \in DOMAIN get_index_info(x, t) : name # get_index_info(x, t)[g]
    BY <1>1, NameInCatalog
  <2> QED
    BY <2>1, <2>2 DEF EntriesFollow
<1>6. ASSUME NEW k \in DOMAIN x.idxcat, Serves(x, k)
      PROVE  EntriesExact(y, x.idxcat[k])
  <2> DEFINE i == x.idxcat[k]
  <2>1. i.name \in Name /\ i.table \in DOMAIN Schema /\ i.field \in Word
    BY <1>1, IndexType
  <2>2. EntriesExact(x, i)
    BY <1>6 DEF RowsGood, IndexesExact
  <2> SUFFICES ASSUME NEW w \in Datum, NEW r \in Nat
               PROVE  <<w, r>> \in y.entries[i.name] <=> HasTold(y, i.table, r, i.field, w)
    BY DEF EntriesExact
  <2>3. <<w, r>> \in x.entries[i.name] <=> HasTold(x, i.table, r, i.field, w)
    BY <2>2 DEF EntriesExact
  <2>4. <<i.table, r, i.field>> \in x.told =>
          /\ r \in DOMAIN x.slots[i.table] /\ i.field \in Range(Schema[i.table])
    BY <2>1 DEF RowsGood, TellsRows
  <2>5. CASE i.table = t /\ i.field = f
    <3>1. <<w, r>> \in y.entries[i.name] <=>
            \/ <<w, r>> = <<v, s>>
            \/ <<w, r>> \in x.entries[i.name] /\ <<w, r>> # <<x.slots[t][s].values[f], s>>
      BY <1>6, <2>5 DEF EntriesFollow
    <3>2. CASE r = s
      <4>1. HasTold(y, t, r, f, w) <=> w = v
        <5>1. <<t, r, f>> \in y.told
          BY <1>3, <2>1, <2>5, <3>2
        <5>2. y.slots[t][r].values[f] = v
          BY <1>2, <3>2
        <5> QED
          BY <5>1, <5>2 DEF HasTold
      <4>2. HasTold(x, t, r, f, w) => w = x.slots[t][s].values[f]
        BY <3>2 DEF HasTold
      <4> QED
        BY <2>3, <2>5, <3>1, <3>2, <4>1, <4>2
    <3>3. CASE r # s
      <4>1. HasTold(y, t, r, f, w) <=> HasTold(x, t, r, f, w)
        <5>1. <<t, r, f>> \in y.told <=> <<t, r, f>> \in x.told
          BY <1>3, <2>1, <2>5, <3>3
        <5>2. <<t, r, f>> \in x.told => y.slots[t][r].values[f] = x.slots[t][r].values[f]
          BY <1>2, <2>4, <2>5, <3>3
        <5> QED
          BY <5>1, <5>2 DEF HasTold
      <4> QED
        BY <2>3, <2>5, <3>1, <3>3, <4>1
    <3> QED
      BY <3>2, <3>3
  <2>6. CASE ~(i.table = t /\ i.field = f)
    <3>1. \A g \in DOMAIN get_index_info(x, t) : g = f => i.name # get_index_info(x, t)[g]
      BY <1>1, <1>6, <2>6, ServingName
    <3>2. y.entries[i.name] = x.entries[i.name]
      BY <2>1, <3>1 DEF EntriesFollow
    <3>3. HasTold(y, i.table, r, i.field, w) <=> HasTold(x, i.table, r, i.field, w)
      <4>1. <<i.table, r, i.field>> \in y.told <=> <<i.table, r, i.field>> \in x.told
        BY <1>3, <2>1, <2>6
      <4>2. <<i.table, r, i.field>> \in x.told =>
              y.slots[i.table][r].values[i.field] = x.slots[i.table][r].values[i.field]
        <5>1. CASE i.table = t
          <6>1. i.field # f
            BY <2>6, <5>1
          <6>2. <<i.table, r, i.field>> \in x.told =>
                  r \in DOMAIN x.slots[t] /\ i.field \in Range(Schema[t])
            BY <2>4, <5>1
          <6> HIDE DEF i
          <6> QED
            BY <1>2, <5>1, <6>1, <6>2
        <5>2. CASE i.table # t
          BY <1>2, <2>1, <5>2
        <5> QED
          BY <5>1, <5>2
      <4> QED
        BY <4>1, <4>2 DEF HasTold
    <3> QED
      BY <2>3, <3>2, <3>3
  <2> QED
    BY <2>5, <2>6
<1>7. IndexesExact(y)
  <2>1. \A k : Serves(y, k) <=> Serves(x, k)
    BY SameServes
  <2> QED
    BY <1>1, <1>6, <2>1 DEF IndexesExact
<1> QED
  BY <1>4, <1>5, <1>7 DEF RowsGood

\* y is x without the entries of the row at slot s of t.
EntriesOfRowGone(x, y, t, s) ==
  /\ \A name \in Name : y.entries[name] \subseteq x.entries[name]
  /\ \A k \in DOMAIN x.idxcat : Serves(x, k) =>
       \A e \in Datum \X Nat :
         e \in y.entries[x.idxcat[k].name] <=>
           /\ e \in x.entries[x.idxcat[k].name]
           /\ x.idxcat[k].table = t =>
                e # <<x.slots[t][s].values[x.idxcat[k].field], s>>

\* A row in use is freed, and its entries are erased.
LEMMA RowFreed ==
  ASSUME NEW x, RowsGood(x), NEW y \in Database, SameCatalog(y, x),
         NEW t \in DOMAIN Schema, NEW s \in DOMAIN x.slots[t],
         y.slots = Placed(x.slots, t, Freed(x.slots[t], s)),
         y.told = RowForgotten(x.told, t, s), EntriesOfRowGone(x, y, t, s)
  PROVE  RowsGood(y)
<1>1. x \in Database /\ y.idxcat = x.idxcat /\ s \in Nat
  BY RowAt DEF RowsGood, SameCatalog
<1>2. /\ DOMAIN y.slots[t] = DOMAIN x.slots[t]
      /\ \A r \in DOMAIN x.slots[t] :
           /\ r # s => y.slots[t][r].used = x.slots[t][r].used
           /\ y.slots[t][r].values = x.slots[t][r].values
      /\ \A u \in DOMAIN Schema : u # t => y.slots[u] = x.slots[u]
  <2> DEFINE rows == Freed(x.slots[t], s)
  <2>1. /\ DOMAIN rows = DOMAIN x.slots[t]
        /\ \A r \in DOMAIN x.slots[t] :
             /\ r # s => rows[r].used = x.slots[t][r].used
             /\ rows[r].values = x.slots[t][r].values
    BY <1>1, FreedRows
  <2> HIDE DEF rows
  <2>2. y.slots = Placed(x.slots, t, rows)
    BY DEF rows
  <2>3. /\ Placed(x.slots, t, rows)[t] = rows
        /\ \A u \in DOMAIN Schema : u # t => Placed(x.slots, t, rows)[u] = x.slots[u]
    BY <1>1, PlacedRows
  <2>4. y.slots[t] = rows /\ \A u \in DOMAIN Schema : u # t => y.slots[u] = x.slots[u]
    BY <2>2, <2>3
  <2> QED
    BY <2>1, <2>4
<1>3. \A u \in DOMAIN Schema, r \in Nat, g \in Word :
        <<u, r, g>> \in y.told <=> (<<u, r, g>> \in x.told /\ ~(u = t /\ r = s))
  BY DEF RowForgotten
<1>4. TellsRows(y)
  BY <1>2, <1>3 DEF RowsGood, TellsRows
<1>5. NoStrayEntries(y)
  BY <1>1 DEF RowsGood, NoStrayEntries, EntriesOfRowGone
<1>6. ASSUME NEW k \in DOMAIN x.idxcat, Serves(x, k)
      PROVE  EntriesExact(y, x.idxcat[k])
  <2> DEFINE i == x.idxcat[k]
  <2>1. i.name \in Name /\ i.table \in DOMAIN Schema /\ i.field \in Word
    BY <1>1, IndexType
  <2>2. EntriesExact(x, i)
    BY <1>6 DEF RowsGood, IndexesExact
  <2> SUFFICES ASSUME NEW w \in Datum, NEW r \in Nat
               PROVE  <<w, r>> \in y.entries[i.name] <=> HasTold(y, i.table, r, i.field, w)
    BY DEF EntriesExact
  <2>3. <<w, r>> \in x.entries[i.name] <=> HasTold(x, i.table, r, i.field, w)
    BY <2>2 DEF EntriesExact
  <2>4. <<i.table, r, i.field>> \in x.told => r \in DOMAIN x.slots[i.table]
    BY <2>1 DEF RowsGood, TellsRows
  <2>5. <<w, r>> \in y.entries[i.name] <=>
          /\ <<w, r>> \in x.entries[i.name]
          /\ i.table = t => <<w, r>> # <<x.slots[t][s].values[i.field], s>>
    BY <1>6 DEF EntriesOfRowGone
  <2>6. CASE i.table = t
    <3>1. HasTold(y, t, r, i.field, w) <=> HasTold(x, t, r, i.field, w) /\ r # s
      <4>1. <<t, r, i.field>> \in y.told <=> <<t, r, i.field>> \in x.told /\ r # s
        BY <1>3, <2>1, <2>6
      <4>2. <<t, r, i.field>> \in x.told =>
              y.slots[t][r].values[i.field] = x.slots[t][r].values[i.field]
        BY <1>2, <2>4, <2>6
      <4> QED
        BY <4>1, <4>2 DEF HasTold
    <3>2. (HasTold(x, t, r, i.field, w) /\ r = s) => w = x.slots[t][s].values[i.field]
      BY DEF HasTold
    <3> QED
      BY <2>3, <2>5, <2>6, <3>1, <3>2
  <2>7. CASE i.table # t
    <3>1. HasTold(y, i.table, r, i.field, w) <=> HasTold(x, i.table, r, i.field, w)
      BY <1>2, <1>3, <2>1, <2>7 DEF HasTold
    <3> QED
      BY <2>3, <2>5, <2>7, <3>1
  <2> QED
    BY <2>6, <2>7
<1>7. IndexesExact(y)
  <2>1. \A k : Serves(y, k) <=> Serves(x, k)
    BY SameServes
  <2> QED
    BY <1>1, <1>6, <2>1 DEF IndexesExact
<1> QED
  BY <1>4, <1>5, <1>7 DEF RowsGood

\* A slot that is not in use is taken.
LEMMA RowTaken ==
  ASSUME NEW x, RowsGood(x), NEW t \in DOMAIN Schema,
         NEW s \in 1..(Len(x.slots[t]) + 1),
         s \in DOMAIN x.slots[t] => ~x.slots[t][s].used
  PROVE  LET y == applied(x, Take(t, s))
         IN  /\ RowsGood(y) /\ SameCatalog(y, x)
             /\ s \in DOMAIN y.slots[t] /\ y.slots[t][s].used
             /\ \A f \in Word : <<t, s, f>> \notin y.told
<1> DEFINE y == applied(x, Take(t, s))
           rows == taken(x.slots[t], t, s)
<1>1. /\ x \in Database /\ x.slots[t] \in Seq(Row(t)) /\ s \in Nat
      /\ DOMAIN x.slots[t] = 1..Len(x.slots[t]) /\ Len(x.slots[t]) \in Nat
  <2>1. x \in Database /\ x.slots[t] \in Seq(Row(t))
    BY PartsType DEF RowsGood
  <2> QED
    BY <2>1, LenProperties
<1>2. y = WithSlots(x, Placed(x.slots, t, rows))
  BY AppliedTake
<1>3. y \in Database
  <2>1. Take(t, s) \in Change
    BY <1>1 DEF Change
  <2> QED
    BY <1>1, <2>1, AppliedType
<1>4. /\ SameCatalog(y, x) /\ y.slots = Placed(x.slots, t, rows)
      /\ y.told = x.told /\ y.entries = x.entries
  BY <1>1, <1>2, WithParts
<1>5. /\ y.slots[t] = rows
      /\ \A u \in DOMAIN Schema : u # t => y.slots[u] = x.slots[u]
  <2> HIDE DEF rows
  <2> QED
    BY <1>1, <1>4, PlacedRows
<1>6. /\ s \in DOMAIN rows /\ rows[s].used
      /\ \A r \in DOMAIN x.slots[t] : r # s => r \in DOMAIN rows /\ rows[r] = x.slots[t][r]
  <2>1. CASE s \in DOMAIN x.slots[t]
    <3>1. x.slots[t][s] \in Row(t)
      BY <1>1, <2>1, RowAt
    <3>2. rows = [x.slots[t] EXCEPT ![s].used = TRUE]
      BY <2>1 DEF taken
    <3>3. DOMAIN rows = DOMAIN x.slots[t] /\ rows[s] = [x.slots[t][s] EXCEPT !.used = TRUE]
      BY <2>1, <3>2
    <3> HIDE DEF rows
    <3>4. [x.slots[t][s] EXCEPT !.used = TRUE].used
      BY <3>1 DEF Row
    <3> QED
      BY <2>1, <3>2, <3>3, <3>4
  <2>2. CASE s \notin DOMAIN x.slots[t]
    <3>1. rows = Append(x.slots[t], formatted(t)) /\ s = Len(x.slots[t]) + 1
      BY <1>1, <2>2 DEF taken
    <3>2. formatted(t) \in Row(t) /\ formatted(t).used
      BY FormattedType DEF formatted
    <3> HIDE DEF rows
    <3>3. /\ Len(rows) = Len(x.slots[t]) + 1 /\ rows[s] = formatted(t)
          /\ rows \in Seq(Row(t))
          /\ \A r \in 1..Len(x.slots[t]) : rows[r] = x.slots[t][r]
      BY <1>1, <3>1, <3>2, AppendProperties
    <3>4. DOMAIN rows = 1..(Len(x.slots[t]) + 1)
      BY <3>3
    <3> QED
      BY <1>1, <3>1, <3>2, <3>3, <3>4
  <2> QED
    BY <2>1, <2>2
<1>7. \A f \in Word : <<t, s, f>> \notin x.told
  BY <1>1 DEF RowsGood, TellsRows
<1> HIDE DEF y, rows
<1>8. TellsRows(y)
  <2> SUFFICES ASSUME NEW u \in DOMAIN Schema, NEW r \in Nat, NEW g \in Word,
                      <<u, r, g>> \in y.told
               PROVE  r \in DOMAIN y.slots[u] /\ y.slots[u][r].used /\ g \in Range(Schema[u])
    BY DEF TellsRows
  <2>1. r \in DOMAIN x.slots[u] /\ x.slots[u][r].used /\ g \in Range(Schema[u])
    BY <1>4 DEF RowsGood, TellsRows
  <2>2. CASE u = t
    BY <1>4, <1>5, <1>6, <1>7, <2>1, <2>2
  <2>3. CASE u # t
    BY <1>5, <2>1, <2>3
  <2> QED
    BY <2>2, <2>3
<1>9. NoStrayEntries(y)
  BY <1>4 DEF RowsGood, NoStrayEntries, SameCatalog
<1>10. ASSUME NEW k \in DOMAIN x.idxcat, Serves(x, k)
       PROVE  EntriesExact(y, x.idxcat[k])
  <2> DEFINE i == x.idxcat[k]
  <2>1. i.table \in DOMAIN Schema /\ i.field \in Word
    BY <1>1, IndexType
  <2>2. EntriesExact(x, i)
    BY <1>10 DEF RowsGood, IndexesExact
  <2> HIDE DEF i
  <2>3. ASSUME NEW w \in Datum, NEW r \in Nat
        PROVE  HasTold(y, i.table, r, i.field, w) <=> HasTold(x, i.table, r, i.field, w)
    <3>1. <<i.table, r, i.field>> \in x.told => r \in DOMAIN x.slots[i.table]
      BY <2>1 DEF RowsGood, TellsRows
    <3>2. CASE i.table = t
      <4>1. <<i.table, r, i.field>> \in x.told => y.slots[t][r] = x.slots[t][r]
        BY <1>5, <1>6, <1>7, <2>1, <3>1, <3>2
      <4> QED
        BY <1>4, <3>2, <4>1 DEF HasTold
    <3>3. CASE i.table # t
      BY <1>4, <1>5, <2>1, <3>3 DEF HasTold
    <3> QED
      BY <3>2, <3>3
  <2>4. EntriesExact(y, i)
    BY <1>4, <2>2, <2>3 DEF EntriesExact
  <2> QED
    BY <2>4 DEF i
<1>11. IndexesExact(y)
  <2>1. \A k : Serves(y, k) <=> Serves(x, k)
    BY <1>4, SameServes
  <2>2. y.idxcat = x.idxcat
    BY <1>4 DEF SameCatalog
  <2> QED
    BY <1>10, <2>1, <2>2 DEF IndexesExact
<1>12. RowsGood(y)
  BY <1>3, <1>8, <1>9, <1>11 DEF RowsGood
<1> QED
  BY <1>4, <1>5, <1>6, <1>7, <1>12 DEF y

-----------------------------------------------------------------------------
(* What a statement does to one row.                                       *)

\* The changes of statements, which leave the fields of the catalog alone.
UserChange == {c \in Change : c.do = "add_field" => c.table \in DOMAIN Schema}

LEMMA RowChanges ==
  ASSUME NEW t \in DOMAIN Schema, NEW s \in Nat
  PROVE  Take(t, s) \in UserChange /\ Free(t, s) \in UserChange
<1>1. Take(t, s) \in Change /\ Take(t, s).do = "take"
  BY DEF Change, Take
<1>2. Free(t, s) \in Change /\ Free(t, s).do = "free"
  BY DEF Change, Free
<1> QED
  BY <1>1, <1>2 DEF UserChange

LEMMA EntryChanges ==
  ASSUME NEW name \in Name, NEW v \in Datum, NEW s \in Nat
  PROVE  Enter(name, v, s) \in UserChange /\ Erase(name, v, s) \in UserChange
<1>1. Enter(name, v, s) \in Change /\ Enter(name, v, s).do = "enter"
  <2>1. Enter(name, v, s) \in {Enter(n, w, r) : n \in Name, w \in Datum, r \in Nat}
    OBVIOUS
  <2> QED
    BY <2>1 DEF Change, Enter
<1>2. Erase(name, v, s) \in Change /\ Erase(name, v, s).do = "erase"
  <2>1. Erase(name, v, s) \in {Erase(n, w, r) : n \in Name, w \in Datum, r \in Nat}
    OBVIOUS
  <2> QED
    BY <2>1 DEF Change, Erase
<1> QED
  BY <1>1, <1>2 DEF UserChange

LEMMA OpenChange ==
  ASSUME NEW name \in Name PROVE OpenIndex(name) \in UserChange
<1>1. OpenIndex(name) \in Change
  BY DEF Change
<1>2. OpenIndex(name).do = "open"
  BY DEF OpenIndex
<1> QED
  BY <1>1, <1>2 DEF UserChange

LEMMA SetChange ==
  ASSUME NEW t \in DOMAIN Schema, NEW s \in Nat, NEW f \in Word, NEW v \in Datum
  PROVE  SetValue(t, s, f, v) \in UserChange
<1>1. SetValue(t, s, f, v) \in
        {SetValue(u, r, g, w) : u \in DOMAIN Schema, r \in Nat, g \in Word, w \in Datum}
  OBVIOUS
<1>2. SetValue(t, s, f, v) \in Change
  BY <1>1 DEF Change
<1>3. SetValue(t, s, f, v).do = "set"
  BY DEF SetValue
<1> QED
  BY <1>2, <1>3 DEF UserChange

LEMMA UserChanges == UserChange \subseteq Change /\ Seq(UserChange) \subseteq Seq(Change)
<1>1. UserChange \subseteq Change
  BY DEF UserChange
<1> QED
  BY <1>1, SeqMonotonic

\* y is x after one change: a field has been set, an entry made or taken away.
FieldIsSet(x, y, t, s, f, v) ==
  /\ y \in Database /\ SameCatalog(y, x)
  /\ y.slots = Placed(x.slots, t, Valued(x.slots[t], s, f, v))
  /\ y.told = CellTold(x.told, t, s, f) /\ y.entries = x.entries

EntriesChanged(x, y, name) ==
  /\ y \in Database /\ SameCatalog(y, x) /\ y.slots = x.slots /\ y.told = x.told
  /\ \A n \in Name : n # name => y.entries[n] = x.entries[n]

EntryMade(x, y, name, v, s) ==
  /\ EntriesChanged(x, y, name)
  /\ \A e : e \in y.entries[name] <=> (e \in x.entries[name] \/ e = <<v, s>>)

EntryGone(x, y, name, v, s) ==
  /\ EntriesChanged(x, y, name)
  /\ \A e : e \in y.entries[name] <=> (e \in x.entries[name] /\ e # <<v, s>>)

LEMMA SetEffect ==
  ASSUME NEW x \in Database, NEW t \in DOMAIN Schema, NEW s \in Nat, NEW f \in Word,
         NEW v \in Datum
  PROVE  FieldIsSet(x, applied(x, SetValue(t, s, f, v)), t, s, f, v)
<1> DEFINE y == applied(x, SetValue(t, s, f, v))
<1>1. y \in Database
  <2>1. SetValue(t, s, f, v) \in Change
    BY SetChange, UserChanges
  <2> QED
    BY <2>1, AppliedType
<1>2. y = WithRows(x, Placed(x.slots, t, Valued(x.slots[t], s, f, v)),
                   CellTold(x.told, t, s, f))
  BY AppliedSet
<1> HIDE DEF y
<1>3. FieldIsSet(x, y, t, s, f, v)
  BY <1>1, <1>2, WithParts DEF FieldIsSet
<1> QED
  BY <1>3 DEF y

LEMMA EnterEffect ==
  ASSUME NEW x \in Database, NEW name \in Name, NEW s \in Nat, NEW v \in Datum
  PROVE  EntryMade(x, applied(x, Enter(name, v, s)), name, v, s)
<1> DEFINE y == applied(x, Enter(name, v, s))
<1>1. y \in Database
  <2>1. Enter(name, v, s) \in Change
    BY EntryChanges, UserChanges
  <2> QED
    BY <2>1, AppliedType
<1>2. y = WithEntries(x, Entered(x.entries, name, <<v, s>>))
  BY AppliedEnter
<1> HIDE DEF y
<1>3. /\ SameCatalog(y, x) /\ y.slots = x.slots /\ y.told = x.told
      /\ y.entries = Entered(x.entries, name, <<v, s>>)
  BY <1>2, WithParts
<1>4. DOMAIN x.entries = Name
  BY PartsType
<1>5. /\ y.entries[name] = x.entries[name] \cup {<<v, s>>}
      /\ \A n \in Name : n # name => y.entries[n] = x.entries[n]
  BY <1>3, <1>4 DEF Entered
<1> QED
  BY <1>1, <1>3, <1>5 DEF y, EntryMade, EntriesChanged

LEMMA EraseEffect ==
  ASSUME NEW x \in Database, NEW name \in Name, NEW s \in Nat, NEW v \in Datum
  PROVE  EntryGone(x, applied(x, Erase(name, v, s)), name, v, s)
<1> DEFINE y == applied(x, Erase(name, v, s))
<1>1. y \in Database
  <2>1. Erase(name, v, s) \in Change
    BY EntryChanges, UserChanges
  <2> QED
    BY <2>1, AppliedType
<1>2. y = WithEntries(x, Erased(x.entries, name, <<v, s>>))
  BY AppliedErase
<1> HIDE DEF y
<1>3. /\ SameCatalog(y, x) /\ y.slots = x.slots /\ y.told = x.told
      /\ y.entries = Erased(x.entries, name, <<v, s>>)
  BY <1>2, WithParts
<1>4. DOMAIN x.entries = Name
  BY PartsType
<1>5. /\ y.entries[name] = x.entries[name] \ {<<v, s>>}
      /\ \A n \in Name : n # name => y.entries[n] = x.entries[n]
  BY <1>3, <1>4 DEF Erased
<1> QED
  BY <1>1, <1>3, <1>5 DEF y, EntryGone, EntriesChanged

LEMMA SameTransitive ==
  ASSUME NEW x, NEW y, NEW z, SameCatalog(y, x), SameCatalog(z, y)
  PROVE  SameCatalog(z, x)
<1> QED
  BY DEF SameCatalog

LEMMA PairIsConcat ==
  ASSUME NEW S, NEW a \in S, NEW b \in S
  PROVE  <<a, b>> = <<a>> \o <<b>> /\ <<a>> \in Seq(S) /\ <<b>> \in Seq(S)
<1>1. <<a>> \in Seq(S) /\ <<b>> \in Seq(S)
  OBVIOUS
<1>2. Append(<<a>>, b) = <<a>> \o <<b>>
  BY <1>1, AppendIsConcat
<1>3. Append(<<a>>, b) = <<a, b>>
  <2>1. <<a, b>> \in Seq(S) /\ Len(<<a, b>>) = 2 /\ <<a, b>>[1] = a /\ <<a, b>>[2] = b
    OBVIOUS
  <2>2. Len(<<a>>) = 1 /\ <<a>>[1] = a
    OBVIOUS
  <2> DEFINE one == <<a>>
             two == <<a, b>>
  <2> HIDE DEF one, two
  <2>3. /\ Append(one, b) \in Seq(S) /\ Len(Append(one, b)) = 2
        /\ Append(one, b)[1] = a /\ Append(one, b)[2] = b
    BY <1>1, <2>2, AppendProperties DEF one
  <2>4. Append(one, b) = two
    <3>1. two \in Seq(S) /\ Len(two) = 2 /\ two[1] = a /\ two[2] = b
      BY <2>1 DEF two
    <3>2. \A i \in 1..2 : Append(one, b)[i] = two[i]
      BY <2>3, <3>1
    <3> QED
      BY <2>3, <3>1, <3>2, SeqEqual
  <2> QED
    BY <2>4 DEF one, two
<1> QED
  BY <1>1, <1>2, <1>3

LEMMA DonePair ==
  ASSUME NEW d \in Database, NEW a \in Change, NEW b \in Change
  PROVE  done(d, <<a, b>>) = applied(applied(d, a), b)
<1>1. <<a, b>> = <<a>> \o <<b>> /\ <<a>> \in Seq(Change) /\ <<b>> \in Seq(Change)
  BY PairIsConcat
<1>2. done(d, <<a>> \o <<b>>) = done(done(d, <<a>>), <<b>>)
  BY <1>1, DoneConcat
<1>3. done(d, <<a>>) = applied(d, a) /\ applied(d, a) \in Database
  BY DoneOne, AppliedType
<1> QED
  BY <1>1, <1>2, <1>3, DoneOne

\* The types of the fields of a table.
LEMMA FieldType ==
  ASSUME NEW t \in DOMAIN Schema, NEW f \in Range(Schema[t])
  PROVE  f \in Word
<1>1. Schema[t] \in Seq(Word)
  BY SchemaType
<1> QED
  BY <1>1, ElementOfSeq, LenProperties DEF Range

LEMMA OldValue ==
  ASSUME NEW x \in Database, NEW t \in DOMAIN Schema, NEW s \in DOMAIN x.slots[t],
         NEW f \in Range(Schema[t])
  PROVE  s \in Nat /\ x.slots[t][s].values[f] \in Datum
<1> QED
  BY RowAt DEF Row

\* The slots of t are in use as before, and none but s has other values.
OthersStay(x, y, t, s) ==
  /\ DOMAIN y.slots[t] = DOMAIN x.slots[t]
  /\ \A r \in DOMAIN x.slots[t] : y.slots[t][r].used = x.slots[t][r].used
  /\ \A r \in DOMAIN x.slots[t] : r # s => y.slots[t][r] = x.slots[t][r]

\* A row that gets a value is in use as before, and no other row changes.
LEMMA RowStays ==
  ASSUME NEW x \in Database, NEW y, NEW t \in DOMAIN Schema, NEW s \in DOMAIN x.slots[t],
         NEW f \in Range(Schema[t]), NEW v \in Datum,
         y.slots = Placed(x.slots, t, Valued(x.slots[t], s, f, v))
  PROVE  OthersStay(x, y, t, s)
<1> DEFINE rows == Valued(x.slots[t], s, f, v)
<1>1. DOMAIN rows = DOMAIN x.slots[t]
  BY ValuedRows
<1>2. \A r \in DOMAIN x.slots[t] : rows[r].used = x.slots[t][r].used
  BY ValuedRows
<1>3. \A r \in DOMAIN x.slots[t] : r # s => rows[r] = x.slots[t][r]
  BY DEF Valued
<1> HIDE DEF rows
<1>4. y.slots = Placed(x.slots, t, rows)
  BY DEF rows
<1>5. y.slots[t] = rows
  BY <1>4, PlacedRows
<1> QED
  BY <1>1, <1>2, <1>3, <1>5 DEF OthersStay

\* insert sets a field that nothing was told about.
field_inserted(info, t, s, f, v) ==
  <<SetValue(t, s, f, v)>> \o IF f \in DOMAIN info THEN <<Enter(info[f], v, s)>> ELSE <<>>

LEMMA FieldInserted ==
  ASSUME NEW x, RowsGood(x), NEW t \in DOMAIN Schema, NEW s \in DOMAIN x.slots[t],
         x.slots[t][s].used, NEW f \in Range(Schema[t]), NEW v \in Datum,
         <<t, s, f>> \notin x.told,
         NEW changes, changes = field_inserted(get_index_info(x, t), t, s, f, v),
         NEW y, y = done(x, changes)
  PROVE  /\ changes \in Seq(UserChange)
         /\ RowsGood(y) /\ SameCatalog(y, x)
         /\ s \in DOMAIN y.slots[t] /\ y.slots[t][s].used
         /\ \A g \in Word : <<t, s, g>> \in y.told => g = f \/ <<t, s, g>> \in x.told
<1> DEFINE info == get_index_info(x, t)
           old == x.slots[t][s].values[f]
           c == SetValue(t, s, f, v)
<1>1. x \in Database /\ s \in Nat /\ f \in Word /\ old \in Datum
  BY FieldType, OldValue DEF RowsGood
<1>2. PICK a : a = applied(x, c)
  OBVIOUS
<1>3. FieldIsSet(x, a, t, s, f, v)
  BY <1>1, <1>2, SetEffect
<1>4. c \in UserChange /\ c \in Change
  BY <1>1, SetChange, UserChanges
<1>5. f \in DOMAIN info => info[f] \in Name
  BY <1>1, NameInCatalog
<1> HIDE DEF c, old
<1>6. /\ changes \in Seq(UserChange)
      /\ f \notin DOMAIN info => y = a
      /\ f \in DOMAIN info => EntryMade(a, y, info[f], v, s)
  <2>1. CASE f \notin DOMAIN info
    <3>1. changes = <<c>>
      BY <2>1 DEF field_inserted, c
    <3>2. y = a
      BY <1>1, <1>2, <1>4, <3>1, DoneOne
    <3>3. changes \in Seq(UserChange)
      BY <1>4, <3>1
    <3> QED
      BY <2>1, <3>2, <3>3
  <2>2. CASE f \in DOMAIN info
    <3>1. PICK n \in Name : n = info[f]
      BY <1>5, <2>2
    <3>2. PICK e : e = Enter(n, v, s)
      OBVIOUS
    <3>3. e \in UserChange /\ e \in Change
      BY <1>1, <3>2, EntryChanges, UserChanges
    <3>4. changes = <<c, e>>
      <4>1. changes = <<c>> \o <<e>>
        BY <2>2, <3>1, <3>2 DEF field_inserted, c
      <4> QED
        BY <1>4, <3>3, <4>1, PairIsConcat
    <3>5. y = applied(a, e)
      BY <1>1, <1>2, <1>4, <3>3, <3>4, DonePair
    <3>6. a \in Database
      BY <1>3 DEF FieldIsSet
    <3>7. EntryMade(a, y, n, v, s)
      BY <1>1, <3>2, <3>5, <3>6, EnterEffect
    <3>8. changes \in Seq(UserChange)
      BY <1>4, <3>3, <3>4
    <3> QED
      BY <2>2, <3>1, <3>7, <3>8
  <2> QED
    BY <2>1, <2>2
<1>7. /\ y \in Database /\ SameCatalog(y, x)
      /\ y.slots = Placed(x.slots, t, Valued(x.slots[t], s, f, v))
      /\ y.told = CellTold(x.told, t, s, f)
      /\ \A name \in Name :
           (\A g \in DOMAIN info : g = f => name # info[g]) => y.entries[name] = x.entries[name]
  <2>1. CASE f \notin DOMAIN info
    BY <1>3, <1>6, <2>1 DEF FieldIsSet
  <2>2. CASE f \in DOMAIN info
    <3>1. EntriesChanged(a, y, info[f])
      BY <1>6, <2>2 DEF EntryMade
    <3>2. SameCatalog(y, x)
      BY <1>3, <3>1, SameTransitive DEF FieldIsSet, EntriesChanged
    <3> HIDE DEF info
    <3> QED
      BY <1>3, <2>2, <3>1, <3>2 DEF FieldIsSet, EntriesChanged
  <2> QED
    BY <2>1, <2>2
<1>8. ASSUME NEW k \in DOMAIN x.idxcat, Serves(x, k),
             x.idxcat[k].table = t, x.idxcat[k].field = f,
             NEW e \in Datum \X Nat
      PROVE  e \in y.entries[x.idxcat[k].name] <=>
               \/ e = <<v, s>>
               \/ e \in x.entries[x.idxcat[k].name] /\ e # <<old, s>>
  <2>1. f \in DOMAIN info
    BY <1>1, <1>8, IndexedFields
  <2>2. info[f] = x.idxcat[k].name
    BY <1>1, <1>8, <2>1, ServingName
  <2>3. <<old, s>> \notin x.entries[x.idxcat[k].name]
    BY <1>1, <1>8 DEF RowsGood, IndexesExact, EntriesExact, HasTold
  <2>4. a.entries = x.entries
    BY <1>3 DEF FieldIsSet
  <2> QED
    BY <1>6, <2>1, <2>2, <2>3, <2>4 DEF EntryMade
<1> HIDE DEF info
<1>9. RowsGood(y)
  <2>1. EntriesFollow(x, y, t, s, f, v)
    BY <1>7, <1>8 DEF EntriesFollow, info, old
  <2> QED
    BY <1>7, <2>1, FieldSet
<1>10. s \in DOMAIN y.slots[t] /\ y.slots[t][s].used
  <2>1. y.slots = Placed(x.slots, t, Valued(x.slots[t], s, f, v))
    BY <1>7
  <2>2. OthersStay(x, y, t, s)
    BY <1>1, <2>1, RowStays
  <2> QED
    BY <2>2 DEF OthersStay
<1> QED
  BY <1>6, <1>7, <1>9, <1>10 DEF CellTold


\* y is x after changes of the row at slot s of t alone.
RowChanged(x, y, t, s) ==
  /\ RowsGood(y) /\ SameCatalog(y, x)
  /\ DOMAIN y.slots[t] = DOMAIN x.slots[t]
  /\ \A r \in DOMAIN x.slots[t] : r # s => y.slots[t][r] = x.slots[t][r]

\* modify sets a field that has the value old, and moves its entry.
field_modified(info, t, s, f, v, old) ==
  <<SetValue(t, s, f, v)>>
    \o IF f \notin DOMAIN info THEN <<>> ELSE <<Erase(info[f], old, s), Enter(info[f], v, s)>>

LEMMA FieldModified ==
  ASSUME NEW x, RowsGood(x), NEW t \in DOMAIN Schema, NEW s \in DOMAIN x.slots[t],
         x.slots[t][s].used, NEW f \in Range(Schema[t]), NEW v \in Datum,
         NEW changes,
         changes = field_modified(get_index_info(x, t), t, s, f, v, x.slots[t][s].values[f]),
         NEW y, y = done(x, changes)
  PROVE  changes \in Seq(UserChange) /\ RowChanged(x, y, t, s)
<1> DEFINE info == get_index_info(x, t)
           old == x.slots[t][s].values[f]
           c == SetValue(t, s, f, v)
<1>1. x \in Database /\ s \in Nat /\ f \in Word /\ old \in Datum
  BY FieldType, OldValue DEF RowsGood
<1>2. PICK a : a = applied(x, c)
  OBVIOUS
<1>3. FieldIsSet(x, a, t, s, f, v)
  BY <1>1, <1>2, SetEffect
<1>4. c \in UserChange /\ c \in Change /\ <<c>> \in Seq(UserChange) /\ <<c>> \in Seq(Change)
  <2>1. c \in UserChange /\ c \in Change
    BY <1>1, SetChange, UserChanges
  <2> HIDE DEF c
  <2> QED
    BY <2>1
<1>5. f \in DOMAIN info => info[f] \in Name
  BY <1>1, NameInCatalog
<1>6. changes =
        <<c>> \o IF f \notin DOMAIN info THEN <<>>
                 ELSE <<Erase(info[f], old, s), Enter(info[f], v, s)>>
  BY DEF field_modified
<1> HIDE DEF c, old
<1>7. /\ changes \in Seq(UserChange)
      /\ f \notin DOMAIN info => y = a
      /\ f \in DOMAIN info =>
           \E b : EntryGone(a, b, info[f], old, s) /\ EntryMade(b, y, info[f], v, s)
  <2>1. CASE f \notin DOMAIN info
    <3>1. changes = <<c>>
      BY <1>4, <1>6, <2>1, ConcatEmptySeq
    <3>2. y = a
      BY <1>1, <1>2, <1>4, <3>1, DoneOne
    <3> QED
      BY <1>4, <2>1, <3>1, <3>2
  <2>2. CASE f \in DOMAIN info
    <3>1. PICK n \in Name : n = info[f]
      BY <1>5, <2>2
    <3>2. PICK e : e = Erase(n, old, s)
      OBVIOUS
    <3>3. PICK g : g = Enter(n, v, s)
      OBVIOUS
    <3>4. e \in UserChange /\ e \in Change /\ g \in UserChange /\ g \in Change
      BY <1>1, <3>2, <3>3, EntryChanges, UserChanges
    <3>5. PICK p : p = <<e, g>>
      OBVIOUS
    <3>6. p \in Seq(UserChange) /\ p \in Seq(Change)
      BY <3>4, <3>5
    <3>7. changes = <<c>> \o p
      BY <1>6, <2>2, <3>1, <3>2, <3>3, <3>5
    <3>8. changes \in Seq(UserChange)
      BY <1>4, <3>6, <3>7, ConcatProperties
    <3>9. a \in Database
      BY <1>3 DEF FieldIsSet
    <3>10. y = done(a, p)
      <4>1. done(x, <<c>>) = a
        BY <1>1, <1>2, <1>4, DoneOne
      <4>2. done(x, <<c>> \o p) = done(done(x, <<c>>), p)
        BY <1>1, <1>4, <3>6, DoneConcat
      <4> QED
        BY <3>7, <4>1, <4>2
    <3>11. PICK b : b = applied(a, e)
      OBVIOUS
    <3>12. y = applied(b, g)
      BY <3>4, <3>5, <3>9, <3>10, <3>11, DonePair
    <3>13. EntryGone(a, b, n, old, s)
      BY <1>1, <3>2, <3>9, <3>11, EraseEffect
    <3>14. b \in Database
      BY <3>13 DEF EntryGone, EntriesChanged
    <3>15. EntryMade(b, y, n, v, s)
      BY <1>1, <3>3, <3>12, <3>14, EnterEffect
    <3> QED
      BY <2>2, <3>1, <3>8, <3>13, <3>15
  <2> QED
    BY <2>1, <2>2
<1>8. /\ y \in Database /\ SameCatalog(y, x)
      /\ y.slots = Placed(x.slots, t, Valued(x.slots[t], s, f, v))
      /\ y.told = CellTold(x.told, t, s, f)
      /\ \A name \in Name :
           (\A g \in DOMAIN info : g = f => name # info[g]) => y.entries[name] = x.entries[name]
  <2>1. CASE f \notin DOMAIN info
    BY <1>3, <1>7, <2>1 DEF FieldIsSet
  <2>2. CASE f \in DOMAIN info
    <3>1. PICK b : EntryGone(a, b, info[f], old, s) /\ EntryMade(b, y, info[f], v, s)
      BY <1>7, <2>2
    <3>2. EntriesChanged(a, b, info[f]) /\ EntriesChanged(b, y, info[f])
      BY <3>1 DEF EntryGone, EntryMade
    <3>3. SameCatalog(y, x)
      <4>1. SameCatalog(a, x) /\ SameCatalog(b, a) /\ SameCatalog(y, b)
        BY <1>3, <3>2 DEF FieldIsSet, EntriesChanged
      <4>2. SameCatalog(b, x)
        BY <4>1, SameTransitive
      <4> QED
        BY <4>1, <4>2, SameTransitive
    <3> HIDE DEF info
    <3>4. /\ y \in Database /\ y.slots = b.slots /\ b.slots = a.slots
          /\ y.told = b.told /\ b.told = a.told
      BY <3>2 DEF EntriesChanged
    <3>5. \A name \in Name : name # info[f] => y.entries[name] = a.entries[name]
      BY <3>2 DEF EntriesChanged
    <3>6. /\ a.slots = Placed(x.slots, t, Valued(x.slots[t], s, f, v))
          /\ a.told = CellTold(x.told, t, s, f) /\ a.entries = x.entries
      BY <1>3 DEF FieldIsSet
    <3> QED
      BY <2>2, <3>3, <3>4, <3>5, <3>6
  <2> QED
    BY <2>1, <2>2
<1>9. ASSUME NEW k \in DOMAIN x.idxcat, Serves(x, k),
             x.idxcat[k].table = t, x.idxcat[k].field = f,
             NEW e \in Datum \X Nat
      PROVE  e \in y.entries[x.idxcat[k].name] <=>
               \/ e = <<v, s>>
               \/ e \in x.entries[x.idxcat[k].name] /\ e # <<old, s>>
  <2>1. f \in DOMAIN info
    BY <1>1, <1>9, IndexedFields
  <2>2. info[f] = x.idxcat[k].name
    BY <1>1, <1>9, <2>1, ServingName
  <2>3. PICK b : EntryGone(a, b, info[f], old, s) /\ EntryMade(b, y, info[f], v, s)
    BY <1>7, <2>1
  <2>4. a.entries = x.entries
    BY <1>3 DEF FieldIsSet
  <2>5. e \in b.entries[info[f]] <=> e \in a.entries[info[f]] /\ e # <<old, s>>
    BY <2>3 DEF EntryGone
  <2>6. e \in y.entries[info[f]] <=> e \in b.entries[info[f]] \/ e = <<v, s>>
    BY <2>3 DEF EntryMade
  <2> QED
    BY <2>2, <2>4, <2>5, <2>6
<1> HIDE DEF info
<1>10. RowsGood(y)
  <2>1. EntriesFollow(x, y, t, s, f, v)
    BY <1>8, <1>9 DEF EntriesFollow, info, old
  <2> QED
    BY <1>8, <2>1, FieldSet
<1>11. /\ DOMAIN y.slots[t] = DOMAIN x.slots[t]
       /\ \A r \in DOMAIN x.slots[t] : r # s => y.slots[t][r] = x.slots[t][r]
  <2>1. y.slots = Placed(x.slots, t, Valued(x.slots[t], s, f, v))
    BY <1>8
  <2>2. OthersStay(x, y, t, s)
    BY <1>1, <2>1, RowStays
  <2> QED
    BY <2>2 DEF OthersStay
<1> QED
  BY <1>7, <1>8, <1>10, <1>11 DEF RowChanged

\* y is x without the entries of slot s in the first m of the indexes of names.
EntriesErased(x, y, names, vals, s, m) ==
  /\ y \in Database /\ SameCatalog(y, x) /\ y.slots = x.slots /\ y.told = x.told
  /\ \A n \in Name : \A e :
       e \in y.entries[n] <=>
         (e \in x.entries[n] /\ \A j \in 1..m : n = names[j] => e # <<vals[j], s>>)

erasures(names, vals, s) == [k \in DOMAIN names |-> Erase(names[k], vals[k], s)]

LEMMA ErasedOneMore ==
  ASSUME NEW x, NEW y, NEW z, NEW m \in Nat, NEW names, NEW vals, NEW s,
         EntriesErased(x, y, names, vals, s, m), names[m + 1] \in Name,
         EntryGone(y, z, names[m + 1], vals[m + 1], s)
  PROVE  EntriesErased(x, z, names, vals, s, m + 1)
<1>1. /\ z \in Database /\ SameCatalog(z, x) /\ z.slots = x.slots /\ z.told = x.told
  BY SameTransitive DEF EntriesErased, EntryGone, EntriesChanged
<1>2. ASSUME NEW n \in Name, NEW e
      PROVE  e \in z.entries[n] <=>
               (e \in x.entries[n] /\ \A j \in 1..(m + 1) : n = names[j] => e # <<vals[j], s>>)
  <2>1. e \in y.entries[n] <=>
          (e \in x.entries[n] /\ \A j \in 1..m : n = names[j] => e # <<vals[j], s>>)
    BY DEF EntriesErased
  <2>2. e \in z.entries[n] <=>
          (e \in y.entries[n] /\ (n = names[m + 1] => e # <<vals[m + 1], s>>))
    BY DEF EntryGone, EntriesChanged
  <2>3. \A j : j \in 1..(m + 1) <=> (j \in 1..m \/ j = m + 1)
    OBVIOUS
  <2> QED
    BY <2>1, <2>2, <2>3
<1> QED
  BY <1>1, <1>2 DEF EntriesErased

LEMMA Erasures ==
  ASSUME NEW x \in Database, NEW s \in Nat, NEW names \in Seq(Name),
         NEW vals \in [DOMAIN names -> Datum]
  PROVE  /\ erasures(names, vals, s) \in Seq(UserChange)
         /\ EntriesErased(x, done(x, erasures(names, vals, s)), names, vals, s, Len(names))
<1> DEFINE changes == erasures(names, vals, s)
           m == Len(names)
<1>1. m \in Nat /\ DOMAIN names = 1..m /\ \A k \in 1..m : names[k] \in Name
  BY LenProperties, ElementOfSeq
<1>2. \A k \in 1..m : changes[k] = Erase(names[k], vals[k], s)
  BY <1>1 DEF erasures
<1>3. changes \in Seq(UserChange) /\ Len(changes) = m
  <2>1. \A k \in 1..m : Erase(names[k], vals[k], s) \in UserChange
    BY <1>1, EntryChanges
  <2>2. changes = [k \in 1..m |-> Erase(names[k], vals[k], s)]
    BY <1>1 DEF erasures
  <2> HIDE DEF changes, m
  <2>3. changes \in Seq(UserChange)
    BY <1>1, <2>1, <2>2, IsASeq
  <2> QED
    BY <1>1, <2>2, <2>3, LenProperties
<1> HIDE DEF changes, m
<1>4. PICK g : Follows(g, x, changes, m) /\ done(x, changes) = g[m]
  <2>1. changes \in Seq(Change) /\ m \in 0..Len(changes)
    BY <1>1, <1>3, UserChanges
  <2> QED
    BY <1>3, <2>1, AfterFollows DEF done
<1> DEFINE T == {k \in 0..m : EntriesErased(x, g[k], names, vals, s, k)}
<1>5. 0 \in T
  <2>1. g[0] = x
    BY <1>4 DEF Follows
  <2>2. EntriesErased(x, x, names, vals, s, 0)
    BY DEF EntriesErased, SameCatalog
  <2> QED
    BY <1>1, <2>1, <2>2
<1>6. \A k \in 1..m : k - 1 \in T => k \in T
  <2> TAKE k \in 1..m
  <2> HAVE k - 1 \in T
  <2>1. /\ k - 1 \in 0..m /\ k - 1 \in Nat /\ k \in 0..m /\ (k - 1) + 1 = k
        /\ names[k] \in Name /\ vals[k] \in Datum
    BY <1>1
  <2>2. g[k - 1] \in Database /\ g[k] = applied(g[k - 1], changes[k])
    BY <1>4, <2>1 DEF Follows
  <2>3. EntryGone(g[k - 1], g[k], names[k], vals[k], s)
    BY <1>2, <2>1, <2>2, EraseEffect
  <2>4. EntriesErased(x, g[k], names, vals, s, (k - 1) + 1)
    <3> DEFINE i == k - 1
    <3>1. i \in Nat /\ i + 1 = k /\ EntriesErased(x, g[i], names, vals, s, i)
      BY <2>1
    <3>2. EntryGone(g[i], g[k], names[i + 1], vals[i + 1], s) /\ names[i + 1] \in Name
      BY <2>1, <2>3
    <3> HIDE DEF i
    <3>3. EntriesErased(x, g[k], names, vals, s, i + 1)
      BY <3>1, <3>2, ErasedOneMore
    <3> QED
      BY <3>3 DEF i
  <2> QED
    BY <2>1, <2>4
<1>7. 0..m \subseteq T
  <2> HIDE DEF T
  <2> QED
    BY <1>1, <1>5, <1>6, UpTo
<1>8. EntriesErased(x, g[m], names, vals, s, m)
  BY <1>1, <1>7
<1> QED
  BY <1>3, <1>4, <1>8 DEF changes, m

\* An order of a finite set has each of its members.
LEMMA OrderHasAll ==
  ASSUME NEW S, IsFiniteSet(S), NEW order \in SetToSeqs(S)
  PROVE  order \in Seq(S) /\ \A x \in S : \E j \in DOMAIN order : order[j] = x
<1> DEFINE m == Cardinality(S)
<1>1. m \in Nat
  BY FS_CardinalityType
<1>2. order \in [1..m -> S] /\ \A i, j \in 1..m : i # j => order[i] # order[j]
  BY DEF SetToSeqs
<1>3. IsFiniteSet(1..m) /\ Cardinality(1..m) = m
  BY <1>1, FS_Interval
<1>4. order \in Injection(1..m, S)
  BY <1>2 DEF Injection, IsInjective
<1>5. order \in Surjection(1..m, S)
  BY <1>3, <1>4, FS_Injection
<1> HIDE DEF m
<1>6. order \in Seq(S)
  BY <1>1, <1>2
<1> QED
  BY <1>2, <1>5, <1>6 DEF Surjection

\* The indexes of a table are finitely many.
LEMMA IndexesFinite ==
  ASSUME NEW d \in Database, NEW t
  PROVE  IsFiniteSet(DOMAIN get_index_info(d, t))
<1> DEFINE D == DOMAIN get_index_info(d, t)
           S == {k \in DOMAIN d.idxcat : d.idxcat[k].table = t}
           f == [k \in S |-> d.idxcat[k].field]
<1>1. IsFiniteSet(DOMAIN d.idxcat)
  <2>1. d.idxcat \in Seq(Index)
    BY PartsType
  <2>2. DOMAIN d.idxcat = 1..Len(d.idxcat) /\ Len(d.idxcat) \in Nat
    BY <2>1, LenProperties
  <2> QED
    BY <2>2, FS_Interval
<1>2. IsFiniteSet(S)
  BY <1>1, FS_Subset
<1>3. D = {d.idxcat[k].field : k \in S}
  BY DEF get_index_info, Range
<1>4. f \in Surjection(S, D)
  BY <1>3 DEF Surjection
<1> HIDE DEF f, S, D
<1>5. IsFiniteSet(D)
  BY <1>2, <1>4, FS_Surjection
<1> QED
  BY <1>5 DEF D

\* delete takes the entries of a row away and frees its slot.
row_deleted(info, order, t, s, values) ==
  [k \in DOMAIN order |-> Erase(info[order[k]], values[order[k]], s)] \o <<Free(t, s)>>

LEMMA FreeEffect ==
  ASSUME NEW x \in Database, NEW t \in DOMAIN Schema, NEW s \in Nat,
         NEW y, y = applied(x, Free(t, s))
  PROVE  /\ y \in Database /\ SameCatalog(y, x) /\ y.entries = x.entries
         /\ y.slots = Placed(x.slots, t, Freed(x.slots[t], s))
         /\ y.told = RowForgotten(x.told, t, s)
<1>1. y \in Database
  BY RowChanges, UserChanges, AppliedType
<1>2. y = WithRows(x, Placed(x.slots, t, Freed(x.slots[t], s)), RowForgotten(x.told, t, s))
  BY AppliedFree
<1> QED
  BY <1>1, <1>2, WithParts

LEMMA RowEntriesErased ==
  ASSUME NEW x \in Database, NEW y, NEW t \in DOMAIN Schema, NEW s \in DOMAIN x.slots[t],
         NEW order \in SetToSeqs(DOMAIN get_index_info(x, t)),
         NEW names \in Seq(Name), DOMAIN names = DOMAIN order,
         NEW vals,
         \A j \in DOMAIN order : names[j] = get_index_info(x, t)[order[j]],
         \A j \in DOMAIN order : vals[j] = x.slots[t][s].values[order[j]],
         EntriesErased(x, y, names, vals, s, Len(names))
  PROVE  EntriesOfRowGone(x, y, t, s)
<1> DEFINE info == get_index_info(x, t)
           m == Len(names)
<1>1. /\ order \in Seq(DOMAIN info)
      /\ \A f \in DOMAIN info : \E j \in DOMAIN order : order[j] = f
  BY IndexesFinite, OrderHasAll
<1>2. m \in Nat /\ DOMAIN order = 1..m /\ \A j \in 1..m : order[j] \in DOMAIN info
  <2>1. DOMAIN names = 1..m /\ m \in Nat
    BY LenProperties
  <2>2. \A j \in DOMAIN order : order[j] \in DOMAIN info
    BY <1>1, ElementOfSeq, LenProperties
  <2> QED
    BY <2>1, <2>2
<1> HIDE DEF info, m
<1>3. \A n \in Name : \A e :
        e \in y.entries[n] <=>
          (e \in x.entries[n] /\ \A j \in 1..m : n = names[j] => e # <<vals[j], s>>)
  BY DEF EntriesErased, m
<1>4. \A name \in Name : y.entries[name] \subseteq x.entries[name]
  BY <1>3
<1>5. ASSUME NEW k \in DOMAIN x.idxcat, Serves(x, k), NEW e \in Datum \X Nat
      PROVE  e \in y.entries[x.idxcat[k].name] <=>
               /\ e \in x.entries[x.idxcat[k].name]
               /\ x.idxcat[k].table = t =>
                    e # <<x.slots[t][s].values[x.idxcat[k].field], s>>
  <2> DEFINE n == x.idxcat[k].name
             f == x.idxcat[k].field
  <2>1. n \in Name
    BY IndexType
  <2>2. ASSUME NEW j \in 1..m
        PROVE  n = names[j] <=> (x.idxcat[k].table = t /\ order[j] = f)
    <3>1. order[j] \in DOMAIN info /\ names[j] = info[order[j]]
      BY <1>2 DEF info
    <3>2. info[order[j]] = x.idxcat[k].name <=>
            (t = x.idxcat[k].table /\ order[j] = x.idxcat[k].field)
      BY <1>5, <3>1, ServingName DEF info
    <3> QED
      BY <3>1, <3>2
  <2>3. \A j \in 1..m : vals[j] = x.slots[t][s].values[order[j]]
    BY <1>2
  <2>4. x.idxcat[k].table = t => \E j \in 1..m : order[j] = f
    <3>1. x.idxcat[k].table = t => f \in DOMAIN info
      BY IndexedFields DEF info
    <3> QED
      BY <1>1, <1>2, <3>1
  <2>5. e \in y.entries[n] <=>
          (e \in x.entries[n] /\ \A j \in 1..m : n = names[j] => e # <<vals[j], s>>)
    BY <1>3, <2>1
  <2>6. (\A j \in 1..m : n = names[j] => e # <<vals[j], s>>) <=>
          (x.idxcat[k].table = t => e # <<x.slots[t][s].values[f], s>>)
    <3> HIDE DEF n, f
    <3>1. \A j \in 1..m : n = names[j] => vals[j] = x.slots[t][s].values[f]
      BY <2>2, <2>3
    <3>2. x.idxcat[k].table = t => \E j \in 1..m : n = names[j]
      BY <2>2, <2>4
    <3>3. \A j \in 1..m : n = names[j] => x.idxcat[k].table = t
      BY <2>2
    <3> QED
      BY <3>1, <3>2, <3>3
  <2> QED
    BY <2>5, <2>6
<1> QED
  BY <1>4, <1>5 DEF EntriesOfRowGone

LEMMA RowDeleted ==
  ASSUME NEW x, RowsGood(x), NEW t \in DOMAIN Schema, NEW s \in DOMAIN x.slots[t],
         DOMAIN get_index_info(x, t) \subseteq Range(Schema[t]),
         NEW order \in SetToSeqs(DOMAIN get_index_info(x, t)),
         NEW changes,
         changes = row_deleted(get_index_info(x, t), order, t, s, x.slots[t][s].values),
         NEW y, y = done(x, changes)
  PROVE  changes \in Seq(UserChange) /\ RowChanged(x, y, t, s)
<1> DEFINE info == get_index_info(x, t)
           names == [k \in DOMAIN order |-> info[order[k]]]
           vals == [k \in DOMAIN order |-> x.slots[t][s].values[order[k]]]
           c == Free(t, s)
<1>1. x \in Database /\ s \in Nat
  BY RowAt DEF RowsGood
<1>2. order \in Seq(DOMAIN info) /\ \A k \in DOMAIN order : order[k] \in DOMAIN info
  <2>1. order \in Seq(DOMAIN info)
    BY <1>1, IndexesFinite, OrderHasAll
  <2> QED
    BY <2>1, ElementOfSeq, LenProperties
<1>3. names \in Seq(Name) /\ DOMAIN names = DOMAIN order /\ vals \in [DOMAIN names -> Datum]
  <2>1. \A f \in DOMAIN info : info[f] \in Name
    BY <1>1, NameInCatalog
  <2>2. \A f \in DOMAIN info : x.slots[t][s].values[f] \in Datum
    BY <1>1, OldValue
  <2>3. DOMAIN order = 1..Len(order) /\ Len(order) \in Nat
    BY <1>2, LenProperties
  <2> HIDE DEF info
  <2>4. names \in Seq(Name)
    BY <1>2, <2>1, <2>3
  <2> QED
    BY <1>2, <2>2, <2>4
<1>4. \A j \in DOMAIN order : names[j] = info[order[j]] /\ vals[j] = x.slots[t][s].values[order[j]]
  OBVIOUS
<1>5. changes = erasures(names, vals, s) \o <<c>>
  BY <1>3 DEF row_deleted, erasures
<1>6. c \in UserChange
  BY <1>1, RowChanges
<1> HIDE DEF names, vals, info, c
<1>7. PICK e : e = erasures(names, vals, s)
  OBVIOUS
<1>8. PICK b : b = done(x, e)
  OBVIOUS
<1>9. e \in Seq(UserChange) /\ EntriesErased(x, b, names, vals, s, Len(names))
  BY <1>1, <1>3, <1>7, <1>8, Erasures
<1>10. <<c>> \in Seq(UserChange)
  BY <1>6
<1>11. changes \in Seq(UserChange)
  BY <1>5, <1>7, <1>9, <1>10, ConcatProperties
<1>12. b \in Database /\ SameCatalog(b, x) /\ b.slots = x.slots /\ b.told = x.told
  BY <1>9 DEF EntriesErased
<1>13. y = applied(b, c)
  <2>1. e \in Seq(Change) /\ <<c>> \in Seq(Change) /\ c \in Change
    BY <1>6, <1>9, <1>10, UserChanges
  <2>2. done(x, e \o <<c>>) = done(done(x, e), <<c>>)
    BY <1>1, <2>1, DoneConcat
  <2> QED
    BY <1>5, <1>7, <1>8, <1>12, <2>1, <2>2, DoneOne
<1>14. /\ y \in Database /\ SameCatalog(y, b) /\ y.entries = b.entries
       /\ y.slots = Placed(b.slots, t, Freed(b.slots[t], s))
       /\ y.told = RowForgotten(b.told, t, s)
  BY <1>1, <1>12, <1>13, FreeEffect DEF c
<1>15. SameCatalog(y, x)
  BY <1>12, <1>14, SameTransitive
<1>16. EntriesOfRowGone(x, b, t, s)
  BY <1>1, <1>3, <1>4, <1>9, RowEntriesErased DEF info
<1>17. EntriesOfRowGone(x, y, t, s)
  BY <1>14, <1>16 DEF EntriesOfRowGone
<1>18. y.slots = Placed(x.slots, t, Freed(x.slots[t], s)) /\ y.told = RowForgotten(x.told, t, s)
  BY <1>12, <1>14
<1>19. RowsGood(y)
  BY <1>14, <1>15, <1>17, <1>18, RowFreed
<1>20. /\ DOMAIN y.slots[t] = DOMAIN x.slots[t]
       /\ \A r \in DOMAIN x.slots[t] : r # s => y.slots[t][r] = x.slots[t][r]
  <2> DEFINE rows == Freed(x.slots[t], s)
  <2>1. DOMAIN rows = DOMAIN x.slots[t] /\ \A r \in DOMAIN x.slots[t] : r # s => rows[r] = x.slots[t][r]
    BY DEF Freed
  <2> HIDE DEF rows
  <2>2. y.slots = Placed(x.slots, t, rows)
    BY <1>18 DEF rows
  <2>3. y.slots[t] = rows
    BY <1>1, <2>2, PlacedRows
  <2> QED
    BY <2>1, <2>3
<1> QED
  BY <1>11, <1>15, <1>19, <1>20 DEF RowChanged

-----------------------------------------------------------------------------
(* What whole statements do to the rows.                                   *)

\* changes, done to d, leave the rows and their entries in order.
KeepsRows(d, changes) ==
  /\ changes \in Seq(UserChange)
  /\ RowsGood(done(d, changes)) /\ SameCatalog(done(d, changes), d)

\* x is d, on the way to slot s of t: the slots from there on are as they were.
OnTheWay(d, x, t, s) ==
  /\ RowsGood(x) /\ SameCatalog(x, d) /\ DOMAIN x.slots[t] = DOMAIN d.slots[t]
  /\ \A r \in DOMAIN d.slots[t] : s <= r => x.slots[t][r] = d.slots[t][r]

\* A statement that goes through the slots of a table and changes some rows.
LEMMA ThroughSlots ==
  ASSUME NEW d, RowsGood(d), NEW t \in DOMAIN Schema,
         NEW seqs \in Seq(Seq(UserChange)), DOMAIN seqs = DOMAIN d.slots[t],
         \A s \in DOMAIN d.slots[t] : \A x \in Database :
           OnTheWay(d, x, t, s) => RowChanged(x, done(x, seqs[s]), t, s)
  PROVE  KeepsRows(d, FlattenSeq(seqs))
<1> DEFINE m == Len(seqs)
<1>1. d \in Database /\ m \in Nat /\ DOMAIN d.slots[t] = 1..m
  BY LenProperties DEF RowsGood
<1>2. FlattenSeq(seqs) \in Seq(UserChange)
  BY <1>1, DoneFlatten, UserChanges
<1>3. PICK g : Passes(g, d, seqs, m) /\ done(d, FlattenSeq(seqs)) = g[m]
  BY <1>1, DoneFlatten, UserChanges
<1> HIDE DEF m
<1> DEFINE T == {k \in 0..m : OnTheWay(d, g[k], t, k + 1)}
<1>4. 0 \in T
  <2>1. g[0] = d
    BY <1>3 DEF Passes
  <2>2. OnTheWay(d, d, t, 0 + 1)
    BY DEF OnTheWay, SameCatalog
  <2> QED
    BY <1>1, <2>1, <2>2
<1>5. \A k \in 1..m : k - 1 \in T => k \in T
  <2> TAKE k \in 1..m
  <2> HAVE k - 1 \in T
  <2>1. k \in 0..m /\ k - 1 \in 0..m /\ (k - 1) + 1 = k /\ k \in DOMAIN d.slots[t]
    BY <1>1
  <2>2. g[k] = done(g[k - 1], seqs[k]) /\ g[k - 1] \in Database
    BY <1>3, <2>1 DEF Passes
  <2>3. OnTheWay(d, g[k - 1], t, k)
    BY <2>1
  <2>4. RowChanged(g[k - 1], g[k], t, k)
    BY <2>1, <2>2, <2>3
  <2>5. OnTheWay(d, g[k], t, k + 1)
    <3>1. RowsGood(g[k]) /\ SameCatalog(g[k], d)
      BY <2>3, <2>4, SameTransitive DEF OnTheWay, RowChanged
    <3>2. DOMAIN g[k].slots[t] = DOMAIN d.slots[t]
      BY <2>3, <2>4 DEF OnTheWay, RowChanged
    <3>3. ASSUME NEW r \in DOMAIN d.slots[t], k + 1 <= r
          PROVE  g[k].slots[t][r] = d.slots[t][r]
      <4>1. r # k /\ k <= r
        BY <1>1, <3>3
      <4>2. g[k - 1].slots[t][r] = d.slots[t][r] /\ r \in DOMAIN g[k - 1].slots[t]
        BY <2>3, <4>1 DEF OnTheWay
      <4> QED
        BY <2>4, <4>1, <4>2 DEF RowChanged
    <3> QED
      BY <3>1, <3>2, <3>3 DEF OnTheWay
  <2> QED
    BY <2>1, <2>5
<1>6. 0..m \subseteq T
  <2> HIDE DEF T
  <2> QED
    BY <1>1, <1>4, <1>5, UpTo
<1>7. OnTheWay(d, g[m], t, m + 1)
  BY <1>1, <1>6
<1> QED
  BY <1>2, <1>3, <1>7 DEF OnTheWay, KeepsRows

\* A row for which there is nothing to do.
LEMMA RowLeft ==
  ASSUME NEW x, RowsGood(x), NEW t, NEW s
  PROVE  RowChanged(x, done(x, <<>>), t, s)
<1>1. done(x, <<>>) = x
  BY DoneNone DEF RowsGood
<1> QED
  BY <1>1 DEF RowChanged, SameCatalog

\* modify, once it has opened the index.
rows_modified(d, t, f, e, where) ==
  for_each(d, t, where,
           [s \in DOMAIN d.slots[t] |->
              field_modified(get_index_info(d, t), t, s, f, e[d.slots[t][s].values],
                             d.slots[t][s].values[f])])

LEMMA RowsModified ==
  ASSUME NEW d, RowsGood(d), NEW t \in DOMAIN Schema, NEW f \in Range(Schema[t]),
         NEW e \in [[Range(Schema[t]) -> Datum] -> Datum], NEW where
  PROVE  KeepsRows(d, rows_modified(d, t, f, e, where))
<1> DEFINE info == get_index_info(d, t)
           change(s) == field_modified(info, t, s, f, e[d.slots[t][s].values],
                                      d.slots[t][s].values[f])
           seqs == [s \in DOMAIN d.slots[t] |->
                      IF matches(d, t, where, s) THEN change(s) ELSE <<>>]
<1>1. rows_modified(d, t, f, e, where) = FlattenSeq(seqs)
  <2> DEFINE changes == [s \in DOMAIN d.slots[t] |-> change(s)]
  <2>1. rows_modified(d, t, f, e, where) = for_each(d, t, where, changes)
    BY DEF rows_modified
  <2>2. \A s \in DOMAIN d.slots[t] : changes[s] = change(s)
    OBVIOUS
  <2> HIDE DEF changes, change
  <2>3. seqs = [s \in DOMAIN d.slots[t] |->
                  IF matches(d, t, where, s) THEN changes[s] ELSE <<>>]
    BY <2>2
  <2> QED
    BY <2>1, <2>3 DEF for_each
<1>2. d \in Database /\ d.slots[t] \in Seq(Row(t)) /\ OnTheWay(d, d, t, 0)
  BY PartsType DEF RowsGood, OnTheWay, SameCatalog
<1>3. ASSUME NEW s \in DOMAIN d.slots[t], matches(d, t, where, s), NEW x \in Database,
             OnTheWay(d, x, t, s)
      PROVE  change(s) \in Seq(UserChange) /\ RowChanged(x, done(x, change(s)), t, s)
  <2>1. RowsGood(x) /\ SameCatalog(x, d) /\ s \in DOMAIN x.slots[t]
    BY <1>3 DEF OnTheWay
  <2>2. x.slots[t][s] = d.slots[t][s] /\ d.slots[t][s].used
    <3>1. s <= s
      BY <1>2, RowAt
    <3> QED
      BY <1>3, <3>1 DEF OnTheWay, matches
  <2>3. get_index_info(x, t) = info
    BY <2>1, SameInfo
  <2>4. PICK c : c = change(s)
    OBVIOUS
  <2>5. PICK v \in Datum : v = e[x.slots[t][s].values]
    <3>1. s \in 1..Len(d.slots[t]) /\ d.slots[t][s] \in Row(t)
      BY <1>2, LenProperties, ElementOfSeq
    <3> QED
      BY <2>2, <3>1 DEF Row
  <2>6. c = field_modified(get_index_info(x, t), t, s, f, v, x.slots[t][s].values[f])
    BY <2>2, <2>3, <2>4, <2>5
  <2>7. PICK y : y = done(x, c)
    OBVIOUS
  <2>8. c \in Seq(UserChange) /\ RowChanged(x, y, t, s)
    BY <2>1, <2>2, <2>6, <2>7, FieldModified
  <2> QED
    BY <2>4, <2>7, <2>8
<1> HIDE DEF info, change
<1>4. <<>> \in Seq(UserChange)
  BY EmptySeq
<1>5. \A s \in DOMAIN d.slots[t] : seqs[s] \in Seq(UserChange)
  <2> TAKE s \in DOMAIN d.slots[t]
  <2>1. OnTheWay(d, d, t, s)
    BY <1>2 DEF OnTheWay
  <2> QED
    BY <1>2, <1>3, <1>4, <2>1
<1>6. seqs \in Seq(Seq(UserChange)) /\ DOMAIN seqs = DOMAIN d.slots[t]
  <2>1. DOMAIN d.slots[t] = 1..Len(d.slots[t]) /\ Len(d.slots[t]) \in Nat
    BY <1>2, LenProperties
  <2>2. DOMAIN seqs = 1..Len(d.slots[t])
    BY <2>1
  <2>3. seqs = [s \in 1..Len(d.slots[t]) |-> seqs[s]]
    BY <2>2
  <2> DEFINE m == Len(d.slots[t])
             S == Seq(UserChange)
  <2> HIDE DEF seqs, m, S
  <2>4. m \in Nat /\ \A s \in 1..m : seqs[s] \in S
    BY <1>5, <2>1 DEF m, S
  <2>5. [s \in 1..m |-> seqs[s]] \in Seq(S)
    BY <2>4, IsASeq
  <2> QED
    BY <2>1, <2>2, <2>3, <2>5 DEF m, S
<1>7. \A s \in DOMAIN d.slots[t] : \A x \in Database :
        OnTheWay(d, x, t, s) => RowChanged(x, done(x, seqs[s]), t, s)
  <2> TAKE s \in DOMAIN d.slots[t]
  <2> TAKE x \in Database
  <2> HAVE OnTheWay(d, x, t, s)
  <2>1. CASE matches(d, t, where, s)
    <3>1. seqs[s] = change(s)
      BY <2>1
    <3> QED
      BY <1>3, <2>1, <3>1
  <2>2. CASE ~matches(d, t, where, s)
    <3>1. seqs[s] = <<>> /\ RowsGood(x)
      BY <2>2 DEF OnTheWay
    <3> QED
      BY <3>1, RowLeft
  <2> QED
    BY <2>1, <2>2
<1> HIDE DEF seqs
<1>8. KeepsRows(d, FlattenSeq(seqs))
  BY <1>6, <1>7, ThroughSlots
<1> QED
  BY <1>1, <1>8

LEMMA ModifyKeepsRows ==
  ASSUME NEW d, RowsGood(d), NEW t \in DOMAIN Schema, NEW f \in Range(Schema[t]),
         NEW e \in Expression[t], NEW where
  PROVE  KeepsRows(d, modify(d, t, f, e, where))
<1> DEFINE info == get_index_info(d, t)
<1>1. PICK rows : rows = rows_modified(d, t, f, e, where)
  OBVIOUS
<1>2. modify(d, t, f, e, where) =
        (IF f \in DOMAIN info THEN <<OpenIndex(info[f])>> ELSE <<>>) \o rows
  BY <1>1 DEF modify, rows_modified, field_modified
<1>3. KeepsRows(d, rows) /\ rows \in Seq(UserChange) /\ d \in Database
  <2>1. e \in [[Range(Schema[t]) -> Datum] -> Datum]
    BY UpdatesAssumption
  <2> QED
    BY <1>1, <2>1, RowsModified DEF KeepsRows, RowsGood
<1>4. CASE f \in DOMAIN info
  <2>1. PICK c : c = OpenIndex(info[f])
    OBVIOUS
  <2>2. c \in UserChange /\ applied(d, c) = d
    <3>1. info[f] \in Name
      BY <1>3, <1>4, NameInCatalog
    <3> QED
      BY <2>1, <3>1, OpenChange, AppliedOpen
  <2>3. <<c>> \in Seq(UserChange) /\ <<c>> \in Seq(Change) /\ rows \in Seq(Change) /\ c \in Change
    BY <1>3, <2>2, UserChanges
  <2>4. <<c>> \o rows \in Seq(UserChange)
    BY <1>3, <2>3, ConcatProperties
  <2>5. done(d, <<c>> \o rows) = done(done(d, <<c>>), rows)
    BY <1>3, <2>3, DoneConcat
  <2>6. done(d, <<c>>) = d
    BY <1>3, <2>2, <2>3, DoneOne
  <2> QED
    BY <1>2, <1>3, <1>4, <2>1, <2>4, <2>5, <2>6 DEF KeepsRows
<1>5. CASE f \notin DOMAIN info
  <2>1. <<>> \o rows = rows
    BY <1>3, ConcatEmptySeq
  <2> QED
    BY <1>2, <1>3, <1>5, <2>1
<1> QED
  BY <1>4, <1>5

LEMMA DeleteKeepsRows ==
  ASSUME NEW d, RowsGood(d), NEW t \in DOMAIN Schema,
         DOMAIN get_index_info(d, t) \subseteq Range(Schema[t]),
         NEW order \in SetToSeqs(DOMAIN get_index_info(d, t)), NEW where
  PROVE  KeepsRows(d, delete(d, t, where, order))
<1> DEFINE info == get_index_info(d, t)
           change(s) == row_deleted(info, order, t, s, d.slots[t][s].values)
           seqs == [s \in DOMAIN d.slots[t] |->
                      IF matches(d, t, where, s) THEN change(s) ELSE <<>>]
<1>1. delete(d, t, where, order) = FlattenSeq(seqs)
  <2> DEFINE changes == [s \in DOMAIN d.slots[t] |-> change(s)]
  <2>1. delete(d, t, where, order) = for_each(d, t, where, changes)
    BY DEF delete, row_deleted
  <2>2. \A s \in DOMAIN d.slots[t] : changes[s] = change(s)
    OBVIOUS
  <2> HIDE DEF changes, change
  <2>3. seqs = [s \in DOMAIN d.slots[t] |->
                  IF matches(d, t, where, s) THEN changes[s] ELSE <<>>]
    BY <2>2
  <2> QED
    BY <2>1, <2>3 DEF for_each
<1>2. d \in Database /\ d.slots[t] \in Seq(Row(t)) /\ OnTheWay(d, d, t, 0)
  BY PartsType DEF RowsGood, OnTheWay, SameCatalog
<1>3. ASSUME NEW s \in DOMAIN d.slots[t], NEW x \in Database, OnTheWay(d, x, t, s)
      PROVE  change(s) \in Seq(UserChange) /\ RowChanged(x, done(x, change(s)), t, s)
  <2>1. RowsGood(x) /\ SameCatalog(x, d) /\ s \in DOMAIN x.slots[t]
    BY <1>3 DEF OnTheWay
  <2>2. x.slots[t][s] = d.slots[t][s]
    <3>1. s <= s
      BY <1>2, RowAt
    <3> QED
      BY <1>3, <3>1 DEF OnTheWay
  <2>3. get_index_info(x, t) = info
    BY <2>1, SameInfo
  <2>4. PICK e : e = change(s)
    OBVIOUS
  <2>5. e = row_deleted(get_index_info(x, t), order, t, s, x.slots[t][s].values)
    BY <2>2, <2>3, <2>4
  <2>6. PICK y : y = done(x, e)
    OBVIOUS
  <2>7. e \in Seq(UserChange) /\ RowChanged(x, y, t, s)
    BY <2>1, <2>3, <2>5, <2>6, RowDeleted
  <2> QED
    BY <2>4, <2>6, <2>7
<1> HIDE DEF info, change
<1>4. <<>> \in Seq(UserChange)
  BY EmptySeq
<1>5. \A s \in DOMAIN d.slots[t] : seqs[s] \in Seq(UserChange)
  <2> TAKE s \in DOMAIN d.slots[t]
  <2>1. OnTheWay(d, d, t, s)
    BY <1>2 DEF OnTheWay
  <2> QED
    BY <1>2, <1>3, <1>4, <2>1
<1>6. seqs \in Seq(Seq(UserChange)) /\ DOMAIN seqs = DOMAIN d.slots[t]
  <2>1. DOMAIN d.slots[t] = 1..Len(d.slots[t]) /\ Len(d.slots[t]) \in Nat
    BY <1>2, LenProperties
  <2>2. DOMAIN seqs = 1..Len(d.slots[t])
    BY <2>1
  <2>3. seqs = [s \in 1..Len(d.slots[t]) |-> seqs[s]]
    BY <2>2
  <2> HIDE DEF seqs
  <2> QED
    BY <1>5, <2>1, <2>2, <2>3, IsASeq
<1>7. \A s \in DOMAIN d.slots[t] : \A x \in Database :
        OnTheWay(d, x, t, s) => RowChanged(x, done(x, seqs[s]), t, s)
  <2> TAKE s \in DOMAIN d.slots[t]
  <2> TAKE x \in Database
  <2> HAVE OnTheWay(d, x, t, s)
  <2>1. CASE matches(d, t, where, s)
    <3>1. seqs[s] = change(s)
      BY <2>1
    <3> QED
      BY <1>3, <2>1, <3>1
  <2>2. CASE ~matches(d, t, where, s)
    <3>1. seqs[s] = <<>> /\ RowsGood(x)
      BY <2>2 DEF OnTheWay
    <3> QED
      BY <3>1, RowLeft
  <2> QED
    BY <2>1, <2>2
<1> HIDE DEF seqs
<1>8. KeepsRows(d, FlattenSeq(seqs))
  BY <1>6, <1>7, ThroughSlots
<1> QED
  BY <1>1, <1>8

LEMMA FreeSlot ==
  ASSUME NEW t \in DOMAIN Schema, NEW slots \in Seq(Row(t))
  PROVE  /\ free_slot(slots) \in 1..(Len(slots) + 1)
         /\ free_slot(slots) \in DOMAIN slots => ~slots[free_slot(slots)].used
<1> DEFINE free == {s \in DOMAIN slots : ~slots[s].used}
<1>1. DOMAIN slots = 1..Len(slots) /\ Len(slots) \in Nat
  BY LenProperties
<1>2. free_slot(slots) = IF free = {} THEN Len(slots) + 1 ELSE Min(free)
  BY DEF free_slot
<1>3. CASE free = {}
  BY <1>1, <1>2, <1>3
<1>4. CASE free # {}
  <2>1. free \in SUBSET Nat
    BY <1>1
  <2> HIDE DEF free
  <2>2. Min(free) \in free
    BY <1>4, <2>1, MinProperty
  <2> QED
    BY <1>1, <1>2, <1>4, <2>2 DEF free
<1> QED
  BY <1>3, <1>4

\* The row at slot s of t, of which nothing was told of the fields from the
\* place k of values on.
OnTheRow(d, x, t, s, values, k) ==
  /\ RowsGood(x) /\ SameCatalog(x, d)
  /\ s \in DOMAIN x.slots[t] /\ x.slots[t][s].used
  /\ \A j \in DOMAIN values : k <= j => <<t, s, values[j][1]>> \notin x.told

DistinctFields(values) ==
  \A i, j \in DOMAIN values : values[i][1] = values[j][1] => i = j

LEMMA NextField ==
  ASSUME NEW d, NEW x, NEW t \in DOMAIN Schema, NEW s, NEW values,
         DOMAIN values \subseteq Nat,
         \A j \in DOMAIN values : values[j] \in Range(Schema[t]) \X Datum,
         DistinctFields(values),
         NEW k \in DOMAIN values, OnTheRow(d, x, t, s, values, k),
         NEW changes,
         changes = field_inserted(get_index_info(d, t), t, s, values[k][1], values[k][2])
  PROVE  /\ changes \in Seq(UserChange)
         /\ OnTheRow(d, done(x, changes), t, s, values, k + 1)
<1>1. PICK f : f = values[k][1]
  OBVIOUS
<1>2. PICK v : v = values[k][2]
  OBVIOUS
<1>3. f \in Range(Schema[t]) /\ v \in Datum /\ k \in Nat
  BY <1>1, <1>2
<1>4. RowsGood(x) /\ SameCatalog(x, d) /\ s \in DOMAIN x.slots[t] /\ x.slots[t][s].used
  BY DEF OnTheRow
<1>5. <<t, s, f>> \notin x.told
  BY <1>1, <1>3 DEF OnTheRow
<1>6. changes = field_inserted(get_index_info(x, t), t, s, f, v)
  <2>1. get_index_info(x, t) = get_index_info(d, t)
    BY <1>4, SameInfo
  <2> QED
    BY <1>1, <1>2, <2>1
<1>7. PICK y : y = done(x, changes)
  OBVIOUS
<1>8. /\ changes \in Seq(UserChange)
      /\ RowsGood(y) /\ SameCatalog(y, x)
      /\ s \in DOMAIN y.slots[t] /\ y.slots[t][s].used
      /\ \A g \in Word : <<t, s, g>> \in y.told => g = f \/ <<t, s, g>> \in x.told
  BY <1>3, <1>4, <1>5, <1>6, <1>7, FieldInserted
<1>9. SameCatalog(y, d)
  BY <1>4, <1>8, SameTransitive
<1>10. ASSUME NEW j \in DOMAIN values, k + 1 <= j
       PROVE  <<t, s, values[j][1]>> \notin y.told
  <2>1. PICK g : g = values[j][1]
    OBVIOUS
  <2>2. g \in Word
    <3>1. g \in Range(Schema[t])
      BY <2>1
    <3> QED
      BY <3>1, FieldType
  <2>3. j \in Nat /\ j # k /\ k <= j
    BY <1>3, <1>10
  <2>4. g # f
    BY <1>1, <2>1, <2>3 DEF DistinctFields
  <2>5. <<t, s, g>> \notin x.told
    BY <2>1, <2>3 DEF OnTheRow
  <2> QED
    BY <1>8, <2>1, <2>2, <2>4, <2>5
<1> QED
  BY <1>7, <1>8, <1>9, <1>10 DEF OnTheRow

LEMMA FieldInsertedType ==
  ASSUME NEW d \in Database, NEW t \in DOMAIN Schema, NEW s \in Nat,
         NEW f \in Range(Schema[t]), NEW v \in Datum
  PROVE  field_inserted(get_index_info(d, t), t, s, f, v) \in Seq(UserChange)
<1> DEFINE info == get_index_info(d, t)
<1>1. PICK c : c = SetValue(t, s, f, v)
  OBVIOUS
<1>2. c \in UserChange
  BY <1>1, FieldType, SetChange
<1>3. <<c>> \in Seq(UserChange) /\ <<>> \in Seq(UserChange)
  BY <1>2
<1>4. f \in DOMAIN info => <<Enter(info[f], v, s)>> \in Seq(UserChange)
  <2> SUFFICES ASSUME f \in DOMAIN info PROVE <<Enter(info[f], v, s)>> \in Seq(UserChange)
    OBVIOUS
  <2>1. PICK n \in Name : n = info[f]
    BY NameInCatalog
  <2>2. PICK e : e = Enter(n, v, s)
    OBVIOUS
  <2>3. e \in UserChange
    BY <2>2, EntryChanges
  <2>4. <<e>> \in Seq(UserChange)
    BY <2>3
  <2> QED
    BY <2>1, <2>2, <2>4
<1> HIDE DEF info
<1>5. PICK e : e = IF f \in DOMAIN info THEN <<Enter(info[f], v, s)>> ELSE <<>>
  OBVIOUS
<1>6. e \in Seq(UserChange)
  BY <1>3, <1>4, <1>5
<1>7. <<c>> \o e \in Seq(UserChange)
  BY <1>3, <1>6, ConcatProperties
<1> QED
  BY <1>1, <1>5, <1>7 DEF field_inserted, info

fields_inserted(info, t, s, values, n) ==
  [i \in 1..n |-> field_inserted(info, t, s, values[i][1], values[i][2])]

LEMMA FieldsInserted ==
  ASSUME NEW d \in Database, NEW x, NEW t \in DOMAIN Schema, NEW s \in Nat, NEW n \in Nat,
         NEW values \in [1..n -> Range(Schema[t]) \X Datum],
         DistinctFields(values),
         OnTheRow(d, x, t, s, values, 1),
         NEW seqs, seqs = fields_inserted(get_index_info(d, t), t, s, values, n),
         NEW e, e = FlattenSeq(seqs)
  PROVE  e \in Seq(UserChange) /\ RowsGood(done(x, e)) /\ SameCatalog(done(x, e), d)
<1>1. /\ x \in Database /\ DOMAIN values = 1..n /\ DOMAIN values \subseteq Nat
      /\ \A j \in 1..n : values[j] \in Range(Schema[t]) \X Datum
  BY DEF OnTheRow, RowsGood
<1>2. \A k \in 1..n :
        seqs[k] = field_inserted(get_index_info(d, t), t, s, values[k][1], values[k][2])
  BY DEF fields_inserted
<1>3. seqs \in Seq(Seq(UserChange)) /\ Len(seqs) = n
  <2>1. \A k \in 1..n : seqs[k] \in Seq(UserChange)
    <3> TAKE k \in 1..n
    <3>1. PICK f \in Range(Schema[t]), v \in Datum : f = values[k][1] /\ v = values[k][2]
      BY <1>1
    <3>2. field_inserted(get_index_info(d, t), t, s, f, v) \in Seq(UserChange)
      BY FieldInsertedType
    <3> QED
      BY <1>2, <3>1, <3>2
  <2>2. seqs = [k \in 1..n |-> seqs[k]]
    BY DEF fields_inserted
  <2> QED
    BY <2>1, <2>2, IsASeq, LenProperties
<1>4. ASSUME NEW k \in 1..n, NEW y, OnTheRow(d, y, t, s, values, k)
      PROVE  OnTheRow(d, done(y, seqs[k]), t, s, values, k + 1)
  <2>1. PICK c : c = seqs[k]
    OBVIOUS
  <2>2. c = field_inserted(get_index_info(d, t), t, s, values[k][1], values[k][2])
    BY <1>2, <2>1
  <2>3. OnTheRow(d, done(y, c), t, s, values, k + 1)
    BY <1>1, <1>4, <2>2, NextField
  <2> QED
    BY <2>1, <2>3
<1>5. PICK g : Passes(g, x, seqs, n) /\ done(x, e) = g[n]
  <2>1. \E g : Passes(g, x, seqs, Len(seqs)) /\ done(x, FlattenSeq(seqs)) = g[Len(seqs)]
    BY <1>1, <1>3, DoneFlatten, UserChanges
  <2> QED
    BY <1>3, <2>1
<1>6. e \in Seq(UserChange)
  BY <1>1, <1>3, DoneFlatten, UserChanges
<1> DEFINE T == {k \in 0..n : OnTheRow(d, g[k], t, s, values, k + 1)}
<1>7. 0 \in T
  <2>1. g[0] = x
    BY <1>5 DEF Passes
  <2>2. OnTheRow(d, x, t, s, values, 0 + 1)
    OBVIOUS
  <2> QED
    BY <2>1, <2>2
<1>8. \A k \in 1..n : k - 1 \in T => k \in T
  <2> TAKE k \in 1..n
  <2> HAVE k - 1 \in T
  <2>1. k \in 0..n /\ k - 1 \in 0..n /\ (k - 1) + 1 = k
    OBVIOUS
  <2>2. OnTheRow(d, g[k - 1], t, s, values, k)
    BY <2>1
  <2>3. g[k] = done(g[k - 1], seqs[k])
    BY <1>5 DEF Passes
  <2>4. OnTheRow(d, g[k], t, s, values, k + 1)
    BY <1>4, <2>2, <2>3
  <2> QED
    BY <2>1, <2>4
<1>9. 0..n \subseteq T
  <2> HIDE DEF T
  <2> QED
    BY <1>7, <1>8, UpTo
<1>10. OnTheRow(d, g[n], t, s, values, n + 1)
  BY <1>9
<1> QED
  BY <1>5, <1>6, <1>10 DEF OnTheRow

LEMMA InsertKeepsRows ==
  ASSUME NEW d, RowsGood(d), NEW t \in DOMAIN Schema, NEW values \in Values(t),
         IsInjective([i \in DOMAIN values |-> values[i][1]])
  PROVE  KeepsRows(d, insert(d, t, values))
<1> DEFINE info == get_index_info(d, t)
<1>1. d \in Database /\ d.slots[t] \in Seq(Row(t)) /\ Len(d.slots[t]) \in Nat
  BY PartsType, LenProperties DEF RowsGood
<1>2. PICK n \in Nat : values \in [1..n -> Range(Schema[t]) \X Datum]
  <2>1. Len(Schema[t]) \in Nat
    BY SchemaType, LenProperties
  <2>2. PICK n \in 1..Len(Schema[t]) : values \in [1..n -> Range(Schema[t]) \X Datum]
    BY DEF Values
  <2>3. n \in Nat
    BY <2>1
  <2> QED
    BY <2>2, <2>3
<1>3. PICK s : s = free_slot(d.slots[t])
  OBVIOUS
<1>4. s \in 1..(Len(d.slots[t]) + 1) /\ s \in Nat /\ (s \in DOMAIN d.slots[t] => ~d.slots[t][s].used)
  BY <1>1, <1>3, FreeSlot
<1>5. PICK c : c = Take(t, s)
  OBVIOUS
<1>6. PICK seqs : seqs = fields_inserted(info, t, s, values, n)
  OBVIOUS
<1>7. PICK e : e = FlattenSeq(seqs)
  OBVIOUS
<1>8. insert(d, t, values) = <<c>> \o e
  <2>1. seqs = [i \in DOMAIN values |-> field_inserted(info, t, s, values[i][1], values[i][2])]
    BY <1>2, <1>6 DEF fields_inserted
  <2> QED
    BY <1>3, <1>5, <1>7, <2>1 DEF insert, field_inserted
<1>9. PICK x : x = applied(d, c)
  OBVIOUS
<1>10. /\ RowsGood(x) /\ SameCatalog(x, d) /\ s \in DOMAIN x.slots[t] /\ x.slots[t][s].used
       /\ \A f \in Word : <<t, s, f>> \notin x.told
  BY <1>4, <1>5, <1>9, RowTaken
<1>11. c \in UserChange /\ <<c>> \in Seq(UserChange)
  <2>1. c \in UserChange
    BY <1>4, <1>5, RowChanges
  <2> QED
    BY <2>1
<1>12. DistinctFields(values)
  BY DEF IsInjective, DistinctFields
<1>13. OnTheRow(d, x, t, s, values, 1)
  <2>1. \A j \in DOMAIN values : values[j][1] \in Word
    BY <1>2, FieldType
  <2> QED
    BY <1>10, <2>1 DEF OnTheRow
<1> HIDE DEF info
<1>14. e \in Seq(UserChange) /\ RowsGood(done(x, e)) /\ SameCatalog(done(x, e), d)
  <2>1. seqs = fields_inserted(get_index_info(d, t), t, s, values, n)
    BY <1>6 DEF info
  <2> QED
    BY <1>1, <1>2, <1>4, <1>7, <1>12, <1>13, <2>1, FieldsInserted
<1>15. <<c>> \o e \in Seq(UserChange)
  BY <1>11, <1>14, ConcatProperties
<1>16. done(d, <<c>> \o e) = done(x, e)
  <2>1. e \in Seq(Change) /\ <<c>> \in Seq(Change) /\ c \in Change
    BY <1>11, <1>14, UserChanges
  <2>2. done(d, <<c>> \o e) = done(done(d, <<c>>), e)
    BY <1>1, <2>1, DoneConcat
  <2> QED
    BY <1>1, <1>9, <2>1, <2>2, DoneOne
<1> QED
  BY <1>8, <1>14, <1>15, <1>16 DEF KeepsRows

\* Nothing of the tables and their fields has changed.
SameTables(x, d) == x.tblcat = d.tblcat /\ x.fldcat = d.fldcat /\ x.torn = d.torn

LEMMA CreateIndexKeepsRows ==
  ASSUME NEW d, RowsGood(d), NEW i \in Index
  PROVE  /\ create_index(i) \in Seq(UserChange)
         /\ RowsGood(done(d, create_index(i))) /\ SameTables(done(d, create_index(i)), d)
<1> DEFINE c == AddIndex(i)
           n == Len(d.idxcat)
<1>1. c \in UserChange /\ c \in Change
  <2>1. c \in Change /\ c.do = "add_index"
    BY DEF Change, AddIndex
  <2> QED
    BY <2>1 DEF UserChange
<1>2. d \in Database /\ d.idxcat \in Seq(Index) /\ n \in Nat /\ DOMAIN d.idxcat = 1..n
  BY PartsType, LenProperties DEF RowsGood
<1>3. PICK y : y = applied(d, c)
  OBVIOUS
<1>4. done(d, create_index(i)) = y /\ create_index(i) \in Seq(UserChange)
  <2> HIDE DEF c
  <2>1. create_index(i) = <<c>>
    BY DEF create_index, c
  <2> QED
    BY <1>1, <1>2, <1>3, <2>1, DoneOne
<1>5. y \in Database
  BY <1>1, <1>2, <1>3, AppliedType
<1>6. y = WithIndexes(d, Append(d.idxcat, i), ColumnForgotten(d.told, i.table, i.field))
  BY <1>3, AppliedIndex
<1>7. /\ SameTables(y, d) /\ y.slots = d.slots /\ y.entries = d.entries
      /\ y.idxcat = Append(d.idxcat, i)
      /\ y.told = ColumnForgotten(d.told, i.table, i.field)
  BY <1>2, <1>6 DEF Database, SameTables, WithIndexes
<1>8. /\ DOMAIN y.idxcat = 1..(n + 1) /\ y.idxcat[n + 1] = i
      /\ \A k \in 1..n : y.idxcat[k] = d.idxcat[k]
  BY <1>2, <1>7, AppendProperties
<1>9. \A t \in DOMAIN Schema, s \in Nat, f \in Word :
        <<t, s, f>> \in y.told <=> (<<t, s, f>> \in d.told /\ ~(t = i.table /\ f = i.field))
  BY <1>7 DEF ColumnForgotten
<1>10. TellsRows(y)
  BY <1>7, <1>9 DEF RowsGood, TellsRows
<1> HIDE DEF n
<1>11. NoStrayEntries(y)
  <2> SUFFICES ASSUME NEW name \in Name, \A k \in DOMAIN y.idxcat : y.idxcat[k].name # name
               PROVE  y.entries[name] = {}
    BY DEF NoStrayEntries
  <2>1. \A k \in 1..n : d.idxcat[k].name # name
    <3>1. \A k \in 1..n : k \in 1..(n + 1)
      BY <1>2
    <3> QED
      BY <1>8, <3>1
  <2> QED
    BY <1>2, <1>7, <2>1 DEF RowsGood, NoStrayEntries
<1>12. i.name \in Name /\ i.table \in DOMAIN Schema /\ i.field \in Word
  BY OfIndex
<1>13. ASSUME Serves(y, n + 1)
       PROVE  EntriesExact(y, i)
  <2>1. \A k \in 1..n : d.idxcat[k].name # i.name
    <3>1. \A k \in 1..n : k \in 1..(n + 1) /\ k # n + 1
      BY <1>2
    <3> QED
      BY <1>8, <1>13, <3>1 DEF Serves
  <2>2. y.entries[i.name] = {}
    BY <1>2, <1>7, <1>12, <2>1 DEF RowsGood, NoStrayEntries
  <2>3. ASSUME NEW v \in Datum, NEW s \in Nat PROVE ~HasTold(y, i.table, s, i.field, v)
    BY <1>9, <1>12 DEF HasTold
  <2> QED
    BY <2>2, <2>3 DEF EntriesExact
<1>14. ASSUME NEW k \in 1..n, Serves(y, k)
       PROVE  EntriesExact(y, y.idxcat[k])
  <2>1. k \in 1..(n + 1) /\ n + 1 \in 1..(n + 1) /\ ~(n + 1 <= k)
    BY <1>2
  <2>2. Serves(d, k)
    <3>1. \A j \in 1..n : j \in 1..(n + 1)
      BY <1>2
    <3> QED
      BY <1>2, <1>8, <1>14, <3>1 DEF Serves
  <2>3. ~(i.table = d.idxcat[k].table /\ i.field = d.idxcat[k].field)
    BY <1>8, <1>14, <2>1 DEF Serves
  <2>4. PICK e : e = d.idxcat[k]
    OBVIOUS
  <2>5. e = y.idxcat[k] /\ EntriesExact(d, e)
    BY <1>2, <1>8, <2>2, <2>4 DEF RowsGood, IndexesExact
  <2>6. e.name \in Name /\ e.table \in DOMAIN Schema /\ e.field \in Word
    BY <1>2, <2>4, IndexType
  <2>7. ASSUME NEW v \in Datum, NEW s \in Nat
        PROVE  HasTold(y, e.table, s, e.field, v) <=> HasTold(d, e.table, s, e.field, v)
    BY <1>7, <1>9, <2>3, <2>4, <2>6 DEF HasTold
  <2> QED
    BY <1>7, <2>5, <2>7 DEF EntriesExact
<1>15. IndexesExact(y)
  <2>1. \A k \in 1..(n + 1) : k \in 1..n \/ k = n + 1
    BY <1>2
  <2> QED
    BY <1>8, <1>13, <1>14, <2>1 DEF IndexesExact
<1>16. RowsGood(y)
  BY <1>5, <1>10, <1>11, <1>15 DEF RowsGood
<1> QED
  BY <1>4, <1>7, <1>16

-----------------------------------------------------------------------------
(* What a statement does to the catalog.                                   *)

CatalogAgrees(d) ==
  /\ IsInjective(d.tblcat) /\ IsInjective(d.fldcat)
  /\ {r.table : r \in Range(d.fldcat)} = Range(d.tblcat)
  /\ \A t \in Range(d.tblcat) \cap DOMAIN Schema : get_layout(d, t) = Range(Schema[t])

LEMMA SameCatalogAgrees ==
  ASSUME NEW x, NEW d, SameTables(x, d), CatalogAgrees(d)
  PROVE  CatalogAgrees(x)
<1>1. x.tblcat = d.tblcat /\ x.fldcat = d.fldcat
  BY DEF SameTables
<1>2. \A t : get_layout(x, t) = get_layout(d, t)
  BY <1>1 DEF get_layout
<1> QED
  BY <1>1, <1>2 DEF CatalogAgrees

\* The rows and the indexes are those of d.
SameRows(x, d) ==
  /\ x.idxcat = d.idxcat /\ x.slots = d.slots /\ x.told = d.told
  /\ x.entries = d.entries /\ x.torn = d.torn

LEMMA SameRowsGood ==
  ASSUME NEW x \in Database, NEW d, SameRows(x, d), RowsGood(d)
  PROVE  RowsGood(x)
<1>1. \A k : Serves(x, k) <=> Serves(d, k)
  BY DEF Serves, SameRows
<1>2. \A i : EntriesExact(x, i) <=> EntriesExact(d, i)
  BY DEF EntriesExact, HasTold, SameRows
<1> QED
  BY <1>1, <1>2 DEF RowsGood, TellsRows, NoStrayEntries, IndexesExact, SameRows

\* y is x with the first k of the fields of a table after the others.
FieldsAdded(x, y, t, fields, k) ==
  /\ y \in Database /\ SameRows(y, x) /\ y.tblcat = x.tblcat
  /\ Len(y.fldcat) = Len(x.fldcat) + k
  /\ \A j \in 1..Len(x.fldcat) : y.fldcat[j] = x.fldcat[j]
  /\ \A j \in 1..k : y.fldcat[Len(x.fldcat) + j] = [table |-> t, field |-> fields[j]]

additions(t, fields) == [j \in DOMAIN fields |-> AddField(t, fields[j])]

LEMMA OneMoreField ==
  ASSUME NEW x \in Database, NEW y, NEW t \in Word, NEW fields \in Seq(Word), NEW k \in Nat,
         k + 1 \in DOMAIN fields, FieldsAdded(x, y, t, fields, k)
  PROVE  FieldsAdded(x, applied(y, AddField(t, fields[k + 1])), t, fields, k + 1)
<1> DEFINE r == [table |-> t, field |-> fields[k + 1]]
           z == applied(y, AddField(t, fields[k + 1]))
           n == Len(x.fldcat)
<1>1. /\ y \in Database /\ y.fldcat \in Seq(Field) /\ n \in Nat /\ Len(y.fldcat) = n + k
      /\ fields[k + 1] \in Word
  BY PartsType, LenProperties, ElementOfSeq DEF FieldsAdded
<1>2. r \in Field
  BY <1>1 DEF Field
<1>3. z = WithFields(y, Append(y.fldcat, r))
  BY AppliedField
<1> HIDE DEF r, z, n
<1>4. Append(y.fldcat, r) \in Seq(Field)
  BY <1>1, <1>2
<1>5. /\ z \in Database /\ SameRows(z, y) /\ z.tblcat = y.tblcat
      /\ z.fldcat = Append(y.fldcat, r)
  <2>1. z \in Database
    BY <1>1, <1>3, <1>4, Replaced
  <2> QED
    BY <1>1, <1>3, <2>1 DEF Database, WithFields, SameRows
<1>6. /\ Len(z.fldcat) = n + k + 1 /\ z.fldcat[n + k + 1] = r
      /\ \A j \in 1..(n + k) : z.fldcat[j] = y.fldcat[j]
  BY <1>1, <1>2, <1>5, AppendProperties
<1>7. SameRows(z, x) /\ z.tblcat = x.tblcat
  BY <1>5 DEF FieldsAdded, SameRows
<1>8. \A j \in 1..n : z.fldcat[j] = x.fldcat[j]
  <2>1. \A j \in 1..n : j \in 1..(n + k)
    BY <1>1
  <2> QED
    BY <1>6, <2>1 DEF FieldsAdded, n
<1>9. \A j \in 1..(k + 1) : z.fldcat[n + j] = [table |-> t, field |-> fields[j]]
  <2> TAKE j \in 1..(k + 1)
  <2>1. CASE j = k + 1
    <3>1. n + j = n + k + 1
      BY <1>1, <2>1
    <3> QED
      BY <1>6, <2>1, <3>1 DEF r
  <2>2. CASE j # k + 1
    <3>1. j \in 1..k /\ n + j \in 1..(n + k)
      BY <1>1, <2>2
    <3> QED
      BY <1>6, <3>1 DEF FieldsAdded, n
  <2> QED
    BY <2>1, <2>2
<1>10. Len(z.fldcat) = n + (k + 1)
  BY <1>1, <1>6
<1> QED
  BY <1>5, <1>7, <1>8, <1>9, <1>10 DEF FieldsAdded, z, n

LEMMA AddTableChange ==
  ASSUME NEW t \in Word PROVE AddTable(t) \in UserChange
<1>1. AddTable(t) \in Change /\ AddTable(t).do = "add_table"
  <2>1. AddTable(t) \in {AddTable(u) : u \in Word}
    OBVIOUS
  <2> QED
    BY <2>1 DEF Change, AddTable
<1> QED
  BY <1>1 DEF UserChange

LEMMA AddFieldChange ==
  ASSUME NEW t \in Word, NEW f \in Word
  PROVE  /\ AddField(t, f) \in Change
         /\ t \in DOMAIN Schema => AddField(t, f) \in UserChange
<1>1. AddField(t, f) \in Change /\ AddField(t, f).table = t
  <2>1. AddField(t, f) \in {AddField(u, g) : u \in Word, g \in Word}
    OBVIOUS
  <2> QED
    BY <2>1 DEF Change, AddField
<1> QED
  BY <1>1 DEF UserChange

LEMMA Additions ==
  ASSUME NEW x \in Database, NEW t \in Word, NEW fields \in Seq(Word)
  PROVE  /\ additions(t, fields) \in Seq(Change)
         /\ t \in DOMAIN Schema => additions(t, fields) \in Seq(UserChange)
         /\ Len(additions(t, fields)) = Len(fields)
         /\ FieldsAdded(x, done(x, additions(t, fields)), t, fields, Len(fields))
<1> DEFINE changes == additions(t, fields)
           m == Len(fields)
<1>1. m \in Nat /\ DOMAIN fields = 1..m /\ \A k \in 1..m : fields[k] \in Word
  BY LenProperties, ElementOfSeq
<1>2. changes = [k \in 1..m |-> AddField(t, fields[k])]
  BY <1>1 DEF additions
<1>3. \A k \in 1..m : changes[k] = AddField(t, fields[k])
  BY <1>2
<1>4. \A k \in 1..m : /\ AddField(t, fields[k]) \in Change
                      /\ t \in DOMAIN Schema => AddField(t, fields[k]) \in UserChange
  <2> TAKE k \in 1..m
  <2>1. PICK f \in Word : f = fields[k]
    BY <1>1
  <2>2. /\ AddField(t, f) \in Change
        /\ t \in DOMAIN Schema => AddField(t, f) \in UserChange
    BY AddFieldChange
  <2> QED
    BY <2>1, <2>2
<1> HIDE DEF changes, m
<1>5. changes \in Seq(Change) /\ Len(changes) = m
  <2>1. \A k \in 1..m : changes[k] \in Change
    BY <1>3, <1>4
  <2>2. changes \in [1..m -> Change]
    BY <1>2, <2>1
  <2>3. changes \in Seq(Change)
    BY <1>1, <2>2
  <2> QED
    BY <1>1, <2>2, <2>3
<1>6. t \in DOMAIN Schema => changes \in Seq(UserChange)
  <2> SUFFICES ASSUME t \in DOMAIN Schema PROVE changes \in Seq(UserChange)
    OBVIOUS
  <2>1. \A k \in 1..m : changes[k] \in UserChange
    BY <1>3, <1>4
  <2>2. changes \in [1..m -> UserChange]
    BY <1>2, <2>1
  <2> QED
    BY <1>1, <2>2
<1>7. PICK g : Follows(g, x, changes, m) /\ done(x, changes) = g[m]
  <2>1. m \in 0..Len(changes)
    BY <1>1, <1>5
  <2> QED
    BY <1>5, <2>1, AfterFollows DEF done
<1> DEFINE T == {k \in 0..m : FieldsAdded(x, g[k], t, fields, k)}
<1>8. 0 \in T
  <2>1. g[0] = x /\ Len(x.fldcat) \in Nat
    BY <1>7, PartsType, LenProperties DEF Follows
  <2>2. FieldsAdded(x, x, t, fields, 0)
    BY <2>1 DEF FieldsAdded, SameRows
  <2> QED
    BY <1>1, <2>1, <2>2
<1>9. \A k \in 1..m : k - 1 \in T => k \in T
  <2> TAKE k \in 1..m
  <2> HAVE k - 1 \in T
  <2>1. PICK i \in Nat : i = k - 1
    BY <1>1
  <2>2. k = i + 1 /\ i \in 0..m /\ k \in 0..m /\ i + 1 \in DOMAIN fields
    BY <1>1, <2>1
  <2>3. FieldsAdded(x, g[i], t, fields, i)
    BY <2>1
  <2>4. g[k] = applied(g[i], AddField(t, fields[i + 1]))
    BY <1>3, <1>7, <2>1, <2>2 DEF Follows
  <2>5. FieldsAdded(x, g[k], t, fields, i + 1)
    BY <2>2, <2>3, <2>4, OneMoreField
  <2> QED
    BY <2>2, <2>5
<1>10. 0..m \subseteq T
  <2> HIDE DEF T
  <2> QED
    BY <1>1, <1>8, <1>9, UpTo
<1>11. FieldsAdded(x, g[m], t, fields, m)
  <2>1. m \in 0..m
    BY <1>1
  <2> QED
    BY <1>10, <2>1
<1> QED
  BY <1>5, <1>6, <1>7, <1>11 DEF changes, m

\* y is d with a table of these fields.
TableAdded(d, y, t, fields) ==
  /\ y \in Database /\ SameRows(y, d) /\ y.tblcat = Append(d.tblcat, t)
  /\ Len(y.fldcat) = Len(d.fldcat) + Len(fields)
  /\ \A j \in 1..Len(d.fldcat) : y.fldcat[j] = d.fldcat[j]
  /\ \A j \in 1..Len(fields) :
       y.fldcat[Len(d.fldcat) + j] = [table |-> t, field |-> fields[j]]

LEMMA CreateTableAdds ==
  ASSUME NEW d \in Database, NEW t \in Word, get_layout(d, t) = {},
         NEW fields \in Seq(Word),
         NEW changes, changes = create_table(d, t, fields)
  PROVE  /\ changes \in Seq(Change) /\ Len(changes) = 1 + Len(fields)
         /\ t \in DOMAIN Schema => changes \in Seq(UserChange)
         /\ TableAdded(d, done(d, changes), t, fields)
<1>1. PICK c : c = AddTable(t)
  OBVIOUS
<1>2. PICK e : e = additions(t, fields)
  OBVIOUS
<1>3. changes = <<c>> \o e
  BY <1>1, <1>2 DEF create_table, additions
<1>4. PICK x : x = applied(d, c)
  OBVIOUS
<1>5. c \in UserChange /\ c \in Change
  BY <1>1, AddTableChange, UserChanges
<1>6. <<c>> \in Seq(UserChange) /\ <<c>> \in Seq(Change) /\ Len(<<c>>) = 1
  BY <1>5
<1>7. x \in Database /\ SameRows(x, d) /\ x.tblcat = Append(d.tblcat, t) /\ x.fldcat = d.fldcat
  <2>1. x = WithTables(d, Append(d.tblcat, t))
    BY <1>1, <1>4, AppliedTable
  <2>2. x \in Database
    BY <1>4, <1>5, AppliedType
  <2> QED
    BY <2>1, <2>2 DEF Database, WithTables, SameRows
<1>8. /\ e \in Seq(Change) /\ Len(e) = Len(fields)
      /\ t \in DOMAIN Schema => e \in Seq(UserChange)
      /\ FieldsAdded(x, done(x, e), t, fields, Len(fields))
  BY <1>2, <1>7, Additions
<1>9. changes \in Seq(Change) /\ Len(changes) = 1 + Len(fields)
  <2>1. <<c>> \o e \in Seq(Change) /\ Len(<<c>> \o e) = Len(<<c>>) + Len(e)
    BY <1>6, <1>8, ConcatProperties
  <2> QED
    BY <1>3, <1>6, <1>8, <2>1
<1>10. t \in DOMAIN Schema => changes \in Seq(UserChange)
  BY <1>3, <1>6, <1>8, ConcatProperties
<1>11. done(d, changes) = done(x, e)
  <2>1. done(d, <<c>> \o e) = done(done(d, <<c>>), e)
    BY <1>6, <1>8, DoneConcat
  <2> QED
    BY <1>3, <1>4, <1>5, <2>1, DoneOne
<1>12. PICK y : y = done(x, e)
  OBVIOUS
<1>13. TableAdded(d, y, t, fields)
  <2>1. FieldsAdded(x, y, t, fields, Len(fields))
    BY <1>8, <1>12
  <2> QED
    BY <1>7, <2>1 DEF FieldsAdded, TableAdded, SameRows
<1> QED
  BY <1>9, <1>10, <1>11, <1>12, <1>13

LayoutAdded(d, y, t, fields) ==
  \A u : get_layout(y, u) = IF u = t THEN Range(fields) ELSE get_layout(d, u)

\* Of the fields of such a database, those of the table are the new ones.
LEMMA AddedLayouts ==
  ASSUME NEW d \in Database, NEW y, NEW t, NEW fields \in Seq(Word),
         TableAdded(d, y, t, fields), get_layout(d, t) = {}
  PROVE  LayoutAdded(d, y, t, fields)
<1> DEFINE n == Len(d.fldcat)
           m == Len(fields)
<1>1. /\ n \in Nat /\ m \in Nat /\ DOMAIN d.fldcat = 1..n /\ DOMAIN fields = 1..m
      /\ DOMAIN y.fldcat = 1..(n + m)
  <2>1. y.fldcat \in Seq(Field) /\ d.fldcat \in Seq(Field)
    BY PartsType DEF TableAdded
  <2> QED
    BY <2>1, LenProperties DEF TableAdded
<1>2. /\ \A j \in 1..n : y.fldcat[j] = d.fldcat[j]
      /\ \A j \in 1..m : y.fldcat[n + j].table = t /\ y.fldcat[n + j].field = fields[j]
  <2>1. /\ \A j \in 1..n : y.fldcat[j] = d.fldcat[j]
        /\ \A j \in 1..m : y.fldcat[n + j] = [table |-> t, field |-> fields[j]]
    BY DEF TableAdded
  <2> HIDE DEF n, m
  <2>2. ASSUME NEW j \in 1..m
        PROVE  y.fldcat[n + j].table = t /\ y.fldcat[n + j].field = fields[j]
    <3>1. PICK r : r = [table |-> t, field |-> fields[j]]
      OBVIOUS
    <3>2. r.table = t /\ r.field = fields[j]
      BY <3>1
    <3>3. y.fldcat[n + j] = r
      BY <2>1, <3>1
    <3> QED
      BY <3>2, <3>3
  <2> QED
    BY <2>1, <2>2
<1> HIDE DEF n, m
<1>3. \A j : j \in 1..(n + m) <=> (j \in 1..n \/ \E i \in 1..m : j = n + i)
  <2>1. ASSUME NEW j \in 1..(n + m), j \notin 1..n PROVE \E i \in 1..m : j = n + i
    <3>1. j - n \in 1..m /\ j = n + (j - n)
      BY <1>1, <2>1
    <3> QED
      BY <3>1
  <2>2. 1..n \subseteq 1..(n + m) /\ \A i \in 1..m : n + i \in 1..(n + m)
    BY <1>1
  <2> QED
    BY <2>1, <2>2
<1>4. \A u : \A f : f \in get_layout(y, u) <=>
        ((\E j \in 1..n : d.fldcat[j].table = u /\ d.fldcat[j].field = f)
         \/ (u = t /\ \E i \in 1..m : fields[i] = f))
  <2> SUFFICES ASSUME NEW u, NEW f
               PROVE  f \in get_layout(y, u) <=>
                 ((\E j \in 1..n : d.fldcat[j].table = u /\ d.fldcat[j].field = f)
                  \/ (u = t /\ \E i \in 1..m : fields[i] = f))
    OBVIOUS
  <2>1. f \in get_layout(y, u) <=>
          \E j \in 1..(n + m) : y.fldcat[j].table = u /\ y.fldcat[j].field = f
    BY <1>1 DEF get_layout, Range
  <2>2. (\E j \in 1..(n + m) : y.fldcat[j].table = u /\ y.fldcat[j].field = f) <=>
          ((\E j \in 1..n : y.fldcat[j].table = u /\ y.fldcat[j].field = f)
           \/ \E i \in 1..m : y.fldcat[n + i].table = u /\ y.fldcat[n + i].field = f)
    BY <1>3
  <2>3. (\E j \in 1..n : y.fldcat[j].table = u /\ y.fldcat[j].field = f) <=>
          \E j \in 1..n : d.fldcat[j].table = u /\ d.fldcat[j].field = f
    BY <1>2
  <2>4. (\E i \in 1..m : y.fldcat[n + i].table = u /\ y.fldcat[n + i].field = f) <=>
          (u = t /\ \E i \in 1..m : fields[i] = f)
    BY <1>2
  <2> QED
    BY <2>1, <2>2, <2>3, <2>4
<1>5. \A u : \A f : f \in get_layout(d, u) <=>
        \E j \in 1..n : d.fldcat[j].table = u /\ d.fldcat[j].field = f
  BY <1>1 DEF get_layout, Range
<1>6. \A f : f \in Range(fields) <=> \E i \in 1..m : fields[i] = f
  BY <1>1 DEF Range
<1> SUFFICES ASSUME NEW u
             PROVE  get_layout(y, u) = IF u = t THEN Range(fields) ELSE get_layout(d, u)
  BY DEF LayoutAdded
<1>7. CASE u = t
  <2>1. \A f : f \in get_layout(y, t) <=> f \in Range(fields)
    BY <1>4, <1>5, <1>6
  <2>2. get_layout(y, t) = Range(fields)
    BY <2>1 DEF get_layout, Range
  <2> QED
    BY <1>7, <2>2
<1>8. CASE u # t
  <2>1. \A f : f \in get_layout(y, u) <=> f \in get_layout(d, u)
    BY <1>4, <1>5, <1>8
  <2>2. get_layout(y, u) = get_layout(d, u)
    BY <2>1 DEF get_layout
  <2> QED
    BY <1>8, <2>2
<1> QED
  BY <1>7, <1>8

\* The tables of fldcat are those with fields.
LEMMA TablesWithFields ==
  ASSUME NEW d
  PROVE  \A u : u \in {r.table : r \in Range(d.fldcat)} <=> get_layout(d, u) # {}
<1> QED
  BY DEF get_layout

LEMMA AddedCatalogAgrees ==
  ASSUME NEW d \in Database, CatalogAgrees(d), NEW y, NEW t \in Word,
         NEW fields \in Seq(Word), IsInjective(fields), fields # <<>>,
         t \in DOMAIN Schema => Range(fields) = Range(Schema[t]),
         TableAdded(d, y, t, fields), get_layout(d, t) = {}
  PROVE  CatalogAgrees(y)
<1> DEFINE n == Len(d.fldcat)
           m == Len(fields)
           k == Len(d.tblcat)
<1>1. /\ n \in Nat /\ m \in Nat /\ k \in Nat
      /\ DOMAIN d.fldcat = 1..n /\ DOMAIN fields = 1..m /\ DOMAIN d.tblcat = 1..k
      /\ DOMAIN y.fldcat = 1..(n + m) /\ d.tblcat \in Seq(Word)
  <2>1. y.fldcat \in Seq(Field) /\ d.fldcat \in Seq(Field) /\ d.tblcat \in Seq(Word)
    BY PartsType DEF TableAdded
  <2> QED
    BY <2>1, LenProperties DEF TableAdded
<1>2. /\ \A j \in 1..n : y.fldcat[j] = d.fldcat[j]
      /\ \A j \in 1..m : y.fldcat[n + j] = [table |-> t, field |-> fields[j]]
      /\ y.tblcat = Append(d.tblcat, t)
  BY DEF TableAdded
<1>3. \A u : get_layout(y, u) = IF u = t THEN Range(fields) ELSE get_layout(d, u)
  <2>1. LayoutAdded(d, y, t, fields)
    BY AddedLayouts
  <2> QED
    BY <2>1 DEF LayoutAdded
<1> HIDE DEF n, m, k
<1>4. DOMAIN y.tblcat = 1..(k + 1) /\ y.tblcat[k + 1] = t /\ \A j \in 1..k : y.tblcat[j] = d.tblcat[j]
  <2>1. /\ Append(d.tblcat, t) \in Seq(Word) /\ Len(Append(d.tblcat, t)) = k + 1
        /\ Append(d.tblcat, t)[k + 1] = t
        /\ \A j \in 1..k : Append(d.tblcat, t)[j] = d.tblcat[j]
    BY <1>1, AppendProperties DEF k
  <2>2. DOMAIN Append(d.tblcat, t) = 1..(k + 1)
    BY <2>1
  <2> QED
    BY <1>2, <2>1, <2>2
<1>5. t \notin Range(d.tblcat)
  BY TablesWithFields DEF CatalogAgrees
<1>6. IsInjective(y.tblcat)
  <2> SUFFICES ASSUME NEW i \in 1..(k + 1), NEW j \in 1..(k + 1), y.tblcat[i] = y.tblcat[j]
               PROVE  i = j
    BY <1>4 DEF IsInjective
  <2>1. \A l \in 1..k : d.tblcat[l] # t
    BY <1>1, <1>5 DEF Range
  <2>2. \A l \in 1..(k + 1) : l \in 1..k \/ l = k + 1
    BY <1>1
  <2>3. \A a, b \in 1..k : d.tblcat[a] = d.tblcat[b] => a = b
    BY <1>1 DEF CatalogAgrees, IsInjective
  <2> QED
    BY <1>4, <2>1, <2>2, <2>3
<1>7. \A j \in 1..n : d.fldcat[j].table # t
  <2> SUFFICES ASSUME NEW j \in 1..n, d.fldcat[j].table = t PROVE FALSE
    OBVIOUS
  <2>1. d.fldcat[j] \in {x \in Range(d.fldcat) : x.table = t}
    BY <1>1 DEF Range
  <2>2. d.fldcat[j].field \in get_layout(d, t)
    BY <2>1 DEF get_layout
  <2> QED
    BY <2>2
<1>8. IsInjective(y.fldcat)
  <2> SUFFICES ASSUME NEW i \in 1..(n + m), NEW j \in 1..(n + m), y.fldcat[i] = y.fldcat[j]
               PROVE  i = j
    BY <1>1 DEF IsInjective
  <2>1. \A a, b \in 1..n : d.fldcat[a] = d.fldcat[b] => a = b
    BY <1>1 DEF CatalogAgrees, IsInjective
  <2>2. \A a, b \in 1..m : fields[a] = fields[b] => a = b
    BY <1>1 DEF IsInjective
  <2>3. CASE i \in 1..n /\ j \in 1..n
    BY <1>2, <2>1, <2>3
  <2>4. ASSUME NEW a \in 1..n, NEW b \in 1..m
        PROVE  y.fldcat[a] # y.fldcat[n + b]
    <3>1. y.fldcat[n + b].table = t
      <4>1. PICK r : r = [table |-> t, field |-> fields[b]]
        OBVIOUS
      <4>2. r.table = t
        BY <4>1
      <4> QED
        BY <1>2, <4>1, <4>2
    <3>2. y.fldcat[a].table # t
      BY <1>2, <1>7
    <3> QED
      BY <3>1, <3>2
  <2>5. ASSUME NEW a \in 1..(n + m), a \notin 1..n PROVE \E b \in 1..m : a = n + b
    <3>1. a - n \in 1..m /\ a = n + (a - n)
      BY <1>1, <2>5
    <3> QED
      BY <3>1
  <2>6. CASE i \notin 1..n /\ j \notin 1..n
    <3>1. PICK a \in 1..m, b \in 1..m : i = n + a /\ j = n + b
      BY <2>5, <2>6
    <3>2. [table |-> t, field |-> fields[a]] = [table |-> t, field |-> fields[b]]
      BY <1>2, <3>1
    <3>3. fields[a] = fields[b]
      BY <3>2
    <3> QED
      BY <2>2, <3>1, <3>3
  <2> QED
    BY <2>3, <2>4, <2>5, <2>6
<1>9. \A u : u \in Range(y.tblcat) <=> (u = t \/ u \in Range(d.tblcat))
  <2>1. \A l : l \in 1..(k + 1) <=> (l \in 1..k \/ l = k + 1)
    BY <1>1
  <2>2. \A u : u \in Range(y.tblcat) <=> \E l \in 1..(k + 1) : y.tblcat[l] = u
    BY <1>4 DEF Range
  <2>3. \A u : u \in Range(d.tblcat) <=> \E l \in 1..k : d.tblcat[l] = u
    BY <1>1 DEF Range
  <2> QED
    BY <1>4, <2>1, <2>2, <2>3
<1>10. Range(fields) # {}
  <2>1. m # 0
    BY EmptySeq DEF m
  <2>2. 1 \in 1..m
    BY <1>1, <2>1
  <2> QED
    BY <1>1, <2>2 DEF Range
<1>11. {r.table : r \in Range(y.fldcat)} = Range(y.tblcat)
  <2>1. \A u : u \in {r.table : r \in Range(y.fldcat)} <=> get_layout(y, u) # {}
    BY TablesWithFields
  <2>2. \A u : u \in Range(d.tblcat) <=> get_layout(d, u) # {}
    BY TablesWithFields DEF CatalogAgrees
  <2>3. \A u : u \in {r.table : r \in Range(y.fldcat)} <=> u \in Range(y.tblcat)
    BY <1>3, <1>9, <1>10, <2>1, <2>2
  <2> QED
    BY <2>3
<1>12. \A u \in Range(y.tblcat) \cap DOMAIN Schema : get_layout(y, u) = Range(Schema[u])
  BY <1>3, <1>9 DEF CatalogAgrees
<1> QED
  BY <1>6, <1>8, <1>11, <1>12 DEF CatalogAgrees

LEMMA CreateTableAgrees ==
  ASSUME NEW d \in Database, RowsGood(d), CatalogAgrees(d), NEW t \in Word,
         get_layout(d, t) = {},
         NEW fields \in Seq(Word), IsInjective(fields), fields # <<>>,
         t \in DOMAIN Schema => Range(fields) = Range(Schema[t]),
         NEW changes, changes = create_table(d, t, fields),
         NEW y, y = done(d, changes)
  PROVE  /\ changes \in Seq(Change) /\ Len(changes) = 1 + Len(fields)
         /\ t \in DOMAIN Schema => changes \in Seq(UserChange)
         /\ y \in Database /\ RowsGood(y) /\ CatalogAgrees(y) /\ y.torn = d.torn
         /\ LayoutAdded(d, y, t, fields)
<1>1. /\ changes \in Seq(Change) /\ Len(changes) = 1 + Len(fields)
      /\ t \in DOMAIN Schema => changes \in Seq(UserChange)
      /\ TableAdded(d, y, t, fields)
  BY CreateTableAdds
<1>2. y \in Database /\ SameRows(y, d)
  BY <1>1 DEF TableAdded
<1>3. RowsGood(y) /\ y.torn = d.torn
  BY <1>2, SameRowsGood DEF SameRows
<1>4. CatalogAgrees(y)
  BY <1>1, AddedCatalogAgrees
<1>5. LayoutAdded(d, y, t, fields)
  BY <1>1, AddedLayouts
<1> QED
  BY <1>1, <1>2, <1>3, <1>4, <1>5

-----------------------------------------------------------------------------
(* The catalog of a new database.                                          *)

LEMMA EmptyGood ==
  /\ Empty \in Database /\ RowsGood(Empty) /\ CatalogAgrees(Empty) /\ ~Empty.torn
  /\ \A u : get_layout(Empty, u) = {}
<1> DEFINE slots == [t \in DOMAIN Schema |-> <<>>]
           entries == [name \in Name |-> {}]
<1>1. slots \in Rows
  <2>1. \A t \in DOMAIN Schema : slots[t] \in Seq(Row(t))
    OBVIOUS
  <2>2. slots \in [DOMAIN Schema -> UNION {Seq(Row(t)) : t \in DOMAIN Schema}]
    BY <2>1
  <2> QED
    BY <2>1, <2>2 DEF Rows
<1>2. entries \in [Name -> SUBSET (Datum \X Nat)]
  OBVIOUS
<1>3. /\ Empty.tblcat = <<>> /\ Empty.fldcat = <<>> /\ Empty.idxcat = <<>>
      /\ Empty.slots = slots /\ Empty.entries = entries
      /\ Empty.told = {} /\ Empty.formatted = {} /\ Empty.torn = FALSE
  BY DEF Empty, Name
<1>4. Empty \in Database
  <2>1. Empty = [tblcat |-> <<>>, fldcat |-> <<>>, idxcat |-> <<>>, slots |-> slots,
                 entries |-> entries, told |-> {}, formatted |-> {}, torn |-> FALSE]
    BY DEF Empty, Name
  <2>2. <<>> \in Seq(Word) /\ <<>> \in Seq(Field) /\ <<>> \in Seq(Index)
    BY EmptySeq
  <2>3. {} \in SUBSET Cell /\ FALSE \in BOOLEAN
    OBVIOUS
  <2> HIDE DEF slots, entries
  <2> QED
    BY <1>1, <1>2, <2>1, <2>2, <2>3 DEF Database
<1>5. \A n : n \notin DOMAIN Empty.idxcat /\ n \notin DOMAIN Empty.fldcat /\ n \notin DOMAIN Empty.tblcat
  BY <1>3, EmptySeq
<1>6. RowsGood(Empty)
  <2>1. TellsRows(Empty)
    BY <1>3 DEF TellsRows
  <2>2. NoStrayEntries(Empty)
    BY <1>3 DEF NoStrayEntries
  <2>3. IndexesExact(Empty)
    BY <1>5 DEF IndexesExact
  <2> QED
    BY <1>4, <2>1, <2>2, <2>3 DEF RowsGood
<1>7. \A u : get_layout(Empty, u) = {}
  BY <1>5 DEF get_layout, Range
<1>8. CatalogAgrees(Empty)
  <2>1. IsInjective(Empty.tblcat) /\ IsInjective(Empty.fldcat)
    BY <1>5 DEF IsInjective
  <2>2. Range(Empty.tblcat) = {} /\ Range(Empty.fldcat) = {}
    BY <1>5 DEF Range
  <2> QED
    BY <2>1, <2>2 DEF CatalogAgrees
<1> QED
  BY <1>3, <1>4, <1>6, <1>7, <1>8

LEMMA CatalogType ==
  /\ catalog["tblcat"] \in Seq(Word) /\ IsInjective(catalog["tblcat"])
  /\ catalog["tblcat"] # <<>>
  /\ catalog["fldcat"] \in Seq(Word) /\ IsInjective(catalog["fldcat"])
  /\ catalog["fldcat"] # <<>>
  /\ catalog["idxcat"] \in Seq(Word) /\ IsInjective(catalog["idxcat"])
  /\ catalog["idxcat"] # <<>>
<1>1. /\ catalog["tblcat"] = <<"slotsize", "tblname">>
      /\ catalog["fldcat"] = <<"type", "length", "offset", "tblname", "fldname">>
      /\ catalog["idxcat"] = <<"index_name", "table_name", "field_name">>
  BY DEF catalog
<1>2. /\ IsInjective(<<"slotsize", "tblname">>)
      /\ IsInjective(<<"type", "length", "offset", "tblname", "fldname">>)
      /\ IsInjective(<<"index_name", "table_name", "field_name">>)
  BY DEF IsInjective
<1>3. /\ <<"slotsize", "tblname">> \in Seq(Word)
      /\ <<"type", "length", "offset", "tblname", "fldname">> \in Seq(Word)
      /\ <<"index_name", "table_name", "field_name">> \in Seq(Word)
  <2>1. /\ "slotsize" \in Word /\ "tblname" \in Word
        /\ "type" \in Word /\ "length" \in Word /\ "offset" \in Word /\ "fldname" \in Word
        /\ "index_name" \in Word /\ "table_name" \in Word /\ "field_name" \in Word
    BY DEF Word
  <2>2. <<"slotsize", "tblname">> \in Seq(Word)
    BY <2>1
  <2>3. <<"type", "length", "offset", "tblname", "fldname">> \in Seq(Word)
    BY <2>1
  <2>4. <<"index_name", "table_name", "field_name">> \in Seq(Word)
    BY <2>1
  <2> QED
    BY <2>2, <2>3, <2>4
<1>4. /\ <<"slotsize", "tblname">> # <<>>
      /\ <<"type", "length", "offset", "tblname", "fldname">> # <<>>
      /\ <<"index_name", "table_name", "field_name">> # <<>>
  OBVIOUS
<1> QED
  BY <1>1, <1>2, <1>3, <1>4

\* d with one more table of the catalog.
cataloged(d, t) == after(d, create_table(d, t, catalog[t]), 1 + Len(catalog[t]))

LEMMA OneCataloged ==
  ASSUME NEW d \in Database, RowsGood(d), CatalogAgrees(d), ~d.torn,
         NEW t \in {"tblcat", "fldcat", "idxcat"}, get_layout(d, t) = {},
         NEW y, y = cataloged(d, t)
  PROVE  /\ y \in Database /\ RowsGood(y) /\ CatalogAgrees(y) /\ ~y.torn
         /\ LayoutAdded(d, y, t, catalog[t])
<1>1. PICK fields : fields = catalog[t]
  OBVIOUS
<1>2. /\ fields \in Seq(Word) /\ IsInjective(fields) /\ fields # <<>>
      /\ t \in Word /\ t \notin DOMAIN Schema
  <2>1. CASE t = "tblcat"
    BY <1>1, <2>1, CatalogType, UpdatesAssumption DEF Word
  <2>2. CASE t = "fldcat"
    BY <1>1, <2>2, CatalogType, UpdatesAssumption DEF Word
  <2>3. CASE t = "idxcat"
    BY <1>1, <2>3, CatalogType, UpdatesAssumption DEF Word
  <2> QED
    BY <2>1, <2>2, <2>3
<1>3. PICK changes : changes = create_table(d, t, fields)
  OBVIOUS
<1>4. Len(changes) = 1 + Len(fields)
  BY <1>2, <1>3, CreateTableAdds
<1>5. y = done(d, changes)
  BY <1>1, <1>3, <1>4 DEF cataloged, done
<1>6. /\ y \in Database /\ RowsGood(y) /\ CatalogAgrees(y) /\ y.torn = d.torn
      /\ LayoutAdded(d, y, t, fields)
  BY <1>2, <1>3, <1>5, CreateTableAgrees
<1> QED
  BY <1>1, <1>6

CatalogComplete(d) == get_layout(d, "idxcat") = Range(catalog["idxcat"])

LEMMA NewCatalogGood ==
  ASSUME NEW d \in Database, RowsGood(d), CatalogAgrees(d), ~d.torn,
         \A u : get_layout(d, u) = {},
         NEW y, y = new_catalog(d)
  PROVE  /\ y \in Database /\ RowsGood(y) /\ CatalogAgrees(y) /\ ~y.torn
         /\ CatalogComplete(y)
<1>1. PICK a : a = cataloged(d, "tblcat")
  OBVIOUS
<1>2. PICK b : b = cataloged(a, "fldcat")
  OBVIOUS
<1>3. y = cataloged(b, "idxcat")
  BY <1>1, <1>2 DEF new_catalog, cataloged
<1>4. /\ a \in Database /\ RowsGood(a) /\ CatalogAgrees(a) /\ ~a.torn
      /\ get_layout(a, "fldcat") = {} /\ get_layout(a, "idxcat") = {}
  <2>1. /\ a \in Database /\ RowsGood(a) /\ CatalogAgrees(a) /\ ~a.torn
        /\ LayoutAdded(d, a, "tblcat", catalog["tblcat"])
    BY <1>1, OneCataloged
  <2> QED
    BY <2>1 DEF LayoutAdded
<1>5. /\ b \in Database /\ RowsGood(b) /\ CatalogAgrees(b) /\ ~b.torn
      /\ get_layout(b, "idxcat") = {}
  <2>1. /\ b \in Database /\ RowsGood(b) /\ CatalogAgrees(b) /\ ~b.torn
        /\ LayoutAdded(a, b, "fldcat", catalog["fldcat"])
    BY <1>2, <1>4, OneCataloged
  <2> QED
    BY <1>4, <2>1 DEF LayoutAdded
<1>6. /\ y \in Database /\ RowsGood(y) /\ CatalogAgrees(y) /\ ~y.torn
      /\ LayoutAdded(b, y, "idxcat", catalog["idxcat"])
  BY <1>3, <1>5, OneCataloged
<1> QED
  BY <1>6 DEF CatalogComplete, LayoutAdded

LEMMA OtherChanges ==
  ASSUME NEW x \in Database, NEW c \in Change
  PROVE  \/ \E t \in Word, f \in Word : c = AddField(t, f)
         \/ applied(x, c).fldcat = x.fldcat
<1>1. /\ \A z : WithTables(x, z).fldcat = x.fldcat
      /\ \A z, w : WithIndexes(x, z, w).fldcat = x.fldcat
      /\ \A z : WithSlots(x, z).fldcat = x.fldcat
      /\ \A z, w : WithRows(x, z, w).fldcat = x.fldcat
      /\ \A z : WithEntries(x, z).fldcat = x.fldcat
  BY DEF Database, WithTables, WithIndexes, WithSlots, WithRows, WithEntries
<1>2. CASE \E t \in Word : c = AddTable(t)
  BY <1>1, <1>2, AppliedTable
<1>3. CASE \E i \in Index : c = AddIndex(i)
  BY <1>1, <1>3, AppliedIndex
<1>4. CASE \E t \in DOMAIN Schema, s \in Nat : c = Take(t, s)
  BY <1>1, <1>4, AppliedTake
<1>5. CASE \E t \in DOMAIN Schema, s \in Nat : c = Free(t, s)
  BY <1>1, <1>5, AppliedFree
<1>6. CASE \E t \in DOMAIN Schema, s \in Nat, f \in Word, v \in Datum :
             c = SetValue(t, s, f, v)
  BY <1>1, <1>6, AppliedSet
<1>7. CASE \E name \in Name, v \in Datum, s \in Nat : c = Enter(name, v, s)
  BY <1>1, <1>7, AppliedEnter
<1>8. CASE \E name \in Name, v \in Datum, s \in Nat : c = Erase(name, v, s)
  BY <1>1, <1>8, AppliedErase
<1>9. CASE \E name \in Name : c = OpenIndex(name)
  BY <1>9, AppliedOpen
<1> QED
  BY <1>2, <1>3, <1>4, <1>5, <1>6, <1>7, <1>8, <1>9 DEF Change

\* No change of a statement touches the fields of the tables of the catalog.
LEMMA CatalogStaysComplete ==
  ASSUME NEW d \in Database, CatalogComplete(d), NEW changes \in Seq(UserChange),
         NEW n \in 0..Len(changes)
  PROVE  CatalogComplete(after(d, changes, n))
<1> DEFINE S == {x \in Database : CatalogComplete(x)}
<1>1. changes \in Seq(Change) /\ \A k \in 1..n : changes[k] \in UserChange
  BY UserChanges, LenProperties, ElementOfSeq
<1>2. ASSUME NEW c \in UserChange, NEW x \in Database, CatalogComplete(x)
      PROVE  applied(x, c) \in S
  <2>1. c \in Change
    BY UserChanges
  <2>2. PICK y : y = applied(x, c)
    OBVIOUS
  <2>3. y \in Database
    BY <2>1, <2>2, AppliedType
  <2>4. CASE \E t \in Word, f \in Word : c = AddField(t, f)
    <3>1. PICK t \in Word, f \in Word : c = AddField(t, f)
      BY <2>4
    <3>2. t # "idxcat"
      <4>1. t \in DOMAIN Schema
        BY <3>1 DEF UserChange, AddField
      <4> QED
        BY <4>1, UpdatesAssumption
    <3>3. PICK r : r = [table |-> t, field |-> f]
      OBVIOUS
    <3>4. r.table = t /\ r \in Field
      BY <3>3 DEF Field
    <3>5. x.fldcat \in Seq(Field) /\ y.fldcat = Append(x.fldcat, r)
      <4>1. y = WithFields(x, Append(x.fldcat, r))
        BY <2>2, <3>1, <3>3, AppliedField
      <4> QED
        BY <4>1, PartsType DEF Database, WithFields
    <3>6. \A q : q \in Range(y.fldcat) <=> (q \in Range(x.fldcat) \/ q = r)
      <4> DEFINE k == Len(x.fldcat)
      <4>1. k \in Nat /\ DOMAIN x.fldcat = 1..k
        BY <3>5, LenProperties
      <4>2. /\ y.fldcat \in Seq(Field) /\ Len(y.fldcat) = k + 1 /\ y.fldcat[k + 1] = r
            /\ \A j \in 1..k : y.fldcat[j] = x.fldcat[j]
        BY <3>4, <3>5, AppendProperties
      <4>3. DOMAIN y.fldcat = 1..(k + 1)
        BY <4>2
      <4>4. \A j : j \in 1..(k + 1) <=> (j \in 1..k \/ j = k + 1)
        BY <4>1
      <4> HIDE DEF k
      <4> QED
        BY <4>1, <4>2, <4>3, <4>4 DEF Range
    <3>7. get_layout(y, "idxcat") = get_layout(x, "idxcat")
      BY <3>2, <3>4, <3>6 DEF get_layout
    <3> QED
      BY <1>2, <2>2, <2>3, <3>7 DEF CatalogComplete
  <2>5. CASE ~\E t \in Word, f \in Word : c = AddField(t, f)
    <3>1. y.fldcat = x.fldcat
      BY <2>1, <2>2, <2>5, OtherChanges
    <3> QED
      BY <1>2, <2>2, <2>3, <3>1 DEF CatalogComplete, get_layout
  <2> QED
    BY <2>4, <2>5
<1>3. \A k \in 1..n : \A x \in S \cap Database : applied(x, changes[k]) \in S
  BY <1>1, <1>2
<1>4. d \in S
  OBVIOUS
<1> HIDE DEF S
<1>5. after(d, changes, n) \in S
  BY <1>1, <1>3, <1>4, AfterKeeps
<1> QED
  BY <1>5 DEF S

-----------------------------------------------------------------------------
(* The inductive invariant.                                                *)

\* A database in which no statement has failed in the middle is in order.
InOrder(d) == d \in Database /\ (~d.torn => RowsGood(d) /\ CatalogAgrees(d))

\* The catalog is complete in what is stored once the first opening was
\* committed, and is so from then on in what is seen; before that nothing is
\* stored.  Only a process that has found it complete runs statements.
IInv ==
  /\ directory \in BOOLEAN /\ created \in BOOLEAN /\ updates \in Nat
  /\ process \in {"none", "creating", "open", "dead"}
  /\ InOrder(db) /\ InOrder(stored) /\ blocks \subseteq Name \X Part
  /\ created => directory /\ CatalogComplete(db) /\ CatalogComplete(stored)
  /\ ~created => stored = Empty
  /\ process = "none" => db = stored
  /\ process = "creating" => directory /\ CatalogComplete(db)
  /\ process = "open" => created

\* The changes of a statement, done to d, keep d in order.
KeepsOrder(d, changes) ==
  /\ changes \in Seq(UserChange)
  /\ RowsGood(done(d, changes)) /\ CatalogAgrees(done(d, changes))

LEMMA SameCatalogKeepsOrder ==
  ASSUME NEW d, CatalogAgrees(d), NEW changes, KeepsRows(d, changes)
  PROVE  KeepsOrder(d, changes)
<1>1. SameTables(done(d, changes), d)
  BY DEF KeepsRows, SameCatalog, SameTables
<1>2. CatalogAgrees(done(d, changes))
  BY <1>1, SameCatalogAgrees
<1> QED
  BY <1>2 DEF KeepsRows, KeepsOrder

\* torn is a history, and of what is formatted only panics depend.
LEMMA TornKeepsOrder ==
  ASSUME NEW x \in Database, NEW b \in BOOLEAN, NEW z \in SUBSET (Name \X Part),
         NEW y, y = WithTorn(x, b, z)
  PROVE  /\ y \in Database /\ y.torn = b
         /\ RowsGood(x) => RowsGood(y)
         /\ CatalogAgrees(x) => CatalogAgrees(y)
         /\ CatalogComplete(x) => CatalogComplete(y)
<1>1. y \in Database
  BY Replaced
<1>2. /\ y.tblcat = x.tblcat /\ y.fldcat = x.fldcat /\ y.idxcat = x.idxcat
      /\ y.slots = x.slots /\ y.told = x.told /\ y.entries = x.entries /\ y.torn = b
  BY DEF Database, WithTorn
<1>3. RowsGood(x) => RowsGood(y)
  <2>1. \A k : Serves(y, k) <=> Serves(x, k)
    BY <1>2 DEF Serves
  <2>2. \A i : EntriesExact(y, i) <=> EntriesExact(x, i)
    BY <1>2 DEF EntriesExact, HasTold
  <2> QED
    BY <1>1, <1>2, <2>1, <2>2 DEF RowsGood, TellsRows, NoStrayEntries, IndexesExact
<1>4. \A u : get_layout(y, u) = get_layout(x, u)
  BY <1>2 DEF get_layout
<1> QED
  BY <1>1, <1>2, <1>3, <1>4 DEF CatalogAgrees, CatalogComplete

\* The changes of indexes name indexes.
LEMMA IndexesType ==
  ASSUME NEW changes \in Seq(Change), NEW ks, NEW kinds \in SUBSET {"open", "enter", "erase"}
  PROVE  indexes(changes, ks, kinds) \subseteq Name
<1>1. ASSUME NEW c \in Change, c.do \in kinds PROVE c.index \in Name
  <2>1. /\ \A t : AddTable(t).do = "add_table"
        /\ \A t, f : AddField(t, f).do = "add_field"
        /\ \A i : AddIndex(i).do = "add_index"
        /\ \A t, s : Take(t, s).do = "take" /\ Free(t, s).do = "free"
        /\ \A t, s, f, v : SetValue(t, s, f, v).do = "set"
        /\ \A x, v, s : Enter(x, v, s).index = x /\ Erase(x, v, s).index = x
        /\ \A x : OpenIndex(x).index = x
    BY DEF AddTable, AddField, AddIndex, Take, Free, SetValue, Enter, Erase, OpenIndex
  <2> QED
    BY <1>1, <2>1 DEF Change
<1>2. \A k \in DOMAIN changes : changes[k] \in Change
  BY LenProperties, ElementOfSeq
<1> QED
  BY <1>1, <1>2 DEF indexes

LEMMA RunKeepsOrder ==
  ASSUME IInv, NEW changes, NEW n, NEW partly \in BOOLEAN,
         Ready => KeepsOrder(db, changes), Run(changes, n, partly)
  PROVE  IInv'
<1>1. /\ Ready /\ KeepsOrder(db, changes) /\ n \in 0..Len(changes)
      /\ process = "open" /\ process' \in {"open", "dead"} /\ updates' = updates + 1
      /\ UNCHANGED <<directory, stored, created>>
  BY DEF Run, Ready
<1>2. created /\ db \in Database /\ RowsGood(db) /\ CatalogAgrees(db) /\ CatalogComplete(db)
  BY <1>1 DEF IInv, InOrder, Ready
<1>3. changes \in Seq(UserChange) /\ changes \in Seq(Change) /\ Len(changes) \in Nat
  BY <1>1, UserChanges, LenProperties DEF KeepsOrder
<1>4. PICK x : x = after(db, changes, n)
  OBVIOUS
<1>5. x \in Database /\ CatalogComplete(x)
  BY <1>1, <1>2, <1>3, <1>4, AfterType, CatalogStaysComplete
<1>6. PICK z : z = x.formatted \cup (blocks' \ blocks)
  OBVIOUS
<1>7. PICK b : /\ b \in BOOLEAN /\ db' = WithTorn(x, b, z)
               /\ ~b => ~(n \in 1..Len(changes)-1)
  <2> DEFINE searched == indexes(changes, 1..n, {"enter", "erase"})
             late == n \in 1..Len(changes)-1
             blind == searched \cap blank("leaf") # {}
             b == x.torn \/ partly \/ late \/ blind
  <2>1. db' = [x EXCEPT !.torn = x.torn \/ partly \/ late \/ blind,
                        !.formatted = x.formatted \cup (blocks' \ blocks)]
    BY <1>4 DEF Run
  <2>2. b \in BOOLEAN /\ (~b => ~late)
    BY <1>5, PartsType
  <2>3. db' = WithTorn(x, b, z)
    BY <1>6, <2>1 DEF WithTorn
  <2> HIDE DEF b
  <2> QED
    BY <2>2, <2>3
<1>8. z \in SUBSET (Name \X Part) /\ blocks' \subseteq Name \X Part
  <2> DEFINE kinds == {"open", "enter", "erase"}
             opened == indexes(changes, 1..n, kinds)
             at == indexes(changes, {n + 1}, kinds)
  <2>1. opened \subseteq Name /\ at \subseteq Name
    BY <1>3, IndexesType
  <2>2. PICK parts \in {{}, {"leaf"}, Part} :
          blocks' = blocks \cup (opened \X Part) \cup (at \X parts)
    BY DEF Run
  <2>3. parts \subseteq Part
    BY DEF Part
  <2>4. blocks' \subseteq Name \X Part
    <3> HIDE DEF opened, at
    <3> QED
      BY <2>1, <2>2, <2>3 DEF IInv
  <2> QED
    BY <1>5, <1>6, <2>4, PartsType
<1>9. /\ db' \in Database /\ db'.torn = b /\ CatalogComplete(db')
      /\ RowsGood(x) => RowsGood(db')
      /\ CatalogAgrees(x) => CatalogAgrees(db')
  BY <1>5, <1>7, <1>8, TornKeepsOrder
<1>10. ~b => RowsGood(x) /\ CatalogAgrees(x)
  <2> SUFFICES ASSUME ~b PROVE RowsGood(x) /\ CatalogAgrees(x)
    OBVIOUS
  <2>1. n = 0 \/ n = Len(changes)
    BY <1>1, <1>3, <1>7
  <2>2. CASE n = 0
    BY <1>2, <1>3, <1>4, <2>2, AfterNone
  <2>3. CASE n = Len(changes)
    BY <1>1, <1>4, <2>3 DEF KeepsOrder, done
  <2> QED
    BY <2>1, <2>2, <2>3
<1>11. InOrder(db')
  BY <1>9, <1>10 DEF InOrder
<1> QED
  BY <1>1, <1>2, <1>8, <1>9, <1>11 DEF IInv

LEMMA CreateTableKeepsOrder ==
  ASSUME NEW d \in Database, RowsGood(d), CatalogAgrees(d), NEW t \in DOMAIN Schema
  PROVE  KeepsOrder(d, create_table(d, t, Schema[t]))
<1>1. CASE get_layout(d, t) # {}
  <2>1. create_table(d, t, Schema[t]) = <<>>
    BY <1>1 DEF create_table
  <2>2. done(d, <<>>) = d /\ <<>> \in Seq(UserChange)
    BY DoneNone, EmptySeq
  <2> QED
    BY <2>1, <2>2 DEF KeepsOrder
<1>2. CASE get_layout(d, t) = {}
  <2>1. PICK fields : fields = Schema[t]
    OBVIOUS
  <2>2. /\ t \in Word /\ fields \in Seq(Word) /\ IsInjective(fields) /\ fields # <<>>
        /\ Range(fields) = Range(Schema[t])
    BY <2>1, SchemaType
  <2>3. PICK changes : changes = create_table(d, t, fields)
    OBVIOUS
  <2>4. PICK y : y = done(d, changes)
    OBVIOUS
  <2>5. changes \in Seq(UserChange) /\ RowsGood(y) /\ CatalogAgrees(y)
    BY <1>2, <2>2, <2>3, <2>4, CreateTableAgrees
  <2> QED
    BY <2>1, <2>3, <2>4, <2>5 DEF KeepsOrder
<1> QED
  BY <1>1, <1>2

\* What is known of a table that a statement is planned for.
LEMMA KnownTable ==
  ASSUME CatalogAgrees(db), NEW t \in DOMAIN Schema, Known(t)
  PROVE  DOMAIN get_index_info(db, t) \subseteq Range(Schema[t])
<1>1. t \in Range(db.tblcat)
  BY TablesWithFields DEF Known, CatalogAgrees
<1>2. get_layout(db, t) = Range(Schema[t])
  BY <1>1 DEF CatalogAgrees
<1> QED
  BY <1>2 DEF Known, index_info_panics

LEMMA InitInvariant == Init => IInv
<1> SUFFICES ASSUME Init PROVE IInv
  OBVIOUS
<1>1. InOrder(Empty)
  BY EmptyGood DEF InOrder
<1> QED
  BY <1>1 DEF Init, IInv

LEMMA OpeningKeepsOrder ==
  ASSUME IInv, Create \/ Created \/ Open \/ Crash
  PROVE  IInv'
<1>1. ASSUME Create PROVE IInv'
  <2>1. db = Empty
    BY <1>1 DEF Create, IInv
  <2>2. PICK y : y = new_catalog(db)
    OBVIOUS
  <2>3. y \in Database /\ RowsGood(y) /\ CatalogAgrees(y) /\ CatalogComplete(y)
    BY <2>1, <2>2, EmptyGood, NewCatalogGood
  <2>4. db' = y
    BY <1>1, <2>2 DEF Create
  <2>5. InOrder(db') /\ CatalogComplete(db')
    BY <2>3, <2>4 DEF InOrder
  <2> QED
    BY <1>1, <2>5 DEF Create, IInv
<1>2. ASSUME Created PROVE IInv'
  BY <1>2 DEF Created, IInv
<1>3. ASSUME Open PROVE IInv'
  <2>1. process' = "open" => created
    <3>1. ~created => get_layout(db, "idxcat") = {}
      BY <1>3, EmptyGood DEF Open, IInv
    <3> QED
      BY <1>3, <3>1 DEF Open
  <2>2. process' \in {"open", "dead"}
    BY <1>3 DEF Open
  <2> QED
    BY <1>3, <2>1, <2>2 DEF Open, IInv
<1>4. ASSUME Crash PROVE IInv'
  BY <1>4 DEF Crash, IInv
<1> QED
  BY <1>1, <1>2, <1>3, <1>4

LEMMA StatementKeepsOrder ==
  ASSUME IInv, Ready, Statement
  PROVE  IInv'
<1>1. db \in Database /\ RowsGood(db) /\ CatalogAgrees(db)
  BY DEF IInv, InOrder, Ready
<1>2. ASSUME NEW i \in Index, NEW n, NEW partly \in BOOLEAN, CreateIndex(i, n, partly)
      PROVE  IInv'
  <2>1. PICK changes : changes = create_index(i)
    OBVIOUS
  <2>2. /\ changes \in Seq(UserChange) /\ RowsGood(done(db, changes))
        /\ SameTables(done(db, changes), db)
    BY <1>1, <2>1, CreateIndexKeepsRows
  <2>3. KeepsOrder(db, changes)
    BY <1>1, <2>2, SameCatalogAgrees DEF KeepsOrder
  <2>4. Run(changes, n, partly)
    BY <1>2, <2>1 DEF CreateIndex
  <2> QED
    BY <2>3, <2>4, RunKeepsOrder
<1>3. ASSUME NEW t \in DOMAIN Schema, Panic(t) PROVE IInv'
  BY <1>3 DEF Panic, IInv
<1>4. ASSUME NEW t \in DOMAIN Schema, NEW n, NEW partly \in BOOLEAN,
             CreateTable(t, n, partly)
      PROVE  IInv'
  <2>1. KeepsOrder(db, create_table(db, t, Schema[t]))
    BY <1>1, CreateTableKeepsOrder
  <2>2. Run(create_table(db, t, Schema[t]), n, partly)
    BY <1>4 DEF CreateTable
  <2> QED
    BY <2>1, <2>2, RunKeepsOrder
<1>5. ASSUME NEW t \in DOMAIN Schema, NEW values \in Values(t), NEW n,
             NEW partly \in BOOLEAN, IsInjective([i \in DOMAIN values |-> values[i][1]]),
             Insert(t, values, n, partly)
      PROVE  IInv'
  <2>1. KeepsOrder(db, insert(db, t, values))
    BY <1>1, <1>5, InsertKeepsRows, SameCatalogKeepsOrder
  <2>2. Run(insert(db, t, values), n, partly)
    BY <1>5 DEF Insert
  <2> QED
    BY <2>1, <2>2, RunKeepsOrder
<1>6. ASSUME NEW t \in DOMAIN Schema, NEW where, NEW n, NEW partly \in BOOLEAN,
             NEW order \in SetToSeqs(DOMAIN get_index_info(db, t)),
             Delete(t, where, order, n, partly)
      PROVE  IInv'
  <2>1. DOMAIN get_index_info(db, t) \subseteq Range(Schema[t])
    BY <1>1, <1>6, KnownTable DEF Delete
  <2>2. KeepsOrder(db, delete(db, t, where, order))
    BY <1>1, <2>1, DeleteKeepsRows, SameCatalogKeepsOrder
  <2>3. Run(delete(db, t, where, order), n, partly)
    BY <1>6 DEF Delete
  <2> QED
    BY <2>2, <2>3, RunKeepsOrder
<1>7. ASSUME NEW t \in DOMAIN Schema, NEW where, NEW n, NEW partly \in BOOLEAN,
             NEW f \in Range(Schema[t]), NEW e \in Expression[t],
             Modify(t, f, e, where, n, partly)
      PROVE  IInv'
  <2>1. KeepsOrder(db, modify(db, t, f, e, where))
    BY <1>1, ModifyKeepsRows, SameCatalogKeepsOrder
  <2>2. Run(modify(db, t, f, e, where), n, partly)
    BY <1>7 DEF Modify
  <2> QED
    BY <2>1, <2>2, RunKeepsOrder
<1> QED
  BY <1>2, <1>3, <1>4, <1>5, <1>6, <1>7 DEF Statement

LEMMA NextInvariant == IInv /\ [Next]_vars => IInv'
<1> SUFFICES ASSUME IInv, [Next]_vars PROVE IInv'
  OBVIOUS
<1>1. CASE Create \/ Created \/ Open \/ Crash
  BY <1>1, OpeningKeepsOrder
<1>2. CASE Commit
  BY <1>2 DEF Commit, IInv
<1>3. CASE Rollback
  BY <1>3 DEF Rollback, IInv
<1>4. CASE Ready /\ Statement
  BY <1>4, StatementKeepsOrder
<1>5. CASE UNCHANGED vars
  BY <1>5 DEF vars, IInv
<1> QED
  BY <1>1, <1>2, <1>3, <1>4, <1>5 DEF Next

-----------------------------------------------------------------------------
(* What follows.                                                           *)

\* An index that shares its file with no other is the only one of its name.
LEMMA AloneInFile ==
  ASSUME NEW d \in Database, NEW k \in DOMAIN d.idxcat, ~shares_its_file(d, d.idxcat[k]),
         NEW j \in DOMAIN d.idxcat, d.idxcat[j].name = d.idxcat[k].name
  PROVE  j = k
<1> DEFINE S == {i \in DOMAIN d.idxcat : d.idxcat[i].name = d.idxcat[k].name}
<1>1. IsFiniteSet(S)
  <2>1. d.idxcat \in Seq(Index)
    BY PartsType
  <2>2. DOMAIN d.idxcat = 1..Len(d.idxcat) /\ Len(d.idxcat) \in Nat
    BY <2>1, LenProperties
  <2>3. IsFiniteSet(DOMAIN d.idxcat)
    BY <2>2, FS_Interval
  <2> QED
    BY <2>3, FS_Subset
<1>2. ~(Cardinality(S) > 1)
  BY DEF shares_its_file
<1>3. j \in S /\ k \in S
  OBVIOUS
<1> HIDE DEF S
<1> SUFFICES ASSUME j # k PROVE FALSE
  OBVIOUS
<1>4. Cardinality(S) \in Nat
  BY <1>1, FS_CardinalityType
<1>5. IsFiniteSet({k}) /\ Cardinality({k}) = 1
  BY FS_Singleton
<1>6. {k} \in SUBSET S
  BY <1>3
<1>7. 1 <= Cardinality(S) /\ (Cardinality(S) = 1 => S = {k})
  BY <1>1, <1>5, <1>6, FS_Subset
<1>8. S = {k}
  BY <1>2, <1>4, <1>7
<1> QED
  BY <1>3, <1>8

\* An index in use serves.
LEMMA InUseServes ==
  ASSUME NEW d \in Database, NEW k \in DOMAIN d.idxcat, ~shares_its_file(d, d.idxcat[k]),
         d.idxcat[k].name = get_index_info(d, d.idxcat[k].table)[d.idxcat[k].field]
  PROVE  Serves(d, k)
<1>1. PICK t : t = d.idxcat[k].table
  OBVIOUS
<1>2. PICK f : f = d.idxcat[k].field
  OBVIOUS
<1>3. f \in DOMAIN get_index_info(d, t)
  BY <1>1, <1>2, IndexedFields
<1>4. PICK j \in DOMAIN d.idxcat :
        /\ d.idxcat[j].table = t /\ d.idxcat[j].field = f
        /\ get_index_info(d, t)[f] = d.idxcat[j].name
        /\ \A i \in DOMAIN d.idxcat :
             (d.idxcat[i].table = t /\ d.idxcat[i].field = f) => i <= j
  BY <1>3, IndexOfField
<1>5. j = k
  BY <1>1, <1>2, <1>4, AloneInFile
<1>6. \A i \in DOMAIN d.idxcat : d.idxcat[i].name = d.idxcat[k].name => i = k
  BY AloneInFile
<1> QED
  BY <1>1, <1>2, <1>4, <1>5, <1>6 DEF Serves

\* The entries of an index are those of the fields that have been set.
LEMMA EntriesOfTold ==
  ASSUME NEW d, RowsGood(d), NEW i \in Index, EntriesExact(d, i)
  PROVE  d.entries[i.name] =
           {<<d.slots[x[1]][x[2]].values[x[3]], x[2]>> :
              x \in {y \in d.told : y[1] = i.table /\ y[3] = i.field}}
<1> DEFINE T == {<<d.slots[x[1]][x[2]].values[x[3]], x[2]>> :
                   x \in {y \in d.told : y[1] = i.table /\ y[3] = i.field}}
           E == d.entries[i.name]
<1>1. i.name \in Name /\ i.table \in DOMAIN Schema /\ i.field \in Word
  BY OfIndex
<1>2. d \in Database /\ E \subseteq Datum \X Nat /\ d.told \subseteq Cell
  BY <1>1, PartsType DEF RowsGood
<1>3. ASSUME NEW e \in E PROVE e \in T
  <2>1. PICK v \in Datum, s \in Nat : e = <<v, s>>
    BY <1>2
  <2>2. HasTold(d, i.table, s, i.field, v)
    BY <2>1 DEF EntriesExact
  <2>3. PICK x : x = <<i.table, s, i.field>>
    OBVIOUS
  <2>4. x[1] = i.table /\ x[2] = s /\ x[3] = i.field
    BY <2>3
  <2>5. x \in d.told /\ v = d.slots[x[1]][x[2]].values[x[3]]
    BY <2>2, <2>3, <2>4 DEF HasTold
  <2>6. e = <<d.slots[x[1]][x[2]].values[x[3]], x[2]>>
    BY <2>1, <2>4, <2>5
  <2> QED
    BY <2>4, <2>5, <2>6
<1>4. ASSUME NEW e \in T PROVE e \in E
  <2>1. PICK x \in d.told :
          /\ x[1] = i.table /\ x[3] = i.field
          /\ e = <<d.slots[x[1]][x[2]].values[x[3]], x[2]>>
    OBVIOUS
  <2>2. PICK s \in Nat : x = <<i.table, s, i.field>>
    BY <1>2, <2>1 DEF Cell
  <2>3. x[2] = s
    BY <2>2
  <2>4. PICK v : v = d.slots[i.table][s].values[i.field]
    OBVIOUS
  <2>5. e = <<v, s>>
    BY <2>1, <2>3, <2>4
  <2>6. s \in DOMAIN d.slots[i.table] /\ i.field \in Range(Schema[i.table])
    BY <1>1, <2>2 DEF RowsGood, TellsRows
  <2>7. v \in Datum
    BY <1>1, <1>2, <2>4, <2>6, OldValue
  <2>8. HasTold(d, i.table, s, i.field, v)
    BY <2>2, <2>4 DEF HasTold
  <2> QED
    BY <2>5, <2>7, <2>8 DEF EntriesExact
<1>5. E = T
  <2> HIDE DEF E, T
  <2> QED
    BY <1>3, <1>4
<1> QED
  BY <1>5

LEMMA InvariantIndexes == IInv => IndexesAgree
<1> SUFFICES ASSUME IInv, NEW i \in Range(db.idxcat),
                    ~db.torn, ~shares_its_file(db, i),
                    i.name = get_index_info(db, i.table)[i.field]
             PROVE  db.entries[i.name] =
                      {<<db.slots[x[1]][x[2]].values[x[3]], x[2]>> :
                         x \in {y \in db.told : y[1] = i.table /\ y[3] = i.field}}
  BY DEF IndexesAgree
<1>1. db \in Database /\ RowsGood(db)
  BY DEF IInv, InOrder
<1>2. PICK k \in DOMAIN db.idxcat : i = db.idxcat[k]
  BY DEF Range
<1>3. Serves(db, k)
  BY <1>1, <1>2, InUseServes
<1>4. i \in Index
  BY <1>1, <1>2, IndexType
<1>5. EntriesExact(db, i)
  BY <1>1, <1>2, <1>3 DEF RowsGood, IndexesExact
<1> QED
  BY <1>1, <1>4, <1>5, EntriesOfTold

LEMMA InvariantCatalogs == IInv => CatalogsAgree
<1> QED
  BY DEF IInv, InOrder, CatalogAgrees, CatalogComplete, CatalogsAgree

\* Whatever the tables and the indexes are, and however statements fail,
\* commit, roll back and crash, a database in which none has failed in the
\* middle has its rows, its entries and its catalog in order.
THEOREM Invariance == Spec => []IInv
<1> QED
  BY InitInvariant, NextInvariant, PTL DEF Spec

\* Every index that is in use has exactly the entries of its rows: what the
\* insert, delete and modify of the index planner keep.
THEOREM IndexesCorrect == Spec => []IndexesAgree
<1> QED
  BY Invariance, InvariantIndexes, PTL

\* The catalog has each table once with the fields it was created with, and
\* once the first opening was committed every later one finds it complete.
THEOREM CatalogsCorrect == Spec => []CatalogsAgree
<1> QED
  BY Invariance, InvariantCatalogs, PTL
=============================================================================
