-------------------------------- MODULE BTree --------------------------------
(***************************************************************************)
(* The index of src/src/index/btree: a file of leaf pages and a directory  *)
(* that says which leaf has which keys, written by insert and delete and   *)
(* read by before_first and next.                                          *)
(*                                                                         *)
(* A call runs within one transaction that locks the pages it touches, so  *)
(* a call is one step.  Slots are modelled with what earlier records left  *)
(* in them, because the code reads beyond the last record.  Keys are       *)
(* numbers in the order of Value, Null being the greatest.  The directory  *)
(* is its root alone: make_new_root never returns (see Enter).  The index  *)
(* begins formatted: the transaction that first opened it has committed.   *)
(* When that is undone, blocks without a format stay; see Updates.         *)
(***************************************************************************)
EXTENDS Integers, Sequences, FiniteSets, FiniteSetsExt

CONSTANTS
  Key,          \* the values of the indexed column
  MinKey,       \* min_val of BTreeIndex::new, the key of its first entry
  BlankKey,     \* what format writes for a key
  LeafSize,     \* records with which a leaf is_full
  DirSize,      \* entries with which the directory is_full
  Gone,         \* no key
  MaxRows,      \* bound on the rows that are ever indexed, for TLC
  MaxLeaves     \* bound on the leaf file, for TLC

ASSUME BTreeAssumption ==
  /\ Key \subseteq Int /\ {MinKey, BlankKey} \subseteq Int
  /\ \A k \in Key : MinKey <= k
  /\ Gone \notin Key
  /\ LeafSize \in Nat \ {0, 1} /\ DirSize \in Nat \ {0, 1}
  /\ {MaxRows, MaxLeaves} \subseteq Nat \ {0}

VARIABLES
  root,         \* the page of the directory
  leaf,         \* the leaf file, blocks counted from 1
  status,       \* "running", or "panicked" in a call
  contents,     \* history: the key under which each row is indexed, or Gone
  beheaded,     \* history: a delete took the last record of its key from a leaf
                \* that overflows
  misled        \* history: a write took a slot without an entry for one

vars == <<root, leaf, status, contents, beheaded, misled>>

-----------------------------------------------------------------------------
(* Pages.  Slots count from 0; flag is the level of a directory page, and  *)
(* the block that a leaf overflows to, or None, which the code writes -1.  *)

None == 0

\* A row is known by its number in the order of insertion, a block by its slot
\* and 1, so that format writes 1 for the zeros of either.
Rid == 1..MaxRows
Blank == [key |-> BlankKey, ref |-> 1]

Slots(size) == 0..size-1
Page(size, Ref, Flag) ==
  [flag : Flag, num : 0..size-1,
   slot : [Slots(size) -> [key : Key \cup {MinKey, BlankKey}, ref : Ref]]]

formatted(size, flag) ==
  [flag |-> flag, num |-> 0,
   slot |-> [i \in Slots(size) |-> Blank]]

is_full_late(p) == p.num > Cardinality(DOMAIN p.slot)

is_full(p) == p.num >= Cardinality(DOMAIN p.slot)

inserted_over(p, i, r) == [p EXCEPT !.num = @ + 1, !.slot[i] = r]

\* insert_empty_slot, then the fields: records from slot i on move up by one.
inserted(p, i, r) ==
  [p EXCEPT
     !.num = @ + 1,
     !.slot = [j \in DOMAIN @ |->
                 IF j = i THEN r
                 ELSE IF j > i /\ j <= p.num THEN @[j - 1]
                 ELSE @[j]]]

\* Records after slot i move down; the last slot keeps its copy.
deleted(p, i) ==
  [p EXCEPT
     !.num = @ - 1,
     !.slot = [j \in DOMAIN @ |-> IF j >= i /\ j < p.num - 1 THEN @[j + 1] ELSE @[j]]]

\* split moves the records from slot i on to a new page, one at a time, each
\* deleted at slot i: copies of the last one stay behind.
left_of(p, i) ==
  [p EXCEPT
     !.num = i,
     !.slot = [j \in DOMAIN @ |-> IF j >= i /\ j < p.num THEN @[p.num - 1] ELSE @[j]]]

right_of(p, i, flag) ==
  LET q == formatted(Cardinality(DOMAIN p.slot), flag)
  IN [q EXCEPT
        !.num = p.num - i,
        !.slot = [j \in DOMAIN @ |-> IF j < p.num - i THEN p.slot[i + j] ELSE @[j]]]

Start == -1

\* The slot before the first whose key is not smaller; Start before slot 0.
find_slot_before(p, k) ==
  Min({i \in 0..p.num : i = p.num \/ p.slot[i].key >= k}) - 1

first_key(p) == p.slot[0].key
last_key(p) == p.slot[p.num - 1].key

-----------------------------------------------------------------------------
(* Looking up.                                                             *)

\* find_slot_before asserts that no key is below the first of a directory,
\* and Slot::index panics on Slot::Start.
Panics(p, k) == first_key(p) > k \/ find_slot_before(p, k) = Start

\* find_child_block_slot: the slot after may be one without a record.
find_child(p, k) ==
  LET i == find_slot_before(p, k)
  IN IF p.slot[i + 1].key = k THEN p.slot[i + 1].ref ELSE p.slot[i].ref

\* The blank key of the slot after the last entry may be the key, in a wrong leaf.
entry_of(p, k) == Max({i \in 0..p.num-1 : p.slot[i].key <= k})

misleads(k) == find_child(root, k) # root.slot[entry_of(root, k)].ref

Blocks == DOMAIN leaf

\* The blocks that one gets to from block b, going from c to to[c].
Reached(b, to) ==
  {c \in Blocks : \A S \in SUBSET Blocks :
     b \in S /\ (\A d \in S : to[d] \in S \cup {None}) => c \in S}

\* The blocks that next goes through for key k, from block b on: try_overflow
\* follows the flag of a leaf if the key in its slot 0 is the one searched.
Chain(b, k) ==
  Reached(b, [c \in Blocks |-> IF first_key(leaf[c]) = k THEN leaf[c].flag ELSE None])

\* The slots of a leaf at which next returns true, from a slot on.
Matches(p, from, k) ==
  {i \in from..p.num-1 : \A j \in from..i : p.slot[j].key = k}

\* Where before_first(k), and next until it returns false, get to: blocks that
\* were overflowed to are read from slot 0 on.
Found(k) ==
  LET head == find_child(root, k)
      from(b) == IF b = head THEN find_slot_before(leaf[b], k) + 1 ELSE 0
  IN UNION {{b} \X Matches(leaf[b], from(b), k) : b \in Chain(head, k)}

Lookup(k) == {leaf[x[1]].slot[x[2]].ref : x \in Found(k)}

-----------------------------------------------------------------------------
(* Writing.                                                                *)

Init ==
  /\ root = inserted(formatted(DirSize, 0), 0, [key |-> MinKey, ref |-> 1])
  /\ leaf = <<formatted(LeafSize, None)>>
  /\ status = "running"
  /\ contents = <<>>
  /\ beheaded = FALSE /\ misled = FALSE

NewBlock == Len(leaf) + 1
Room == NewBlock <= MaxLeaves

\* BTreeDirectory::insert on the root.  A root that is full is split, and
\* make_new_root then splits the half that stayed at slot 0 and calls
\* insert_entry for its smallest key on the page that this left empty.
Enter(k, b) ==
  LET q == inserted(root, find_slot_before(root, k) + 1, [key |-> k, ref |-> b])
      emptied == left_of(left_of(q, q.num \div 2), 0)
  IN \/ ~is_full(q) /\ root' = q /\ UNCHANGED status
     \/ is_full(q) /\ Panics(emptied, first_key(q)) /\ status' = "panicked" /\ UNCHANGED root

\* What an insertion of k into leaf p makes of it.
with(p, k, r) == inserted(p, find_slot_before(p, k) + 1, [key |-> k, ref |-> r])

\* A leaf with overflow blocks, and keys above k only, moves to a new block as
\* a whole, its flag too, and leaves its block to k.
goes_before(p, k) == p.flag # None /\ first_key(p) > k

begun_flagged(k, r, p) == inserted(left_of(p, 0), 0, [key |-> k, ref |-> r])

begun(k, r, p) ==
  [inserted(left_of(p, 0), 0, [key |-> k, ref |-> r]) EXCEPT !.flag = None]

InsertBefore(k, r) ==
  LET b == find_child(root, k)
  IN /\ goes_before(leaf[b], k)
     /\ Room
     /\ leaf' = Append([leaf EXCEPT ![b] = begun(k, r, @)], right_of(leaf[b], 0, leaf[b].flag))
     /\ Enter(first_key(leaf[b]), NewBlock)

InsertFitting(k, r) ==
  LET b == find_child(root, k)
  IN /\ ~goes_before(leaf[b], k)
     /\ ~is_full(with(leaf[b], k, r))
     /\ leaf' = [leaf EXCEPT ![b] = with(@, k, r)]
     /\ UNCHANGED <<root, status>>

one_key_at_ends(p) == last_key(p) = p.slot[p.num - 2].key

one_key(p) == first_key(p) = last_key(p)

\* A leaf full of one key: all its records but the first go to a new block,
\* to which it overflows.
InsertOverflow(k, r) ==
  LET b == find_child(root, k)
      p == with(leaf[b], k, r)
  IN /\ ~goes_before(leaf[b], k)
     /\ is_full(p) /\ one_key(p)
     /\ Room
     /\ leaf' = Append([leaf EXCEPT ![b] = [left_of(p, 1) EXCEPT !.flag = NewBlock]],
                       right_of(p, 1, p.flag))
     /\ UNCHANGED <<root, status>>

split_in_half(p) == p.num \div 2

\* The middle, moved away from it until the same key is not on both sides.
split_pos(p) ==
  LET m == p.num \div 2
      k == p.slot[m].key
  IN IF k = first_key(p)
     THEN Min({i \in m..p.num-1 : p.slot[i].key # k})
     ELSE Min({i \in 1..m : \A j \in i..m : p.slot[j].key = k})

InsertSplit(k, r) ==
  LET b == find_child(root, k)
      p == with(leaf[b], k, r)
      i == split_pos(p)
  IN /\ ~goes_before(leaf[b], k)
     /\ is_full(p) /\ ~one_key(p)
     /\ Room
     /\ leaf' = Append([leaf EXCEPT ![b] = left_of(p, i)], right_of(p, i, None))
     /\ Enter(p.slot[i].key, NewBlock)

\* BTreeIndex::insert, for a new row.
Insert(k) ==
  /\ status = "running"
  /\ ~Panics(root, k)
  /\ Len(contents) < MaxRows
  /\ LET r == Len(contents) + 1
     IN \/ InsertBefore(k, r)
        \/ InsertFitting(k, r)
        \/ InsertOverflow(k, r)
        \/ InsertSplit(k, r)
  /\ contents' = Append(contents, k)
  /\ misled' = (misled \/ misleads(k))
  /\ UNCHANGED beheaded

last_of_its_key(p, i) == \A j \in 0..p.num-1 : p.slot[j].key = p.slot[i].key => j = i

\* BTreeIndex::delete: the match with the record id goes, if there is one.
Delete(r) ==
  /\ status = "running"
  /\ contents[r] # Gone
  /\ ~Panics(root, contents[r])
  /\ \/ \E x \in Found(contents[r]) :
          LET p == leaf[x[1]]
          IN /\ p.slot[x[2]].ref = r
             /\ leaf' = [leaf EXCEPT ![x[1]] = deleted(p, x[2])]
             /\ beheaded' = (beheaded \/ (p.flag # None /\ x[2] = 0 /\ last_of_its_key(p, 0)))
     \/ r \notin Lookup(contents[r]) /\ UNCHANGED <<leaf, beheaded>>
  /\ contents' = [contents EXCEPT ![r] = Gone]
  /\ misled' = (misled \/ misleads(contents[r]))
  /\ UNCHANGED <<root, status>>

\* before_first, which insert, delete and lookups begin with.
SearchPanics(k) ==
  /\ status = "running"
  /\ Panics(root, k)
  /\ status' = "panicked"
  /\ UNCHANGED <<root, leaf, contents, beheaded, misled>>

Next ==
  \/ \E k \in Key : Insert(k) \/ SearchPanics(k)
  \/ \E r \in DOMAIN contents : Delete(r)

Spec == Init /\ [][Next]_vars

-----------------------------------------------------------------------------
TypeOK ==
  /\ root \in Page(DirSize, Blocks, {0})
  /\ leaf \in Seq(Page(LeafSize, Rid, Blocks \cup {None}))
  /\ contents \in Seq(Key \cup {Gone}) /\ Len(contents) <= MaxRows
  /\ status \in {"running", "panicked"}
  /\ {beheaded, misled} \subseteq BOOLEAN

\* No call has panicked, and none of the two that lookups suffer from was made.
Sane == status = "running" /\ ~beheaded /\ ~misled

Records(p) == {p.slot[i] : i \in 0..p.num-1}
Stored == {x \in Blocks \X Slots(LeafSize) : x[2] < leaf[x[1]].num}

\* The leaves that a leaf overflows to, one after the other, and itself.
Leaves(b) == Reached(b, [c \in Blocks |-> leaf[c].flag])

\* Slot i of the directory stands for the keys from its own up to the next.
InRange(i, k) ==
  /\ root.slot[i].key <= k
  /\ i + 1 < root.num => k < root.slot[i + 1].key

\* Pages are ordered, and every record is in a leaf of the directory entry in
\* whose range its key is: otherwise a search would go past it.
OrderHolds == Sane =>
  /\ \A i, j \in 0..root.num-1 : i < j => root.slot[i].key < root.slot[j].key
  /\ \A b \in Blocks : \A i, j \in 0..leaf[b].num-1 :
       i < j => leaf[b].slot[i].key <= leaf[b].slot[j].key
  /\ \A i \in 0..root.num-1 : \A b \in Leaves(root.slot[i].ref) :
       \A x \in Records(leaf[b]) : InRange(i, x.key)

\* Each leaf has one owner, an entry of the directory or a leaf that overflows
\* to it: no block is lost, and no two chains share one.
EachLeafOnce == status = "running" =>
  \A b \in Blocks :
    Cardinality({i \in 0..root.num-1 : root.slot[i].ref = b})
      + Cardinality({c \in Blocks : leaf[c].flag = b}) = 1

\* The overflow blocks of a chain hold a single key, and what was inserted and
\* not deleted is in exactly one slot of all leaves.
ChainsHoldOneKey == Sane =>
  /\ \A i \in 0..root.num-1 :
       LET head == root.slot[i].ref
       IN \A b, c \in Leaves(head) \ {head} : \A x \in Records(leaf[b]), y \in Records(leaf[c]) :
            x.key = y.key
  /\ \A r \in DOMAIN contents : contents[r] # Gone =>
       Cardinality({x \in Stored : leaf[x[1]].slot[x[2]] = [key |-> contents[r], ref |-> r]}) = 1

InsertedUnder(k) == {r \in DOMAIN contents : contents[r] = k}

\* Lookups are exact until the first beheading, since try_overflow looks at slot 0
\* of a leaf to tell whether the blocks it overflows to have the key, or the first
\* reading of a blank slot as an entry.
ExactUntilBeheaded == Sane =>
  \A k \in Key : ~Panics(root, k) /\ ~misleads(k) => Lookup(k) = InsertedUnder(k)

\* Slot::index is called on slots with an index only, as it asserts.
NoPanic == status = "running"
=============================================================================
