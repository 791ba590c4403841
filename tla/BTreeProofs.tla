---------------------------- MODULE BTreeProofs ----------------------------
(***************************************************************************)
(* Proofs about BTree: its types, that every leaf has one owner, and that, *)
(* as long as no leaf is beheaded and no blank slot taken for an entry,    *)
(* pages and chains are in order and lookups find what is indexed.         *)
(*                                                                         *)
(* Most lemmas are about a directory rt and a leaf file lf that are not    *)
(* the variables, so that they can be cited for two states at once.        *)
(***************************************************************************)
EXTENDS BTree, Integers, FiniteSetsExt, NaturalsInduction,
        SequenceTheorems, FiniteSetTheorems, WellFoundedInduction, TLAPS

-----------------------------------------------------------------------------
(* Least and greatest numbers of a set.                                    *)

\* A set of numbers that has one has a least one.
LEMMA LeastExists ==
  ASSUME NEW S, S \subseteq Nat, S # {}
  PROVE  \E i \in S : \A j \in S : i <= j
<1>1. IsWellFoundedOn(OpToRel(<, Nat), Nat)
  BY NatLessThanWellFounded
<1>2. PICK x \in S : \A y \in S : ~ (<<y, x>> \in OpToRel(<, Nat))
  BY <1>1, WFMin
<1>3. \A y \in S : x =< y
  <2> TAKE y \in S
  <2>1. <<y, x>> \in OpToRel(<, Nat) <=> y < x
    BY DEF OpToRel
  <2>2. x \in Nat /\ y \in Nat /\ ~ (y < x)
    BY <1>2, <2>1
  <2> QED
    BY <2>2
<1> QED
  BY <1>2, <1>3

\* A set of numbers up to n that has one has a greatest one.
LEMMA GreatestExists ==
  ASSUME NEW n \in Nat, NEW S \in SUBSET (0..n), S # {}
  PROVE  \E i \in S : \A j \in S : j <= i
<1> DEFINE T == {n - j : j \in S}
<1>1. T \subseteq Nat /\ T # {}
  <2>1. \A j \in S : n - j \in Nat
    OBVIOUS
  <2> QED
    BY <2>1
<1>2. PICK k \in T : \A m \in T : k <= m
  <2> HIDE DEF T
  <2> QED
    BY <1>1, LeastExists
<1>3. PICK i \in S : k = n - i
  BY <1>2
<1>4. \A j \in S : i >= j
  BY <1>2, <1>3
<1> QED
  BY <1>4

LEMMA MinProperty ==
  ASSUME NEW S \in SUBSET Nat, S # {}
  PROVE  Min(S) \in S /\ \A j \in S : Min(S) <= j
<1> QED
  BY LeastExists DEF Min

LEMMA MaxProperty ==
  ASSUME NEW n \in Nat, NEW S \in SUBSET (0..n), S # {}
  PROVE  Max(S) \in S /\ \A j \in S : j <= Max(S)
<1> QED
  BY GreatestExists DEF Max

-----------------------------------------------------------------------------

-----------------------------------------------------------------------------
(* The inductive invariant.                                                *)

\* Pages while records are inserted, and so with a record in every slot.
Keys == Key \cup {MinKey, BlankKey}
FullPage(size, Ref, Flag) ==
  [flag : Flag, num : 0..size,
   slot : [Slots(size) -> [key : Keys, ref : Ref]]]

LeafPage(B) == FullPage(LeafSize, Rid, B \cup {None})
RootPage(B) == FullPage(DirSize, B, {0})

\* A leaf file and its blocks.
LeafFile(lf) ==
  /\ Len(lf) \in Nat /\ DOMAIN lf = 1..Len(lf)
  /\ \A b \in DOMAIN lf : lf[b] \in LeafPage(DOMAIN lf) /\ lf[b].num < LeafSize

\* Each block has an owner, a directory entry or the leaf that overflows to it,
\* and only one.
EntryOf(rt, i, b) == i \in 0..rt.num-1 /\ rt.slot[i].ref = b
Overflows(lf, c, b) == c \in DOMAIN lf /\ lf[c].flag = b

EntryOnce(rt, b) == \A i, j : EntryOf(rt, i, b) /\ EntryOf(rt, j, b) => i = j
OverflowOnce(lf, b) == \A c, d : Overflows(lf, c, b) /\ Overflows(lf, d, b) => c = d
HasEntry(rt, b) == \E i : EntryOf(rt, i, b)
IsOverflow(lf, b) == \E c : Overflows(lf, c, b)

OneOwner(rt, lf) == \A b \in DOMAIN lf :
  /\ EntryOnce(rt, b) /\ OverflowOnce(lf, b)
  /\ HasEntry(rt, b) <=> ~IsOverflow(lf, b)

Sorted(p) == \A i, j \in 0..p.num-1 : i < j => p.slot[i].key <= p.slot[j].key
Strict(p) == \A i, j \in 0..p.num-1 : i < j => p.slot[i].key < p.slot[j].key
Distinct(p) == \A i, j \in 0..p.num-1 : p.slot[i] = p.slot[j] => i = j

\* The keys that entry i of the directory stands for.
Within(rt, i, k) ==
  /\ rt.slot[i].key <= k
  /\ i + 1 < rt.num => k < rt.slot[i + 1].key

\* A block's chain begins with the block of entry i, whose keys it holds.
Serves(rt, i, p, h) ==
  /\ EntryOf(rt, i, h)
  /\ \A x \in Records(p) : Within(rt, i, x.key)

\* A block that is overflowed to has a single key, the first of the leaf that
\* its chain begins with, in its slot 0 even when it has no record.
OneKeyOf(p, h) ==
  /\ first_key(p) = first_key(h)
  /\ \A x \in Records(p) : x.key = first_key(h)

\* head says with which block the chain of each block begins.
HeadsRight(rt, lf, head) ==
  /\ head \in [DOMAIN lf -> DOMAIN lf]
  /\ \A b \in DOMAIN lf : \A i : EntryOf(rt, i, b) => head[b] = b
  /\ \A b \in DOMAIN lf : \E i : Serves(rt, i, lf[b], head[b])
  /\ \A b \in DOMAIN lf : lf[b].flag # None => head[lf[b].flag] = head[b] /\ lf[b].num > 0
  /\ \A b \in DOMAIN lf : head[b] # b =>
       /\ lf[b].flag < b
       /\ lf[head[b]].flag # None
       /\ OneKeyOf(lf[b], lf[head[b]])

Ordered(rt, lf, head) ==
  /\ Strict(rt)
  /\ \A b \in DOMAIN lf : Sorted(lf[b])
  /\ HeadsRight(rt, lf, head)

\* The records of the leaves are those of the rows that are indexed, once each.
AllRecords(lf) == UNION {Records(lf[b]) : b \in DOMAIN lf}

NotTwice(lf) ==
  /\ \A b \in DOMAIN lf : Distinct(lf[b])
  /\ \A b, c \in DOMAIN lf : b # c => Records(lf[b]) \cap Records(lf[c]) = {}
OnlyIndexed(lf, rows) ==
  \A x \in AllRecords(lf) : x.ref \in DOMAIN rows /\ rows[x.ref] = x.key
AllIndexed(lf, rows) ==
  \A r \in DOMAIN rows : rows[r] # Gone => [key |-> rows[r], ref |-> r] \in AllRecords(lf)
Exact(lf, rows) == NotTwice(lf) /\ OnlyIndexed(lf, rows) /\ AllIndexed(lf, rows)

\* What is known of a directory and a leaf file in a sane state.
Sound(rt, lf, head) ==
  /\ LeafFile(lf) /\ rt \in RootPage(DOMAIN lf) /\ rt.num < DirSize
  /\ OneOwner(rt, lf) /\ Ordered(rt, lf, head)

IInv ==
  /\ TypeOK
  /\ status = "running" => OneOwner(root, leaf)
  /\ Sane => (\E head : Ordered(root, leaf, head)) /\ Exact(leaf, contents)

-----------------------------------------------------------------------------
(* What the operations on pages do.                                        *)

LEMMA Sizes ==
  /\ Keys \subseteq Int /\ Keys # {} /\ Key \subseteq Keys /\ MinKey \in Keys
  /\ BlankKey \in Keys /\ None = 0 /\ Gone \notin Key
  /\ LeafSize \in Nat \ {0, 1} /\ DirSize \in Nat \ {0, 1}
  /\ MaxRows \in Nat \ {0} /\ MaxLeaves \in Nat \ {0} /\ 1 \in Rid
  /\ \A k \in Key : MinKey <= k
  /\ \A size \in Nat : Slots(size) = 0..size-1
<1>1. MinKey \in Int /\ BlankKey \in Int
  BY BTreeAssumption
<1>2. LeafSize \in Nat \ {0, 1} /\ DirSize \in Nat \ {0, 1}
  BY BTreeAssumption
<1>3. MaxRows \in Nat \ {0} /\ MaxLeaves \in Nat \ {0}
  BY BTreeAssumption
<1>4. Key \subseteq Int /\ Gone \notin Key /\ \A k \in Key : MinKey <= k
  BY BTreeAssumption
<1>5. Keys \subseteq Int /\ Keys # {} /\ Key \subseteq Keys /\ MinKey \in Keys /\ BlankKey \in Keys
  BY <1>1, <1>4 DEF Keys
<1>6. 1 \in Rid
  BY <1>3 DEF Rid
<1> QED
  BY <1>2, <1>3, <1>4, <1>5, <1>6 DEF None, Slots

\* The fields of a page.
LEMMA PageFields ==
  ASSUME NEW size \in Nat \ {0}, NEW Ref, NEW Flag, NEW p \in FullPage(size, Ref, Flag)
  PROVE  /\ p.flag \in Flag /\ p.num \in 0..size
         /\ DOMAIN p.slot = 0..size-1 /\ Cardinality(DOMAIN p.slot) = size
         /\ \A j \in 0..size-1 : p.slot[j] \in [key : Keys, ref : Ref]
         /\ \A j \in 0..size-1 : p.slot[j].key \in Keys /\ p.slot[j].ref \in Ref
         /\ p = [flag |-> p.flag, num |-> p.num, slot |-> p.slot]
<1>1. p.slot \in [0..size-1 -> [key : Keys, ref : Ref]]
  BY Sizes DEF FullPage
<1>2. Cardinality(0..size-1) = size
  BY FS_Interval
<1>3. \A j \in 0..size-1 : p.slot[j] \in [key : Keys, ref : Ref]
  BY <1>1
<1> QED
  BY <1>1, <1>2, <1>3 DEF FullPage

LEMMA FormattedPage ==
  ASSUME NEW size \in Nat \ {0}, NEW Ref, NEW Flag, NEW flag \in Flag, 1 \in Ref
  PROVE  /\ formatted(size, flag) \in FullPage(size, Ref, Flag)
         /\ formatted(size, flag).num = 0 /\ formatted(size, flag).flag = flag
         /\ \A j \in 0..size-1 : formatted(size, flag).slot[j] = Blank
<1>1. Blank \in [key : Keys, ref : Ref]
  BY Sizes DEF Blank
<1> QED
  BY <1>1, Sizes DEF formatted, FullPage

\* The slots of a page after an insertion.
LEMMA InsertedSlots ==
  ASSUME NEW size \in Nat \ {0}, NEW Ref, NEW Flag, NEW p \in FullPage(size, Ref, Flag),
         p.num < size, NEW i \in 0..p.num, NEW r \in [key : Keys, ref : Ref],
         NEW q, q = inserted(p, i, r)
  PROVE  /\ q \in FullPage(size, Ref, Flag)
         /\ q.flag = p.flag /\ q.num = p.num + 1
         /\ \A j \in 0..size-1 : q.slot[j] = IF j = i THEN r
                                             ELSE IF j > i /\ j <= p.num THEN p.slot[j - 1]
                                             ELSE p.slot[j]
<1> DEFINE sl == [j \in 0..size-1 |-> IF j = i THEN r
                                     ELSE IF j > i /\ j <= p.num THEN p.slot[j - 1]
                                     ELSE p.slot[j]]
<1>1. DOMAIN p.slot = 0..size-1 /\ p.num + 1 \in 0..size
  BY PageFields
<1>2. q = [p EXCEPT !.num = p.num + 1, !.slot = sl]
  BY <1>1 DEF inserted
<1>3. ASSUME NEW j \in 0..size-1 PROVE sl[j] \in [key : Keys, ref : Ref]
  <2>1. j > i /\ j <= p.num => j - 1 \in 0..size-1
    OBVIOUS
  <2> QED
    BY <2>1, PageFields
<1>4. sl \in [0..size-1 -> [key : Keys, ref : Ref]]
  BY <1>3
<1>5. /\ q \in FullPage(size, Ref, Flag)
      /\ q.flag = p.flag /\ q.num = p.num + 1 /\ q.slot = sl
  <2> HIDE DEF sl
  <2>1. p = [flag |-> p.flag, num |-> p.num, slot |-> p.slot] /\ p.flag \in Flag
    BY <1>1, PageFields
  <2>2. q = [flag |-> p.flag, num |-> p.num + 1, slot |-> sl]
    BY <1>2, <2>1
  <2> QED
    BY <1>1, <1>4, <2>1, <2>2, Sizes DEF FullPage
<1> QED
  BY <1>5

LEMMA DeletedSlots ==
  ASSUME NEW size \in Nat \ {0}, NEW Ref, NEW Flag, NEW p \in FullPage(size, Ref, Flag),
         NEW i \in 0..p.num-1, NEW q, q = deleted(p, i)
  PROVE  /\ q \in FullPage(size, Ref, Flag)
         /\ q.flag = p.flag /\ q.num = p.num - 1
         /\ \A j \in 0..size-1 : q.slot[j] = IF j >= i /\ j < p.num - 1 THEN p.slot[j + 1]
                                             ELSE p.slot[j]
<1> DEFINE sl == [j \in 0..size-1 |-> IF j >= i /\ j < p.num - 1 THEN p.slot[j + 1] ELSE p.slot[j]]
<1>1. DOMAIN p.slot = 0..size-1 /\ p.num - 1 \in 0..size /\ p.num \in 0..size
  BY PageFields
<1>2. q = [p EXCEPT !.num = p.num - 1, !.slot = sl]
  BY <1>1 DEF deleted
<1>3. ASSUME NEW j \in 0..size-1 PROVE sl[j] \in [key : Keys, ref : Ref]
  <2>1. j < p.num - 1 => j + 1 \in 0..size-1
    BY <1>1
  <2> QED
    BY <2>1, PageFields
<1>4. sl \in [0..size-1 -> [key : Keys, ref : Ref]]
  BY <1>3
<1>5. /\ q \in FullPage(size, Ref, Flag)
      /\ q.flag = p.flag /\ q.num = p.num - 1 /\ q.slot = sl
  <2> HIDE DEF sl
  <2>1. p = [flag |-> p.flag, num |-> p.num, slot |-> p.slot] /\ p.flag \in Flag
    BY <1>1, PageFields
  <2>2. q = [flag |-> p.flag, num |-> p.num - 1, slot |-> sl]
    BY <1>2, <2>1
  <2> QED
    BY <1>1, <1>4, <2>1, <2>2, Sizes DEF FullPage
<1> QED
  BY <1>5

\* The slots of the two pages into which a page is split.
LEMMA LeftSlots ==
  ASSUME NEW size \in Nat \ {0}, NEW Ref, NEW Flag, NEW p \in FullPage(size, Ref, Flag),
         NEW i \in 0..p.num, NEW q, q = left_of(p, i)
  PROVE  /\ q \in FullPage(size, Ref, Flag)
         /\ q.flag = p.flag /\ q.num = i
         /\ \A j \in 0..i-1 : q.slot[j] = p.slot[j]
         /\ p.num > 0 /\ i = 0 => q.slot[0] = p.slot[p.num - 1]
         /\ p.num = 0 => q.slot = p.slot
<1> DEFINE sl == [j \in 0..size-1 |-> IF j >= i /\ j < p.num THEN p.slot[p.num - 1] ELSE p.slot[j]]
<1>1. DOMAIN p.slot = 0..size-1 /\ p.num \in 0..size /\ i \in 0..size
  BY PageFields
<1>2. q = [p EXCEPT !.num = i, !.slot = sl]
  BY <1>1 DEF left_of
<1>3. ASSUME NEW j \in 0..size-1 PROVE sl[j] \in [key : Keys, ref : Ref]
  <2>1. j < p.num => p.num - 1 \in 0..size-1
    BY <1>1
  <2> QED
    BY <2>1, PageFields
<1>4. sl \in [0..size-1 -> [key : Keys, ref : Ref]]
  BY <1>3
<1>5. /\ q \in FullPage(size, Ref, Flag)
      /\ q.flag = p.flag /\ q.num = i /\ q.slot = sl
  <2> HIDE DEF sl
  <2>1. p = [flag |-> p.flag, num |-> p.num, slot |-> p.slot] /\ p.flag \in Flag
    BY <1>1, PageFields
  <2>2. q = [flag |-> p.flag, num |-> i, slot |-> sl]
    BY <1>2, <2>1
  <2> QED
    BY <1>1, <1>4, <2>1, <2>2, Sizes DEF FullPage
<1>6. \A j \in 0..i-1 : j \in 0..size-1 /\ ~(j >= i)
  BY <1>1
<1>7. p.num = 0 => sl = [j \in 0..size-1 |-> p.slot[j]] /\ p.slot \in [0..size-1 -> [key : Keys, ref : Ref]]
  BY <1>1, Sizes DEF FullPage
<1> QED
  BY <1>1, <1>5, <1>6, <1>7

LEMMA RightSlots ==
  ASSUME NEW size \in Nat \ {0}, NEW Ref, NEW Flag, NEW p \in FullPage(size, Ref, Flag),
         NEW i \in 0..p.num, NEW flag \in Flag, 1 \in Ref, NEW q, q = right_of(p, i, flag)
  PROVE  /\ q \in FullPage(size, Ref, Flag)
         /\ q.flag = flag /\ q.num = p.num - i
         /\ \A j \in 0..p.num-i-1 : q.slot[j] = p.slot[i + j]
<1> DEFINE f == formatted(size, flag)
           sl == [j \in 0..size-1 |-> IF j < p.num - i THEN p.slot[i + j] ELSE f.slot[j]]
<1>1. DOMAIN p.slot = 0..size-1 /\ p.num \in 0..size /\ p.num - i \in 0..size
      /\ Cardinality(DOMAIN p.slot) = size
  BY PageFields
<1>2. f \in FullPage(size, Ref, Flag) /\ f.flag = flag
  BY FormattedPage
<1>3. q = [f EXCEPT !.num = p.num - i, !.slot = sl]
  <2>1. DOMAIN f.slot = 0..size-1
    <3> HIDE DEF f
    <3> QED
      BY <1>2, PageFields
  <2> QED
    BY <1>1, <2>1 DEF right_of
<1>4. ASSUME NEW j \in 0..size-1 PROVE sl[j] \in [key : Keys, ref : Ref]
  <2>1. j < p.num - i => i + j \in 0..size-1
    BY <1>1
  <2>2. f.slot[j] \in [key : Keys, ref : Ref]
    <3> HIDE DEF f
    <3> QED
      BY <1>2, PageFields
  <2>3. \A n \in 0..size-1 : p.slot[n] \in [key : Keys, ref : Ref]
    BY PageFields
  <2> HIDE DEF f
  <2> QED
    BY <2>1, <2>2, <2>3
<1>5. sl \in [0..size-1 -> [key : Keys, ref : Ref]]
  BY <1>4
<1>6. /\ q \in FullPage(size, Ref, Flag)
      /\ q.flag = f.flag /\ q.num = p.num - i /\ q.slot = sl
  <2> HIDE DEF sl, f
  <2>1. f = [flag |-> f.flag, num |-> f.num, slot |-> f.slot] /\ f.flag \in Flag
    BY <1>1, <1>2, PageFields
  <2>2. q = [flag |-> f.flag, num |-> p.num - i, slot |-> sl]
    BY <1>3, <2>1
  <2>3. sl \in [Slots(size) -> [key : Keys, ref : Ref]]
    BY <1>5, Sizes
  <2> QED
    BY <1>1, <2>1, <2>2, <2>3 DEF FullPage
<1>7. \A j \in 0..p.num-i-1 : j \in 0..size-1 /\ j < p.num - i
  BY <1>1
<1> QED
  BY <1>2, <1>6, <1>7

-----------------------------------------------------------------------------
(* The records of a page, and their order, after an operation.             *)

\* p with r inserted at slot i, and without slot i, as far as there are records.
Inserts(p, i, r, q) ==
  /\ p.num \in Nat /\ i \in 0..p.num /\ q.num = p.num + 1
  /\ \A j \in 0..p.num : q.slot[j] = IF j = i THEN r ELSE IF j > i THEN p.slot[j - 1] ELSE p.slot[j]

Deletes(p, i, q) ==
  /\ p.num \in Nat /\ i \in 0..p.num-1 /\ q.num = p.num - 1
  /\ \A j \in 0..p.num-2 : q.slot[j] = IF j >= i THEN p.slot[j + 1] ELSE p.slot[j]

\* q has the records of p from slot i on, before slot n.
Part(p, i, n, q) ==
  /\ p.num \in Nat /\ i \in 0..n /\ n \in 0..p.num /\ q.num = n - i
  /\ \A j \in 0..n-i-1 : q.slot[j] = p.slot[i + j]

\* The keys of the records before slot i and from it on.
Around(p, i, k) ==
  /\ \A j \in 0..i-1 : p.slot[j].key <= k
  /\ \A j \in i..p.num-1 : k <= p.slot[j].key

LEMMA InsertedRecords ==
  ASSUME NEW p, NEW q, NEW i, NEW r, Inserts(p, i, r, q)
  PROVE  /\ Records(q) = Records(p) \cup {r}
         /\ Distinct(p) /\ r \notin Records(p) => Distinct(q)
<1>1. /\ p.num \in Nat /\ i \in 0..p.num /\ q.num = p.num + 1
      /\ \A j \in 0..p.num : q.slot[j] = IF j = i THEN r ELSE IF j > i THEN p.slot[j - 1] ELSE p.slot[j]
  BY DEF Inserts
<1>2. ASSUME NEW x \in Records(q) PROVE x \in Records(p) \cup {r}
  <2>1. PICK j \in 0..p.num : x = q.slot[j]
    BY <1>1 DEF Records
  <2>2. j # i => \E n \in 0..p.num-1 : x = p.slot[n]
    <3>1. CASE j > i
      <4>1. j - 1 \in 0..p.num-1 /\ x = p.slot[j - 1]
        BY <1>1, <2>1, <3>1
      <4> QED
        BY <4>1
    <3>2. CASE j < i
      <4>1. j \in 0..p.num-1 /\ x = p.slot[j]
        BY <1>1, <2>1, <3>2
      <4> QED
        BY <4>1
    <3> QED
      BY <1>1, <3>1, <3>2
  <2> QED
    BY <1>1, <2>1, <2>2 DEF Records
<1>3. r \in Records(q)
  <2>1. i \in 0..q.num-1 /\ q.slot[i] = r
    BY <1>1
  <2> QED
    BY <2>1 DEF Records
<1>4. ASSUME NEW x \in Records(p) PROVE x \in Records(q)
  <2>1. PICK j \in 0..p.num-1 : x = p.slot[j]
    BY DEF Records
  <2>2. CASE j < i
    <3>1. j \in 0..q.num-1 /\ q.slot[j] = x
      BY <1>1, <2>1, <2>2
    <3> QED
      BY <3>1 DEF Records
  <2>3. CASE ~(j < i)
    <3>1. j + 1 \in 0..q.num-1 /\ q.slot[j + 1] = x
      BY <1>1, <2>1, <2>3
    <3> QED
      BY <3>1 DEF Records
  <2> QED
    BY <2>2, <2>3
<1>5. Records(q) = Records(p) \cup {r}
  BY <1>2, <1>3, <1>4
<1>6. ASSUME Distinct(p), r \notin Records(p), NEW j \in 0..q.num-1, NEW n \in 0..q.num-1, j < n
      PROVE  q.slot[j] # q.slot[n]
  <2>1. \A m \in 0..p.num-1 : p.slot[m] # r
    BY <1>6 DEF Records
  <2>2. \A l, m \in 0..p.num-1 : p.slot[l] = p.slot[m] => l = m
    BY <1>6 DEF Distinct
  <2>3. j \in 0..p.num /\ n \in 0..p.num
    BY <1>1
  <2>4. CASE n = i
    BY <1>1, <1>6, <2>1, <2>3, <2>4
  <2>5. CASE j = i
    BY <1>1, <1>6, <2>1, <2>3, <2>5
  <2>6. CASE n < i
    BY <1>1, <1>6, <2>2, <2>3, <2>6
  <2>7. CASE j < i /\ i < n
    BY <1>1, <1>6, <2>2, <2>3, <2>7
  <2>8. CASE i < j
    BY <1>1, <1>6, <2>2, <2>3, <2>8
  <2> QED
    BY <1>1, <1>6, <2>4, <2>5, <2>6, <2>7, <2>8
<1>7. Distinct(p) /\ r \notin Records(p) => Distinct(q)
  <2> SUFFICES ASSUME Distinct(p), r \notin Records(p), NEW j \in 0..q.num-1, NEW n \in 0..q.num-1,
                      q.slot[j] = q.slot[n]
               PROVE  j = n
    BY DEF Distinct
  <2>1. ~(j < n) /\ ~(n < j)
    BY <1>6
  <2> QED
    BY <1>1, <2>1
<1> QED
  BY <1>5, <1>7

LEMMA InsertedSorted ==
  ASSUME NEW p, NEW q, NEW i, NEW r, Inserts(p, i, r, q),
         Sorted(p), Around(p, i, r.key)
  PROVE  Sorted(q)
<1>1. /\ p.num \in Nat /\ i \in 0..p.num /\ q.num = p.num + 1
      /\ \A j \in 0..p.num : q.slot[j] = IF j = i THEN r ELSE IF j > i THEN p.slot[j - 1] ELSE p.slot[j]
  BY DEF Inserts
<1> SUFFICES ASSUME NEW j \in 0..q.num-1, NEW n \in 0..q.num-1, j < n
             PROVE  q.slot[j].key <= q.slot[n].key
  BY DEF Sorted
<1>2. j \in 0..p.num /\ n \in 0..p.num
  BY <1>1
<1>3. /\ \A m \in 0..i-1 : p.slot[m].key <= r.key
      /\ \A m \in i..p.num-1 : r.key <= p.slot[m].key
      /\ \A l, m \in 0..p.num-1 : l < m => p.slot[l].key <= p.slot[m].key
  BY DEF Around, Sorted
<1>4. CASE n = i
  BY <1>1, <1>2, <1>3, <1>4
<1>5. CASE j = i
  <2>1. n - 1 \in i..p.num-1
    BY <1>1, <1>2, <1>5
  <2> QED
    BY <1>1, <1>2, <1>3, <1>5, <2>1
<1>6. CASE n < i
  BY <1>1, <1>2, <1>3, <1>6
<1>7. CASE j < i /\ i < n
  <2>1. CASE j = n - 1
    BY <1>1, <1>2, <1>7, <2>1
  <2>2. CASE j # n - 1
    BY <1>1, <1>2, <1>3, <1>7, <2>2
  <2> QED
    BY <2>1, <2>2
<1>8. CASE i < j
  BY <1>1, <1>2, <1>3, <1>8
<1> QED
  BY <1>1, <1>2, <1>4, <1>5, <1>6, <1>7, <1>8

LEMMA DeletedRecords ==
  ASSUME NEW p, NEW q, NEW i, Deletes(p, i, q), Sorted(p), Distinct(p)
  PROVE  Records(q) = Records(p) \ {p.slot[i]} /\ Sorted(q) /\ Distinct(q)
<1>1. /\ p.num \in Nat /\ i \in 0..p.num-1 /\ q.num = p.num - 1
      /\ \A j \in 0..p.num-2 : q.slot[j] = IF j >= i THEN p.slot[j + 1] ELSE p.slot[j]
  BY DEF Deletes
<1>2. /\ \A l, m \in 0..p.num-1 : l < m => p.slot[l].key <= p.slot[m].key
      /\ \A l, m \in 0..p.num-1 : p.slot[l] = p.slot[m] => l = m
  BY DEF Sorted, Distinct
<1> DEFINE f(j) == IF j >= i THEN j + 1 ELSE j
<1>3. /\ \A j \in 0..q.num-1 : f(j) \in 0..p.num-1 /\ f(j) # i /\ q.slot[j] = p.slot[f(j)]
      /\ \A j, n \in 0..q.num-1 : j < n => f(j) < f(n)
      /\ \A j, n \in 0..q.num-1 : f(j) = f(n) => j = n
  BY <1>1
<1>4. \A n \in 0..p.num-1 : n # i => \E j \in 0..q.num-1 : f(j) = n
  <2> TAKE n \in 0..p.num-1
  <2>1. CASE n < i
    <3>1. n \in 0..q.num-1 /\ f(n) = n
      BY <1>1, <2>1
    <3> QED
      BY <3>1
  <2>2. CASE n > i
    <3>1. n - 1 \in 0..q.num-1 /\ f(n - 1) = n
      BY <1>1, <2>2
    <3> QED
      BY <3>1
  <2> QED
    BY <1>1, <2>1, <2>2
<1> HIDE DEF f
<1>5. Sorted(q)
  BY <1>2, <1>3 DEF Sorted
<1>6. Distinct(q)
  BY <1>2, <1>3 DEF Distinct
<1>7. ASSUME NEW x \in Records(q) PROVE x \in Records(p) /\ x # p.slot[i]
  <2>1. PICK j \in 0..q.num-1 : x = q.slot[j]
    BY DEF Records
  <2> QED
    BY <1>1, <1>2, <1>3, <2>1 DEF Records
<1>8. ASSUME NEW x \in Records(p), x # p.slot[i] PROVE x \in Records(q)
  <2>1. PICK n \in 0..p.num-1 : x = p.slot[n]
    BY DEF Records
  <2>2. PICK j \in 0..q.num-1 : f(j) = n
    BY <1>4, <1>8, <2>1
  <2> QED
    BY <1>3, <2>1, <2>2 DEF Records
<1> QED
  BY <1>5, <1>6, <1>7, <1>8

\* A part of a page has some of its records, in the same order.
LEMMA PartRecords ==
  ASSUME NEW p, NEW q, NEW i, NEW n, Part(p, i, n, q)
  PROVE  /\ Records(q) = {p.slot[j] : j \in i..n-1}
         /\ Records(q) \subseteq Records(p)
         /\ Sorted(p) => Sorted(q)
         /\ Distinct(p) => Distinct(q)
<1>1. /\ p.num \in Nat /\ i \in 0..n /\ n \in 0..p.num /\ q.num = n - i
      /\ \A j \in 0..n-i-1 : q.slot[j] = p.slot[i + j]
  BY DEF Part
<1>2. \A j \in 0..q.num-1 : i + j \in i..n-1 /\ i + j \in 0..p.num-1 /\ q.slot[j] = p.slot[i + j]
  BY <1>1
<1>3. Records(q) \subseteq {p.slot[j] : j \in i..n-1}
  BY <1>2 DEF Records
<1>4. ASSUME NEW j \in i..n-1 PROVE p.slot[j] \in Records(q) /\ p.slot[j] \in Records(p)
  <2>1. j - i \in 0..q.num-1 /\ q.slot[j - i] = p.slot[j] /\ j \in 0..p.num-1
    BY <1>1
  <2> QED
    BY <2>1 DEF Records
<1>5. Records(q) = {p.slot[j] : j \in i..n-1} /\ Records(q) \subseteq Records(p)
  BY <1>3, <1>4
<1>6. Sorted(p) => Sorted(q)
  <2> SUFFICES ASSUME Sorted(p), NEW j \in 0..q.num-1, NEW l \in 0..q.num-1, j < l
               PROVE  q.slot[j].key <= q.slot[l].key
    BY DEF Sorted
  <2>1. i + j < i + l
    BY <1>1
  <2> QED
    BY <1>2, <2>1 DEF Sorted
<1>7. Distinct(p) => Distinct(q)
  <2> SUFFICES ASSUME Distinct(p), NEW j \in 0..q.num-1, NEW l \in 0..q.num-1, q.slot[j] = q.slot[l]
               PROVE  j = l
    BY DEF Distinct
  <2>1. i + j = i + l
    BY <1>2 DEF Distinct
  <2> QED
    BY <1>1, <2>1
<1> QED
  BY <1>5, <1>6, <1>7

\* The two parts of a page that is split at i.
LEMMA SplitRecords ==
  ASSUME NEW p, NEW q, NEW s, NEW i, Part(p, 0, i, q), Part(p, i, p.num, s), Distinct(p)
  PROVE  /\ Records(p) = Records(q) \cup Records(s)
         /\ Records(q) \cap Records(s) = {}
<1>1. /\ p.num \in Nat /\ i \in 0..p.num
      /\ Records(q) = {p.slot[j] : j \in 0..i-1} /\ Records(s) = {p.slot[j] : j \in i..p.num-1}
  BY PartRecords DEF Part
<1>2. \A j \in 0..p.num-1 : j \in 0..i-1 \/ j \in i..p.num-1
  BY <1>1
<1>3. \A j \in 0..i-1 : j \in 0..p.num-1
  BY <1>1
<1>4. \A j \in i..p.num-1 : j \in 0..p.num-1
  BY <1>1
<1>5. \A j \in 0..i-1, n \in i..p.num-1 : j # n
  BY <1>1
<1>6. \A j \in 0..i-1, n \in i..p.num-1 : p.slot[j] # p.slot[n]
  BY <1>3, <1>4, <1>5 DEF Distinct
<1> QED
  BY <1>1, <1>2, <1>3, <1>4, <1>6 DEF Records

-----------------------------------------------------------------------------
(* Searching a page and the directory, and what a call makes of both files. *)

LEMMA PageIsNotFull ==
  ASSUME NEW size \in Nat \ {0}, NEW Ref, NEW Flag, NEW p
  PROVE  p \in Page(size, Ref, Flag) <=> p \in FullPage(size, Ref, Flag) /\ p.num < size
<1>1. p \in Page(size, Ref, Flag) => p \in FullPage(size, Ref, Flag) /\ p.num < size
  BY DEF Page, FullPage, Keys
<1>2. ASSUME p \in FullPage(size, Ref, Flag), p.num < size PROVE p \in Page(size, Ref, Flag)
  <2>1. p.num \in 0..size-1
    BY <1>2 DEF FullPage
  <2> QED
    BY <1>2, <2>1 DEF Page, FullPage, Keys
<1> QED
  BY <1>1, <1>2

LEMMA PageOfMore ==
  ASSUME NEW size \in Nat \ {0}, NEW Ref, NEW Flag, NEW Ref2, NEW Flag2,
         Ref \subseteq Ref2, Flag \subseteq Flag2, NEW p \in FullPage(size, Ref, Flag)
  PROVE  p \in FullPage(size, Ref2, Flag2)
<1>1. p.slot \in [Slots(size) -> [key : Keys, ref : Ref2]]
  <2>1. p.slot \in [Slots(size) -> [key : Keys, ref : Ref]]
    BY DEF FullPage
  <2>2. [key : Keys, ref : Ref] \subseteq [key : Keys, ref : Ref2]
    OBVIOUS
  <2> QED
    BY <2>1, <2>2
<1> QED
  BY <1>1 DEF FullPage

\* Where a key is put among the records of a page.
LEMMA PlaceFound ==
  ASSUME NEW size \in Nat \ {0}, NEW Ref, NEW Flag, NEW p \in FullPage(size, Ref, Flag),
         NEW k \in Int, NEW i, i = find_slot_before(p, k) + 1
  PROVE  /\ i \in 0..p.num
         /\ \A j \in 0..i-1 : p.slot[j].key < k
         /\ i < p.num => p.slot[i].key >= k
<1> DEFINE S == {j \in 0..p.num : j = p.num \/ p.slot[j].key >= k}
<1>1. p.num \in 0..size /\ p.num \in Nat /\ p.num \in S
  BY PageFields
<1>2. Min(S) \in S /\ \A j \in S : Min(S) <= j
  <2>1. S \in SUBSET Nat /\ S # {}
    BY <1>1
  <2> HIDE DEF S
  <2> QED
    BY <2>1, MinProperty
<1>3. i = Min(S)
  BY <1>2 DEF find_slot_before
<1>4. i \in S /\ \A j \in S : i <= j
  BY <1>2, <1>3
<1>5. \A j \in 0..i-1 : p.slot[j].key < k
  <2> TAKE j \in 0..i-1
  <2>1. j \in 0..p.num /\ j < p.num /\ ~(i <= j)
    BY <1>1, <1>4
  <2>2. ~(p.slot[j].key >= k)
    BY <1>4, <2>1
  <2>3. p.slot[j].key \in Int
    <3>1. j \in 0..size-1
      BY <1>1, <2>1
    <3> QED
      BY <3>1, PageFields, Sizes
  <2> QED
    BY <2>2, <2>3
<1> QED
  BY <1>1, <1>4, <1>5

LEMMA PlaceSorted ==
  ASSUME NEW size \in Nat \ {0}, NEW Ref, NEW Flag, NEW p \in FullPage(size, Ref, Flag),
         NEW k \in Int, NEW i, i = find_slot_before(p, k) + 1, Sorted(p)
  PROVE  Around(p, i, k)
<1>1. /\ i \in 0..p.num
      /\ \A j \in 0..i-1 : p.slot[j].key < k
      /\ i < p.num => p.slot[i].key >= k
  BY PlaceFound
<1>2. p.num \in 0..size /\ \A j \in 0..p.num-1 : p.slot[j].key \in Int
  <2>1. p.num \in 0..size
    BY PageFields
  <2>2. \A j \in 0..p.num-1 : j \in 0..size-1
    BY <2>1
  <2> QED
    BY <2>1, <2>2, PageFields, Sizes
<1>3. \A j \in i..p.num-1 : k <= p.slot[j].key
  <2> TAKE j \in i..p.num-1
  <2>1. i \in 0..p.num-1 /\ j \in 0..p.num-1 /\ p.slot[i].key >= k
    BY <1>1, <1>2
  <2>2. i < j => p.slot[i].key <= p.slot[j].key
    BY <2>1 DEF Sorted
  <2> QED
    BY <1>2, <2>1, <2>2
<1>4. \A j \in 0..i-1 : p.slot[j].key <= k
  <2> TAKE j \in 0..i-1
  <2>1. j \in 0..p.num-1 /\ p.slot[j].key < k
    BY <1>1, <1>2
  <2> QED
    BY <1>2, <2>1
<1> QED
  BY <1>3, <1>4 DEF Around

\* What a search that does not panic finds in the directory.
LEMMA ChildFound ==
  ASSUME NEW B, NEW rt \in RootPage(B), rt.num < DirSize, NEW k \in Int, ~Panics(rt, k)
  PROVE  /\ find_child(rt, k) \in B
         /\ rt.num > 0 /\ entry_of(rt, k) \in 0..rt.num-1
         /\ Within(rt, entry_of(rt, k), k)
<1> DEFINE i == find_slot_before(rt, k)
           S == {j \in 0..rt.num-1 : rt.slot[j].key <= k}
<1>1. DirSize \in Nat \ {0} /\ rt \in FullPage(DirSize, B, {0})
  BY Sizes DEF RootPage
<1>2. rt.num \in 0..DirSize /\ \A j \in 0..DirSize-1 : rt.slot[j].key \in Int /\ rt.slot[j].ref \in B
  BY <1>1, PageFields, Sizes
<1>3. PICK n : n = i + 1
  OBVIOUS
<1>4. n \in 0..rt.num
  BY <1>1, <1>3, PlaceFound
<1>5. i \in Int
  <2>1. DEFINE T == {j \in 0..rt.num : j = rt.num \/ rt.slot[j].key >= k}
  <2>2. T \in SUBSET Nat /\ T # {}
    BY <1>2
  <2>3. Min(T) \in T
    <3> HIDE DEF T
    <3> QED
      BY <2>2, MinProperty
  <2>4. Min(T) \in Int
    BY <2>3
  <2> QED
    BY <2>4 DEF find_slot_before
<1>6. i # -1 /\ ~(first_key(rt) > k)
  BY DEF Panics, Start
<1>7. i \in 0..rt.num-1 /\ rt.num > 0 /\ i + 1 \in 0..DirSize-1 /\ i \in 0..DirSize-1
  <2> HIDE DEF i
  <2> QED
    BY <1>1, <1>2, <1>3, <1>4, <1>5, <1>6
<1>8. find_child(rt, k) \in B
  BY <1>2, <1>7 DEF find_child
<1>9. 0 \in S
  BY <1>1, <1>2, <1>6, <1>7 DEF first_key
<1>10. Max(S) \in S /\ \A j \in S : j <= Max(S)
  <2>1. S \in SUBSET (0..DirSize) /\ S # {}
    BY <1>1, <1>2, <1>9
  <2> HIDE DEF S
  <2> QED
    BY <1>1, <2>1, MaxProperty
<1>11. PICK e : e = Max(S)
  OBVIOUS
<1>12. e \in S /\ \A j \in S : j <= e
  BY <1>10, <1>11
<1>13. e + 1 < rt.num => k < rt.slot[e + 1].key
  <2> SUFFICES ASSUME e + 1 < rt.num PROVE k < rt.slot[e + 1].key
    OBVIOUS
  <2>1. e + 1 \in 0..rt.num-1 /\ ~(e + 1 <= e) /\ e + 1 \in 0..DirSize-1
    BY <1>1, <1>2, <1>12
  <2>2. ~(rt.slot[e + 1].key <= k)
    BY <1>12, <2>1
  <2> QED
    BY <1>2, <2>1, <2>2
<1>14. entry_of(rt, k) = e
  BY <1>11 DEF entry_of
<1> QED
  BY <1>7, <1>8, <1>12, <1>13, <1>14 DEF Within

\* One leaf is changed; or one is, and a new one comes after the others.
Altered(lf, b, p, lf2) ==
  /\ b \in DOMAIN lf /\ DOMAIN lf2 = DOMAIN lf /\ Len(lf2) = Len(lf)
  /\ \A c \in DOMAIN lf : lf2[c] = IF c = b THEN p ELSE lf[c]

Grown(lf, b, p, q, lf2) ==
  /\ b \in DOMAIN lf /\ DOMAIN lf2 = DOMAIN lf \cup {Len(lf) + 1} /\ Len(lf2) = Len(lf) + 1
  /\ Len(lf) + 1 \notin DOMAIN lf
  /\ \A c \in DOMAIN lf : lf2[c] = IF c = b THEN p ELSE lf[c]
  /\ lf2[Len(lf) + 1] = q

LEMMA LeafAltered ==
  ASSUME NEW S, NEW lf \in Seq(S), NEW b \in DOMAIN lf, NEW p \in S,
         NEW lf2, lf2 = [lf EXCEPT ![b] = p]
  PROVE  lf2 \in Seq(S) /\ Altered(lf, b, p, lf2)
<1>1. Len(lf) \in Nat /\ DOMAIN lf = 1..Len(lf) /\ lf \in [1..Len(lf) -> S]
  OBVIOUS
<1>2. lf2 \in [1..Len(lf) -> S]
  BY <1>1
<1>3. lf2 \in Seq(S) /\ Len(lf2) = Len(lf) /\ DOMAIN lf2 = 1..Len(lf)
  BY <1>1, <1>2
<1> QED
  BY <1>1, <1>3 DEF Altered

LEMMA LeafGrown ==
  ASSUME NEW S, NEW lf \in Seq(S), NEW b \in DOMAIN lf, NEW p \in S, NEW q \in S,
         NEW lf2, lf2 = Append([lf EXCEPT ![b] = p], q)
  PROVE  lf2 \in Seq(S) /\ Grown(lf, b, p, q, lf2)
<1>1. PICK lf1 : lf1 = [lf EXCEPT ![b] = p]
  OBVIOUS
<1>2. lf1 \in Seq(S) /\ Altered(lf, b, p, lf1)
  BY <1>1, LeafAltered
<1>3. /\ lf2 \in Seq(S) /\ Len(lf2) = Len(lf1) + 1
      /\ \A i \in 1..Len(lf1) : lf2[i] = lf1[i]
      /\ lf2[Len(lf1) + 1] = q
  BY <1>1, <1>2, AppendProperties
<1>4. Len(lf) \in Nat /\ DOMAIN lf = 1..Len(lf) /\ DOMAIN lf2 = 1..Len(lf2)
  BY <1>3
<1> QED
  BY <1>2, <1>3, <1>4 DEF Altered, Grown

-----------------------------------------------------------------------------
(* What each call makes of the two files.                                  *)

LEMMA SeqOfMore ==
  ASSUME NEW S, NEW T, S \subseteq T, NEW s \in Seq(S)
  PROVE  s \in Seq(T)
<1>1. Len(s) \in Nat /\ s \in [1..Len(s) -> S]
  OBVIOUS
<1>2. s \in [1..Len(s) -> T]
  BY <1>1
<1> QED
  BY <1>1, <1>2

LEMMA Types ==
  ASSUME TypeOK
  PROVE  /\ root \in RootPage(Blocks) /\ root.num < DirSize
         /\ leaf \in Seq(LeafPage(Blocks)) /\ LeafFile(leaf)
         /\ contents \in Seq(Key \cup {Gone}) /\ Len(contents) <= MaxRows
         /\ status \in {"running", "panicked"} /\ beheaded \in BOOLEAN /\ misled \in BOOLEAN
<1>1. root \in RootPage(Blocks) /\ root.num < DirSize
  <2>1. root \in Page(DirSize, Blocks, {0}) /\ DirSize \in Nat \ {0}
    BY Sizes DEF TypeOK
  <2> QED
    BY <2>1, PageIsNotFull DEF RootPage
<1>2. leaf \in Seq(Page(LeafSize, Rid, Blocks \cup {None})) /\ LeafSize \in Nat \ {0}
  BY Sizes DEF TypeOK
<1>3. \A p \in Page(LeafSize, Rid, Blocks \cup {None}) : p \in LeafPage(Blocks) /\ p.num < LeafSize
  BY <1>2, PageIsNotFull DEF LeafPage
<1>4. leaf \in Seq(LeafPage(Blocks))
  <2>1. Page(LeafSize, Rid, Blocks \cup {None}) \subseteq LeafPage(Blocks)
    BY <1>3
  <2> QED
    BY <1>2, <2>1, SeqOfMore
<1>5. /\ Len(leaf) \in Nat /\ DOMAIN leaf = 1..Len(leaf)
      /\ \A b \in DOMAIN leaf : leaf[b] \in Page(LeafSize, Rid, Blocks \cup {None})
  BY <1>2
<1>6. LeafFile(leaf)
  BY <1>3, <1>5 DEF LeafFile, Blocks
<1> QED
  BY <1>1, <1>4, <1>6 DEF TypeOK

\* Leaves of before, and new ones, in a file with one more block.
LEMMA LeafOfMore ==
  ASSUME NEW B, NEW B2, B \subseteq B2, NEW p \in LeafPage(B), p.num < LeafSize
  PROVE  p \in Page(LeafSize, Rid, B2 \cup {None})
<1>1. p \in FullPage(LeafSize, Rid, B2 \cup {None}) /\ LeafSize \in Nat \ {0}
  BY PageOfMore, Sizes DEF LeafPage
<1> QED
  BY <1>1, PageIsNotFull

LEMMA FlagSet ==
  ASSUME NEW size \in Nat \ {0}, NEW Ref, NEW Flag, NEW p \in FullPage(size, Ref, Flag),
         NEW f \in Flag, NEW q, q = [p EXCEPT !.flag = f]
  PROVE  q \in FullPage(size, Ref, Flag) /\ q.flag = f /\ q.num = p.num /\ q.slot = p.slot
<1> QED
  BY DEF FullPage

LEMMA FullWhen ==
  ASSUME NEW size \in Nat \ {0}, NEW Ref, NEW Flag, NEW p \in FullPage(size, Ref, Flag)
  PROVE  is_full(p) <=> p.num = size
<1> QED
  BY PageFields DEF is_full

\* The leaf that a search finds, with the new record.
LEMMA WithRecord ==
  ASSUME NEW B, NEW p \in LeafPage(B), p.num < LeafSize, NEW k \in Key, NEW r \in Rid,
         NEW q, q = with(p, k, r)
  PROVE  /\ q \in LeafPage(B) /\ q.flag = p.flag
         /\ \E i : i = find_slot_before(p, k) + 1 /\ Inserts(p, i, [key |-> k, ref |-> r], q)
<1>1. PICK i : i = find_slot_before(p, k) + 1
  OBVIOUS
<1>2. LeafSize \in Nat \ {0} /\ p \in FullPage(LeafSize, Rid, B \cup {None}) /\ k \in Int
  BY Sizes DEF LeafPage
<1>3. i \in 0..p.num
  BY <1>1, <1>2, PlaceFound
<1>4. [key |-> k, ref |-> r] \in [key : Keys, ref : Rid]
  BY Sizes
<1>5. PICK x : x = [key |-> k, ref |-> r]
  OBVIOUS
<1>6. /\ q \in FullPage(LeafSize, Rid, B \cup {None})
      /\ q.flag = p.flag /\ q.num = p.num + 1
      /\ \A j \in 0..LeafSize-1 : q.slot[j] = IF j = i THEN x
                                              ELSE IF j > i /\ j <= p.num THEN p.slot[j - 1]
                                              ELSE p.slot[j]
  <2>1. q = inserted(p, i, x) /\ x \in [key : Keys, ref : Rid]
    BY <1>1, <1>4, <1>5 DEF with
  <2> QED
    BY <1>2, <1>3, <2>1, InsertedSlots
<1>7. p.num \in Nat /\ \A j \in 0..p.num : j \in 0..LeafSize-1
  BY <1>2, PageFields
<1>8. Inserts(p, i, x, q)
  BY <1>3, <1>6, <1>7 DEF Inserts
<1> QED
  BY <1>1, <1>5, <1>6, <1>8 DEF LeafPage

LEMMA LeftPart ==
  ASSUME NEW B, NEW p \in LeafPage(B), NEW i \in 0..p.num, NEW q, q = left_of(p, i)
  PROVE  q \in LeafPage(B) /\ q.flag = p.flag /\ q.num = i /\ Part(p, 0, i, q)
<1>1. LeafSize \in Nat \ {0} /\ p \in FullPage(LeafSize, Rid, B \cup {None})
  BY Sizes DEF LeafPage
<1>2. /\ q \in FullPage(LeafSize, Rid, B \cup {None})
      /\ q.flag = p.flag /\ q.num = i
      /\ \A j \in 0..i-1 : q.slot[j] = p.slot[j]
  BY <1>1, LeftSlots
<1>3. p.num \in Nat
  BY <1>1, PageFields
<1> QED
  BY <1>2, <1>3 DEF LeafPage, Part

LEMMA RightPart ==
  ASSUME NEW B, NEW p \in LeafPage(B), NEW i \in 0..p.num, NEW flag \in B \cup {None},
         NEW q, q = right_of(p, i, flag)
  PROVE  q \in LeafPage(B) /\ q.flag = flag /\ q.num = p.num - i /\ Part(p, i, p.num, q)
<1>1. LeafSize \in Nat \ {0} /\ p \in FullPage(LeafSize, Rid, B \cup {None}) /\ 1 \in Rid
  BY Sizes DEF LeafPage
<1>2. /\ q \in FullPage(LeafSize, Rid, B \cup {None})
      /\ q.flag = flag /\ q.num = p.num - i
      /\ \A j \in 0..p.num-i-1 : q.slot[j] = p.slot[i + j]
  BY <1>1, RightSlots
<1>3. p.num \in Nat
  BY <1>1, PageFields
<1> QED
  BY <1>2, <1>3 DEF LeafPage, Part

\* Where a leaf is split: the keys before are smaller.
LEMMA SplitFound ==
  ASSUME NEW B, NEW p \in LeafPage(B), p.num >= 2, ~one_key(p), NEW i, i = split_pos(p)
  PROVE  /\ i \in 1..p.num-1
         /\ Sorted(p) => \A j \in 0..i-1 : p.slot[j].key < p.slot[i].key
<1>1. PICK m : m = p.num \div 2
  OBVIOUS
<1>2. PICK k : k = p.slot[m].key
  OBVIOUS
<1>3. LeafSize \in Nat \ {0} /\ p \in FullPage(LeafSize, Rid, B \cup {None})
  BY Sizes DEF LeafPage
<1>4. p.num \in Nat
  BY <1>3, PageFields
<1>5. m \in 1..p.num-1 /\ m \in Nat
  BY <1>1, <1>4
<1>6. \A j \in 0..p.num-1 : p.slot[j].key \in Int
  <2>1. \A j \in 0..p.num-1 : j \in 0..LeafSize-1
    BY <1>3, PageFields
  <2> QED
    BY <1>3, <2>1, PageFields, Sizes
<1>7. ASSUME Sorted(p), NEW j \in 0..p.num-1, NEW n \in 0..p.num-1, j <= n
      PROVE  p.slot[j].key <= p.slot[n].key
  <2>1. CASE j = n
    BY <1>6, <2>1
  <2>2. CASE j < n
    BY <1>7, <2>2 DEF Sorted
  <2> QED
    BY <1>7, <2>1, <2>2
<1>8. CASE k = first_key(p)
  <2> DEFINE S == {j \in m..p.num-1 : p.slot[j].key # k}
  <2>1. S \in SUBSET Nat /\ p.num - 1 \in S
    BY <1>4, <1>5, <1>8 DEF one_key, last_key
  <2>2. Min(S) \in S /\ \A j \in S : Min(S) <= j
    <3> HIDE DEF S
    <3> QED
      BY <2>1, MinProperty
  <2>3. i = Min(S)
    BY <1>1, <1>2, <1>8 DEF split_pos
  <2>4. i \in S /\ \A j \in S : i <= j
    BY <2>2, <2>3
  <2>5. i \in 1..p.num-1 /\ p.slot[i].key # k /\ m <= i
    BY <1>4, <1>5, <2>4
  <2>6. ASSUME Sorted(p), NEW j \in 0..i-1 PROVE p.slot[j].key < p.slot[i].key
    <3>1. k <= p.slot[i].key /\ k \in Int /\ p.slot[i].key \in Int /\ j \in 0..p.num-1
      BY <1>2, <1>4, <1>5, <1>6, <1>7, <2>5, <2>6
    <3>2. j <= m => p.slot[j].key <= k
      BY <1>2, <1>4, <1>5, <1>7, <2>5, <2>6
    <3>3. j > m => p.slot[j].key = k
      <4>1. j > m => j \in m..p.num-1 /\ ~(i <= j)
        BY <1>4, <1>5, <2>5
      <4> QED
        BY <2>4, <4>1
    <3> QED
      BY <1>5, <1>6, <2>5, <3>1, <3>2, <3>3
  <2> QED
    BY <2>5, <2>6
<1>9. CASE k # first_key(p)
  <2> DEFINE S == {j \in 1..m : \A n \in j..m : p.slot[n].key = k}
  <2>1. S \in SUBSET Nat /\ m \in S
    BY <1>2, <1>5
  <2>2. Min(S) \in S /\ \A j \in S : Min(S) <= j
    <3> HIDE DEF S
    <3> QED
      BY <2>1, MinProperty
  <2>3. i = Min(S)
    BY <1>1, <1>2, <1>9 DEF split_pos
  <2>4. i \in S /\ \A j \in S : i <= j
    BY <2>2, <2>3
  <2>5. i \in 1..m /\ i \in 1..p.num-1 /\ \A n \in i..m : p.slot[n].key = k
    BY <1>4, <1>5, <2>4
  <2>6. p.slot[i].key = k
    BY <2>5
  <2>7. p.slot[i - 1].key # k
    <3>1. CASE i = 1
      BY <1>9, <3>1 DEF first_key
    <3>2. CASE i # 1
      <4>1. i - 1 \in 1..m /\ ~(i <= i - 1) /\ \A n \in (i - 1)..m : n = i - 1 \/ n \in i..m
        BY <1>5, <2>5, <3>2
      <4>2. i - 1 \notin S
        BY <2>4, <4>1
      <4> QED
        BY <2>5, <4>1, <4>2
    <3> QED
      BY <3>1, <3>2
  <2>8. ASSUME Sorted(p), NEW j \in 0..i-1 PROVE p.slot[j].key < p.slot[i].key
    <3>1. i - 1 \in 0..p.num-1 /\ i \in 0..p.num-1 /\ j \in 0..p.num-1 /\ j <= i - 1 /\ i - 1 <= i
      BY <1>4, <2>5, <2>8
    <3>2. p.slot[j].key <= p.slot[i - 1].key /\ p.slot[i - 1].key <= p.slot[i].key
      BY <1>7, <2>8, <3>1
    <3> QED
      BY <1>6, <2>6, <2>7, <3>1, <3>2
  <2> QED
    BY <2>5, <2>8
<1> QED
  BY <1>8, <1>9

-----------------------------------------------------------------------------
(* The same for the actions, in the terms that the invariant is proved in. *)

\* q is p with record x where its key belongs.
Gains(p, x, q) == \E i : i = find_slot_before(p, x.key) + 1 /\ Inserts(p, i, x, q)

BeforeMakes(lf, b, x, lf2) == \E p, q :
  /\ Grown(lf, b, p, q, lf2) /\ lf[b].flag # None /\ first_key(lf[b]) > x.key
  /\ p.flag = None /\ p.num = 1 /\ p.slot[0] = x
  /\ q.flag = lf[b].flag /\ Part(lf[b], 0, lf[b].num, q)

FittingMakes(lf, b, x, lf2) == \E p :
  /\ Altered(lf, b, p, lf2) /\ ~goes_before(lf[b], x.key)
  /\ p.flag = lf[b].flag /\ Gains(lf[b], x, p)

OverflowMakes(lf, b, x, lf2) == \E p, p1, p2 :
  /\ Grown(lf, b, p1, p2, lf2) /\ ~goes_before(lf[b], x.key)
  /\ Gains(lf[b], x, p) /\ p.num > 1 /\ one_key(p)
  /\ p1.flag = Len(lf) + 1 /\ Part(p, 0, 1, p1)
  /\ p2.flag = lf[b].flag /\ Part(p, 1, p.num, p2)

SplitsAt(p, i) ==
  /\ i \in 1..p.num-1
  /\ Sorted(p) => \A j \in 0..i-1 : p.slot[j].key < p.slot[i].key

SplitMakes(lf, b, x, lf2, k) == \E p, p1, p2, i :
  /\ Grown(lf, b, p1, p2, lf2) /\ ~goes_before(lf[b], x.key)
  /\ Gains(lf[b], x, p) /\ SplitsAt(p, i) /\ k = p.slot[i].key
  /\ p1.flag = lf[b].flag /\ Part(p, 0, i, p1)
  /\ p2.flag = None /\ Part(p, i, p.num, p2)

\* A leaf file of the right type with the same blocks, or one more.
SameBlocks == leaf' \in Seq(Page(LeafSize, Rid, Blocks \cup {None})) /\ Blocks' = Blocks
MoreBlocks ==
  /\ leaf' \in Seq(Page(LeafSize, Rid, Blocks \cup {NewBlock} \cup {None}))
  /\ Blocks' = Blocks \cup {NewBlock}

LEMMA GrowthTyped ==
  ASSUME TypeOK, NEW b \in Blocks,
         NEW p \in LeafPage(Blocks \cup {NewBlock}), NEW q \in LeafPage(Blocks \cup {NewBlock}),
         p.num < LeafSize, q.num < LeafSize, leaf' = Append([leaf EXCEPT ![b] = p], q)
  PROVE  MoreBlocks /\ Grown(leaf, b, p, q, leaf')
<1>1. PICK S : S = Page(LeafSize, Rid, Blocks \cup {NewBlock} \cup {None})
  OBVIOUS
<1>2. leaf \in Seq(S)
  <2>1. /\ leaf \in Seq(Page(LeafSize, Rid, Blocks \cup {None})) /\ LeafSize \in Nat \ {0}
    BY Sizes DEF TypeOK
  <2>2. ASSUME NEW x \in Page(LeafSize, Rid, Blocks \cup {None}) PROVE x \in S
    <3>1. x \in LeafPage(Blocks) /\ x.num < LeafSize
      BY <2>1, PageIsNotFull DEF LeafPage
    <3>2. PICK B2 : B2 = Blocks \cup {NewBlock}
      OBVIOUS
    <3>3. Blocks \subseteq B2
      BY <3>2
    <3>4. x \in Page(LeafSize, Rid, B2 \cup {None})
      BY <3>1, <3>3, LeafOfMore
    <3> QED
      BY <1>1, <3>2, <3>4
  <2>3. Page(LeafSize, Rid, Blocks \cup {None}) \subseteq S
    BY <2>2
  <2> QED
    BY <2>1, <2>3, SeqOfMore
<1>3. p \in S /\ q \in S
  BY <1>1, LeafOfMore
<1>4. b \in DOMAIN leaf
  BY DEF Blocks
<1>5. leaf' \in Seq(S) /\ Grown(leaf, b, p, q, leaf')
  BY <1>2, <1>3, <1>4, LeafGrown
<1>6. Blocks' = Blocks \cup {NewBlock}
  BY <1>5 DEF Grown, Blocks, NewBlock
<1> QED
  BY <1>1, <1>5, <1>6 DEF MoreBlocks

\* The leaf that an insertion of k finds, and what its pages are made of.
LEMMA Target ==
  ASSUME TypeOK, NEW k \in Key, ~Panics(root, k), NEW b, b = find_child(root, k)
  PROVE  /\ b \in Blocks /\ b \in DOMAIN leaf /\ leaf[b] \in LeafPage(Blocks)
         /\ leaf[b].num < LeafSize /\ leaf[b].num \in Nat
         /\ leaf[b].flag \in Blocks \cup {None}
         /\ LeafPage(Blocks) \subseteq LeafPage(Blocks \cup {NewBlock})
<1>1. root \in RootPage(Blocks) /\ root.num < DirSize /\ LeafFile(leaf) /\ k \in Int
  BY Types, Sizes
<1>2. b \in Blocks
  BY <1>1, ChildFound
<1>3. leaf[b] \in LeafPage(Blocks) /\ leaf[b].num < LeafSize /\ b \in DOMAIN leaf
  BY <1>1, <1>2 DEF LeafFile, Blocks
<1>4. LeafSize \in Nat \ {0} /\ leaf[b] \in FullPage(LeafSize, Rid, Blocks \cup {None})
  BY <1>3, Sizes DEF LeafPage
<1>5. leaf[b].num \in Nat /\ leaf[b].flag \in Blocks \cup {None}
  BY <1>4, PageFields
<1>6. LeafPage(Blocks) \subseteq LeafPage(Blocks \cup {NewBlock})
  <2>1. PICK F1, F2 : F1 = Blocks \cup {None} /\ F2 = Blocks \cup {NewBlock} \cup {None}
    OBVIOUS
  <2>2. F1 \subseteq F2
    BY <2>1
  <2>3. \A x \in FullPage(LeafSize, Rid, F1) : x \in FullPage(LeafSize, Rid, F2)
    BY <1>4, <2>2, PageOfMore
  <2> QED
    BY <2>1, <2>3 DEF LeafPage
<1> QED
  BY <1>2, <1>3, <1>5, <1>6

LEMMA BeforeFacts ==
  ASSUME TypeOK, NEW k \in Key, NEW r \in Rid, ~Panics(root, k), InsertBefore(k, r)
  PROVE  /\ MoreBlocks
         /\ BeforeMakes(leaf, find_child(root, k), [key |-> k, ref |-> r], leaf')
         /\ Enter(first_key(leaf[find_child(root, k)]), NewBlock)
         /\ first_key(leaf[find_child(root, k)]) \in Keys
<1>1. PICK b : b = find_child(root, k)
  OBVIOUS
<1>2. PICK x : x = [key |-> k, ref |-> r]
  OBVIOUS
<1>3. /\ b \in Blocks /\ b \in DOMAIN leaf /\ leaf[b] \in LeafPage(Blocks)
      /\ leaf[b].num < LeafSize /\ leaf[b].num \in Nat
      /\ leaf[b].flag \in Blocks \cup {None}
      /\ LeafPage(Blocks) \subseteq LeafPage(Blocks \cup {NewBlock})
  BY <1>1, Target
<1>4. PICK p, q : p = begun(k, r, leaf[b]) /\ q = right_of(leaf[b], 0, leaf[b].flag)
  OBVIOUS
<1>5. /\ leaf' = Append([leaf EXCEPT ![b] = p], q)
      /\ Enter(first_key(leaf[b]), NewBlock) /\ goes_before(leaf[b], k)
  BY <1>1, <1>3, <1>4 DEF InsertBefore
<1>6. PICK l : l = left_of(leaf[b], 0)
  OBVIOUS
<1>7. l \in LeafPage(Blocks) /\ l.num = 0
  BY <1>3, <1>6, LeftPart
<1>8. PICK m : m = inserted(l, 0, x)
  OBVIOUS
<1>9. m \in LeafPage(Blocks) /\ m.num = 1 /\ m.slot[0] = x
  <2>1. LeafSize \in Nat \ {0} /\ l \in FullPage(LeafSize, Rid, Blocks \cup {None})
    BY <1>7, Sizes DEF LeafPage
  <2>2. x \in [key : Keys, ref : Rid] /\ 0 \in 0..l.num /\ l.num < LeafSize /\ 0 \in 0..LeafSize-1
    BY <1>2, <1>7, Sizes
  <2>3. /\ m \in FullPage(LeafSize, Rid, Blocks \cup {None}) /\ m.num = l.num + 1
        /\ \A j \in 0..LeafSize-1 : m.slot[j] = IF j = 0 THEN x
                                                ELSE IF j > 0 /\ j <= l.num THEN l.slot[j - 1]
                                                ELSE l.slot[j]
    BY <1>8, <2>1, <2>2, InsertedSlots
  <2> QED
    BY <1>7, <2>2, <2>3 DEF LeafPage
<1>10. p \in LeafPage(Blocks) /\ p.flag = None /\ p.num = 1 /\ p.slot[0] = x
  <2>1. p = [m EXCEPT !.flag = None]
    BY <1>2, <1>4, <1>6, <1>8 DEF begun
  <2>2. m \in FullPage(LeafSize, Rid, Blocks \cup {None}) /\ LeafSize \in Nat \ {0}
    BY <1>9, Sizes DEF LeafPage
  <2>3. p \in FullPage(LeafSize, Rid, Blocks \cup {None}) /\ p.flag = None /\ p.num = m.num /\ p.slot = m.slot
    BY <2>1, <2>2, FlagSet
  <2> QED
    BY <1>9, <2>3 DEF LeafPage
<1>11. q \in LeafPage(Blocks) /\ q.flag = leaf[b].flag /\ q.num = leaf[b].num /\ Part(leaf[b], 0, leaf[b].num, q)
  BY <1>3, <1>4, RightPart
<1>12. MoreBlocks /\ Grown(leaf, b, p, q, leaf')
  <2>1. p \in LeafPage(Blocks \cup {NewBlock}) /\ q \in LeafPage(Blocks \cup {NewBlock})
    BY <1>3, <1>10, <1>11
  <2>2. LeafSize \in Nat \ {0, 1}
    BY Sizes
  <2>3. p.num < LeafSize /\ q.num < LeafSize
    BY <1>3, <1>10, <1>11, <2>2
  <2> QED
    BY <1>3, <1>5, <2>1, <2>3, GrowthTyped
<1>13. BeforeMakes(leaf, b, x, leaf')
  <2>1. x.key = k /\ leaf[b].flag # None /\ first_key(leaf[b]) > k
    BY <1>2, <1>5 DEF goes_before
  <2> QED
    BY <1>10, <1>11, <1>12, <2>1 DEF BeforeMakes
<1>14. first_key(leaf[b]) \in Keys
  <2>1. LeafSize \in Nat \ {0} /\ leaf[b] \in FullPage(LeafSize, Rid, Blocks \cup {None}) /\ 0 \in 0..LeafSize-1
    BY <1>3, Sizes DEF LeafPage
  <2> QED
    BY <2>1, PageFields DEF first_key
<1> QED
  BY <1>1, <1>2, <1>5, <1>12, <1>13, <1>14

LEMMA FittingFacts ==
  ASSUME TypeOK, NEW k \in Key, NEW r \in Rid, ~Panics(root, k), InsertFitting(k, r)
  PROVE  /\ SameBlocks /\ UNCHANGED <<root, status>>
         /\ FittingMakes(leaf, find_child(root, k), [key |-> k, ref |-> r], leaf')
<1>1. PICK b : b = find_child(root, k)
  OBVIOUS
<1>2. PICK x : x = [key |-> k, ref |-> r]
  OBVIOUS
<1>3. /\ b \in Blocks /\ b \in DOMAIN leaf /\ leaf[b] \in LeafPage(Blocks)
      /\ leaf[b].num < LeafSize /\ leaf[b].num \in Nat
  BY <1>1, Target
<1>4. PICK p : p = with(leaf[b], k, r)
  OBVIOUS
<1>5. /\ leaf' = [leaf EXCEPT ![b] = p] /\ ~goes_before(leaf[b], k) /\ ~is_full(p)
      /\ UNCHANGED <<root, status>>
  BY <1>1, <1>3, <1>4 DEF InsertFitting
<1>6. p \in LeafPage(Blocks) /\ p.flag = leaf[b].flag
      /\ \E i : i = find_slot_before(leaf[b], k) + 1 /\ Inserts(leaf[b], i, x, p)
  BY <1>2, <1>3, <1>4, WithRecord
<1>7. x.key = k
  BY <1>2
<1>8. Gains(leaf[b], x, p)
  BY <1>6, <1>7 DEF Gains
<1>9. p \in Page(LeafSize, Rid, Blocks \cup {None})
  <2>1. LeafSize \in Nat \ {0} /\ p \in FullPage(LeafSize, Rid, Blocks \cup {None})
    BY <1>6, Sizes DEF LeafPage
  <2>2. p.num < LeafSize
    BY <1>5, <2>1, FullWhen, PageFields
  <2> QED
    BY <2>1, <2>2, PageIsNotFull
<1>10. leaf' \in Seq(Page(LeafSize, Rid, Blocks \cup {None})) /\ Altered(leaf, b, p, leaf')
  <2>1. leaf \in Seq(Page(LeafSize, Rid, Blocks \cup {None}))
    BY DEF TypeOK
  <2> QED
    BY <1>3, <1>5, <1>9, <2>1, LeafAltered
<1>11. Blocks' = Blocks
  BY <1>10 DEF Altered, Blocks
<1>12. FittingMakes(leaf, b, x, leaf')
  BY <1>5, <1>6, <1>7, <1>8, <1>10 DEF FittingMakes
<1> QED
  BY <1>1, <1>2, <1>5, <1>10, <1>11, <1>12 DEF SameBlocks

LEMMA OverflowFacts ==
  ASSUME TypeOK, NEW k \in Key, NEW r \in Rid, ~Panics(root, k), InsertOverflow(k, r)
  PROVE  /\ MoreBlocks /\ UNCHANGED <<root, status>>
         /\ OverflowMakes(leaf, find_child(root, k), [key |-> k, ref |-> r], leaf')
<1>1. PICK b : b = find_child(root, k)
  OBVIOUS
<1>2. PICK x : x = [key |-> k, ref |-> r]
  OBVIOUS
<1>3. /\ b \in Blocks /\ b \in DOMAIN leaf /\ leaf[b] \in LeafPage(Blocks)
      /\ leaf[b].num < LeafSize /\ leaf[b].num \in Nat
      /\ leaf[b].flag \in Blocks \cup {None}
      /\ LeafPage(Blocks) \subseteq LeafPage(Blocks \cup {NewBlock})
  BY <1>1, Target
<1>4. PICK p : p = with(leaf[b], k, r)
  OBVIOUS
<1>5. PICK l, p1, p2 : l = left_of(p, 1) /\ p1 = [l EXCEPT !.flag = NewBlock] /\ p2 = right_of(p, 1, p.flag)
  OBVIOUS
<1>6. /\ leaf' = Append([leaf EXCEPT ![b] = p1], p2) /\ ~goes_before(leaf[b], k)
      /\ is_full(p) /\ one_key(p) /\ UNCHANGED <<root, status>>
  BY <1>1, <1>3, <1>4, <1>5 DEF InsertOverflow
<1>7. p \in LeafPage(Blocks) /\ p.flag = leaf[b].flag
      /\ \E i : i = find_slot_before(leaf[b], k) + 1 /\ Inserts(leaf[b], i, x, p)
  BY <1>2, <1>3, <1>4, WithRecord
<1>8. x.key = k
  BY <1>2
<1>9. Gains(leaf[b], x, p)
  BY <1>7, <1>8 DEF Gains
<1>10. p.num = LeafSize /\ 1 \in 0..p.num /\ p.num > 1 /\ p.num \in Nat
  <2>1. LeafSize \in Nat \ {0, 1} /\ p \in FullPage(LeafSize, Rid, Blocks \cup {None})
    BY <1>7, Sizes DEF LeafPage
  <2>2. p.num = LeafSize
    BY <1>6, <2>1, FullWhen
  <2> QED
    BY <2>1, <2>2
<1>11. l \in LeafPage(Blocks) /\ l.num = 1 /\ Part(p, 0, 1, l)
  BY <1>5, <1>7, <1>10, LeftPart
<1>12. p1 \in LeafPage(Blocks \cup {NewBlock}) /\ p1.flag = NewBlock /\ p1.num = 1 /\ Part(p, 0, 1, p1)
  <2>1. l \in FullPage(LeafSize, Rid, Blocks \cup {NewBlock} \cup {None}) /\ LeafSize \in Nat \ {0}
    BY <1>3, <1>11, Sizes DEF LeafPage
  <2>2. NewBlock \in Blocks \cup {NewBlock} \cup {None}
    OBVIOUS
  <2>3. /\ p1 \in FullPage(LeafSize, Rid, Blocks \cup {NewBlock} \cup {None})
        /\ p1.flag = NewBlock /\ p1.num = l.num /\ p1.slot = l.slot
    BY <1>5, <2>1, <2>2, FlagSet
  <2> QED
    BY <1>11, <2>3 DEF LeafPage, Part
<1>13. p2 \in LeafPage(Blocks) /\ p2.flag = leaf[b].flag /\ p2.num = p.num - 1 /\ Part(p, 1, p.num, p2)
  BY <1>3, <1>5, <1>7, <1>10, RightPart
<1>14. MoreBlocks /\ Grown(leaf, b, p1, p2, leaf')
  <2>1. p2 \in LeafPage(Blocks \cup {NewBlock})
    BY <1>3, <1>13
  <2>2. p1.num < LeafSize /\ p2.num < LeafSize
    BY <1>10, <1>12, <1>13
  <2> QED
    BY <1>3, <1>6, <1>12, <2>1, <2>2, GrowthTyped
<1>15. OverflowMakes(leaf, b, x, leaf')
  BY <1>6, <1>8, <1>9, <1>10, <1>12, <1>13, <1>14 DEF OverflowMakes, NewBlock
<1> QED
  BY <1>1, <1>2, <1>6, <1>14, <1>15

LEMMA SplitFacts ==
  ASSUME TypeOK, NEW k \in Key, NEW r \in Rid, ~Panics(root, k), InsertSplit(k, r)
  PROVE  /\ MoreBlocks
         /\ \E key \in Keys : /\ SplitMakes(leaf, find_child(root, k), [key |-> k, ref |-> r], leaf', key)
                              /\ Enter(key, NewBlock)
<1>1. PICK b : b = find_child(root, k)
  OBVIOUS
<1>2. PICK x : x = [key |-> k, ref |-> r]
  OBVIOUS
<1>3. /\ b \in Blocks /\ b \in DOMAIN leaf /\ leaf[b] \in LeafPage(Blocks)
      /\ leaf[b].num < LeafSize /\ leaf[b].num \in Nat
      /\ leaf[b].flag \in Blocks \cup {None}
      /\ LeafPage(Blocks) \subseteq LeafPage(Blocks \cup {NewBlock})
  BY <1>1, Target
<1>4. PICK p : p = with(leaf[b], k, r)
  OBVIOUS
<1>5. PICK i : i = split_pos(p)
  OBVIOUS
<1>6. PICK p1, p2 : p1 = left_of(p, i) /\ p2 = right_of(p, i, None)
  OBVIOUS
<1>7. /\ leaf' = Append([leaf EXCEPT ![b] = p1], p2) /\ ~goes_before(leaf[b], k)
      /\ is_full(p) /\ ~one_key(p) /\ Enter(p.slot[i].key, NewBlock)
  BY <1>1, <1>3, <1>4, <1>5, <1>6 DEF InsertSplit
<1>8. p \in LeafPage(Blocks) /\ p.flag = leaf[b].flag
      /\ \E n : n = find_slot_before(leaf[b], k) + 1 /\ Inserts(leaf[b], n, x, p)
  BY <1>2, <1>3, <1>4, WithRecord
<1>9. x.key = k
  BY <1>2
<1>10. Gains(leaf[b], x, p)
  BY <1>8, <1>9 DEF Gains
<1>11. p.num = LeafSize /\ p.num >= 2 /\ p.num \in Nat /\ \A j \in 0..p.num-1 : p.slot[j].key \in Keys
  <2>1. LeafSize \in Nat \ {0, 1} /\ p \in FullPage(LeafSize, Rid, Blocks \cup {None})
    BY <1>8, Sizes DEF LeafPage
  <2>2. p.num = LeafSize
    BY <1>7, <2>1, FullWhen
  <2> QED
    BY <2>1, <2>2, PageFields
<1>12. SplitsAt(p, i) /\ i \in 1..p.num-1
  BY <1>5, <1>7, <1>8, <1>11, SplitFound DEF SplitsAt
<1>13. i \in 0..p.num /\ p.slot[i].key \in Keys
  BY <1>11, <1>12
<1>14. p1 \in LeafPage(Blocks) /\ p1.flag = p.flag /\ p1.num = i /\ Part(p, 0, i, p1)
  BY <1>6, <1>8, <1>13, LeftPart
<1>15. p2 \in LeafPage(Blocks) /\ p2.flag = None /\ p2.num = p.num - i /\ Part(p, i, p.num, p2)
  BY <1>6, <1>8, <1>13, RightPart
<1>16. MoreBlocks /\ Grown(leaf, b, p1, p2, leaf')
  <2>1. p1 \in LeafPage(Blocks \cup {NewBlock}) /\ p2 \in LeafPage(Blocks \cup {NewBlock})
    BY <1>3, <1>14, <1>15
  <2>2. p1.num < LeafSize /\ p2.num < LeafSize
    BY <1>11, <1>12, <1>14, <1>15
  <2> QED
    BY <1>3, <1>7, <2>1, <2>2, GrowthTyped
<1>17. SplitMakes(leaf, b, x, leaf', p.slot[i].key)
  BY <1>7, <1>8, <1>9, <1>10, <1>12, <1>14, <1>15, <1>16 DEF SplitMakes
<1> QED
  BY <1>1, <1>2, <1>7, <1>13, <1>16, <1>17

LEMMA EnterFacts ==
  ASSUME TypeOK, NEW k \in Keys, Enter(k, NewBlock)
  PROVE  /\ root' \in Page(DirSize, Blocks \cup {NewBlock}, {0})
         /\ \/ status' = "panicked"
            \/ /\ status' = status
               /\ Gains(root, [key |-> k, ref |-> NewBlock], root')
<1>1. /\ root \in FullPage(DirSize, Blocks, {0}) /\ root.num < DirSize /\ DirSize \in Nat \ {0}
      /\ Blocks \subseteq Blocks \cup {NewBlock} /\ k \in Int
  BY Types, Sizes DEF RootPage
<1>2. root \in FullPage(DirSize, Blocks \cup {NewBlock}, {0})
  <2>1. PICK B : B = Blocks \cup {NewBlock}
    OBVIOUS
  <2> QED
    BY <1>1, <2>1, PageOfMore
<1>3. PICK x : x = [key |-> k, ref |-> NewBlock]
  OBVIOUS
<1>4. PICK i : i = find_slot_before(root, k) + 1
  OBVIOUS
<1>5. PICK q : q = inserted(root, i, x)
  OBVIOUS
<1>6. i \in 0..root.num
  BY <1>1, <1>4, PlaceFound
<1>7. /\ q \in FullPage(DirSize, Blocks \cup {NewBlock}, {0}) /\ q.num = root.num + 1
      /\ \A j \in 0..DirSize-1 : q.slot[j] = IF j = i THEN x
                                             ELSE IF j > i /\ j <= root.num THEN root.slot[j - 1]
                                             ELSE root.slot[j]
  <2>1. x \in [key : Keys, ref : Blocks \cup {NewBlock}]
    BY <1>3
  <2> QED
    BY <1>1, <1>2, <1>5, <1>6, <2>1, InsertedSlots
<1>8. CASE ~is_full(q) /\ root' = q /\ UNCHANGED status
  <2>1. q.num # DirSize /\ q.num \in 0..DirSize
    BY <1>1, <1>7, <1>8, FullWhen, PageFields
  <2>2. q \in Page(DirSize, Blocks \cup {NewBlock}, {0})
    BY <1>1, <1>7, <2>1, PageIsNotFull
  <2>3. root.num \in Nat /\ \A j \in 0..root.num : j \in 0..DirSize-1 /\ j <= root.num
    BY <1>1, PageFields
  <2>4. Inserts(root, i, x, q)
    BY <1>6, <1>7, <2>3 DEF Inserts
  <2>5. Gains(root, x, q)
    BY <1>3, <1>4, <2>4 DEF Gains
  <2> QED
    BY <1>3, <1>8, <2>2, <2>5
<1>9. CASE status' = "panicked" /\ UNCHANGED root
  <2>1. root \in Page(DirSize, Blocks \cup {NewBlock}, {0})
    BY <1>1, <1>2, PageIsNotFull
  <2> QED
    BY <1>9, <2>1
<1> QED
  BY <1>3, <1>4, <1>5, <1>8, <1>9 DEF Enter

\* What next returns for a key are records of leaves that have it.
LEMMA FoundIs ==
  ASSUME TypeOK, NEW k \in Key, ~Panics(root, k), NEW x \in Found(k)
  PROVE  /\ x = <<x[1], x[2]>> /\ x[1] \in Blocks /\ x[2] \in 0..leaf[x[1]].num-1
         /\ leaf[x[1]].slot[x[2]].key = k
<1>1. PICK h : h = find_child(root, k)
  OBVIOUS
<1>2. PICK b \in Chain(h, k) :
        x \in {b} \X Matches(leaf[b], IF b = h THEN find_slot_before(leaf[b], k) + 1 ELSE 0, k)
  BY <1>1 DEF Found
<1>3. b \in Blocks
  BY DEF Chain, Reached
<1>4. PICK from : from = IF b = h THEN find_slot_before(leaf[b], k) + 1 ELSE 0
  OBVIOUS
<1>5. x = <<b, x[2]>> /\ x[1] = b /\ x[2] \in Matches(leaf[b], from, k)
  BY <1>2, <1>4
<1>6. LeafSize \in Nat \ {0} /\ leaf[b] \in FullPage(LeafSize, Rid, Blocks \cup {None}) /\ k \in Int
  BY <1>3, Types, Sizes DEF LeafFile, LeafPage, Blocks
<1>7. from \in 0..leaf[b].num /\ leaf[b].num \in Nat
  <2>1. leaf[b].num \in Nat
    BY <1>6, PageFields
  <2>2. PICK i : i = find_slot_before(leaf[b], k) + 1
    OBVIOUS
  <2>3. i \in 0..leaf[b].num
    BY <1>6, <2>2, PlaceFound
  <2> QED
    BY <1>4, <2>1, <2>2, <2>3
<1>8. x[2] \in from..leaf[b].num-1 /\ \A j \in from..x[2] : leaf[b].slot[j].key = k
  BY <1>5 DEF Matches
<1> QED
  BY <1>3, <1>5, <1>7, <1>8

\* Slot i of leaf b is deleted, and slot 0 keeps what the last record left there.
DeleteMakes(lf, b, i, lf2) == \E p :
  /\ Altered(lf, b, p, lf2) /\ p.flag = lf[b].flag /\ Deletes(lf[b], i, p)
  /\ p.slot[0] = IF i = 0 /\ lf[b].num > 1 THEN lf[b].slot[1] ELSE lf[b].slot[0]

LEMMA DeleteFacts ==
  ASSUME TypeOK, NEW b \in Blocks, NEW i \in 0..leaf[b].num-1,
         leaf' = [leaf EXCEPT ![b] = deleted(leaf[b], i)]
  PROVE  SameBlocks /\ DeleteMakes(leaf, b, i, leaf')
<1>1. PICK q : q = deleted(leaf[b], i)
  OBVIOUS
<1>2. /\ LeafSize \in Nat \ {0} /\ leaf[b] \in FullPage(LeafSize, Rid, Blocks \cup {None})
      /\ leaf[b].num < LeafSize /\ b \in DOMAIN leaf
  BY Types, Sizes DEF LeafFile, LeafPage, Blocks
<1>3. /\ q \in FullPage(LeafSize, Rid, Blocks \cup {None})
      /\ q.flag = leaf[b].flag /\ q.num = leaf[b].num - 1
      /\ \A j \in 0..LeafSize-1 : q.slot[j] = IF j >= i /\ j < leaf[b].num - 1 THEN leaf[b].slot[j + 1]
                                              ELSE leaf[b].slot[j]
  BY <1>1, <1>2, DeletedSlots
<1>4. leaf[b].num \in Nat /\ leaf[b].num \in 0..LeafSize
  BY <1>2, PageFields
<1>5. q \in Page(LeafSize, Rid, Blocks \cup {None})
  <2>1. q.num < LeafSize
    BY <1>2, <1>3, <1>4
  <2> QED
    BY <1>2, <1>3, <2>1, PageIsNotFull
<1>6. leaf' \in Seq(Page(LeafSize, Rid, Blocks \cup {None})) /\ Altered(leaf, b, q, leaf')
  <2>1. leaf \in Seq(Page(LeafSize, Rid, Blocks \cup {None})) /\ leaf' = [leaf EXCEPT ![b] = q]
    BY <1>1 DEF TypeOK
  <2> QED
    BY <1>2, <1>5, <2>1, LeafAltered
<1>7. Blocks' = Blocks
  BY <1>6 DEF Altered, Blocks
<1>8. Deletes(leaf[b], i, q)
  <2>1. \A j \in 0..leaf[b].num-2 : j \in 0..LeafSize-1 /\ j < leaf[b].num - 1
    BY <1>2, <1>4
  <2> QED
    BY <1>3, <1>4, <2>1 DEF Deletes
<1>9. q.slot[0] = IF i = 0 /\ leaf[b].num > 1 THEN leaf[b].slot[1] ELSE leaf[b].slot[0]
  <2>1. 0 \in 0..LeafSize-1 /\ (0 >= i <=> i = 0) /\ (0 < leaf[b].num - 1 <=> leaf[b].num > 1)
    BY <1>2, <1>4
  <2> QED
    BY <1>3, <2>1
<1>10. DeleteMakes(leaf, b, i, leaf')
  BY <1>3, <1>6, <1>8, <1>9 DEF DeleteMakes
<1> QED
  BY <1>6, <1>7, <1>10 DEF SameBlocks

-----------------------------------------------------------------------------
(* Types, and the owners of leaves.                                        *)

\* What an insertion does to the leaf file and to the directory.
InsertMakes(b, x) ==
  \/ /\ MoreBlocks /\ BeforeMakes(leaf, b, x, leaf') /\ Enter(first_key(leaf[b]), NewBlock)
     /\ first_key(leaf[b]) \in Keys
  \/ SameBlocks /\ FittingMakes(leaf, b, x, leaf') /\ UNCHANGED <<root, status>>
  \/ MoreBlocks /\ OverflowMakes(leaf, b, x, leaf') /\ UNCHANGED <<root, status>>
  \/ MoreBlocks /\ \E key \in Keys : SplitMakes(leaf, b, x, leaf', key) /\ Enter(key, NewBlock)

LEMMA InsertFacts ==
  ASSUME TypeOK, NEW k \in Key, Insert(k)
  PROVE  /\ status = "running" /\ ~Panics(root, k)
         /\ contents' = Append(contents, k) /\ Len(contents) < MaxRows
         /\ Len(contents) \in Nat /\ Len(contents) + 1 \in Rid
         /\ misled' = (misled \/ misleads(k)) /\ beheaded' = beheaded
         /\ \E b, x : /\ b = find_child(root, k) /\ x = [key |-> k, ref |-> Len(contents) + 1]
                      /\ InsertMakes(b, x)
<1>1. PICK r : r = Len(contents) + 1
  OBVIOUS
<1>2. /\ status = "running" /\ ~Panics(root, k)
      /\ contents' = Append(contents, k) /\ Len(contents) < MaxRows
      /\ misled' = (misled \/ misleads(k)) /\ beheaded' = beheaded
      /\ \/ InsertBefore(k, r)
         \/ InsertFitting(k, r)
         \/ InsertOverflow(k, r)
         \/ InsertSplit(k, r)
  BY <1>1 DEF Insert
<1>3. Len(contents) \in Nat /\ MaxRows \in Nat
  BY Types, Sizes
<1>4. r \in Rid
  BY <1>1, <1>2, <1>3 DEF Rid
<1>5. PICK b, x : b = find_child(root, k) /\ x = [key |-> k, ref |-> r]
  OBVIOUS
<1>6. InsertMakes(b, x)
  <2>1. CASE InsertBefore(k, r)
    BY <1>2, <1>4, <1>5, <2>1, BeforeFacts DEF InsertMakes
  <2>2. CASE InsertFitting(k, r)
    BY <1>2, <1>4, <1>5, <2>2, FittingFacts DEF InsertMakes
  <2>3. CASE InsertOverflow(k, r)
    BY <1>2, <1>4, <1>5, <2>3, OverflowFacts DEF InsertMakes
  <2>4. CASE InsertSplit(k, r)
    BY <1>2, <1>4, <1>5, <2>4, SplitFacts DEF InsertMakes
  <2> QED
    BY <1>2, <2>1, <2>2, <2>3, <2>4
<1> QED
  BY <1>1, <1>2, <1>3, <1>4, <1>5, <1>6

\* What a deletion does: it removes a record, or finds none to remove.
DeletesRecord(r, b, i) ==
  /\ b \in Blocks /\ i \in 0..leaf[b].num-1
  /\ leaf[b].slot[i].ref = r /\ leaf[b].slot[i].key = contents[r]
  /\ SameBlocks /\ DeleteMakes(leaf, b, i, leaf')
  /\ beheaded' = (beheaded \/ (leaf[b].flag # None /\ i = 0 /\ last_of_its_key(leaf[b], 0)))

LEMMA DeleteIs ==
  ASSUME TypeOK, NEW r \in DOMAIN contents, Delete(r)
  PROVE  /\ status = "running" /\ contents[r] \in Key /\ ~Panics(root, contents[r])
         /\ contents' = [contents EXCEPT ![r] = Gone]
         /\ misled' = (misled \/ misleads(contents[r])) /\ UNCHANGED <<root, status>>
         /\ \/ \E b, i : DeletesRecord(r, b, i)
            \/ r \notin Lookup(contents[r]) /\ UNCHANGED <<leaf, beheaded>>
<1>1. PICK k : k = contents[r]
  OBVIOUS
<1>2. /\ status = "running" /\ k # Gone /\ ~Panics(root, k)
      /\ contents' = [contents EXCEPT ![r] = Gone]
      /\ misled' = (misled \/ misleads(k)) /\ UNCHANGED <<root, status>>
      /\ \/ \E x \in Found(k) :
              /\ leaf[x[1]].slot[x[2]].ref = r
              /\ leaf' = [leaf EXCEPT ![x[1]] = deleted(leaf[x[1]], x[2])]
              /\ beheaded' = (beheaded \/ (leaf[x[1]].flag # None /\ x[2] = 0
                                           /\ last_of_its_key(leaf[x[1]], 0)))
         \/ r \notin Lookup(k) /\ UNCHANGED <<leaf, beheaded>>
  BY <1>1 DEF Delete
<1>3. k \in Key
  <2>1. contents \in Seq(Key \cup {Gone})
    BY DEF TypeOK
  <2> QED
    BY <1>1, <1>2, <2>1
<1>4. ASSUME NEW x \in Found(k), leaf[x[1]].slot[x[2]].ref = r,
             leaf' = [leaf EXCEPT ![x[1]] = deleted(leaf[x[1]], x[2])],
             beheaded' = (beheaded \/ (leaf[x[1]].flag # None /\ x[2] = 0
                                       /\ last_of_its_key(leaf[x[1]], 0)))
      PROVE  \E b, i : DeletesRecord(r, b, i)
  <2>1. PICK b, i : b = x[1] /\ i = x[2]
    OBVIOUS
  <2>2. b \in Blocks /\ i \in 0..leaf[b].num-1 /\ leaf[b].slot[i].key = k
    BY <1>2, <1>3, <2>1, FoundIs
  <2>3. SameBlocks /\ DeleteMakes(leaf, b, i, leaf')
    BY <1>4, <2>1, <2>2, DeleteFacts
  <2>4. DeletesRecord(r, b, i)
    BY <1>1, <1>4, <2>1, <2>2, <2>3 DEF DeletesRecord
  <2> QED
    BY <2>4
<1> QED
  BY <1>1, <1>2, <1>3, <1>4

LEMMA TypeInit ==
  ASSUME Init
  PROVE  TypeOK
<1>1. /\ LeafSize \in Nat \ {0, 1} /\ DirSize \in Nat \ {0, 1} /\ 1 \in Rid /\ MinKey \in Keys
      /\ MaxRows \in Nat
  BY Sizes
<1>2. PICK p : p = formatted(LeafSize, None)
  OBVIOUS
<1>3. leaf = <<p>> /\ Blocks = {1}
  BY <1>2 DEF Init, Blocks
<1>4. p \in FullPage(LeafSize, Rid, {1} \cup {None}) /\ p.num = 0
  BY <1>1, <1>2, FormattedPage
<1>5. leaf \in Seq(Page(LeafSize, Rid, Blocks \cup {None}))
  <2>1. p \in Page(LeafSize, Rid, {1} \cup {None})
    <3>1. LeafSize \in Nat \ {0} /\ p.num < LeafSize
      BY <1>1, <1>4
    <3>2. PICK F : F = {1} \cup {None}
      OBVIOUS
    <3> QED
      BY <1>4, <3>1, <3>2, PageIsNotFull
  <2> QED
    BY <1>3, <2>1
<1>6. PICK f, x : f = formatted(DirSize, 0) /\ x = [key |-> MinKey, ref |-> 1]
  OBVIOUS
<1>7. f \in FullPage(DirSize, {1}, {0}) /\ f.num = 0
  BY <1>1, <1>6, FormattedPage
<1>8. root \in FullPage(DirSize, {1}, {0}) /\ root.num = 1
  <2>1. x \in [key : Keys, ref : {1}] /\ 0 \in 0..f.num /\ f.num < DirSize
    BY <1>1, <1>6, <1>7
  <2>2. root = inserted(f, 0, x)
    BY <1>6 DEF Init
  <2>3. root \in FullPage(DirSize, {1}, {0}) /\ root.num = f.num + 1
    BY <1>1, <1>7, <2>1, <2>2, InsertedSlots
  <2> QED
    BY <1>7, <2>3
<1>9. root \in Page(DirSize, Blocks, {0})
  <2>1. root.num < DirSize
    BY <1>1, <1>8
  <2> QED
    BY <1>1, <1>3, <1>8, <2>1, PageIsNotFull
<1>10. contents \in Seq(Key \cup {Gone}) /\ Len(contents) <= MaxRows
  BY <1>1 DEF Init
<1> QED
  BY <1>5, <1>9, <1>10 DEF Init, TypeOK

LEMMA RootOfMore ==
  ASSUME TypeOK
  PROVE  root \in Page(DirSize, Blocks \cup {NewBlock}, {0})
<1>1. root \in FullPage(DirSize, Blocks, {0}) /\ root.num < DirSize /\ DirSize \in Nat \ {0}
  BY Types, Sizes DEF RootPage
<1>2. PICK B : B = Blocks \cup {NewBlock}
  OBVIOUS
<1>3. root \in FullPage(DirSize, B, {0})
  BY <1>1, <1>2, PageOfMore
<1> QED
  BY <1>1, <1>2, <1>3, PageIsNotFull

LEMMA TypeStep ==
  ASSUME TypeOK, [Next]_vars
  PROVE  TypeOK'
<1>1. ASSUME NEW k \in Key, Insert(k) PROVE TypeOK'
  <2>1. /\ contents' = Append(contents, k) /\ Len(contents) < MaxRows
        /\ misled' = (misled \/ misleads(k)) /\ beheaded' = beheaded
        /\ \E b, x : /\ b = find_child(root, k) /\ x = [key |-> k, ref |-> Len(contents) + 1]
                     /\ InsertMakes(b, x)
    BY <1>1, InsertFacts
  <2>2. PICK b, x : InsertMakes(b, x)
    BY <2>1
  <2>3. /\ contents \in Seq(Key \cup {Gone}) /\ beheaded \in BOOLEAN /\ misled \in BOOLEAN
        /\ status \in {"running", "panicked"} /\ MaxRows \in Nat
    BY Sizes DEF TypeOK
  <2>4. contents' \in Seq(Key \cup {Gone}) /\ Len(contents') <= MaxRows
    BY <2>1, <2>3
  <2>5. misled' \in BOOLEAN /\ beheaded' \in BOOLEAN
    BY <2>1, <2>3
  <2>6. /\ leaf' \in Seq(Page(LeafSize, Rid, Blocks' \cup {None}))
        /\ root' \in Page(DirSize, Blocks', {0}) /\ status' \in {"running", "panicked"}
    <3>1. CASE SameBlocks /\ UNCHANGED <<root, status>>
      BY <2>3, <3>1 DEF SameBlocks, TypeOK
    <3>2. CASE MoreBlocks /\ UNCHANGED <<root, status>>
      BY <2>3, <3>2, RootOfMore DEF MoreBlocks
    <3>3. CASE MoreBlocks /\ \E key \in Keys : Enter(key, NewBlock)
      BY <2>3, <3>3, EnterFacts DEF MoreBlocks
    <3> QED
      BY <2>2, <3>1, <3>2, <3>3 DEF InsertMakes
  <2> QED
    BY <2>4, <2>5, <2>6 DEF TypeOK
<1>2. ASSUME NEW r \in DOMAIN contents, Delete(r) PROVE TypeOK'
  <2>1. /\ contents' = [contents EXCEPT ![r] = Gone]
        /\ misled' = (misled \/ misleads(contents[r])) /\ UNCHANGED <<root, status>>
        /\ \/ \E b, i : DeletesRecord(r, b, i)
           \/ UNCHANGED <<leaf, beheaded>>
    BY <1>2, DeleteIs
  <2>2. contents \in Seq(Key \cup {Gone}) /\ Len(contents) <= MaxRows
        /\ beheaded \in BOOLEAN /\ misled \in BOOLEAN
    BY DEF TypeOK
  <2>3. contents' \in Seq(Key \cup {Gone}) /\ Len(contents') <= MaxRows
    <3>1. contents' \in Seq(Key \cup {Gone}) /\ Len(contents') = Len(contents)
      <4>1. contents' \in [1..Len(contents) -> Key \cup {Gone}] /\ Len(contents) \in Nat
        BY <2>1, <2>2
      <4> QED
        BY <4>1
    <3> QED
      BY <2>2, <3>1
  <2>4. misled' \in BOOLEAN
    BY <2>1, <2>2
  <2>5. CASE \E b, i : DeletesRecord(r, b, i)
    <3>1. SameBlocks /\ beheaded' \in BOOLEAN
      BY <2>2, <2>5 DEF DeletesRecord
    <3> QED
      BY <2>1, <2>3, <2>4, <3>1 DEF SameBlocks, TypeOK
  <2>6. CASE UNCHANGED <<leaf, beheaded>>
    BY <2>1, <2>3, <2>4, <2>6 DEF TypeOK, Blocks
  <2> QED
    BY <2>1, <2>5, <2>6
<1>3. ASSUME NEW k \in Key, SearchPanics(k) PROVE TypeOK'
  BY <1>3 DEF SearchPanics, TypeOK, Blocks
<1>4. CASE UNCHANGED vars
  BY <1>4 DEF vars, TypeOK, Blocks
<1> QED
  BY <1>1, <1>2, <1>3, <1>4 DEF Next

\* The blocks on the pages of the directory and of the leaves are in the file.
RefsIn(rt, B) == rt.num \in Nat /\ \A i \in 0..rt.num-1 : rt.slot[i].ref \in B
FlagsIn(lf) == None \notin DOMAIN lf /\ \A c \in DOMAIN lf : lf[c].flag \in DOMAIN lf \cup {None}

LEMMA Inside ==
  ASSUME TypeOK
  PROVE  RefsIn(root, DOMAIN leaf) /\ FlagsIn(leaf)
<1>1. root \in FullPage(DirSize, Blocks, {0}) /\ root.num < DirSize /\ LeafFile(leaf) /\ DirSize \in Nat \ {0}
  BY Types, Sizes DEF RootPage
<1>2. RefsIn(root, DOMAIN leaf)
  <2>1. root.num \in Nat /\ \A i \in 0..root.num-1 : i \in 0..DirSize-1
    BY <1>1, PageFields
  <2> QED
    BY <1>1, <2>1, PageFields DEF RefsIn, Blocks
<1>3. FlagsIn(leaf)
  <2>1. \A c \in DOMAIN leaf : leaf[c].flag \in DOMAIN leaf \cup {None}
    BY <1>1 DEF LeafFile, LeafPage, FullPage
  <2>2. None \notin DOMAIN leaf
    BY <1>1, Sizes DEF LeafFile
  <2> QED
    BY <2>1, <2>2 DEF FlagsIn
<1> QED
  BY <1>2, <1>3

\* A new entry takes no block from the others.
LEMMA EntriesKept ==
  ASSUME NEW rt, NEW rt2, NEW i, NEW x, NEW B, Inserts(rt, i, x, rt2), RefsIn(rt, B), x.ref \notin B
  PROVE  /\ EntryOnce(rt2, x.ref) /\ HasEntry(rt2, x.ref)
         /\ \A b \in B : /\ HasEntry(rt2, b) <=> HasEntry(rt, b)
                         /\ EntryOnce(rt, b) => EntryOnce(rt2, b)
<1>1. /\ rt.num \in Nat /\ i \in 0..rt.num /\ rt2.num = rt.num + 1
      /\ \A j \in 0..rt.num : rt2.slot[j] = IF j = i THEN x ELSE IF j > i THEN rt.slot[j - 1] ELSE rt.slot[j]
  BY DEF Inserts
<1> DEFINE old(j) == IF j > i THEN j - 1 ELSE j
           new(j) == IF j >= i THEN j + 1 ELSE j
<1>2. \A j : EntryOf(rt2, j, x.ref) <=> j = i
  <2> TAKE j
  <2>1. CASE j = i
    BY <1>1, <2>1 DEF EntryOf
  <2>2. CASE j # i /\ j \in 0..rt.num
    <3>1. rt2.slot[j] = rt.slot[old(j)] /\ old(j) \in 0..rt.num-1
      BY <1>1, <2>2
    <3> QED
      BY <2>2, <3>1 DEF EntryOf, RefsIn
  <2>3. CASE j \notin 0..rt.num
    BY <1>1, <2>3 DEF EntryOf
  <2> QED
    BY <2>1, <2>2, <2>3
<1>3. ASSUME NEW b \in B, NEW j, EntryOf(rt2, j, b) PROVE EntryOf(rt, old(j), b) /\ j # i /\ j \in 0..rt.num
  <2>1. j # i /\ j \in 0..rt.num /\ rt2.slot[j].ref = b
    BY <1>1, <1>3 DEF EntryOf
  <2>2. rt2.slot[j] = rt.slot[old(j)] /\ old(j) \in 0..rt.num-1
    BY <1>1, <2>1
  <2> QED
    BY <2>1, <2>2 DEF EntryOf
<1>4. ASSUME NEW b \in B, NEW j, EntryOf(rt, j, b) PROVE EntryOf(rt2, new(j), b)
  <2>1. j \in 0..rt.num-1 /\ rt.slot[j].ref = b
    BY <1>4 DEF EntryOf
  <2>2. new(j) \in 0..rt2.num-1 /\ rt2.slot[new(j)] = rt.slot[j]
    BY <1>1, <2>1
  <2> QED
    BY <2>1, <2>2 DEF EntryOf
<1>5. \A j, n \in 0..rt.num : j # i /\ n # i /\ old(j) = old(n) => j = n
  BY <1>1
<1> HIDE DEF old, new
<1>6. EntryOnce(rt2, x.ref) /\ HasEntry(rt2, x.ref)
  BY <1>2 DEF EntryOnce, HasEntry
<1>7. \A b \in B : HasEntry(rt2, b) <=> HasEntry(rt, b)
  BY <1>3, <1>4 DEF HasEntry
<1>8. \A b \in B : EntryOnce(rt, b) => EntryOnce(rt2, b)
  BY <1>3, <1>5 DEF EntryOnce
<1> QED
  BY <1>6, <1>7, <1>8

LEMMA OwnersOfAltered ==
  ASSUME NEW rt, NEW lf, NEW lf2, NEW b, NEW p, Altered(lf, b, p, lf2), p.flag = lf[b].flag,
         OneOwner(rt, lf)
  PROVE  OneOwner(rt, lf2)
<1>1. \A c, d : Overflows(lf2, c, d) <=> Overflows(lf, c, d)
  BY DEF Altered, Overflows
<1>2. DOMAIN lf2 = DOMAIN lf
  BY DEF Altered
<1> QED
  BY <1>1, <1>2 DEF OneOwner, OverflowOnce, IsOverflow

\* Chains from the new block on, or the new block in the chain of b.
FlagMoved(p, q, f) == p.flag = None /\ q.flag = f
FlagStays(p, q, f) == p.flag = f /\ q.flag = None
FlagPushed(p, q, f, new) == p.flag = new /\ q.flag = f

LEMMA LeafFlags ==
  ASSUME NEW lf, LeafFile(lf)
  PROVE  FlagsIn(lf) /\ Len(lf) + 1 # None /\ Len(lf) + 1 \notin DOMAIN lf
<1>1. \A c \in DOMAIN lf : lf[c].flag \in DOMAIN lf \cup {None}
  BY DEF LeafFile, LeafPage, FullPage
<1>2. None \notin DOMAIN lf /\ Len(lf) + 1 # None /\ Len(lf) + 1 \notin DOMAIN lf
  BY Sizes DEF LeafFile
<1> QED
  BY <1>1, <1>2 DEF FlagsIn

\* Who overflows to an old block, and to the new one, when a block comes.
LEMMA OverflowsOfGrown ==
  ASSUME NEW lf, NEW lf2, NEW b, NEW p, NEW q, NEW new,
         Grown(lf, b, p, q, lf2), new = Len(lf) + 1, LeafFile(lf),
         \/ FlagMoved(p, q, lf[b].flag)
         \/ FlagStays(p, q, lf[b].flag)
         \/ FlagPushed(p, q, lf[b].flag, new)
  PROVE  /\ \A d \in DOMAIN lf : /\ IsOverflow(lf2, d) <=> IsOverflow(lf, d)
                                 /\ OverflowOnce(lf, d) => OverflowOnce(lf2, d)
         /\ OverflowOnce(lf2, new)
         /\ IsOverflow(lf2, new) <=> FlagPushed(p, q, lf[b].flag, new)
<1>1. /\ b \in DOMAIN lf /\ DOMAIN lf2 = DOMAIN lf \cup {new} /\ new \notin DOMAIN lf /\ new # None
      /\ \A c \in DOMAIN lf : lf2[c] = IF c = b THEN p ELSE lf[c]
      /\ lf2[new] = q
  BY LeafFlags DEF Grown
<1>2. None \notin DOMAIN lf /\ \A c \in DOMAIN lf : lf[c].flag \in DOMAIN lf \cup {None}
  BY LeafFlags DEF FlagsIn
<1>3. CASE FlagMoved(p, q, lf[b].flag)
  <2>1. \A c, d : d \in DOMAIN lf =>
          (Overflows(lf2, c, d) <=> \/ c = new /\ Overflows(lf, b, d)
                                    \/ c # new /\ c # b /\ Overflows(lf, c, d))
    BY <1>1, <1>2, <1>3 DEF Overflows, FlagMoved
  <2>2. \A c : ~Overflows(lf2, c, new)
    BY <1>1, <1>2, <1>3 DEF Overflows, FlagMoved
  <2>3. \A c, d : Overflows(lf, c, d) => c # new
    BY <1>1 DEF Overflows
  <2>4. ~FlagPushed(p, q, lf[b].flag, new)
    BY <1>1, <1>3 DEF FlagMoved, FlagPushed
  <2> QED
    BY <2>1, <2>2, <2>3, <2>4 DEF OverflowOnce, IsOverflow
<1>4. CASE FlagStays(p, q, lf[b].flag)
  <2>1. \A c, d : d \in DOMAIN lf => (Overflows(lf2, c, d) <=> Overflows(lf, c, d))
    BY <1>1, <1>2, <1>4 DEF Overflows, FlagStays
  <2>2. \A c : ~Overflows(lf2, c, new)
    BY <1>1, <1>2, <1>4 DEF Overflows, FlagStays
  <2>3. ~FlagPushed(p, q, lf[b].flag, new)
    BY <1>1, <1>2, <1>4 DEF FlagStays, FlagPushed
  <2> QED
    BY <2>1, <2>2, <2>3 DEF OverflowOnce, IsOverflow
<1>5. CASE FlagPushed(p, q, lf[b].flag, new)
  <2>1. \A c, d : d \in DOMAIN lf =>
          (Overflows(lf2, c, d) <=> \/ c = new /\ Overflows(lf, b, d)
                                    \/ c # new /\ c # b /\ Overflows(lf, c, d))
    BY <1>1, <1>2, <1>5 DEF Overflows, FlagPushed
  <2>2. \A c : Overflows(lf2, c, new) <=> c = b
    BY <1>1, <1>2, <1>5 DEF Overflows, FlagPushed
  <2>3. \A c, d : Overflows(lf, c, d) => c # new
    BY <1>1 DEF Overflows
  <2> QED
    BY <1>5, <2>1, <2>2, <2>3 DEF OverflowOnce, IsOverflow
<1> QED
  BY <1>3, <1>4, <1>5

\* A new block that the directory has, or that leaf b overflows to.
LEMMA OwnersOfGrown ==
  ASSUME NEW rt, NEW rt2, NEW lf, NEW lf2, NEW b, NEW p, NEW q, NEW new,
         Grown(lf, b, p, q, lf2), new = Len(lf) + 1, LeafFile(lf),
         RefsIn(rt, DOMAIN lf), OneOwner(rt, lf),
         \/ /\ FlagMoved(p, q, lf[b].flag) \/ FlagStays(p, q, lf[b].flag)
            /\ \E i, x : x.ref = new /\ Inserts(rt, i, x, rt2)
         \/ FlagPushed(p, q, lf[b].flag, new) /\ rt2 = rt
  PROVE  OneOwner(rt2, lf2)
<1>1. /\ DOMAIN lf2 = DOMAIN lf \cup {new} /\ new \notin DOMAIN lf /\ new # None
      /\ lf[b].flag \in DOMAIN lf \cup {None}
  BY LeafFlags DEF Grown, FlagsIn
<1>2. /\ \A d \in DOMAIN lf : /\ IsOverflow(lf2, d) <=> IsOverflow(lf, d)
                              /\ OverflowOnce(lf, d) => OverflowOnce(lf2, d)
      /\ OverflowOnce(lf2, new)
      /\ IsOverflow(lf2, new) <=> FlagPushed(p, q, lf[b].flag, new)
  BY OverflowsOfGrown
<1>3. CASE /\ FlagMoved(p, q, lf[b].flag) \/ FlagStays(p, q, lf[b].flag)
           /\ \E i, x : x.ref = new /\ Inserts(rt, i, x, rt2)
  <2>1. /\ EntryOnce(rt2, new) /\ HasEntry(rt2, new)
        /\ \A d \in DOMAIN lf : /\ HasEntry(rt2, d) <=> HasEntry(rt, d)
                                /\ EntryOnce(rt, d) => EntryOnce(rt2, d)
    BY <1>1, <1>3, EntriesKept
  <2>2. ~FlagPushed(p, q, lf[b].flag, new)
    BY <1>1, <1>3 DEF FlagMoved, FlagStays, FlagPushed
  <2> QED
    BY <1>1, <1>2, <2>1, <2>2 DEF OneOwner
<1>4. CASE FlagPushed(p, q, lf[b].flag, new) /\ rt2 = rt
  <2>1. \A i : ~EntryOf(rt, i, new)
    BY <1>1 DEF EntryOf, RefsIn
  <2>2. EntryOnce(rt2, new) /\ ~HasEntry(rt2, new)
    BY <1>4, <2>1 DEF EntryOnce, HasEntry
  <2> QED
    BY <1>1, <1>2, <1>4, <2>2 DEF OneOwner
<1> QED
  BY <1>3, <1>4

\* The directory begins with an entry for the first leaf.
LEMMA FirstRoot ==
  ASSUME Init
  PROVE  root.num = 1 /\ root.slot[0].ref = 1
<1>1. DirSize \in Nat \ {0} /\ MinKey \in Keys
  BY Sizes
<1>2. PICK p, r, B, F : /\ p = formatted(DirSize, 0) /\ r = [key |-> MinKey, ref |-> 1]
                        /\ B = {1} /\ F = {0}
  OBVIOUS
<1>3. 1 \in B /\ 0 \in F
  BY <1>2
<1>4. p \in FullPage(DirSize, B, F) /\ p.num = 0
  BY <1>1, <1>2, <1>3, FormattedPage
<1>5. r \in [key : Keys, ref : B]
  BY <1>1, <1>2, <1>3
<1>6. root = inserted(p, 0, r)
  BY <1>2 DEF Init
<1>7. 0 \in 0..p.num /\ p.num < DirSize /\ 0 \in 0..DirSize-1
  BY <1>1, <1>4
<1>8. /\ root.num = p.num + 1
      /\ \A j \in 0..DirSize-1 : root.slot[j] = IF j = 0 THEN r
                                               ELSE IF j > 0 /\ j <= p.num THEN p.slot[j - 1]
                                               ELSE p.slot[j]
  BY <1>1, <1>4, <1>5, <1>6, <1>7, InsertedSlots
<1>9. root.slot[0] = r
  BY <1>7, <1>8
<1> QED
  BY <1>2, <1>4, <1>8, <1>9

LEMMA OwnersInit ==
  ASSUME Init
  PROVE  OneOwner(root, leaf)
<1>1. \A i : EntryOf(root, i, 1) <=> i = 0
  BY FirstRoot DEF EntryOf
<1>2. PICK p : p = formatted(LeafSize, None)
  OBVIOUS
<1>3. p.flag = None
  BY <1>2 DEF formatted
<1>4. leaf = <<p>>
  BY <1>2 DEF Init
<1>5. DOMAIN leaf = {1} /\ leaf[1] = p
  BY <1>4
<1>6. \A c : ~Overflows(leaf, c, 1)
  BY <1>3, <1>5, Sizes DEF Overflows
<1> QED
  BY <1>1, <1>5, <1>6 DEF OneOwner, EntryOnce, OverflowOnce, HasEntry, IsOverflow

LEMMA OwnersStep ==
  ASSUME TypeOK, status = "running" => OneOwner(root, leaf), [Next]_vars, status' = "running"
  PROVE  OneOwner(root', leaf')
<1>1. /\ RefsIn(root, DOMAIN leaf) /\ LeafFile(leaf) /\ NewBlock = Len(leaf) + 1
      /\ status \in {"running", "panicked"}
  BY Inside, Types DEF NewBlock
<1>2. ASSUME NEW k \in Key, Insert(k) PROVE OneOwner(root', leaf')
  <2>1. status = "running" /\ \E b, x : InsertMakes(b, x)
    BY <1>2, InsertFacts
  <2>2. OneOwner(root, leaf)
    BY <2>1
  <2>3. ASSUME NEW key \in Keys, Enter(key, NewBlock)
        PROVE  \E i, x : x.ref = NewBlock /\ Inserts(root, i, x, root')
    <3>1. PICK x : x = [key |-> key, ref |-> NewBlock]
      OBVIOUS
    <3>2. Gains(root, x, root')
      BY <2>3, <3>1, EnterFacts
    <3>3. x.ref = NewBlock
      BY <3>1
    <3> QED
      BY <3>2, <3>3 DEF Gains
  <2>4. PICK b, x : InsertMakes(b, x)
    BY <2>1
  <2>5. CASE BeforeMakes(leaf, b, x, leaf') /\ Enter(first_key(leaf[b]), NewBlock) /\ first_key(leaf[b]) \in Keys
    <3>1. PICK p, q : Grown(leaf, b, p, q, leaf') /\ p.flag = None /\ q.flag = leaf[b].flag
      BY <2>5 DEF BeforeMakes
    <3>2. FlagMoved(p, q, leaf[b].flag)
      BY <3>1 DEF FlagMoved
    <3>3. \E i, y : y.ref = NewBlock /\ Inserts(root, i, y, root')
      BY <2>3, <2>5
    <3> QED
      BY <1>1, <2>2, <3>1, <3>2, <3>3, OwnersOfGrown
  <2>6. CASE FittingMakes(leaf, b, x, leaf') /\ UNCHANGED <<root, status>>
    <3>1. PICK p : Altered(leaf, b, p, leaf') /\ p.flag = leaf[b].flag
      BY <2>6 DEF FittingMakes
    <3> QED
      BY <2>2, <2>6, <3>1, OwnersOfAltered
  <2>7. CASE OverflowMakes(leaf, b, x, leaf') /\ UNCHANGED <<root, status>>
    <3>1. PICK p, q : Grown(leaf, b, p, q, leaf') /\ p.flag = NewBlock /\ q.flag = leaf[b].flag
      BY <1>1, <2>7 DEF OverflowMakes
    <3>2. FlagPushed(p, q, leaf[b].flag, NewBlock)
      BY <3>1 DEF FlagPushed
    <3> QED
      BY <1>1, <2>2, <2>7, <3>1, <3>2, OwnersOfGrown
  <2>8. CASE \E key \in Keys : SplitMakes(leaf, b, x, leaf', key) /\ Enter(key, NewBlock)
    <3>1. PICK p, q : Grown(leaf, b, p, q, leaf') /\ p.flag = leaf[b].flag /\ q.flag = None
      BY <2>8 DEF SplitMakes
    <3>2. FlagStays(p, q, leaf[b].flag)
      BY <3>1 DEF FlagStays
    <3>3. \E i, y : y.ref = NewBlock /\ Inserts(root, i, y, root')
      BY <2>3, <2>8
    <3> QED
      BY <1>1, <2>2, <3>1, <3>2, <3>3, OwnersOfGrown
  <2> QED
    BY <2>4, <2>5, <2>6, <2>7, <2>8 DEF InsertMakes
<1>3. ASSUME NEW r \in DOMAIN contents, Delete(r) PROVE OneOwner(root', leaf')
  <2>1. /\ status = "running" /\ root' = root
        /\ (\E b, i : DeletesRecord(r, b, i)) \/ leaf' = leaf
    BY <1>3, DeleteIs
  <2>2. OneOwner(root, leaf)
    BY <2>1
  <2>3. CASE \E b, i : DeletesRecord(r, b, i)
    <3>1. PICK b, p : Altered(leaf, b, p, leaf') /\ p.flag = leaf[b].flag
      BY <2>3 DEF DeletesRecord, DeleteMakes
    <3> QED
      BY <2>1, <2>2, <3>1, OwnersOfAltered
  <2>4. CASE leaf' = leaf
    BY <2>1, <2>2, <2>4
  <2> QED
    BY <2>1, <2>3, <2>4
<1>4. ASSUME NEW k \in Key, SearchPanics(k) PROVE FALSE
  BY <1>4 DEF SearchPanics
<1>5. CASE UNCHANGED vars
  BY <1>5 DEF vars
<1> QED
  BY <1>2, <1>3, <1>4, <1>5 DEF Next

-----------------------------------------------------------------------------
(* A new entry of the directory, and the keys that the entries stand for.  *)

LEMMA RootKeys ==
  ASSUME NEW rt, NEW B, rt \in RootPage(B), rt.num < DirSize
  PROVE  rt.num \in Nat /\ \A i \in 0..rt.num-1 : rt.slot[i].key \in Int /\ rt.slot[i].ref \in B
<1>1. DirSize \in Nat \ {0} /\ rt \in FullPage(DirSize, B, {0})
  BY Sizes DEF RootPage
<1>2. rt.num \in Nat /\ \A i \in 0..rt.num-1 : i \in 0..DirSize-1
  BY <1>1, PageFields
<1> QED
  BY <1>1, <1>2, PageFields, Sizes

LEMMA LeafKeys ==
  ASSUME NEW lf, LeafFile(lf), NEW b \in DOMAIN lf
  PROVE  /\ lf[b].num \in Nat /\ lf[b].flag \in DOMAIN lf \cup {None}
         /\ first_key(lf[b]) \in Int /\ \A j \in 0..lf[b].num-1 : lf[b].slot[j].key \in Int
         /\ \A x \in Records(lf[b]) : x.key \in Int /\ x = [key |-> x.key, ref |-> x.ref]
<1>1. /\ LeafSize \in Nat \ {0} /\ lf[b] \in FullPage(LeafSize, Rid, DOMAIN lf \cup {None})
      /\ lf[b].num < LeafSize
  BY Sizes DEF LeafFile, LeafPage
<1>2. lf[b].num \in Nat /\ \A j \in 0..lf[b].num-1 : j \in 0..LeafSize-1
  BY <1>1, PageFields
<1>3. \A j \in 0..LeafSize-1 : lf[b].slot[j].key \in Int /\ lf[b].slot[j] \in [key : Keys, ref : Rid]
  BY <1>1, PageFields, Sizes
<1>4. first_key(lf[b]) \in Int /\ lf[b].flag \in DOMAIN lf \cup {None}
  BY <1>1, <1>3, PageFields DEF first_key
<1>5. \A x \in Records(lf[b]) : x \in [key : Keys, ref : Rid]
  BY <1>2, <1>3 DEF Records
<1>6. \A x \in Records(lf[b]) : x.key \in Int /\ x = [key |-> x.key, ref |-> x.ref]
  BY <1>5, Sizes
<1> QED
  BY <1>2, <1>3, <1>4, <1>6

\* The first record has the first key.
LEMMA FirstRecord ==
  ASSUME NEW p, p.num \in Nat, p.num > 0
  PROVE  p.slot[0] \in Records(p) /\ first_key(p) = p.slot[0].key
<1> QED
  BY DEF Records, first_key

\* Entry y comes right after entry e, for keys that e stood for.
EntersAfter(rt, e, y, rt2) ==
  /\ rt.num \in Nat /\ e \in 0..rt.num-1 /\ y.key \in Int
  /\ \A i \in 0..rt.num-1 : rt.slot[i].key \in Int
  /\ Strict(rt) /\ Within(rt, e, y.key) /\ rt.slot[e].key < y.key
  /\ rt2.num = rt.num + 1
  /\ \A j \in 0..rt.num : rt2.slot[j] = IF j = e + 1 THEN y
                                        ELSE IF j > e + 1 THEN rt.slot[j - 1] ELSE rt.slot[j]

LEMMA EnteredAfter ==
  ASSUME NEW B, NEW rt \in RootPage(B), rt.num < DirSize, NEW e \in 0..rt.num-1, NEW y, NEW rt2,
         y.key \in Int, Strict(rt), Within(rt, e, y.key), rt.slot[e].key < y.key, Gains(rt, y, rt2)
  PROVE  EntersAfter(rt, e, y, rt2)
<1>1. PICK i : i = find_slot_before(rt, y.key) + 1 /\ Inserts(rt, i, y, rt2)
  BY DEF Gains
<1>2. rt.num \in Nat /\ \A j \in 0..rt.num-1 : rt.slot[j].key \in Int
  BY RootKeys
<1>3. /\ i \in 0..rt.num
      /\ \A j \in 0..i-1 : rt.slot[j].key < y.key
      /\ i < rt.num => rt.slot[i].key >= y.key
  <2>1. DirSize \in Nat \ {0} /\ rt \in FullPage(DirSize, B, {0})
    BY Sizes DEF RootPage
  <2>2. PICK k \in Int : k = y.key
    OBVIOUS
  <2> QED
    BY <1>1, <2>1, <2>2, PlaceFound
<1>4. ~(i <= e)
  <2> SUFFICES ASSUME i <= e PROVE FALSE
    OBVIOUS
  <2>1. i \in 0..rt.num-1 /\ rt.slot[i].key >= y.key
    BY <1>2, <1>3
  <2>2. i = e \/ rt.slot[i].key < rt.slot[e].key
    BY <1>2, <2>1 DEF Strict
  <2> QED
    BY <1>2, <2>1, <2>2
<1>5. ~(i > e + 1)
  <2> SUFFICES ASSUME i > e + 1 PROVE FALSE
    OBVIOUS
  <2>1. e + 1 \in 0..i-1 /\ e + 1 < rt.num /\ e + 1 \in 0..rt.num-1
    BY <1>2, <1>3
  <2>2. y.key < rt.slot[e + 1].key /\ rt.slot[e + 1].key < y.key
    BY <1>3, <2>1 DEF Within
  <2> QED
    BY <1>2, <2>1, <2>2
<1>6. i = e + 1
  BY <1>2, <1>3, <1>4, <1>5
<1> QED
  BY <1>1, <1>2, <1>6 DEF Inserts, EntersAfter

\* What the entries stand for after that.
LEMMA WithinAfter ==
  ASSUME NEW rt, NEW e, NEW y, NEW rt2, EntersAfter(rt, e, y, rt2)
  PROVE  /\ \A k \in Int : Within(rt, e, k) /\ k < y.key => Within(rt2, e, k)
         /\ \A k \in Int : Within(rt, e, k) /\ y.key <= k => Within(rt2, e + 1, k)
         /\ \A j \in 0..rt.num-1, k \in Int : Within(rt, j, k) /\ j # e =>
              Within(rt2, IF j < e THEN j ELSE j + 1, k)
<1>1. /\ rt.num \in Nat /\ e \in 0..rt.num-1 /\ y.key \in Int
      /\ \A i \in 0..rt.num-1 : rt.slot[i].key \in Int
      /\ Within(rt, e, y.key)
      /\ rt2.num = rt.num + 1
      /\ \A j \in 0..rt.num : rt2.slot[j] = IF j = e + 1 THEN y
                                            ELSE IF j > e + 1 THEN rt.slot[j - 1] ELSE rt.slot[j]
  BY DEF EntersAfter
<1>2. rt2.slot[e] = rt.slot[e] /\ rt2.slot[e + 1] = y
  BY <1>1
<1>3. e + 1 < rt.num => rt2.slot[e + 2] = rt.slot[e + 1]
  <2> SUFFICES ASSUME e + 1 < rt.num PROVE rt2.slot[e + 2] = rt.slot[e + 1]
    OBVIOUS
  <2>1. e + 2 \in 0..rt.num /\ e + 2 > e + 1 /\ e + 2 # e + 1 /\ (e + 2) - 1 = e + 1
    BY <1>1
  <2> QED
    BY <1>1, <2>1
<1>4. \A k \in Int : Within(rt, e, k) /\ k < y.key => Within(rt2, e, k)
  BY <1>2 DEF Within
<1>5. \A k \in Int : Within(rt, e, k) /\ y.key <= k => Within(rt2, e + 1, k)
  <2>1. (e + 1) + 1 < rt2.num => e + 1 < rt.num /\ (e + 1) + 1 = e + 2
    BY <1>1
  <2> QED
    BY <1>2, <1>3, <2>1 DEF Within
<1>6. ASSUME NEW j \in 0..rt.num-1, NEW k \in Int, Within(rt, j, k), j < e PROVE Within(rt2, j, k)
  <2>1. rt2.slot[j] = rt.slot[j] /\ j + 1 < rt.num
    BY <1>1, <1>6
  <2>2. rt2.slot[j + 1] = rt.slot[j + 1]
    <3>1. j + 1 \in 0..rt.num /\ j + 1 # e + 1 /\ ~(j + 1 > e + 1)
      BY <1>1, <1>6
    <3> QED
      BY <1>1, <3>1
  <2> QED
    BY <1>6, <2>1, <2>2 DEF Within
<1>7. ASSUME NEW j \in 0..rt.num-1, NEW k \in Int, Within(rt, j, k), j > e PROVE Within(rt2, j + 1, k)
  <2>1. rt2.slot[j + 1] = rt.slot[j]
    <3>1. j + 1 \in 0..rt.num /\ j + 1 # e + 1 /\ j + 1 > e + 1 /\ (j + 1) - 1 = j
      BY <1>1, <1>7
    <3> QED
      BY <1>1, <3>1
  <2>2. (j + 1) + 1 < rt2.num => j + 1 < rt.num /\ rt2.slot[(j + 1) + 1] = rt.slot[j + 1]
    <3> SUFFICES ASSUME (j + 1) + 1 < rt2.num
                 PROVE  j + 1 < rt.num /\ rt2.slot[(j + 1) + 1] = rt.slot[j + 1]
      OBVIOUS
    <3>1. /\ (j + 1) + 1 \in 0..rt.num /\ (j + 1) + 1 # e + 1 /\ (j + 1) + 1 > e + 1
          /\ ((j + 1) + 1) - 1 = j + 1 /\ j + 1 < rt.num
      BY <1>1, <1>7
    <3> QED
      BY <1>1, <3>1
  <2> QED
    BY <1>7, <2>1, <2>2 DEF Within
<1>8. \A j \in 0..rt.num-1 : j < e \/ j = e \/ (j > e /\ ~(j < e))
  BY <1>1
<1> QED
  BY <1>4, <1>5, <1>6, <1>7, <1>8

LEMMA StrictAfter ==
  ASSUME NEW rt, NEW e, NEW y, NEW rt2, EntersAfter(rt, e, y, rt2)
  PROVE  Strict(rt2)
<1>1. /\ rt.num \in Nat /\ e \in 0..rt.num-1 /\ y.key \in Int
      /\ \A i \in 0..rt.num-1 : rt.slot[i].key \in Int
      /\ Strict(rt) /\ Within(rt, e, y.key) /\ rt.slot[e].key < y.key
      /\ rt2.num = rt.num + 1
      /\ \A j \in 0..rt.num : rt2.slot[j] = IF j = e + 1 THEN y
                                            ELSE IF j > e + 1 THEN rt.slot[j - 1] ELSE rt.slot[j]
  BY DEF EntersAfter
<1>2. \A l, m \in 0..rt.num-1 : l < m => rt.slot[l].key < rt.slot[m].key
  BY <1>1 DEF Strict
<1>3. \A m \in 0..e : rt.slot[m].key < y.key
  <2> TAKE m \in 0..e
  <2>1. m \in 0..rt.num-1 /\ (m = e \/ m < e)
    BY <1>1
  <2> QED
    BY <1>1, <1>2, <2>1
<1>4. \A m \in (e + 1)..rt.num-1 : y.key < rt.slot[m].key
  <2> TAKE m \in (e + 1)..rt.num-1
  <2>1. e + 1 < rt.num /\ e + 1 \in 0..rt.num-1 /\ m \in 0..rt.num-1 /\ (m = e + 1 \/ e + 1 < m)
    BY <1>1
  <2>2. y.key < rt.slot[e + 1].key
    BY <1>1, <2>1 DEF Within
  <2> QED
    BY <1>1, <1>2, <2>1, <2>2
<1> SUFFICES ASSUME NEW j \in 0..rt2.num-1, NEW n \in 0..rt2.num-1, j < n
             PROVE  rt2.slot[j].key < rt2.slot[n].key
  BY DEF Strict
<1>5. j \in 0..rt.num /\ n \in 0..rt.num
  BY <1>1
<1>6. CASE n = e + 1
  BY <1>1, <1>3, <1>5, <1>6
<1>7. CASE j = e + 1
  <2>1. n - 1 \in (e + 1)..rt.num-1
    BY <1>1, <1>5, <1>7
  <2> QED
    BY <1>1, <1>4, <1>5, <1>7, <2>1
<1>8. CASE n < e + 1
  BY <1>1, <1>2, <1>5, <1>8
<1>9. CASE j < e + 1 /\ e + 1 < n
  <2>1. j \in 0..e /\ n - 1 \in (e + 1)..rt.num-1 /\ j \in 0..rt.num-1 /\ n - 1 \in 0..rt.num-1
    BY <1>1, <1>5, <1>9
  <2>2. rt.slot[j].key < y.key /\ y.key < rt.slot[n - 1].key
    BY <1>3, <1>4, <2>1
  <2>3. rt2.slot[j] = rt.slot[j] /\ rt2.slot[n] = rt.slot[n - 1]
    BY <1>1, <1>5, <1>9
  <2> QED
    BY <1>1, <2>1, <2>2, <2>3
<1>10. CASE e + 1 < j
  BY <1>1, <1>2, <1>5, <1>10
<1> QED
  BY <1>1, <1>5, <1>6, <1>7, <1>8, <1>9, <1>10

\* Whom the entries serve after that.
LEMMA ServesAfter ==
  ASSUME NEW rt, NEW e, NEW y, NEW rt2, EntersAfter(rt, e, y, rt2), NEW p,
         \A x \in Records(p) : x.key \in Int
  PROVE  /\ \A h : EntryOf(rt, e, h) /\ (\A x \in Records(p) : Within(rt, e, x.key) /\ x.key < y.key)
                     => Serves(rt2, e, p, h)
         /\ (\A x \in Records(p) : Within(rt, e, x.key) /\ y.key <= x.key) => Serves(rt2, e + 1, p, y.ref)
         /\ \A j, h : Serves(rt, j, p, h) /\ j # e => \E i : Serves(rt2, i, p, h)
<1>1. /\ rt.num \in Nat /\ e \in 0..rt.num-1
      /\ rt2.num = rt.num + 1
      /\ \A j \in 0..rt.num : rt2.slot[j] = IF j = e + 1 THEN y
                                            ELSE IF j > e + 1 THEN rt.slot[j - 1] ELSE rt.slot[j]
  BY DEF EntersAfter
<1>2. /\ \A k \in Int : Within(rt, e, k) /\ k < y.key => Within(rt2, e, k)
      /\ \A k \in Int : Within(rt, e, k) /\ y.key <= k => Within(rt2, e + 1, k)
      /\ \A j \in 0..rt.num-1, k \in Int : Within(rt, j, k) /\ j # e =>
           Within(rt2, IF j < e THEN j ELSE j + 1, k)
  BY WithinAfter
<1>3. \A h : EntryOf(rt, e, h) => EntryOf(rt2, e, h)
  BY <1>1 DEF EntryOf
<1>4. EntryOf(rt2, e + 1, y.ref)
  BY <1>1 DEF EntryOf
<1>5. ASSUME NEW j, NEW h, Serves(rt, j, p, h), j # e PROVE \E i : Serves(rt2, i, p, h)
  <2>1. j \in 0..rt.num-1 /\ rt.slot[j].ref = h /\ \A x \in Records(p) : Within(rt, j, x.key)
    BY <1>5 DEF Serves, EntryOf
  <2>2. PICK i : i = IF j < e THEN j ELSE j + 1
    OBVIOUS
  <2>3. i \in 0..rt2.num-1 /\ rt2.slot[i] = rt.slot[j]
    <3>1. i \in 0..rt.num /\ i # e + 1 /\ (i > e + 1 => i - 1 = j) /\ (~(i > e + 1) => i = j)
      BY <1>1, <1>5, <2>1, <2>2
    <3> QED
      BY <1>1, <3>1
  <2>4. \A x \in Records(p) : Within(rt2, i, x.key)
    BY <1>2, <1>5, <2>1, <2>2
  <2>5. Serves(rt2, i, p, h)
    BY <2>1, <2>3, <2>4 DEF Serves, EntryOf
  <2> QED
    BY <2>5
<1> QED
  BY <1>2, <1>3, <1>4, <1>5 DEF Serves

-----------------------------------------------------------------------------
(* The leaf that gains or loses a record, and the order of the leaf file.  *)

LEMMA GainedLeaf ==
  ASSUME NEW B, NEW p \in LeafPage(B), p.num < LeafSize, NEW x, x.key \in Int, NEW q,
         Gains(p, x, q), Sorted(p)
  PROVE  /\ q.num = p.num + 1 /\ p.num \in Nat /\ Sorted(q) /\ Records(q) = Records(p) \cup {x}
         /\ Distinct(p) /\ x \notin Records(p) => Distinct(q)
         /\ p.num > 0 /\ ~(first_key(p) > x.key) => first_key(q) = first_key(p)
<1>1. PICK i : i = find_slot_before(p, x.key) + 1 /\ Inserts(p, i, x, q)
  BY DEF Gains
<1>2. LeafSize \in Nat \ {0} /\ p \in FullPage(LeafSize, Rid, B \cup {None})
  BY Sizes DEF LeafPage
<1>3. PICK k \in Int : k = x.key
  OBVIOUS
<1>4. Around(p, i, x.key)
  BY <1>1, <1>2, <1>3, PlaceSorted
<1>5. Sorted(q)
  BY <1>1, <1>4, InsertedSorted
<1>6. /\ q.num = p.num + 1 /\ p.num \in Nat
      /\ \A j \in 0..p.num : q.slot[j] = IF j = i THEN x ELSE IF j > i THEN p.slot[j - 1] ELSE p.slot[j]
  BY <1>1 DEF Inserts
<1>7. /\ i \in 0..p.num
      /\ \A j \in 0..i-1 : p.slot[j].key < x.key
      /\ i < p.num => p.slot[i].key >= x.key
  BY <1>1, <1>2, <1>3, PlaceFound
<1>8. ASSUME p.num > 0, ~(first_key(p) > x.key) PROVE first_key(q) = first_key(p)
  <2>1. p.slot[0].key \in Int /\ ~(p.slot[0].key > x.key)
    <3>1. 0 \in 0..LeafSize-1
      BY <1>2
    <3> QED
      BY <1>2, <1>8, <3>1, PageFields, Sizes DEF first_key
  <2>2. CASE i = 0
    <3>1. q.slot[0] = x /\ p.slot[0].key >= x.key
      BY <1>6, <1>7, <1>8, <2>2
    <3> QED
      BY <2>1, <3>1 DEF first_key
  <2>3. CASE i # 0
    <3>1. q.slot[0] = p.slot[0]
      BY <1>6, <1>7, <2>3
    <3> QED
      BY <3>1 DEF first_key
  <2> QED
    BY <2>2, <2>3
<1>9. Records(q) = Records(p) \cup {x} /\ (Distinct(p) /\ x \notin Records(p) => Distinct(q))
  BY <1>1, InsertedRecords
<1> QED
  BY <1>5, <1>6, <1>8, <1>9

\* Sorted leaves begin with their smallest key; one key at both ends is the only one.
LEMMA FirstIsLeast ==
  ASSUME NEW p, p.num \in Nat, Sorted(p), \A j \in 0..p.num-1 : p.slot[j].key \in Int
  PROVE  /\ \A x \in Records(p) : first_key(p) <= x.key
         /\ p.num > 0 /\ one_key(p) => \A x \in Records(p) : x.key = first_key(p)
<1>1. \A j \in 0..p.num-1 : first_key(p) <= p.slot[j].key
  <2> TAKE j \in 0..p.num-1
  <2>1. 0 \in 0..p.num-1 /\ (j = 0 \/ 0 < j)
    OBVIOUS
  <2> QED
    BY <2>1 DEF Sorted, first_key
<1>2. \A j \in 0..p.num-1 : p.slot[j].key <= last_key(p)
  <2> TAKE j \in 0..p.num-1
  <2>1. p.num - 1 \in 0..p.num-1 /\ (j = p.num - 1 \/ j < p.num - 1)
    OBVIOUS
  <2> QED
    BY <2>1 DEF Sorted, last_key
<1>3. p.num > 0 => first_key(p) \in Int
  BY DEF first_key
<1> QED
  BY <1>1, <1>2, <1>3 DEF Records, one_key

\* The parts of the invariant for one block.
LEMMA BlockFacts ==
  ASSUME NEW rt, NEW lf, NEW head, Sound(rt, lf, head), NEW b \in DOMAIN lf
  PROVE  /\ lf[b] \in LeafPage(DOMAIN lf) /\ lf[b].num < LeafSize /\ lf[b].num \in Nat
         /\ lf[b].flag \in DOMAIN lf \cup {None} /\ first_key(lf[b]) \in Int
         /\ \A j \in 0..lf[b].num-1 : lf[b].slot[j].key \in Int
         /\ \A x \in Records(lf[b]) : x.key \in Int
         /\ head[b] \in DOMAIN lf /\ Sorted(lf[b])
         /\ \A i : EntryOf(rt, i, b) => head[b] = b
         /\ \E i : Serves(rt, i, lf[b], head[b])
         /\ lf[b].flag # None => head[lf[b].flag] = head[b] /\ lf[b].num > 0
         /\ head[b] # b => /\ lf[b].flag < b
                           /\ lf[head[b]].flag # None
                           /\ OneKeyOf(lf[b], lf[head[b]])
<1>1. LeafFile(lf) /\ HeadsRight(rt, lf, head) /\ Sorted(lf[b])
  BY DEF Sound, Ordered
<1>2. lf[b] \in LeafPage(DOMAIN lf) /\ lf[b].num < LeafSize
  BY <1>1 DEF LeafFile
<1>3. /\ lf[b].num \in Nat /\ lf[b].flag \in DOMAIN lf \cup {None}
      /\ first_key(lf[b]) \in Int /\ \A j \in 0..lf[b].num-1 : lf[b].slot[j].key \in Int
      /\ \A x \in Records(lf[b]) : x.key \in Int
  BY <1>1, LeafKeys
<1> QED
  BY <1>1, <1>2, <1>3 DEF HeadsRight

\* Each block has one entry that its chain begins at.
LEMMA ServedOnce ==
  ASSUME NEW rt, NEW lf, NEW head, Sound(rt, lf, head), NEW b \in DOMAIN lf,
         NEW e, EntryOf(rt, e, head[b])
  PROVE  Serves(rt, e, lf[b], head[b])
<1>1. PICK i : Serves(rt, i, lf[b], head[b])
  BY BlockFacts
<1>2. head[b] \in DOMAIN lf /\ OneOwner(rt, lf)
  BY BlockFacts DEF Sound
<1>3. i = e
  BY <1>1, <1>2 DEF Serves, OneOwner, EntryOnce
<1> QED
  BY <1>1, <1>3

\* What changes in a leaf when no block is added.
Change(rt, lf, head, b, p) ==
  /\ p.flag = lf[b].flag /\ Sorted(p)
  /\ p.flag # None => p.num > 0
  /\ lf[b].flag # None \/ head[b] # b => first_key(p) = first_key(lf[b])
  /\ head[b] # b => Records(p) \subseteq Records(lf[b])
  /\ \A x \in Records(p) : x \in Records(lf[b]) \/ \E e : EntryOf(rt, e, b) /\ Within(rt, e, x.key)

LEMMA OrderOfAltered ==
  ASSUME NEW rt, NEW lf, NEW head, Sound(rt, lf, head), NEW lf2, NEW b, NEW p,
         Altered(lf, b, p, lf2), Change(rt, lf, head, b, p)
  PROVE  Ordered(rt, lf2, head)
<1>1. /\ b \in DOMAIN lf /\ DOMAIN lf2 = DOMAIN lf
      /\ \A c \in DOMAIN lf : lf2[c] = IF c = b THEN p ELSE lf[c]
  BY DEF Altered
<1>2. Strict(rt) /\ HeadsRight(rt, lf, head) /\ OneOwner(rt, lf)
  BY DEF Sound, Ordered
<1>3. head \in [DOMAIN lf2 -> DOMAIN lf2] /\ \A c \in DOMAIN lf2 : \A i : EntryOf(rt, i, c) => head[c] = c
  BY <1>1, <1>2 DEF HeadsRight
<1>4. ASSUME NEW c \in DOMAIN lf2 PROVE Sorted(lf2[c])
  BY <1>1, BlockFacts DEF Change
<1>5. ASSUME NEW c \in DOMAIN lf2 PROVE \E i : Serves(rt, i, lf2[c], head[c])
  <2>1. PICK i : Serves(rt, i, lf[c], head[c])
    BY <1>1, BlockFacts
  <2>2. CASE c # b
    BY <1>1, <2>1, <2>2
  <2>3. CASE c = b
    <3>1. ASSUME NEW x \in Records(p) PROVE Within(rt, i, x.key)
      <4>1. CASE x \in Records(lf[b])
        BY <2>1, <2>3, <4>1 DEF Serves
      <4>2. CASE \E e : EntryOf(rt, e, b) /\ Within(rt, e, x.key)
        <5>1. PICK e : EntryOf(rt, e, b) /\ Within(rt, e, x.key)
          BY <4>2
        <5>2. head[b] = b
          BY <1>1, <5>1, BlockFacts
        <5>3. i = e
          BY <1>1, <1>2, <2>1, <2>3, <5>1, <5>2 DEF OneOwner, EntryOnce, Serves
        <5> QED
          BY <5>1, <5>3
      <4> QED
        BY <4>1, <4>2 DEF Change
    <3> QED
      BY <1>1, <2>1, <2>3, <3>1 DEF Serves
  <2> QED
    BY <2>2, <2>3
<1>6. ASSUME NEW c \in DOMAIN lf2, lf2[c].flag # None PROVE head[lf2[c].flag] = head[c] /\ lf2[c].num > 0
  BY <1>1, <1>6, BlockFacts DEF Change
<1>7. ASSUME NEW c \in DOMAIN lf2, head[c] # c
      PROVE  lf2[c].flag < c /\ lf2[head[c]].flag # None /\ OneKeyOf(lf2[c], lf2[head[c]])
  <2>1. /\ lf[c].flag < c /\ lf[head[c]].flag # None /\ OneKeyOf(lf[c], lf[head[c]])
        /\ head[c] \in DOMAIN lf
    BY <1>1, <1>7, BlockFacts
  <2>2. lf2[c].flag = lf[c].flag /\ lf2[head[c]].flag = lf[head[c]].flag
    BY <1>1, <2>1 DEF Change
  <2>3. first_key(lf2[head[c]]) = first_key(lf[head[c]])
    BY <1>1, <2>1 DEF Change
  <2>4. first_key(lf2[c]) = first_key(lf[c]) /\ Records(lf2[c]) \subseteq Records(lf[c])
    BY <1>1, <1>7 DEF Change
  <2> QED
    BY <2>1, <2>2, <2>3, <2>4 DEF OneKeyOf
<1> QED
  BY <1>2, <1>3, <1>4, <1>5, <1>6, <1>7 DEF Ordered, HeadsRight

-----------------------------------------------------------------------------
(* The order after each kind of insertion.                                 *)

\* Record x is for block b, which entry e of the directory leads to.
Insertion(rt, lf, head, e, b, x) ==
  /\ Sound(rt, lf, head) /\ b \in DOMAIN lf /\ EntryOf(rt, e, b)
  /\ x.key \in Int /\ Within(rt, e, x.key)

LEMMA InsertedLeaf ==
  ASSUME NEW rt, NEW lf, NEW head, NEW e, NEW b, NEW x, Insertion(rt, lf, head, e, b, x),
         NEW p, Gains(lf[b], x, p), ~goes_before(lf[b], x.key)
  PROVE  /\ p.num = lf[b].num + 1 /\ p.num \in Nat /\ Sorted(p)
         /\ Records(p) = Records(lf[b]) \cup {x}
         /\ \A y \in Records(p) : y.key \in Int /\ Within(rt, e, y.key)
         /\ \A j \in 0..p.num-1 : p.slot[j].key \in Int
         /\ lf[b].flag # None => first_key(p) = first_key(lf[b])
         /\ head[b] = b /\ Serves(rt, e, lf[b], b)
<1>1. /\ lf[b] \in LeafPage(DOMAIN lf) /\ lf[b].num < LeafSize /\ Sorted(lf[b])
      /\ \A y \in Records(lf[b]) : y.key \in Int
      /\ lf[b].flag # None => lf[b].num > 0
      /\ head[b] = b /\ x.key \in Int /\ Within(rt, e, x.key)
  BY BlockFacts DEF Insertion
<1>2. /\ p.num = lf[b].num + 1 /\ lf[b].num \in Nat /\ Sorted(p) /\ Records(p) = Records(lf[b]) \cup {x}
      /\ lf[b].num > 0 /\ ~(first_key(lf[b]) > x.key) => first_key(p) = first_key(lf[b])
  BY <1>1, GainedLeaf
<1>3. lf[b].flag # None => first_key(p) = first_key(lf[b])
  BY <1>1, <1>2 DEF goes_before
<1>4. Serves(rt, e, lf[b], b)
  BY <1>1, ServedOnce DEF Insertion
<1>5. \A y \in Records(p) : y.key \in Int /\ Within(rt, e, y.key)
  BY <1>1, <1>2, <1>4 DEF Serves
<1>6. \A j \in 0..p.num-1 : p.slot[j].key \in Int
  BY <1>5 DEF Records
<1> QED
  BY <1>1, <1>2, <1>3, <1>4, <1>5, <1>6

LEMMA OrderOfFitting ==
  ASSUME NEW rt, NEW lf, NEW head, NEW e, NEW b, NEW x, Insertion(rt, lf, head, e, b, x),
         NEW lf2, FittingMakes(lf, b, x, lf2)
  PROVE  Ordered(rt, lf2, head)
<1>1. PICK p : /\ Altered(lf, b, p, lf2) /\ ~goes_before(lf[b], x.key)
               /\ p.flag = lf[b].flag /\ Gains(lf[b], x, p)
  BY DEF FittingMakes
<1>2. /\ p.num = lf[b].num + 1 /\ p.num \in Nat /\ Sorted(p)
      /\ Records(p) = Records(lf[b]) \cup {x}
      /\ \A y \in Records(p) : y.key \in Int /\ Within(rt, e, y.key)
      /\ lf[b].flag # None => first_key(p) = first_key(lf[b])
      /\ head[b] = b
  BY <1>1, InsertedLeaf
<1>3. lf[b].num \in Nat
  BY BlockFacts DEF Insertion
<1>4. EntryOf(rt, e, b) /\ Sound(rt, lf, head)
  BY DEF Insertion
<1>5. Change(rt, lf, head, b, p)
  BY <1>1, <1>2, <1>3, <1>4 DEF Change
<1> QED
  BY <1>1, <1>4, <1>5, OrderOfAltered

LEMMA OrderOfOverflow ==
  ASSUME NEW rt, NEW lf, NEW head, NEW e, NEW b, NEW x, Insertion(rt, lf, head, e, b, x),
         NEW lf2, OverflowMakes(lf, b, x, lf2)
  PROVE  \E head2 : Ordered(rt, lf2, head2)
<1>1. PICK p, p1, p2 :
        /\ Grown(lf, b, p1, p2, lf2) /\ ~goes_before(lf[b], x.key)
        /\ Gains(lf[b], x, p) /\ p.num > 1 /\ one_key(p)
        /\ p1.flag = Len(lf) + 1 /\ Part(p, 0, 1, p1)
        /\ p2.flag = lf[b].flag /\ Part(p, 1, p.num, p2)
  BY DEF OverflowMakes
<1>2. PICK new : new = Len(lf) + 1
  OBVIOUS
<1>3. /\ b \in DOMAIN lf /\ DOMAIN lf2 = DOMAIN lf \cup {new} /\ new \notin DOMAIN lf
      /\ \A c \in DOMAIN lf : lf2[c] = IF c = b THEN p1 ELSE lf[c]
      /\ lf2[new] = p2
  BY <1>1, <1>2 DEF Grown
<1>4. /\ p.num = lf[b].num + 1 /\ p.num \in Nat /\ Sorted(p)
      /\ \A y \in Records(p) : y.key \in Int /\ Within(rt, e, y.key)
      /\ \A j \in 0..p.num-1 : p.slot[j].key \in Int
      /\ lf[b].flag # None => first_key(p) = first_key(lf[b])
      /\ head[b] = b
  BY <1>1, InsertedLeaf
<1>5. Sound(rt, lf, head) /\ EntryOf(rt, e, b)
  BY DEF Insertion
<1>6. /\ LeafFile(lf) /\ Strict(rt) /\ rt \in RootPage(DOMAIN lf) /\ rt.num < DirSize
      /\ head \in [DOMAIN lf -> DOMAIN lf]
  BY <1>5 DEF Sound, Ordered, HeadsRight
<1>7. new # None /\ \A c \in DOMAIN lf : c < new /\ lf[c].flag # new
  <2>1. Len(lf) \in Nat /\ DOMAIN lf = 1..Len(lf)
    BY <1>6 DEF LeafFile
  <2>2. new # None /\ \A c \in DOMAIN lf : lf[c].flag \in DOMAIN lf \cup {None}
    BY <1>2, <1>6, LeafFlags DEF FlagsIn
  <2>3. \A c \in DOMAIN lf : c < new
    BY <1>2, <2>1
  <2> QED
    BY <1>3, <2>2, <2>3
<1>8. /\ Records(p1) \subseteq Records(p) /\ Sorted(p1) /\ p1.num = 1
      /\ Records(p2) \subseteq Records(p) /\ Sorted(p2) /\ p2.num = p.num - 1
      /\ p1.slot[0] = p.slot[0] /\ p2.slot[0] = p.slot[1]
  <2>1. Records(p1) \subseteq Records(p) /\ Sorted(p1) /\ Records(p2) \subseteq Records(p) /\ Sorted(p2)
    BY <1>1, <1>4, PartRecords
  <2>2. p1.num = 1 - 0 /\ \A j \in 0..1-0-1 : p1.slot[j] = p.slot[0 + j]
    BY <1>1 DEF Part
  <2>3. p2.num = p.num - 1 /\ \A j \in 0..p.num-1-1 : p2.slot[j] = p.slot[1 + j]
    BY <1>1 DEF Part
  <2>4. 0 \in 0..1-0-1 /\ 0 \in 0..p.num-1-1
    BY <1>1, <1>4
  <2> QED
    BY <2>1, <2>2, <2>3, <2>4
<1>9. \A y \in Records(p) : y.key = first_key(p)
  BY <1>1, <1>4, FirstIsLeast
<1>10. first_key(p1) = first_key(p) /\ OneKeyOf(p2, p1)
  <2>1. p.slot[1] \in Records(p)
    <3>1. 1 \in 0..p.num-1
      BY <1>1, <1>4
    <3> QED
      BY <3>1 DEF Records
  <2>2. first_key(p1) = first_key(p) /\ first_key(p2) = first_key(p)
    BY <1>8, <1>9, <2>1 DEF first_key
  <2> QED
    BY <1>8, <1>9, <2>2 DEF OneKeyOf
<1>11. PICK head2 : head2 = [c \in DOMAIN lf2 |-> IF c = new THEN b ELSE head[c]]
  OBVIOUS
<1>12. /\ head2 \in [DOMAIN lf2 -> DOMAIN lf2] /\ head2[new] = b
       /\ \A c \in DOMAIN lf : head2[c] = head[c] /\ head[c] \in DOMAIN lf
  BY <1>3, <1>6, <1>11
<1>13. ASSUME NEW c \in DOMAIN lf2, NEW i, EntryOf(rt, i, c) PROVE head2[c] = c
  <2>1. c \in DOMAIN lf
    BY <1>6, <1>13, RootKeys DEF EntryOf
  <2> QED
    BY <1>5, <1>12, <1>13, <2>1, BlockFacts
<1>14. ASSUME NEW c \in DOMAIN lf2 PROVE \E i : Serves(rt, i, lf2[c], head2[c])
  <2>1. CASE c = new
    BY <1>3, <1>4, <1>5, <1>8, <1>12, <2>1 DEF Serves
  <2>2. CASE c = b
    BY <1>3, <1>4, <1>5, <1>8, <1>12, <2>2 DEF Serves
  <2>3. CASE c # new /\ c # b
    BY <1>3, <1>5, <1>12, <2>3, BlockFacts
  <2> QED
    BY <2>1, <2>2, <2>3
<1>15. ASSUME NEW c \in DOMAIN lf2, lf2[c].flag # None
       PROVE  head2[lf2[c].flag] = head2[c] /\ lf2[c].num > 0
  <2>1. CASE c = new
    <3>1. p2.flag # None
      BY <1>3, <1>15, <2>1
    <3>2. lf[b].flag \in DOMAIN lf /\ head[lf[b].flag] = head[b]
      BY <1>1, <1>3, <1>5, <3>1, BlockFacts
    <3> QED
      BY <1>1, <1>3, <1>4, <1>8, <1>12, <2>1, <3>2
  <2>2. CASE c = b
    <3>1. lf2[c].flag = new /\ lf2[c].num = 1
      BY <1>1, <1>2, <1>3, <1>8, <2>2
    <3> QED
      BY <1>3, <1>4, <1>12, <2>2, <3>1
  <2>3. CASE c # new /\ c # b
    <3>1. c \in DOMAIN lf /\ lf2[c] = lf[c]
      BY <1>3, <2>3
    <3>2. lf[c].flag \in DOMAIN lf /\ head[lf[c].flag] = head[c] /\ lf[c].num > 0
      BY <1>5, <1>15, <3>1, BlockFacts
    <3> QED
      BY <1>12, <3>1, <3>2
  <2> QED
    BY <2>1, <2>2, <2>3
<1>16. ASSUME NEW c \in DOMAIN lf2, head2[c] # c
       PROVE  lf2[c].flag < c /\ lf2[head2[c]].flag # None /\ OneKeyOf(lf2[c], lf2[head2[c]])
  <2>1. CASE c = new
    <3>1. lf2[c].flag < c
      <4>1. lf[b].flag \in DOMAIN lf \cup {None} /\ None < new
        <5>1. None < new
          BY <1>2, <1>6, Sizes DEF LeafFile
        <5> QED
          BY <1>3, <1>5, <5>1, BlockFacts
      <4> QED
        BY <1>1, <1>3, <1>7, <2>1, <4>1
    <3>2. lf2[b] = p1 /\ p1.flag # None
      BY <1>1, <1>2, <1>3, <1>7
    <3> QED
      BY <1>3, <1>10, <1>12, <2>1, <3>1, <3>2
  <2>2. CASE c # new
    <3>1. c \in DOMAIN lf /\ head[c] # c /\ c # b
      BY <1>3, <1>4, <1>12, <1>16, <2>2
    <3>2. /\ lf[c].flag < c /\ lf[head[c]].flag # None /\ OneKeyOf(lf[c], lf[head[c]])
          /\ head[c] \in DOMAIN lf
      BY <1>5, <3>1, BlockFacts
    <3>3. lf2[c] = lf[c] /\ head2[c] = head[c]
      BY <1>3, <1>12, <3>1
    <3>4. CASE head[c] = b
      <4>1. lf2[head[c]] = p1 /\ p1.flag # None /\ first_key(p1) = first_key(lf[b])
        BY <1>1, <1>2, <1>3, <1>4, <1>7, <1>10, <3>2, <3>4
      <4> QED
        BY <3>2, <3>3, <3>4, <4>1 DEF OneKeyOf
    <3>5. CASE head[c] # b
      BY <1>3, <3>2, <3>3, <3>5
    <3> QED
      BY <3>4, <3>5
  <2> QED
    BY <2>1, <2>2
<1>17. ASSUME NEW c \in DOMAIN lf2 PROVE Sorted(lf2[c])
  BY <1>3, <1>5, <1>8, BlockFacts
<1>18. Ordered(rt, lf2, head2)
  BY <1>6, <1>12, <1>13, <1>14, <1>15, <1>16, <1>17 DEF Ordered, HeadsRight
<1> QED
  BY <1>18

\* A new entry, for some of the keys of entry e, in the directory.
LEMMA NewEntry ==
  ASSUME NEW rt, NEW lf, NEW head, NEW e, NEW b, NEW x, Insertion(rt, lf, head, e, b, x),
         NEW y, y.key \in Int, y.ref = Len(lf) + 1, Within(rt, e, y.key), rt.slot[e].key < y.key,
         NEW rt2, Gains(rt, y, rt2)
  PROVE  /\ EntersAfter(rt, e, y, rt2) /\ Strict(rt2)
         /\ \A c \in DOMAIN lf : \A i : EntryOf(rt2, i, c) => head[c] = c
<1>1. /\ rt \in RootPage(DOMAIN lf) /\ rt.num < DirSize /\ Strict(rt) /\ LeafFile(lf)
      /\ Sound(rt, lf, head) /\ e \in 0..rt.num-1
  BY DEF Insertion, Sound, Ordered, EntryOf
<1>2. EntersAfter(rt, e, y, rt2)
  BY <1>1, EnteredAfter
<1>3. Strict(rt2)
  BY <1>2, StrictAfter
<1>4. ASSUME NEW c \in DOMAIN lf, NEW i, EntryOf(rt2, i, c) PROVE head[c] = c
  <2>1. Inserts(rt, e + 1, y, rt2)
    <3>1. /\ rt.num \in Nat /\ rt2.num = rt.num + 1
          /\ \A j \in 0..rt.num : rt2.slot[j] = IF j = e + 1 THEN y
                                                ELSE IF j > e + 1 THEN rt.slot[j - 1] ELSE rt.slot[j]
      BY <1>2 DEF EntersAfter
    <3>2. e + 1 \in 0..rt.num
      BY <1>1, <3>1
    <3> QED
      BY <3>1, <3>2 DEF Inserts
  <2>2. RefsIn(rt, DOMAIN lf)
    BY <1>1, RootKeys DEF RefsIn
  <2>3. y.ref \notin DOMAIN lf
    BY <1>1, LeafFlags
  <2>4. HasEntry(rt, c)
    BY <1>4, <2>1, <2>2, <2>3, EntriesKept DEF HasEntry
  <2> QED
    BY <1>1, <2>4, BlockFacts DEF HasEntry
<1> QED
  BY <1>2, <1>3, <1>4

LEMMA OrderOfSplit ==
  ASSUME NEW rt, NEW lf, NEW head, NEW e, NEW b, NEW x, Insertion(rt, lf, head, e, b, x),
         NEW y, y.ref = Len(lf) + 1, NEW rt2, Gains(rt, y, rt2),
         NEW lf2, SplitMakes(lf, b, x, lf2, y.key)
  PROVE  \E head2 : Ordered(rt2, lf2, head2)
<1>1. PICK p, p1, p2, n :
        /\ Grown(lf, b, p1, p2, lf2) /\ ~goes_before(lf[b], x.key)
        /\ Gains(lf[b], x, p) /\ SplitsAt(p, n) /\ y.key = p.slot[n].key
        /\ p1.flag = lf[b].flag /\ Part(p, 0, n, p1)
        /\ p2.flag = None /\ Part(p, n, p.num, p2)
  BY DEF SplitMakes
<1>2. PICK new : new = y.ref
  OBVIOUS
<1>3. /\ b \in DOMAIN lf /\ DOMAIN lf2 = DOMAIN lf \cup {new} /\ new \notin DOMAIN lf
      /\ \A c \in DOMAIN lf : lf2[c] = IF c = b THEN p1 ELSE lf[c]
      /\ lf2[new] = p2
  BY <1>1, <1>2 DEF Grown
<1>4. /\ p.num \in Nat /\ Sorted(p)
      /\ \A z \in Records(p) : z.key \in Int /\ Within(rt, e, z.key)
      /\ \A j \in 0..p.num-1 : p.slot[j].key \in Int
      /\ lf[b].flag # None => first_key(p) = first_key(lf[b])
      /\ head[b] = b
  BY <1>1, InsertedLeaf
<1>5. Sound(rt, lf, head) /\ EntryOf(rt, e, b)
  BY DEF Insertion
<1>6. /\ LeafFile(lf) /\ rt \in RootPage(DOMAIN lf) /\ rt.num < DirSize
      /\ head \in [DOMAIN lf -> DOMAIN lf]
  BY <1>5 DEF Sound, Ordered, HeadsRight
<1>7. n \in 1..p.num-1 /\ \A j \in 0..n-1 : p.slot[j].key < y.key
  BY <1>1, <1>4 DEF SplitsAt
<1>8. /\ Records(p1) = {p.slot[j] : j \in 0..n-1} /\ Sorted(p1) /\ p1.num = n
      /\ Records(p2) = {p.slot[j] : j \in n..p.num-1} /\ Sorted(p2)
      /\ Records(p1) \subseteq Records(p) /\ Records(p2) \subseteq Records(p)
      /\ p1.slot[0] = p.slot[0]
  <2>1. /\ Records(p1) = {p.slot[j] : j \in 0..n-1} /\ Sorted(p1)
        /\ Records(p2) = {p.slot[j] : j \in n..p.num-1} /\ Sorted(p2)
        /\ Records(p1) \subseteq Records(p) /\ Records(p2) \subseteq Records(p)
    BY <1>1, <1>4, PartRecords
  <2>2. p1.num = n - 0 /\ \A j \in 0..n-0-1 : p1.slot[j] = p.slot[0 + j]
    BY <1>1 DEF Part
  <2>3. 0 \in 0..n-0-1 /\ n - 0 = n
    BY <1>7
  <2> QED
    BY <2>1, <2>2, <2>3
<1>9. y.key \in Int /\ Within(rt, e, y.key) /\ rt.slot[e].key < y.key
  <2>1. n \in 0..p.num-1 /\ 0 \in 0..p.num-1 /\ 0 \in 0..n-1
    BY <1>4, <1>7
  <2>2. p.slot[n] \in Records(p) /\ p.slot[0] \in Records(p) /\ p.slot[0].key < y.key
    BY <1>7, <2>1 DEF Records
  <2>3. y.key \in Int /\ Within(rt, e, y.key) /\ Within(rt, e, p.slot[0].key) /\ p.slot[0].key \in Int
    BY <1>1, <1>4, <2>2
  <2>4. rt.slot[e].key \in Int
    BY <1>5, <1>6, RootKeys DEF EntryOf
  <2> QED
    BY <2>2, <2>3, <2>4 DEF Within
<1>10. \A z \in Records(p1) : z.key \in Int /\ Within(rt, e, z.key) /\ z.key < y.key
  BY <1>4, <1>7, <1>8
<1>11. \A z \in Records(p2) : z.key \in Int /\ Within(rt, e, z.key) /\ y.key <= z.key
  <2> TAKE z \in Records(p2)
  <2>1. PICK j \in n..p.num-1 : z = p.slot[j]
    BY <1>8
  <2>2. n \in 0..p.num-1 /\ j \in 0..p.num-1 /\ (j = n \/ n < j)
    BY <1>4, <1>7
  <2>3. y.key <= z.key
    BY <1>1, <1>4, <2>1, <2>2 DEF Sorted
  <2> QED
    BY <1>4, <1>8, <2>3
<1>12. /\ EntersAfter(rt, e, y, rt2) /\ Strict(rt2)
       /\ \A c \in DOMAIN lf : \A i : EntryOf(rt2, i, c) => head[c] = c
  BY <1>9, NewEntry
<1>13. PICK head2 : head2 = [c \in DOMAIN lf2 |-> IF c = new THEN new ELSE head[c]]
  OBVIOUS
<1>14. /\ head2 \in [DOMAIN lf2 -> DOMAIN lf2] /\ head2[new] = new
       /\ \A c \in DOMAIN lf : head2[c] = head[c] /\ head[c] \in DOMAIN lf /\ c # new
  BY <1>3, <1>6, <1>13
<1>15. ASSUME NEW c \in DOMAIN lf2, NEW i, EntryOf(rt2, i, c) PROVE head2[c] = c
  BY <1>3, <1>12, <1>14, <1>15
<1>16. first_key(p1) = first_key(p)
  BY <1>8 DEF first_key
<1>17. ASSUME NEW c \in DOMAIN lf2 PROVE \E i : Serves(rt2, i, lf2[c], head2[c])
  <2>1. CASE c = new
    <3>1. Serves(rt2, e + 1, p2, new)
      BY <1>2, <1>11, <1>12, ServesAfter
    <3> QED
      BY <1>3, <1>14, <2>1, <3>1
  <2>2. CASE c = b
    <3>1. Serves(rt2, e, p1, b)
      BY <1>5, <1>10, <1>12, ServesAfter
    <3> QED
      BY <1>3, <1>4, <1>14, <2>2, <3>1
  <2>3. CASE c # new /\ c # b
    <3>1. c \in DOMAIN lf /\ lf2[c] = lf[c] /\ head2[c] = head[c]
      BY <1>3, <1>14, <2>3
    <3>2. \A z \in Records(lf[c]) : z.key \in Int
      BY <1>5, <3>1, BlockFacts
    <3>3. CASE head[c] = b
      <4>1. Serves(rt, e, lf[c], b)
        BY <1>5, <3>1, <3>3, ServedOnce
      <4>2. OneKeyOf(lf[c], lf[b]) /\ lf[b].flag # None
        BY <1>5, <2>3, <3>1, <3>3, BlockFacts
      <4>3. first_key(p) < y.key
        <5>1. 0 \in 0..n-1
          BY <1>7
        <5> QED
          BY <1>7, <5>1 DEF first_key
      <4>4. \A z \in Records(lf[c]) : Within(rt, e, z.key) /\ z.key < y.key
        BY <1>4, <4>1, <4>2, <4>3 DEF OneKeyOf, Serves
      <4>5. Serves(rt2, e, lf[c], b)
        BY <1>5, <1>12, <3>2, <4>4, ServesAfter
      <4> QED
        BY <3>1, <3>3, <4>5
    <3>4. CASE head[c] # b
      <4>1. PICK j : Serves(rt, j, lf[c], head[c])
        BY <1>5, <3>1, BlockFacts
      <4>2. j # e
        BY <1>5, <3>4, <4>1 DEF Serves, EntryOf
      <4>3. \E i : Serves(rt2, i, lf[c], head[c])
        BY <1>12, <3>2, <4>1, <4>2, ServesAfter
      <4> QED
        BY <3>1, <4>3
    <3> QED
      BY <3>3, <3>4
  <2> QED
    BY <2>1, <2>2, <2>3
<1>18. ASSUME NEW c \in DOMAIN lf2, lf2[c].flag # None
       PROVE  head2[lf2[c].flag] = head2[c] /\ lf2[c].num > 0
  <2>1. c # new
    BY <1>1, <1>3, <1>18
  <2>2. c \in DOMAIN lf /\ lf2[c].flag = lf[c].flag
    BY <1>1, <1>3, <2>1
  <2>3. lf[c].flag \in DOMAIN lf /\ head[lf[c].flag] = head[c] /\ lf[c].num > 0
    BY <1>5, <1>18, <2>2, BlockFacts
  <2>4. lf2[c].num > 0
    BY <1>3, <1>7, <1>8, <2>2, <2>3
  <2> QED
    BY <1>14, <2>2, <2>3, <2>4
<1>19. ASSUME NEW c \in DOMAIN lf2, head2[c] # c
       PROVE  lf2[c].flag < c /\ lf2[head2[c]].flag # None /\ OneKeyOf(lf2[c], lf2[head2[c]])
  <2>1. c \in DOMAIN lf /\ head[c] # c /\ c # b /\ head2[c] = head[c] /\ lf2[c] = lf[c]
    BY <1>3, <1>4, <1>14, <1>19
  <2>2. /\ lf[c].flag < c /\ lf[head[c]].flag # None /\ OneKeyOf(lf[c], lf[head[c]])
        /\ head[c] \in DOMAIN lf
    BY <1>5, <2>1, BlockFacts
  <2>3. CASE head[c] = b
    <3>1. lf2[b] = p1 /\ p1.flag # None /\ first_key(p1) = first_key(lf[b])
      BY <1>1, <1>3, <1>4, <1>16, <2>2, <2>3
    <3> QED
      BY <2>1, <2>2, <2>3, <3>1 DEF OneKeyOf
  <2>4. CASE head[c] # b
    BY <1>3, <2>1, <2>2, <2>4
  <2> QED
    BY <2>3, <2>4
<1>20. ASSUME NEW c \in DOMAIN lf2 PROVE Sorted(lf2[c])
  BY <1>3, <1>5, <1>8, BlockFacts
<1>21. Ordered(rt2, lf2, head2)
  BY <1>12, <1>14, <1>15, <1>17, <1>18, <1>19, <1>20 DEF Ordered, HeadsRight
<1> QED
  BY <1>21

LEMMA OrderOfBefore ==
  ASSUME NEW rt, NEW lf, NEW head, NEW e, NEW b, NEW x, Insertion(rt, lf, head, e, b, x),
         NEW y, y.ref = Len(lf) + 1, y.key = first_key(lf[b]), NEW rt2, Gains(rt, y, rt2),
         NEW lf2, BeforeMakes(lf, b, x, lf2)
  PROVE  \E head2 : Ordered(rt2, lf2, head2)
<1>1. PICK p, q :
        /\ Grown(lf, b, p, q, lf2) /\ lf[b].flag # None /\ first_key(lf[b]) > x.key
        /\ p.flag = None /\ p.num = 1 /\ p.slot[0] = x
        /\ q.flag = lf[b].flag /\ Part(lf[b], 0, lf[b].num, q)
  BY DEF BeforeMakes
<1>2. PICK new : new = y.ref
  OBVIOUS
<1>3. /\ b \in DOMAIN lf /\ DOMAIN lf2 = DOMAIN lf \cup {new} /\ new \notin DOMAIN lf
      /\ \A c \in DOMAIN lf : lf2[c] = IF c = b THEN p ELSE lf[c]
      /\ lf2[new] = q
  BY <1>1, <1>2 DEF Grown
<1>4. Sound(rt, lf, head) /\ EntryOf(rt, e, b) /\ x.key \in Int /\ Within(rt, e, x.key)
  BY DEF Insertion
<1>5. /\ LeafFile(lf) /\ rt \in RootPage(DOMAIN lf) /\ rt.num < DirSize /\ OneOwner(rt, lf)
      /\ head \in [DOMAIN lf -> DOMAIN lf]
  BY <1>4 DEF Sound, Ordered, HeadsRight
<1>6. /\ lf[b].num \in Nat /\ lf[b].num > 0 /\ Sorted(lf[b]) /\ first_key(lf[b]) \in Int
      /\ \A j \in 0..lf[b].num-1 : lf[b].slot[j].key \in Int
      /\ \A z \in Records(lf[b]) : z.key \in Int
      /\ lf[b].flag \in DOMAIN lf /\ head[lf[b].flag] = b /\ head[b] = b
  BY <1>1, <1>3, <1>4, BlockFacts
<1>7. Serves(rt, e, lf[b], b)
  <2>1. head[b] = b /\ EntryOf(rt, e, head[b])
    BY <1>4, <1>6
  <2>2. Serves(rt, e, lf[b], head[b])
    BY <1>3, <1>4, <2>1, ServedOnce
  <2> QED
    BY <2>1, <2>2
<1>8. y.key \in Int /\ Within(rt, e, y.key) /\ rt.slot[e].key < y.key
  <2>1. Within(rt, e, y.key) /\ y.key \in Int
    BY <1>6, <1>7, FirstRecord DEF Serves
  <2>2. rt.slot[e].key \in Int /\ rt.slot[e].key <= x.key
    BY <1>4, <1>5, RootKeys DEF EntryOf, Within
  <2> QED
    BY <1>1, <1>4, <2>1, <2>2
<1>9. /\ Records(q) \subseteq Records(lf[b]) /\ Sorted(q) /\ q.num = lf[b].num
      /\ first_key(q) = y.key
  <2>1. Records(q) \subseteq Records(lf[b]) /\ Sorted(q)
    BY <1>1, <1>6, PartRecords
  <2>2. q.num = lf[b].num - 0 /\ \A j \in 0..lf[b].num-0-1 : q.slot[j] = lf[b].slot[0 + j]
    BY <1>1 DEF Part
  <2>3. 0 \in 0..lf[b].num-0-1
    BY <1>6
  <2> QED
    BY <1>6, <2>1, <2>2, <2>3 DEF first_key
<1>10. Records(p) = {x} /\ Sorted(p)
  BY <1>1 DEF Records, Sorted
<1>11. \A z \in Records(p) : z.key \in Int /\ Within(rt, e, z.key) /\ z.key < y.key
  BY <1>1, <1>4, <1>6, <1>10
<1>12. \A z \in Records(q) : z.key \in Int /\ Within(rt, e, z.key) /\ y.key <= z.key
  BY <1>6, <1>7, <1>9, FirstIsLeast DEF Serves
<1>13. /\ EntersAfter(rt, e, y, rt2) /\ Strict(rt2)
       /\ \A c \in DOMAIN lf : \A i : EntryOf(rt2, i, c) => head[c] = c
  BY <1>8, NewEntry
<1>14. PICK head2 : head2 = [c \in DOMAIN lf2 |->
                              IF c = new THEN new
                              ELSE IF head[c] = b /\ c # b THEN new ELSE head[c]]
  OBVIOUS
<1>15. /\ head2 \in [DOMAIN lf2 -> DOMAIN lf2] /\ head2[new] = new /\ head2[b] = b
       /\ \A c \in DOMAIN lf : /\ head[c] \in DOMAIN lf /\ c # new
                               /\ head[c] = b /\ c # b => head2[c] = new
                               /\ head[c] # b => head2[c] = head[c]
  BY <1>3, <1>5, <1>6, <1>14
<1>16. ASSUME NEW c \in DOMAIN lf2, NEW i, EntryOf(rt2, i, c) PROVE head2[c] = c
  BY <1>3, <1>13, <1>15, <1>16
\* No leaf overflows to b, which has an entry.
<1>17. \A c \in DOMAIN lf : lf[c].flag # b
  BY <1>3, <1>4, <1>5 DEF OneOwner, HasEntry, IsOverflow, Overflows
<1>18. ASSUME NEW c \in DOMAIN lf, head[c] = b, c # b
       PROVE  /\ lf[c].flag < c /\ OneKeyOf(lf[c], q) /\ Serves(rt2, e + 1, lf[c], new)
  <2>1. lf[c].flag < c /\ OneKeyOf(lf[c], lf[b]) /\ \A z \in Records(lf[c]) : z.key \in Int
    BY <1>4, <1>18, BlockFacts
  <2>2. Serves(rt, e, lf[c], b)
    BY <1>4, <1>18, ServedOnce
  <2>3. \A z \in Records(lf[c]) : Within(rt, e, z.key) /\ y.key <= z.key
    BY <1>6, <2>1, <2>2 DEF OneKeyOf, Serves
  <2>4. Serves(rt2, e + 1, lf[c], new)
    BY <1>2, <1>13, <2>1, <2>3, ServesAfter
  <2> QED
    BY <1>9, <2>1, <2>4 DEF OneKeyOf
<1>19. ASSUME NEW c \in DOMAIN lf2 PROVE \E i : Serves(rt2, i, lf2[c], head2[c])
  <2>1. CASE c = new
    <3>1. Serves(rt2, e + 1, q, new)
      BY <1>2, <1>12, <1>13, ServesAfter
    <3> QED
      BY <1>3, <1>15, <2>1, <3>1
  <2>2. CASE c = b
    <3>1. Serves(rt2, e, p, b)
      BY <1>4, <1>11, <1>13, ServesAfter
    <3> QED
      BY <1>3, <1>15, <2>2, <3>1
  <2>3. CASE c # new /\ c # b /\ head[c] = b
    BY <1>3, <1>15, <1>18, <2>3
  <2>4. CASE c # new /\ c # b /\ head[c] # b
    <3>1. c \in DOMAIN lf /\ lf2[c] = lf[c] /\ head2[c] = head[c]
      BY <1>3, <1>15, <2>4
    <3>2. PICK j : Serves(rt, j, lf[c], head[c])
      BY <1>4, <3>1, BlockFacts
    <3>3. j # e
      BY <1>4, <2>4, <3>2 DEF Serves, EntryOf
    <3>4. \A z \in Records(lf[c]) : z.key \in Int
      BY <1>4, <3>1, BlockFacts
    <3>5. \E i : Serves(rt2, i, lf[c], head[c])
      BY <1>13, <3>2, <3>3, <3>4, ServesAfter
    <3> QED
      BY <3>1, <3>5
  <2> QED
    BY <2>1, <2>2, <2>3, <2>4
<1>20. ASSUME NEW c \in DOMAIN lf2, lf2[c].flag # None
       PROVE  head2[lf2[c].flag] = head2[c] /\ lf2[c].num > 0
  <2>1. CASE c = new
    <3>1. lf[b].flag # b
      BY <1>3, <1>17
    <3> QED
      BY <1>1, <1>3, <1>6, <1>9, <1>15, <2>1, <3>1
  <2>2. CASE c # new
    <3>1. c \in DOMAIN lf /\ c # b /\ lf2[c] = lf[c]
      BY <1>1, <1>3, <1>20, <2>2
    <3>2. lf[c].flag \in DOMAIN lf /\ head[lf[c].flag] = head[c] /\ lf[c].num > 0 /\ lf[c].flag # b
      BY <1>4, <1>17, <1>20, <3>1, BlockFacts
    <3> QED
      BY <1>15, <3>1, <3>2
  <2> QED
    BY <2>1, <2>2
<1>21. ASSUME NEW c \in DOMAIN lf2, head2[c] # c
       PROVE  lf2[c].flag < c /\ lf2[head2[c]].flag # None /\ OneKeyOf(lf2[c], lf2[head2[c]])
  <2>1. c \in DOMAIN lf /\ c # b /\ lf2[c] = lf[c]
    BY <1>3, <1>15, <1>21
  <2>2. CASE head[c] = b
    BY <1>1, <1>3, <1>15, <1>18, <2>1, <2>2
  <2>3. CASE head[c] # b
    <3>1. head2[c] = head[c] /\ head[c] # c /\ head[c] \in DOMAIN lf
      BY <1>15, <1>21, <2>1, <2>3
    <3>2. lf[c].flag < c /\ lf[head[c]].flag # None /\ OneKeyOf(lf[c], lf[head[c]])
      BY <1>4, <2>1, <3>1, BlockFacts
    <3> QED
      BY <1>3, <2>1, <2>3, <3>1, <3>2
  <2> QED
    BY <2>2, <2>3
<1>22. ASSUME NEW c \in DOMAIN lf2 PROVE Sorted(lf2[c])
  BY <1>3, <1>4, <1>9, <1>10, BlockFacts
<1>23. Ordered(rt2, lf2, head2)
  BY <1>13, <1>15, <1>16, <1>19, <1>20, <1>21, <1>22 DEF Ordered, HeadsRight
<1> QED
  BY <1>23

-----------------------------------------------------------------------------
(* The records of all leaves after an insertion and after a deletion.      *)

LEMMA RecordsOfGained ==
  ASSUME NEW lf, NEW lf2, NEW b, NEW p, NEW x, Altered(lf, b, p, lf2), NotTwice(lf),
         Distinct(p), Records(p) = Records(lf[b]) \cup {x}, x \notin AllRecords(lf)
  PROVE  NotTwice(lf2) /\ AllRecords(lf2) = AllRecords(lf) \cup {x}
<1>1. /\ b \in DOMAIN lf /\ DOMAIN lf2 = DOMAIN lf
      /\ \A c \in DOMAIN lf : lf2[c] = IF c = b THEN p ELSE lf[c]
  BY DEF Altered
<1>2. \A c \in DOMAIN lf : x \notin Records(lf[c])
  BY DEF AllRecords
<1>3. NotTwice(lf2)
  BY <1>1, <1>2 DEF NotTwice
<1>4. AllRecords(lf2) = AllRecords(lf) \cup {x}
  <2>1. \A c \in DOMAIN lf2 : Records(lf2[c]) \subseteq AllRecords(lf) \cup {x}
    BY <1>1 DEF AllRecords
  <2>2. \A c \in DOMAIN lf : Records(lf[c]) \subseteq Records(lf2[c])
    BY <1>1
  <2>3. x \in Records(lf2[b])
    BY <1>1
  <2> QED
    BY <1>1, <2>1, <2>2, <2>3 DEF AllRecords
<1> QED
  BY <1>3, <1>4

LEMMA RecordsOfLost ==
  ASSUME NEW lf, NEW lf2, NEW b, NEW p, NEW x, Altered(lf, b, p, lf2), NotTwice(lf),
         Distinct(p), x \in Records(lf[b]), Records(p) = Records(lf[b]) \ {x}
  PROVE  NotTwice(lf2) /\ AllRecords(lf2) = AllRecords(lf) \ {x}
<1>1. /\ b \in DOMAIN lf /\ DOMAIN lf2 = DOMAIN lf
      /\ \A c \in DOMAIN lf : lf2[c] = IF c = b THEN p ELSE lf[c]
  BY DEF Altered
<1>2. \A c \in DOMAIN lf : c # b => x \notin Records(lf[c])
  BY <1>1 DEF NotTwice
<1>3. NotTwice(lf2)
  BY <1>1 DEF NotTwice
<1>4. AllRecords(lf2) = AllRecords(lf) \ {x}
  <2>1. \A c \in DOMAIN lf2 : Records(lf2[c]) \subseteq AllRecords(lf) \ {x}
    BY <1>1, <1>2 DEF AllRecords
  <2>2. \A c \in DOMAIN lf : Records(lf[c]) \ {x} \subseteq Records(lf2[c])
    BY <1>1
  <2> QED
    BY <1>1, <2>1, <2>2 DEF AllRecords
<1> QED
  BY <1>3, <1>4

LEMMA RecordsOfGrown ==
  ASSUME NEW lf, NEW lf2, NEW b, NEW p, NEW q, NEW x, Grown(lf, b, p, q, lf2), NotTwice(lf),
         Distinct(p), Distinct(q), Records(p) \cap Records(q) = {},
         Records(p) \cup Records(q) = Records(lf[b]) \cup {x}, x \notin AllRecords(lf)
  PROVE  NotTwice(lf2) /\ AllRecords(lf2) = AllRecords(lf) \cup {x}
<1>1. PICK new : new = Len(lf) + 1
  OBVIOUS
<1>2. /\ b \in DOMAIN lf /\ DOMAIN lf2 = DOMAIN lf \cup {new} /\ new \notin DOMAIN lf
      /\ \A c \in DOMAIN lf : lf2[c] = IF c = b THEN p ELSE lf[c]
      /\ lf2[new] = q
  BY <1>1 DEF Grown
<1>3. \A c \in DOMAIN lf : x \notin Records(lf[c])
  BY DEF AllRecords
<1>4. \A c \in DOMAIN lf : c # b => /\ Records(p) \cap Records(lf[c]) = {}
                                    /\ Records(q) \cap Records(lf[c]) = {}
  BY <1>2, <1>3 DEF NotTwice
<1>5. \A c \in DOMAIN lf2 : Distinct(lf2[c])
  BY <1>2 DEF NotTwice
<1>6. ASSUME NEW c \in DOMAIN lf2, NEW d \in DOMAIN lf2, c # d
      PROVE  Records(lf2[c]) \cap Records(lf2[d]) = {}
  <2>1. CASE c = new
    BY <1>2, <1>4, <1>6, <2>1
  <2>2. CASE d = new
    BY <1>2, <1>4, <1>6, <2>2
  <2>3. CASE c # new /\ d # new
    <3>1. c \in DOMAIN lf /\ d \in DOMAIN lf
      BY <1>2, <2>3
    <3>2. Records(lf[c]) \cap Records(lf[d]) = {}
      BY <1>6, <3>1 DEF NotTwice
    <3> QED
      BY <1>2, <1>4, <1>6, <3>1, <3>2
  <2> QED
    BY <2>1, <2>2, <2>3
<1>7. NotTwice(lf2)
  BY <1>5, <1>6 DEF NotTwice
<1>8. AllRecords(lf2) = AllRecords(lf) \cup {x}
  <2>1. Records(p) \subseteq AllRecords(lf) \cup {x} /\ Records(q) \subseteq AllRecords(lf) \cup {x}
    BY <1>2 DEF AllRecords
  <2>2. \A c \in DOMAIN lf2 : Records(lf2[c]) \subseteq AllRecords(lf) \cup {x}
    BY <1>2, <2>1 DEF AllRecords
  <2>3. Records(lf2[b]) = Records(p) /\ Records(lf2[new]) = Records(q)
        /\ b \in DOMAIN lf2 /\ new \in DOMAIN lf2
    BY <1>2
  <2>4. \A c \in DOMAIN lf : c # b => c \in DOMAIN lf2 /\ Records(lf2[c]) = Records(lf[c])
    BY <1>2
  <2>5. Records(p) \subseteq AllRecords(lf2) /\ Records(q) \subseteq AllRecords(lf2)
    BY <2>3 DEF AllRecords
  <2>6. Records(lf[b]) \subseteq AllRecords(lf2) /\ x \in AllRecords(lf2)
    BY <2>5
  <2>7. \A c \in DOMAIN lf : Records(lf[c]) \subseteq AllRecords(lf2)
    BY <2>4, <2>6 DEF AllRecords
  <2>8. AllRecords(lf) \subseteq AllRecords(lf2)
    BY <2>7 DEF AllRecords
  <2>9. AllRecords(lf2) \subseteq AllRecords(lf) \cup {x}
    BY <2>2 DEF AllRecords
  <2> QED
    BY <2>6, <2>8, <2>9
<1> QED
  BY <1>7, <1>8

LEMMA ExactInserted ==
  ASSUME NEW S, NEW rows \in Seq(S), NEW k \in S, k # Gone, NEW rows2, rows2 = Append(rows, k),
         NEW x, x = [key |-> k, ref |-> Len(rows) + 1],
         NEW lf, NEW lf2, Exact(lf, rows), NotTwice(lf2), AllRecords(lf2) = AllRecords(lf) \cup {x}
  PROVE  Exact(lf2, rows2)
<1>1. /\ Len(rows) \in Nat /\ DOMAIN rows = 1..Len(rows) /\ DOMAIN rows2 = 1..(Len(rows) + 1)
      /\ \A r \in DOMAIN rows : rows2[r] = rows[r]
      /\ rows2[Len(rows) + 1] = k
  OBVIOUS
<1>2. OnlyIndexed(lf2, rows2)
  <2>1. \A y \in AllRecords(lf) : y.ref \in DOMAIN rows2 /\ rows2[y.ref] = y.key
    BY <1>1 DEF Exact, OnlyIndexed
  <2>2. x.ref \in DOMAIN rows2 /\ rows2[x.ref] = x.key
    BY <1>1
  <2> QED
    BY <2>1, <2>2 DEF OnlyIndexed
<1>3. AllIndexed(lf2, rows2)
  <2> SUFFICES ASSUME NEW r \in DOMAIN rows2, rows2[r] # Gone
               PROVE  [key |-> rows2[r], ref |-> r] \in AllRecords(lf2)
    BY DEF AllIndexed
  <2>1. CASE r = Len(rows) + 1
    BY <1>1, <2>1
  <2>2. CASE r # Len(rows) + 1
    <3>1. r \in DOMAIN rows /\ rows2[r] = rows[r]
      BY <1>1, <2>2
    <3> QED
      BY <3>1 DEF Exact, AllIndexed
  <2> QED
    BY <2>1, <2>2
<1> QED
  BY <1>2, <1>3 DEF Exact

\* A record that is not in the leaves yet.
LEMMA NewRecord ==
  ASSUME NEW S, NEW rows \in Seq(S), NEW k, NEW x, x = [key |-> k, ref |-> Len(rows) + 1],
         NEW lf, Exact(lf, rows)
  PROVE  x \notin AllRecords(lf)
<1>1. Len(rows) + 1 \notin DOMAIN rows /\ x.ref = Len(rows) + 1
  <2>1. Len(rows) \in Nat /\ DOMAIN rows = 1..Len(rows)
    OBVIOUS
  <2> QED
    BY <2>1
<1> QED
  BY <1>1 DEF Exact, OnlyIndexed

LEMMA ExactDeleted ==
  ASSUME NEW rows, NEW r \in DOMAIN rows, NEW rows2, rows2 = [rows EXCEPT ![r] = Gone],
         NEW lf, NEW lf2, Exact(lf, rows), NotTwice(lf2), LeafFile(lf),
         NEW x \in AllRecords(lf), x.ref = r, AllRecords(lf2) = AllRecords(lf) \ {x}
  PROVE  Exact(lf2, rows2)
<1>1. \A y \in AllRecords(lf) : /\ y = [key |-> y.key, ref |-> y.ref]
                                /\ y.ref \in DOMAIN rows /\ rows[y.ref] = y.key
  BY LeafKeys DEF AllRecords, Exact, OnlyIndexed
<1>2. \A y \in AllRecords(lf2) : y.ref # r
  <2> SUFFICES ASSUME NEW y \in AllRecords(lf), y # x, y.ref = r PROVE FALSE
    OBVIOUS
  <2>1. y.key = x.key
    BY <1>1
  <2> QED
    BY <1>1, <2>1
<1>3. DOMAIN rows2 = DOMAIN rows /\ rows2[r] = Gone /\ \A s \in DOMAIN rows : s # r => rows2[s] = rows[s]
  OBVIOUS
<1>4. OnlyIndexed(lf2, rows2)
  BY <1>1, <1>2, <1>3 DEF OnlyIndexed
<1>5. AllIndexed(lf2, rows2)
  <2> SUFFICES ASSUME NEW s \in DOMAIN rows2, rows2[s] # Gone
               PROVE  [key |-> rows2[s], ref |-> s] \in AllRecords(lf2)
    BY DEF AllIndexed
  <2>1. s # r /\ rows2[s] = rows[s] /\ s \in DOMAIN rows
    BY <1>3
  <2>2. [key |-> rows[s], ref |-> s] \in AllRecords(lf) /\ [key |-> rows[s], ref |-> s] # x
    BY <1>3, <2>1 DEF Exact, AllIndexed
  <2> QED
    BY <2>1, <2>2
<1> QED
  BY <1>4, <1>5 DEF Exact

\* The records after an insertion, and after a deletion.
LEMMA RecordsInserted ==
  ASSUME NEW rt, NEW lf, NEW head, NEW e, NEW b, NEW x, Insertion(rt, lf, head, e, b, x),
         NotTwice(lf), x \notin AllRecords(lf), NEW lf2, NEW k,
         \/ BeforeMakes(lf, b, x, lf2)
         \/ FittingMakes(lf, b, x, lf2)
         \/ OverflowMakes(lf, b, x, lf2)
         \/ SplitMakes(lf, b, x, lf2, k)
  PROVE  NotTwice(lf2) /\ AllRecords(lf2) = AllRecords(lf) \cup {x}
<1>1. /\ b \in DOMAIN lf /\ x.key \in Int /\ Distinct(lf[b]) /\ x \notin Records(lf[b])
      /\ lf[b] \in LeafPage(DOMAIN lf) /\ lf[b].num < LeafSize /\ Sorted(lf[b]) /\ lf[b].num \in Nat
  BY BlockFacts DEF Insertion, NotTwice, AllRecords
<1>2. ASSUME NEW p, Gains(lf[b], x, p)
      PROVE  Records(p) = Records(lf[b]) \cup {x} /\ Distinct(p)
  BY <1>1, <1>2, GainedLeaf
<1>3. CASE BeforeMakes(lf, b, x, lf2)
  <2>1. PICK p, q : /\ Grown(lf, b, p, q, lf2) /\ p.num = 1 /\ p.slot[0] = x
                    /\ Part(lf[b], 0, lf[b].num, q)
    BY <1>3 DEF BeforeMakes
  <2>2. Records(p) = {x} /\ Distinct(p)
    BY <2>1 DEF Records, Distinct
  <2>3. Records(q) = {lf[b].slot[j] : j \in 0..lf[b].num-1} /\ Distinct(q)
    BY <1>1, <2>1, PartRecords
  <2>4. Records(q) = Records(lf[b])
    BY <2>3 DEF Records
  <2>5. Records(p) \cap Records(q) = {} /\ Records(p) \cup Records(q) = Records(lf[b]) \cup {x}
    BY <1>1, <2>2, <2>4
  <2> QED
    BY <2>1, <2>2, <2>3, <2>5, RecordsOfGrown
<1>4. CASE FittingMakes(lf, b, x, lf2)
  BY <1>2, <1>4, RecordsOfGained DEF FittingMakes
<1>5. CASE OverflowMakes(lf, b, x, lf2)
  <2>1. PICK p, p1, p2 : /\ Grown(lf, b, p1, p2, lf2) /\ Gains(lf[b], x, p)
                         /\ Part(p, 0, 1, p1) /\ Part(p, 1, p.num, p2)
    BY <1>5 DEF OverflowMakes
  <2>2. Records(p) = Records(lf[b]) \cup {x} /\ Distinct(p)
    BY <1>2, <2>1
  <2>3. Distinct(p1) /\ Distinct(p2)
    BY <2>1, <2>2, PartRecords
  <2>4. Records(p) = Records(p1) \cup Records(p2) /\ Records(p1) \cap Records(p2) = {}
    BY <2>1, <2>2, SplitRecords
  <2> QED
    BY <2>1, <2>2, <2>3, <2>4, RecordsOfGrown
<1>6. CASE SplitMakes(lf, b, x, lf2, k)
  <2>1. PICK p, p1, p2, i : /\ Grown(lf, b, p1, p2, lf2) /\ Gains(lf[b], x, p)
                            /\ Part(p, 0, i, p1) /\ Part(p, i, p.num, p2)
    BY <1>6 DEF SplitMakes
  <2>2. Records(p) = Records(lf[b]) \cup {x} /\ Distinct(p)
    BY <1>2, <2>1
  <2>3. Distinct(p1) /\ Distinct(p2)
    BY <2>1, <2>2, PartRecords
  <2>4. Records(p) = Records(p1) \cup Records(p2) /\ Records(p1) \cap Records(p2) = {}
    BY <2>1, <2>2, SplitRecords
  <2> QED
    BY <2>1, <2>2, <2>3, <2>4, RecordsOfGrown
<1> QED
  BY <1>3, <1>4, <1>5, <1>6

-----------------------------------------------------------------------------
(* A deletion that beheads no leaf, and what lookups find.                 *)

LEMMA ChangeOfDeleted ==
  ASSUME NEW rt, NEW lf, NEW head, Sound(rt, lf, head), NEW b \in DOMAIN lf, Distinct(lf[b]),
         NEW i, NEW p, p.flag = lf[b].flag, Deletes(lf[b], i, p),
         p.slot[0] = IF i = 0 /\ lf[b].num > 1 THEN lf[b].slot[1] ELSE lf[b].slot[0],
         ~(lf[b].flag # None /\ i = 0 /\ last_of_its_key(lf[b], 0))
  PROVE  Change(rt, lf, head, b, p)
<1>1. /\ lf[b].num \in Nat /\ i \in 0..lf[b].num-1 /\ p.num = lf[b].num - 1
      /\ Sorted(lf[b]) /\ \A j \in 0..lf[b].num-1 : lf[b].slot[j].key \in Int
  BY BlockFacts DEF Deletes
<1>2. Sorted(p) /\ Records(p) \subseteq Records(lf[b])
  BY <1>1, DeletedRecords
<1>3. CASE lf[b].flag # None /\ i = 0
  <2>1. PICK j \in 0..lf[b].num-1 : lf[b].slot[j].key = lf[b].slot[0].key /\ j # 0
    BY <1>3 DEF last_of_its_key
  <2>2. lf[b].num > 1 /\ 0 \in 0..lf[b].num-1 /\ 1 \in 0..lf[b].num-1 /\ (j = 1 \/ 1 < j)
    BY <1>1, <2>1
  <2>3. lf[b].slot[0].key <= lf[b].slot[1].key /\ lf[b].slot[1].key <= lf[b].slot[j].key
    BY <1>1, <2>1, <2>2 DEF Sorted
  <2>4. lf[b].slot[1].key = lf[b].slot[0].key
    BY <1>1, <2>1, <2>2, <2>3
  <2> QED
    BY <1>1, <1>2, <1>3, <2>2, <2>4 DEF Change, first_key
<1>4. CASE i # 0
  BY <1>1, <1>2, <1>4 DEF Change, first_key
<1>5. CASE i = 0 /\ lf[b].flag = None
  <2>1. ASSUME head[b] # b, lf[b].num > 1 PROVE lf[b].slot[1].key = first_key(lf[b])
    <3>1. lf[b].slot[1] \in Records(lf[b])
      BY <1>1, <2>1 DEF Records
    <3>2. OneKeyOf(lf[b], lf[head[b]])
      BY <2>1, BlockFacts
    <3> QED
      BY <3>1, <3>2 DEF OneKeyOf
  <2> QED
    BY <1>1, <1>2, <1>5, <2>1 DEF Change, first_key
<1> QED
  BY <1>3, <1>4, <1>5

\* From the block that a chain begins with, the flags lead to all its blocks.
LEMMA WholeChain ==
  ASSUME NEW rt, NEW lf, NEW head, Sound(rt, lf, head), NEW h \in DOMAIN lf, NEW S, h \in S,
         \A d \in DOMAIN lf : d \in S /\ head[d] = h /\ lf[d].flag # None => lf[d].flag \in S
  PROVE  \A c \in DOMAIN lf : head[c] = h => c \in S
<1> DEFINE T == {c \in DOMAIN lf : head[c] = h /\ c \notin S}
<1> SUFFICES ASSUME T # {} PROVE FALSE
  OBVIOUS
<1>1. LeafFile(lf) /\ OneOwner(rt, lf)
  BY DEF Sound
<1>2. Len(lf) \in Nat /\ DOMAIN lf = 1..Len(lf)
  BY <1>1 DEF LeafFile
<1>3. PICK c \in T : \A d \in T : d <= c
  <2>1. T \in SUBSET (0..Len(lf))
    BY <1>2
  <2> HIDE DEF T
  <2> QED
    BY <1>2, <2>1, GreatestExists
<1>4. c \in DOMAIN lf /\ head[c] = h /\ c \notin S /\ c # h
  BY <1>3
<1>5. ~HasEntry(rt, c)
  <2>1. \A i : EntryOf(rt, i, c) => head[c] = c
    BY <1>4, BlockFacts
  <2> QED
    BY <1>4, <2>1 DEF HasEntry
<1>6. PICK d : d \in DOMAIN lf /\ lf[d].flag = c
  BY <1>1, <1>4, <1>5 DEF OneOwner, IsOverflow, Overflows
<1>7. lf[d].flag # None
  BY <1>2, <1>4, <1>6 DEF None
<1>8. head[d] = h
  BY <1>4, <1>6, <1>7, BlockFacts
<1>9. CASE d \in S
  BY <1>4, <1>6, <1>7, <1>8, <1>9
<1>10. CASE d \notin S
  <2>1. d # h /\ d \in T
    BY <1>6, <1>8, <1>10
  <2>2. c < d
    BY <1>6, <1>8, <2>1, BlockFacts
  <2>3. d <= c
    BY <1>3, <2>1
  <2> QED
    BY <1>2, <1>4, <1>6, <2>2, <2>3
<1> QED
  BY <1>9, <1>10

\* A key is within one entry only.
LEMMA WithinOnce ==
  ASSUME NEW rt, NEW B, rt \in RootPage(B), rt.num < DirSize, Strict(rt),
         NEW i \in 0..rt.num-1, NEW j \in 0..rt.num-1, NEW k \in Int,
         Within(rt, i, k), Within(rt, j, k)
  PROVE  i = j
<1>1. rt.num \in Nat /\ \A n \in 0..rt.num-1 : rt.slot[n].key \in Int
  BY RootKeys
<1>2. ASSUME NEW m \in 0..rt.num-1, NEW n \in 0..rt.num-1, m < n, Within(rt, m, k), Within(rt, n, k)
      PROVE  FALSE
  <2>1. m + 1 \in 0..rt.num-1 /\ m + 1 < rt.num /\ (m + 1 = n \/ m + 1 < n)
    BY <1>1, <1>2
  <2>2. k < rt.slot[m + 1].key /\ rt.slot[n].key <= k
    BY <1>2, <2>1 DEF Within
  <2>3. rt.slot[m + 1].key <= rt.slot[n].key
    BY <1>1, <2>1 DEF Strict
  <2> QED
    BY <1>1, <2>1, <2>2, <2>3
<1>3. i < j \/ j < i \/ i = j
  OBVIOUS
<1> QED
  BY <1>2, <1>3

\* The slots at which a key is in a sorted leaf are those that next goes through.
LEMMA MatchesAll ==
  ASSUME NEW B, NEW p \in LeafPage(B), Sorted(p), NEW k \in Int, NEW i \in 0..p.num-1,
         p.slot[i].key = k, NEW from,
         from = find_slot_before(p, k) + 1 \/ (from = 0 /\ \A x \in Records(p) : x.key = k)
  PROVE  i \in Matches(p, from, k)
<1>1. LeafSize \in Nat \ {0} /\ p \in FullPage(LeafSize, Rid, B \cup {None})
  BY Sizes DEF LeafPage
<1>2. p.num \in Nat /\ \A j \in 0..p.num-1 : p.slot[j].key \in Int
  <2>1. p.num \in 0..LeafSize /\ \A j \in 0..LeafSize-1 : p.slot[j].key \in Keys
    BY <1>1, PageFields
  <2>2. \A j \in 0..p.num-1 : j \in 0..LeafSize-1
    BY <1>1, <2>1
  <2>3. p.num \in Nat
    BY <1>1, <2>1
  <2>4. \A j \in 0..p.num-1 : p.slot[j].key \in Int
    BY <2>1, <2>2, Sizes
  <2> QED
    BY <2>3, <2>4
<1>3. CASE from = 0 /\ \A x \in Records(p) : x.key = k
  <2>1. \A j \in 0..i : p.slot[j] \in Records(p)
    BY <1>2 DEF Records
  <2> QED
    BY <1>2, <1>3, <2>1 DEF Matches
<1>4. CASE from = find_slot_before(p, k) + 1
  <2>1. /\ from \in 0..p.num
        /\ \A j \in 0..from-1 : p.slot[j].key < k
        /\ from < p.num => p.slot[from].key >= k
    BY <1>1, <1>4, PlaceFound
  <2>2. from <= i
    BY <1>2, <2>1
  <2>3. ASSUME NEW j \in from..i PROVE p.slot[j].key = k
    <3>1. from \in 0..p.num-1 /\ j \in 0..p.num-1 /\ (from = j \/ from < j) /\ (j = i \/ j < i)
      BY <1>2, <2>1
    <3>2. p.slot[from].key <= p.slot[j].key /\ p.slot[j].key <= p.slot[i].key
      BY <1>2, <3>1 DEF Sorted
    <3>3. p.slot[from].key >= k
      BY <1>2, <2>1, <3>1
    <3> QED
      BY <1>2, <3>1, <3>2, <3>3
  <2> QED
    BY <1>2, <2>1, <2>2, <2>3 DEF Matches
<1> QED
  BY <1>3, <1>4

\* The directory entry that a search for k goes to, as long as nothing misleads it.
LEMMA ChildIs ==
  ASSUME TypeOK, NEW k \in Key, ~Panics(root, k), ~misleads(k),
         NEW h, h = find_child(root, k), NEW e, e = entry_of(root, k)
  PROVE  /\ k \in Int /\ h \in Blocks /\ e \in 0..root.num-1 /\ EntryOf(root, e, h)
         /\ Within(root, e, k)
<1>1. k \in Int
  BY Sizes
<1>2. /\ find_child(root, k) \in Blocks
      /\ entry_of(root, k) \in 0..root.num-1 /\ Within(root, entry_of(root, k), k)
  BY <1>1, Types, ChildFound
<1> QED
  BY <1>1, <1>2 DEF EntryOf, misleads

LEMMA SoundNow ==
  ASSUME TypeOK, OneOwner(root, leaf), NEW head, Ordered(root, leaf, head)
  PROVE  Sound(root, leaf, head)
<1> QED
  BY Types DEF Sound, Blocks

\* All blocks of the chain that may hold k are gone through.
LEMMA ChainGone ==
  ASSUME TypeOK, NEW head, Sound(root, leaf, head), NEW h \in Blocks, head[h] = h,
         NEW c \in Blocks, head[c] = h, NEW k \in Int,
         c # h => first_key(leaf[h]) = k
  PROVE  c \in Chain(h, k)
<1> DEFINE to == [d \in Blocks |-> IF first_key(leaf[d]) = k THEN leaf[d].flag ELSE None]
<1> SUFFICES ASSUME NEW S \in SUBSET Blocks, h \in S, \A d \in S : to[d] \in S \cup {None}
             PROVE  c \in S
  BY DEF Chain, Reached
<1>1. CASE c = h
  BY <1>1
<1>2. CASE c # h
  <2>1. ASSUME NEW d \in DOMAIN leaf, d \in S, head[d] = h, leaf[d].flag # None
        PROVE  leaf[d].flag \in S
    <3>1. first_key(leaf[d]) = k
      <4>1. d = h \/ OneKeyOf(leaf[d], leaf[h])
        BY <2>1, BlockFacts
      <4> QED
        BY <1>2, <4>1 DEF OneKeyOf
    <3>2. to[d] = leaf[d].flag
      BY <2>1, <3>1 DEF Blocks
    <3> QED
      BY <2>1, <3>2
  <2>2. \A d \in DOMAIN leaf : head[d] = h => d \in S
    <3>1. h \in DOMAIN leaf
      BY DEF Blocks
    <3> HIDE DEF to
    <3> QED
      BY <2>1, <3>1, WholeChain
  <2> QED
    BY <2>2 DEF Blocks
<1> QED
  BY <1>1, <1>2

\* A record with the key that is searched is in the chain of the entry that has it.
LEMMA RecordFound ==
  ASSUME TypeOK, NEW head, Sound(root, leaf, head), NEW k \in Key, ~Panics(root, k), ~misleads(k),
         NEW c \in Blocks, NEW i \in 0..leaf[c].num-1, leaf[c].slot[i].key = k
  PROVE  <<c, i>> \in Found(k)
<1>1. PICK h, e : h = find_child(root, k) /\ e = entry_of(root, k)
  OBVIOUS
<1>2. k \in Int /\ h \in Blocks /\ e \in 0..root.num-1 /\ EntryOf(root, e, h) /\ Within(root, e, k)
  BY <1>1, ChildIs
<1>3. leaf[c].slot[i] \in Records(leaf[c])
  BY DEF Records
<1>4. c \in DOMAIN leaf /\ h \in DOMAIN leaf
  BY <1>2 DEF Blocks
<1>5. head[h] = h
  BY <1>2, <1>4, BlockFacts
<1>6. PICK j : Serves(root, j, leaf[c], head[c])
  BY <1>4, BlockFacts
<1>7. j \in 0..root.num-1 /\ Within(root, j, k) /\ head[c] = root.slot[j].ref
  BY <1>3, <1>6 DEF Serves, EntryOf
<1>8. head[c] = h
  <2>1. root \in RootPage(Blocks) /\ root.num < DirSize /\ Strict(root)
    BY Types DEF Sound, Ordered
  <2>2. j = e
    BY <1>2, <1>7, <2>1, WithinOnce
  <2> QED
    BY <1>2, <1>7, <2>2 DEF EntryOf
<1>9. ASSUME c # h
      PROVE  first_key(leaf[h]) = k /\ \A x \in Records(leaf[c]) : x.key = k
  <2>1. OneKeyOf(leaf[c], leaf[h])
    BY <1>4, <1>8, <1>9, BlockFacts
  <2> QED
    BY <1>3, <2>1 DEF OneKeyOf
<1>10. c \in Chain(h, k)
  BY <1>2, <1>5, <1>8, <1>9, ChainGone
<1>11. PICK from : from = IF c = h THEN find_slot_before(leaf[c], k) + 1 ELSE 0
  OBVIOUS
<1>12. i \in Matches(leaf[c], from, k)
  <2>1. leaf[c] \in LeafPage(DOMAIN leaf) /\ Sorted(leaf[c])
    BY <1>4, BlockFacts
  <2>2. from = find_slot_before(leaf[c], k) + 1 \/ (from = 0 /\ \A x \in Records(leaf[c]) : x.key = k)
    BY <1>9, <1>11
  <2> QED
    BY <1>2, <2>1, <2>2, MatchesAll
<1>13. <<c, i>> \in {c} \X Matches(leaf[c], IF c = h THEN find_slot_before(leaf[c], k) + 1 ELSE 0, k)
  BY <1>11, <1>12
<1> QED
  BY <1>1, <1>10, <1>13 DEF Found

\* What is indexed under a key, and nothing else, is found.
LEMMA LookupExact ==
  ASSUME TypeOK, NEW head, Sound(root, leaf, head), Exact(leaf, contents),
         NEW k \in Key, ~Panics(root, k), ~misleads(k)
  PROVE  Lookup(k) = InsertedUnder(k)
<1>1. ASSUME NEW x \in Found(k)
      PROVE  leaf[x[1]].slot[x[2]].ref \in InsertedUnder(k)
  <2>1. /\ x[1] \in Blocks /\ x[2] \in 0..leaf[x[1]].num-1
        /\ leaf[x[1]].slot[x[2]].key = k
    BY FoundIs
  <2>2. leaf[x[1]].slot[x[2]] \in AllRecords(leaf)
    BY <2>1 DEF AllRecords, Records, Blocks
  <2> QED
    BY <2>1, <2>2 DEF Exact, OnlyIndexed, InsertedUnder
<1>2. ASSUME NEW r \in InsertedUnder(k)
      PROVE  r \in Lookup(k)
  <2>1. r \in DOMAIN contents /\ contents[r] = k /\ k # Gone
    BY Sizes DEF InsertedUnder
  <2>2. [key |-> k, ref |-> r] \in AllRecords(leaf)
    BY <2>1 DEF Exact, AllIndexed
  <2>3. PICK c \in Blocks : \E i \in 0..leaf[c].num-1 : leaf[c].slot[i] = [key |-> k, ref |-> r]
    BY <2>2 DEF AllRecords, Records, Blocks
  <2>4. PICK i \in 0..leaf[c].num-1 : leaf[c].slot[i].key = k /\ leaf[c].slot[i].ref = r
    BY <2>3
  <2>5. <<c, i>> \in Found(k)
    BY <2>4, RecordFound
  <2>6. PICK x \in Found(k) : x[1] = c /\ x[2] = i
    BY <2>5
  <2> QED
    BY <2>4, <2>6 DEF Lookup
<1>3. Lookup(k) \subseteq InsertedUnder(k)
  BY <1>1 DEF Lookup
<1> QED
  BY <1>2, <1>3

-----------------------------------------------------------------------------
(* The invariant is inductive.                                             *)

Good(rt, lf, rows) == (\E head : Ordered(rt, lf, head)) /\ Exact(lf, rows)

LEMMA SaneInit ==
  ASSUME Init
  PROVE  Good(root, leaf, contents)
<1>1. /\ leaf = <<formatted(LeafSize, None)>> /\ contents = <<>>
      /\ root = inserted(formatted(DirSize, 0), 0, [key |-> MinKey, ref |-> 1])
  BY DEF Init
<1>2. /\ DOMAIN leaf = {1} /\ leaf[1].num = 0 /\ leaf[1].flag = None
  BY <1>1 DEF formatted
<1>3. root.num = 1 /\ root.slot[0].ref = 1
  BY FirstRoot
<1>4. Records(leaf[1]) = {}
  BY <1>2 DEF Records
<1>5. AllRecords(leaf) = {}
  BY <1>2, <1>4 DEF AllRecords
<1>6. Exact(leaf, contents)
  BY <1>1, <1>2, <1>4, <1>5 DEF Exact, NotTwice, OnlyIndexed, AllIndexed, Distinct
<1>7. HeadsRight(root, leaf, [b \in {1} |-> 1])
  <2>1. \E i : Serves(root, i, leaf[1], 1)
    <3>1. Serves(root, 0, leaf[1], 1)
      BY <1>3, <1>4 DEF Serves, EntryOf
    <3> QED
      BY <3>1
  <2> QED
    BY <1>2, <2>1 DEF HeadsRight
<1>8. Ordered(root, leaf, [b \in {1} |-> 1])
  BY <1>2, <1>3, <1>7 DEF Ordered, Strict, Sorted
<1> QED
  BY <1>6, <1>8 DEF Good

LEMMA InsertKeepsOrder ==
  ASSUME TypeOK, status = "running", OneOwner(root, leaf), Good(root, leaf, contents),
         NEW k \in Key, Insert(k), ~misled', status' = "running"
  PROVE  Good(root', leaf', contents')
<1>1. PICK head : Sound(root, leaf, head)
  BY SoundNow DEF Good
<1>2. /\ ~Panics(root, k) /\ contents' = Append(contents, k) /\ misled' = (misled \/ misleads(k))
      /\ Len(contents) \in Nat /\ Len(contents) + 1 \in Rid
      /\ \E b, x : /\ b = find_child(root, k) /\ x = [key |-> k, ref |-> Len(contents) + 1]
                   /\ InsertMakes(b, x)
  BY InsertFacts
<1>3. PICK b, x : /\ b = find_child(root, k) /\ x = [key |-> k, ref |-> Len(contents) + 1]
                  /\ InsertMakes(b, x)
  BY <1>2
<1>4. PICK e : e = entry_of(root, k)
  OBVIOUS
<1>5. /\ k \in Int /\ b \in Blocks /\ e \in 0..root.num-1 /\ EntryOf(root, e, b)
      /\ Within(root, e, k)
  BY <1>2, <1>3, <1>4, ChildIs
<1>6. x.key = k
  BY <1>3
<1>7. Insertion(root, leaf, head, e, b, x)
  BY <1>1, <1>5, <1>6 DEF Insertion, Blocks
<1>8. Exact(leaf, contents) /\ NotTwice(leaf)
  BY DEF Good, Exact
<1>9. contents \in Seq(Key \cup {Gone})
  BY Types
<1>10. x \notin AllRecords(leaf)
  BY <1>3, <1>8, <1>9, NewRecord
<1>11. ASSUME NEW key, \/ BeforeMakes(leaf, b, x, leaf')
                       \/ FittingMakes(leaf, b, x, leaf')
                       \/ OverflowMakes(leaf, b, x, leaf')
                       \/ SplitMakes(leaf, b, x, leaf', key)
       PROVE  Exact(leaf', contents')
  <2>1. PICK lf2 : lf2 = leaf'
    OBVIOUS
  <2>2. NotTwice(lf2) /\ AllRecords(lf2) = AllRecords(leaf) \cup {x}
    BY <1>7, <1>8, <1>10, <1>11, <2>1, RecordsInserted
  <2>3. k \in Key \cup {Gone} /\ k # Gone
    BY Sizes
  <2>4. PICK rows2 : rows2 = contents'
    OBVIOUS
  <2>5. Exact(lf2, rows2)
    BY <1>2, <1>3, <1>8, <1>9, <2>2, <2>3, <2>4, ExactInserted
  <2> QED
    BY <2>1, <2>4, <2>5
<1>12. ASSUME NEW key \in Keys, Enter(key, NewBlock)
       PROVE  \E y : /\ y.key = key /\ y.ref = Len(leaf) + 1 /\ Gains(root, y, root')
  <2>1. Gains(root, [key |-> key, ref |-> NewBlock], root')
    BY <1>12, EnterFacts
  <2> QED
    BY <2>1 DEF NewBlock
<1>13. CASE BeforeMakes(leaf, b, x, leaf') /\ Enter(first_key(leaf[b]), NewBlock) /\ first_key(leaf[b]) \in Keys
  <2>1. PICK y : /\ y.key = first_key(leaf[b]) /\ y.ref = Len(leaf) + 1 /\ Gains(root, y, root')
    BY <1>12, <1>13
  <2>2. \E head2 : Ordered(root', leaf', head2)
    BY <1>7, <1>13, <2>1, OrderOfBefore
  <2> QED
    BY <1>11, <1>13, <2>2 DEF Good
<1>14. CASE FittingMakes(leaf, b, x, leaf') /\ UNCHANGED <<root, status>>
  BY <1>7, <1>11, <1>14, OrderOfFitting DEF Good
<1>15. CASE OverflowMakes(leaf, b, x, leaf') /\ UNCHANGED <<root, status>>
  BY <1>7, <1>11, <1>15, OrderOfOverflow DEF Good
<1>16. CASE \E key \in Keys : SplitMakes(leaf, b, x, leaf', key) /\ Enter(key, NewBlock)
  <2>1. PICK key \in Keys : SplitMakes(leaf, b, x, leaf', key) /\ Enter(key, NewBlock)
    BY <1>16
  <2>2. PICK y : y.key = key /\ y.ref = Len(leaf) + 1 /\ Gains(root, y, root')
    BY <1>12, <2>1
  <2>3. \E head2 : Ordered(root', leaf', head2)
    BY <1>7, <2>1, <2>2, OrderOfSplit
  <2> QED
    BY <1>11, <2>1, <2>3 DEF Good
<1> QED
  BY <1>3, <1>13, <1>14, <1>15, <1>16 DEF InsertMakes

LEMMA DeleteKeepsOrder ==
  ASSUME TypeOK, Sane, OneOwner(root, leaf), Good(root, leaf, contents),
         NEW r \in DOMAIN contents, Delete(r), ~misled', ~beheaded'
  PROVE  Good(root', leaf', contents')
<1>1. PICK head : Sound(root, leaf, head)
  BY SoundNow DEF Good
<1>2. /\ contents[r] \in Key /\ ~Panics(root, contents[r])
      /\ contents' = [contents EXCEPT ![r] = Gone]
      /\ misled' = (misled \/ misleads(contents[r])) /\ UNCHANGED <<root, status>>
      /\ \/ \E b, i : DeletesRecord(r, b, i)
         \/ r \notin Lookup(contents[r]) /\ UNCHANGED <<leaf, beheaded>>
  BY DeleteIs
<1>3. Exact(leaf, contents) /\ NotTwice(leaf)
  BY DEF Good, Exact
<1>4. r \in Lookup(contents[r])
  <2>1. PICK k : k = contents[r]
    OBVIOUS
  <2>2. Lookup(k) = InsertedUnder(k)
    BY <1>1, <1>2, <1>3, <2>1, LookupExact
  <2> QED
    BY <2>1, <2>2 DEF InsertedUnder
<1>5. PICK b, i : DeletesRecord(r, b, i)
  BY <1>2, <1>4
<1>6. /\ b \in DOMAIN leaf /\ i \in 0..leaf[b].num-1 /\ leaf[b].slot[i].ref = r
      /\ DeleteMakes(leaf, b, i, leaf')
      /\ ~(leaf[b].flag # None /\ i = 0 /\ last_of_its_key(leaf[b], 0))
  BY <1>5 DEF DeletesRecord, Blocks
<1>7. PICK p : /\ Altered(leaf, b, p, leaf') /\ p.flag = leaf[b].flag /\ Deletes(leaf[b], i, p)
               /\ p.slot[0] = IF i = 0 /\ leaf[b].num > 1 THEN leaf[b].slot[1] ELSE leaf[b].slot[0]
  BY <1>6 DEF DeleteMakes
<1>8. Distinct(leaf[b]) /\ Sorted(leaf[b])
  BY <1>1, <1>3, <1>6, BlockFacts DEF NotTwice
<1>9. Change(root, leaf, head, b, p)
  BY <1>1, <1>6, <1>7, <1>8, ChangeOfDeleted
<1>10. Ordered(root, leaf', head)
  BY <1>1, <1>7, <1>9, OrderOfAltered
<1>11. PICK x : x = leaf[b].slot[i]
  OBVIOUS
<1>12. Records(p) = Records(leaf[b]) \ {x} /\ Distinct(p)
  BY <1>7, <1>8, <1>11, DeletedRecords
<1>13. x \in Records(leaf[b]) /\ x \in AllRecords(leaf) /\ x.ref = r
  BY <1>6, <1>11 DEF Records, AllRecords
<1>14. NotTwice(leaf') /\ AllRecords(leaf') = AllRecords(leaf) \ {x}
  <2>1. PICK lf2 : lf2 = leaf'
    OBVIOUS
  <2>2. Altered(leaf, b, p, lf2)
    BY <1>7, <2>1
  <2>3. NotTwice(lf2) /\ AllRecords(lf2) = AllRecords(leaf) \ {x}
    BY <1>3, <1>12, <1>13, <2>2, RecordsOfLost
  <2> QED
    BY <2>1, <2>3
<1>15. Exact(leaf', contents')
  <2>1. PICK lf2, rows2 : lf2 = leaf' /\ rows2 = contents'
    OBVIOUS
  <2>2. LeafFile(leaf)
    BY <1>1 DEF Sound
  <2>3. NotTwice(lf2) /\ AllRecords(lf2) = AllRecords(leaf) \ {x}
    BY <1>14, <2>1
  <2>4. Exact(lf2, rows2)
    BY <1>2, <1>3, <1>13, <2>1, <2>2, <2>3, ExactDeleted
  <2> QED
    BY <2>1, <2>4
<1> QED
  BY <1>2, <1>10, <1>15 DEF Good

LEMMA SaneStep ==
  ASSUME IInv, [Next]_vars, Sane'
  PROVE  Good(root', leaf', contents')
<1>1. TypeOK /\ status' = "running" /\ ~misled' /\ ~beheaded'
  BY DEF IInv, Sane
<1>2. ASSUME status = "running", ~misled, ~beheaded
      PROVE  Sane /\ OneOwner(root, leaf) /\ Good(root, leaf, contents)
  BY <1>2 DEF IInv, Sane, Good
<1>3. CASE UNCHANGED vars
  BY <1>1, <1>2, <1>3 DEF vars
<1>4. ASSUME NEW k \in Key, Insert(k) PROVE Good(root', leaf', contents')
  <2>1. status = "running" /\ ~misled /\ ~beheaded
    BY <1>1, <1>4, InsertFacts
  <2> QED
    BY <1>1, <1>2, <1>4, <2>1, InsertKeepsOrder
<1>5. ASSUME NEW k \in Key, SearchPanics(k) PROVE Good(root', leaf', contents')
  BY <1>1, <1>5 DEF SearchPanics
<1>6. ASSUME NEW r \in DOMAIN contents, Delete(r) PROVE Good(root', leaf', contents')
  <2>1. status = "running" /\ ~misled /\ ~beheaded
    <3>1. status = "running" /\ misled' = (misled \/ misleads(contents[r]))
      BY <1>1, <1>6, DeleteIs
    <3>2. beheaded' = beheaded \/ \E b, i : DeletesRecord(r, b, i)
      BY <1>1, <1>6, DeleteIs
    <3>3. ~beheaded
      BY <1>1, <3>2 DEF DeletesRecord
    <3> QED
      BY <1>1, <3>1, <3>3
  <2> QED
    BY <1>1, <1>2, <1>6, <2>1, DeleteKeepsOrder
<1> QED
  BY <1>3, <1>4, <1>5, <1>6 DEF Next

\* The invariant holds in every state.
THEOREM Invariance == Spec => []IInv
<1>1. Init => IInv
  <2> SUFFICES ASSUME Init PROVE IInv
    OBVIOUS
  <2> QED
    BY TypeInit, OwnersInit, SaneInit DEF IInv, Good
<1>2. IInv /\ [Next]_vars => IInv'
  <2> SUFFICES ASSUME IInv, [Next]_vars PROVE IInv'
    OBVIOUS
  <2>1. TypeOK'
    BY TypeStep DEF IInv
  <2>2. ASSUME status' = "running" PROVE OneOwner(root', leaf')
    BY <2>2, OwnersStep DEF IInv
  <2>3. ASSUME Sane' PROVE Good(root', leaf', contents')
    BY <2>3, SaneStep
  <2> QED
    BY <2>1, <2>2, <2>3 DEF IInv, Good
<1> QED
  BY <1>1, <1>2, PTL DEF Spec

-----------------------------------------------------------------------------
(* What the invariant says of the properties.                              *)

\* The pages and leaves, and the histories, keep to their types: no slot, block
\* or level is out of range.
THEOREM TypeCorrect == Spec => []TypeOK
<1>1. IInv => TypeOK
  BY DEF IInv
<1> QED
  BY <1>1, Invariance, PTL

LEMMA OneOf ==
  ASSUME NEW S, \E x : S = {x}
  PROVE  IsFiniteSet(S) /\ Cardinality(S) = 1
<1> QED
  BY FS_Singleton

LEMMA OwnersCounted ==
  ASSUME TypeOK, OneOwner(root, leaf), NEW b \in Blocks
  PROVE  Cardinality({i \in 0..root.num-1 : root.slot[i].ref = b})
           + Cardinality({c \in Blocks : leaf[c].flag = b}) = 1
<1> DEFINE E == {i \in 0..root.num-1 : root.slot[i].ref = b}
           O == {c \in Blocks : leaf[c].flag = b}
<1>1. /\ EntryOnce(root, b) /\ OverflowOnce(leaf, b)
      /\ HasEntry(root, b) <=> ~IsOverflow(leaf, b)
  BY DEF OneOwner, Blocks
<1>2. /\ \A i : i \in E <=> EntryOf(root, i, b)
      /\ \A c : c \in O <=> Overflows(leaf, c, b)
  BY DEF EntryOf, Overflows, Blocks
<1> HIDE DEF E, O
<1>3. ((\E i : E = {i}) /\ O = {}) \/ ((\E c : O = {c}) /\ E = {})
  BY <1>1, <1>2 DEF EntryOnce, OverflowOnce, HasEntry, IsOverflow
<1>4. Cardinality(E) + Cardinality(O) = 1
  <2>1. \A S : S = {} => Cardinality(S) = 0
    BY FS_EmptySet
  <2>2. \A S : (\E x : S = {x}) => Cardinality(S) = 1
    BY OneOf
  <2>3. (Cardinality(E) = 1 /\ Cardinality(O) = 0) \/ (Cardinality(E) = 0 /\ Cardinality(O) = 1)
    BY <1>3, <2>1, <2>2
  <2> QED
    BY <2>3
<1> QED
  BY <1>4 DEF E, O

\* Each leaf has one owner, an entry of the directory or a leaf that overflows to it.
THEOREM LeavesCorrect == Spec => []EachLeafOnce
<1>1. IInv => EachLeafOnce
  BY OwnersCounted DEF IInv, EachLeafOnce
<1> QED
  BY <1>1, Invariance, PTL

\* A leaf that b overflows to, through others or not, is of the same chain.
LEMMA LeavesOfOne ==
  ASSUME TypeOK, NEW head, Sound(root, leaf, head), NEW b \in Blocks, NEW c \in Leaves(b)
  PROVE  c \in Blocks /\ head[c] = head[b]
<1> DEFINE S == {d \in Blocks : head[d] = head[b]}
           to == [d \in Blocks |-> leaf[d].flag]
<1>1. S \in SUBSET Blocks /\ b \in S
  OBVIOUS
<1>2. ASSUME NEW d \in S PROVE to[d] \in S \cup {None}
  <2>1. d \in DOMAIN leaf /\ head[d] = head[b]
    BY DEF Blocks
  <2>2. leaf[d].flag \in DOMAIN leaf \cup {None} /\ (leaf[d].flag # None => head[leaf[d].flag] = head[d])
    BY <2>1, BlockFacts
  <2> QED
    BY <2>1, <2>2 DEF Blocks
<1>3. c \in Blocks /\ \A T \in SUBSET Blocks : b \in T /\ (\A d \in T : to[d] \in T \cup {None}) => c \in T
  BY DEF Leaves, Reached
<1> QED
  BY <1>1, <1>2, <1>3

\* Pages are ordered, and records are in leaves of the entry in whose range they are,
\* as long as no call panicked, beheaded a leaf or was misled.
THEOREM OrderCorrect == Spec => []OrderHolds
<1>1. IInv => OrderHolds
  <2> SUFFICES ASSUME IInv, Sane
               PROVE  /\ \A i, j \in 0..root.num-1 : i < j => root.slot[i].key < root.slot[j].key
                      /\ \A b \in Blocks : \A i, j \in 0..leaf[b].num-1 :
                           i < j => leaf[b].slot[i].key <= leaf[b].slot[j].key
                      /\ \A i \in 0..root.num-1 : \A b \in Leaves(root.slot[i].ref) :
                           \A x \in Records(leaf[b]) : InRange(i, x.key)
    BY DEF OrderHolds
  <2>1. TypeOK /\ OneOwner(root, leaf) /\ \E head : Ordered(root, leaf, head)
    BY DEF IInv, Sane
  <2>2. PICK head : Ordered(root, leaf, head) /\ Sound(root, leaf, head)
    BY <2>1, SoundNow
  <2>3. ASSUME NEW i \in 0..root.num-1, NEW b \in Leaves(root.slot[i].ref), NEW x \in Records(leaf[b])
        PROVE  InRange(i, x.key)
    <3>1. root.slot[i].ref \in Blocks
      BY <2>1, Inside DEF RefsIn, Blocks
    <3>2. b \in Blocks /\ head[b] = head[root.slot[i].ref]
      BY <2>1, <2>2, <3>1, LeavesOfOne
    <3>3. EntryOf(root, i, root.slot[i].ref) /\ root.slot[i].ref \in DOMAIN leaf /\ b \in DOMAIN leaf
      BY <3>1, <3>2 DEF EntryOf, Blocks
    <3>4. head[root.slot[i].ref] = root.slot[i].ref
      BY <2>2, <3>3, BlockFacts
    <3>5. Serves(root, i, leaf[b], head[b])
      BY <2>2, <3>2, <3>3, <3>4, ServedOnce
    <3> QED
      BY <3>5 DEF Serves, Within, InRange
  <2> QED
    BY <2>2, <2>3 DEF Ordered, Strict, Sorted, Blocks
<1> QED
  BY <1>1, Invariance, PTL

\* A row that is indexed is in one slot.
LEMMA StoredOnce ==
  ASSUME TypeOK, Exact(leaf, contents), NEW r \in DOMAIN contents, contents[r] # Gone
  PROVE  Cardinality({x \in Stored : leaf[x[1]].slot[x[2]] = [key |-> contents[r], ref |-> r]}) = 1
<1> DEFINE X == {x \in Stored : leaf[x[1]].slot[x[2]] = [key |-> contents[r], ref |-> r]}
<1>1. PICK y : y = [key |-> contents[r], ref |-> r]
  OBVIOUS
<1>2. y \in AllRecords(leaf) /\ NotTwice(leaf)
  BY <1>1 DEF Exact, AllIndexed
<1>3. PICK b \in Blocks : \E i \in 0..leaf[b].num-1 : leaf[b].slot[i] = y
  BY <1>2 DEF AllRecords, Records, Blocks
<1>4. PICK i \in 0..leaf[b].num-1 : leaf[b].slot[i] = y
  BY <1>3
<1>5. ASSUME NEW c \in Blocks
      PROVE  /\ leaf[c].num \in 0..LeafSize /\ Slots(LeafSize) = 0..LeafSize-1
             /\ LeafSize \in Nat /\ leaf[c].num < LeafSize
  <2>1. leaf[c] \in LeafPage(DOMAIN leaf) /\ leaf[c].num < LeafSize /\ LeafSize \in Nat \ {0}
    BY Types, Sizes DEF LeafFile, Blocks
  <2>2. leaf[c].num \in 0..LeafSize
    BY <2>1, PageFields DEF LeafPage
  <2> QED
    BY <2>1, <2>2 DEF Slots
<1>6. \A c \in Blocks : \A j : j \in Slots(LeafSize) /\ j < leaf[c].num <=> j \in 0..leaf[c].num-1
  BY <1>5
<1>7. <<b, i>> \in X
  <2>1. <<b, i>> \in Stored
    BY <1>4, <1>6 DEF Stored
  <2> QED
    BY <1>1, <1>4, <2>1
<1>8. ASSUME NEW x \in X PROVE x = <<b, i>>
  <2>1. PICK c \in Blocks, j \in Slots(LeafSize) : x = <<c, j>> /\ j < leaf[c].num
    BY DEF Stored
  <2>2. j \in 0..leaf[c].num-1 /\ leaf[c].slot[j] = y
    BY <1>1, <1>6, <2>1
  <2>3. y \in Records(leaf[c]) /\ y \in Records(leaf[b])
    BY <1>4, <2>2 DEF Records
  <2>4. c = b
    BY <1>2, <2>3 DEF NotTwice, Blocks
  <2>5. j = i
    BY <1>2, <1>4, <2>2, <2>4 DEF NotTwice, Distinct, Blocks
  <2> QED
    BY <2>1, <2>4, <2>5
<1>9. X = {<<b, i>>}
  BY <1>7, <1>8
<1> HIDE DEF X
<1>10. Cardinality(X) = 1
  BY <1>9, OneOf
<1> QED
  BY <1>10 DEF X

\* The overflow blocks of a chain hold one key, and what is indexed is in one slot.
THEOREM ChainsCorrect == Spec => []ChainsHoldOneKey
<1>1. IInv => ChainsHoldOneKey
  <2> SUFFICES ASSUME IInv, Sane
               PROVE  /\ \A i \in 0..root.num-1 :
                           LET head == root.slot[i].ref
                           IN \A b, c \in Leaves(head) \ {head} :
                                \A x \in Records(leaf[b]), y \in Records(leaf[c]) : x.key = y.key
                      /\ \A r \in DOMAIN contents : contents[r] # Gone =>
                           Cardinality({x \in Stored :
                             leaf[x[1]].slot[x[2]] = [key |-> contents[r], ref |-> r]}) = 1
    BY DEF ChainsHoldOneKey
  <2>1. TypeOK /\ OneOwner(root, leaf) /\ (\E head : Ordered(root, leaf, head)) /\ Exact(leaf, contents)
    BY DEF IInv, Sane
  <2>2. PICK head : Sound(root, leaf, head)
    BY <2>1, SoundNow
  <2>3. ASSUME NEW i \in 0..root.num-1, NEW h, h = root.slot[i].ref, NEW b \in Leaves(h) \ {h}
        PROVE  \A x \in Records(leaf[b]) : x.key = first_key(leaf[h])
    <3>1. h \in Blocks
      BY <2>1, <2>3, Inside DEF RefsIn, Blocks
    <3>2. h \in DOMAIN leaf /\ EntryOf(root, i, h)
      BY <2>3, <3>1 DEF EntryOf, Blocks
    <3>3. b \in DOMAIN leaf /\ head[b] = h /\ head[b] # b
      <4>1. b \in Blocks /\ head[b] = head[h]
        BY <2>1, <2>2, <3>1, LeavesOfOne
      <4>2. head[h] = h
        BY <2>2, <3>2, BlockFacts
      <4> QED
        BY <4>1, <4>2 DEF Blocks
    <3>4. OneKeyOf(leaf[b], leaf[head[b]])
      BY <2>2, <3>3, BlockFacts
    <3> QED
      BY <3>3, <3>4 DEF OneKeyOf
  <2>4. \A r \in DOMAIN contents : contents[r] # Gone =>
          Cardinality({x \in Stored : leaf[x[1]].slot[x[2]] = [key |-> contents[r], ref |-> r]}) = 1
    BY <2>1, StoredOnce
  <2> QED
    BY <2>3, <2>4
<1> QED
  BY <1>1, Invariance, PTL

\* Until a leaf is beheaded or a blank slot taken for an entry, a lookup finds
\* the rows that were indexed under its key and not deleted, and no others.
THEOREM LookupsCorrect == Spec => []ExactUntilBeheaded
<1>1. IInv => ExactUntilBeheaded
  <2> SUFFICES ASSUME IInv, Sane, NEW k \in Key, ~Panics(root, k), ~misleads(k)
               PROVE  Lookup(k) = InsertedUnder(k)
    BY DEF ExactUntilBeheaded
  <2>1. TypeOK /\ OneOwner(root, leaf) /\ (\E head : Ordered(root, leaf, head)) /\ Exact(leaf, contents)
    BY DEF IInv, Sane
  <2>2. PICK head : Sound(root, leaf, head)
    BY <2>1, SoundNow
  <2> QED
    BY <2>1, <2>2, LookupExact
<1> QED
  BY <1>1, Invariance, PTL

=============================================================================
