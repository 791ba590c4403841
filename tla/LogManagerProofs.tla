-------------------------- MODULE LogManagerProofs --------------------------
(***************************************************************************)
(* Proofs about LogManager: its invariants, what can make the log          *)
(* unreadable, and that it implements DurableLog.                          *)
(***************************************************************************)
EXTENDS LogManager, Integers, FiniteSetsExt, NaturalsInduction,
        SequenceTheorems, WellFoundedInduction, TLAPS

-----------------------------------------------------------------------------
(* Induction about sets of numbers, and functions defined by recursion.    *)

\* A set of numbers that has one has a least one.
LEMMA LeastExists ==
  ASSUME NEW S, S \subseteq Nat, S # {}
  PROVE  \E i \in S : \A j \in S : i <= j
<1>1. IsWellFoundedOn(OpToRel(<, Nat), Nat)
  BY NatLessThanWellFounded
<1>2. PICK x \in S : \A y \in S : ~ (<<y, x>> \in OpToRel(<, Nat))
  BY <1>1, WFMin
<1>3. \A y \in S : x =< y
  <2> TAKE y \in S
  <2>1. <<y, x>> \in OpToRel(<, Nat) <=> y < x
    BY DEF OpToRel
  <2>2. x \in Nat /\ y \in Nat /\ ~ (y < x)
    BY <1>2, <2>1
  <2> QED
    BY <2>2
<1> QED
  BY <1>2, <1>3

\* A set with 0 and, up to m, with the successor of each member.
LEMMA UpTo ==
  ASSUME NEW m \in Nat, NEW S, 0 \in S, \A n \in 1..m : n - 1 \in S => n \in S
  PROVE  0..m \subseteq S
<1> SUFFICES ASSUME (0..m) \ S # {} PROVE FALSE
  OBVIOUS
<1> DEFINE T == (0..m) \ S
<1>1. \E i \in T : \A j \in T : i <= j
  <2>1. T \subseteq Nat /\ T # {}
    OBVIOUS
  <2> HIDE DEF T
  <2> QED
    BY <2>1, LeastExists
<1>2. PICK i \in T : \A j \in T : i <= j
  BY <1>1
<1>3. i \in 1..m /\ i - 1 \in 0..m /\ ~(i <= i - 1)
  BY <1>2
<1> QED
  BY <1>2, <1>3

\* f and g begin with the same, and go on with the same from the same.
InStep(f, g, m) ==
  f[0] = g[0] /\ \A n \in 1..m : f[n - 1] = g[n - 1] => f[n] = g[n]

\* Two functions with the same beginning and the same recursion are the same.
LEMMA SameRecursion ==
  ASSUME NEW m \in Nat, NEW f, NEW g, InStep(f, g, m)
  PROVE  \A n \in 0..m : f[n] = g[n]
<1> DEFINE S == {n \in 0..m : f[n] = g[n]}
<1>1. 0 \in S /\ \A n \in 1..m : n - 1 \in S => n \in S
  BY DEF InStep
<1>2. 0..m \subseteq S
  <2> HIDE DEF S
  <2> QED
    BY <1>1, UpTo
<1> QED
  BY <1>2

\* f begins with base and goes on by the steps up to m.
Recursive(f, m, base, step) ==
  f[0] = base /\ \A n \in 1..m : f[n] = step[n][f[n - 1]]

\* A recursion by steps that stay in a set has a solution in it.
LEMMA RecursionExists ==
  ASSUME NEW m \in Nat, NEW D, NEW base \in D, NEW step,
         \A n \in 1..m : \A x \in D : step[n][x] \in D
  PROVE  \E f : f \in [0..m -> D] /\ Recursive(f, m, base, step)
<1> DEFINE Solves(f, k) == f[0] = base /\ \A n \in 1..k : f[n] = step[n][f[n - 1]]
           S == {k \in 0..m : \E f \in [0..k -> D] : Solves(f, k)}
<1>1. 0 \in S
  <2>1. Solves([n \in 0..0 |-> base], 0)
    OBVIOUS
  <2>2. [n \in 0..0 |-> base] \in [0..0 -> D]
    OBVIOUS
  <2>3. \E f \in [0..0 -> D] : Solves(f, 0)
    <3> HIDE DEF Solves
    <3> QED
      BY <2>1, <2>2
  <2> QED
    BY <2>3
<1>2. ASSUME NEW k \in 1..m, k - 1 \in S PROVE k \in S
  <2>1. PICK f \in [0..(k - 1) -> D] : Solves(f, k - 1)
    BY <1>2
  <2> DEFINE g == [n \in 0..k |-> IF n = k THEN step[k][f[k - 1]] ELSE f[n]]
  <2>2. \A n \in 0..k : n = k \/ n \in 0..(k - 1)
    BY <1>2
  <2>3. k - 1 \in 0..(k - 1) /\ 0 \in 0..(k - 1)
    BY <1>2
  <2>4. g \in [0..k -> D]
    <3>1. step[k][f[k - 1]] \in D
      BY <2>1, <2>3
    <3> QED
      BY <2>2, <3>1
  <2>5. Solves(g, k)
    <3>1. g[0] = base
      BY <2>1, <2>3
    <3>2. ASSUME NEW n \in 1..k PROVE g[n] = step[n][g[n - 1]]
      <4>1. g[n - 1] = f[n - 1] /\ n \in 0..k
        BY <1>2
      <4>2. CASE n = k
        BY <4>1, <4>2
      <4>3. CASE n # k
        <5>1. n \in 1..(k - 1)
          BY <1>2, <4>3
        <5> QED
          BY <2>1, <4>1, <4>3, <5>1
      <4> QED
        BY <4>2, <4>3
    <3> QED
      BY <3>1, <3>2
  <2>6. k \in 0..m
    BY <1>2
  <2> QED
    BY <2>4, <2>5, <2>6
<1>3. m \in S
  <2> HIDE DEF S
  <2>1. 0..m \subseteq S
    BY <1>1, <1>2, UpTo
  <2> QED
    BY <2>1
<1> QED
  BY <1>3 DEF Recursive

-----------------------------------------------------------------------------
(* What the operators on blocks compute.                                   *)

\* f[n] is what a reader finds in the first n blocks.
Reads(f, blocks) ==
  /\ f \in [0..Len(blocks) -> Seq(Record)]
  /\ f[0] = <<>>
  /\ \A n \in 1..Len(blocks) : f[n] = blocks[n].recs \o f[n - 1]

LEMMA BackwardReads ==
  ASSUME NEW blocks \in Seq(Page)
  PROVE  \E f : Reads(f, blocks) /\ Backward(blocks) = f[Len(blocks)]
<1> DEFINE m == Len(blocks)
           Is(f) == f = [n \in 0..m |-> IF n = 0 THEN <<>> ELSE blocks[n].recs \o f[n - 1]]
           from == CHOOSE f : Is(f)
           step == [n \in 1..m |-> [s \in Seq(Record) |-> blocks[n].recs \o s]]
<1>1. Backward(blocks) = from[m]
  BY DEF Backward
<1>2. m \in Nat /\ \A n \in 1..m : blocks[n].recs \in Seq(Record)
  <2>1. m \in Nat /\ \A n \in 1..m : blocks[n] \in Page
    BY LenProperties, ElementOfSeq
  <2> QED
    BY <2>1 DEF Page
<1>3. \A n \in 1..m : \A s \in Seq(Record) : step[n][s] \in Seq(Record)
  BY <1>2, ConcatProperties
<1>4. PICK f :
        /\ f \in [0..m -> Seq(Record)] /\ f[0] = <<>>
        /\ \A n \in 1..m : f[n] = step[n][f[n - 1]]
  <2> DEFINE D == Seq(Record)
             none == <<>>
  <2>1. none \in D /\ \A n \in 1..m : \A s \in D : step[n][s] \in D
    BY <1>3, EmptySeq
  <2>2. m \in Nat
    BY <1>2
  <2> HIDE DEF m, step, D, none
  <2>3. \E f : f \in [0..m -> D] /\ Recursive(f, m, none, step)
    BY <2>1, <2>2, RecursionExists
  <2> QED
    BY <2>3 DEF D, none, Recursive
<1>5. \A n \in 1..m : n - 1 \in 0..m /\ n \in 0..m
  BY <1>2
<1>6. \A n \in 1..m : f[n] = blocks[n].recs \o f[n - 1]
  BY <1>4, <1>5
<1>7. Is(f)
  <2>1. \A n \in 0..m : n = 0 \/ n \in 1..m
    BY <1>2
  <2>2. \A n \in 0..m : f[n] = IF n = 0 THEN <<>> ELSE blocks[n].recs \o f[n - 1]
    <3> TAKE n \in 0..m
    <3>1. CASE n = 0
      BY <3>1, <1>4
    <3>2. CASE n # 0
      BY <3>2, <2>1, <1>6
    <3> QED
      BY <3>1, <3>2
  <2> HIDE DEF m
  <2> QED
    BY <2>2, <1>4
<1>8. Is(from)
  <2> HIDE DEF Is
  <2> QED
    BY <1>7
<1>9. /\ from[0] = <<>>
      /\ \A n \in 1..m : from[n] = blocks[n].recs \o from[n - 1]
  <2>1. from = [n \in 0..m |-> IF n = 0 THEN <<>> ELSE blocks[n].recs \o from[n - 1]]
    BY <1>8
  <2> HIDE DEF from
  <2>2. 0 \in 0..m /\ \A n \in 1..m : n \in 0..m /\ n # 0
    BY <1>2
  <2> HIDE DEF m
  <2> QED
    BY <2>1, <2>2
<1>10. \A n \in 0..m : f[n] = from[n]
  <2> HIDE DEF from, m
  <2>1. \A n \in 1..m : f[n - 1] = from[n - 1] => f[n] = from[n]
    BY <1>6, <1>9
  <2>2. m \in Nat /\ f[0] = from[0]
    BY <1>2, <1>4, <1>9
  <2>3. InStep(f, from, m)
    BY <2>1, <2>2 DEF InStep
  <2> QED
    BY <2>2, <2>3, SameRecursion
<1>11. f[m] = from[m]
  <2> HIDE DEF from, m
  <2> QED
    BY <1>2, <1>10
<1> QED
  <2> HIDE DEF from, Is
  <2> QED
    BY <1>1, <1>4, <1>6, <1>11 DEF Reads

LEMMA ReadsType ==
  ASSUME NEW blocks \in Seq(Page)
  PROVE  Backward(blocks) \in Seq(Record)
<1>1. PICK f : Reads(f, blocks) /\ Backward(blocks) = f[Len(blocks)]
  BY BackwardReads
<1>2. Len(blocks) \in 0..Len(blocks)
  OBVIOUS
<1> QED
  BY <1>1, <1>2 DEF Reads

\* A block added at the end is read first.
LEMMA BackwardAppend ==
  ASSUME NEW blocks \in Seq(Page), NEW b \in Page
  PROVE  Backward(Append(blocks, b)) = b.recs \o Backward(blocks)
<1> DEFINE more == Append(blocks, b)
           m == Len(blocks)
<1>1. /\ more \in Seq(Page) /\ Len(more) = m + 1 /\ more[m + 1] = b /\ m \in Nat
      /\ \A n \in 1..m : more[n] = blocks[n]
  BY AppendProperties
<1>2. PICK f : Reads(f, blocks) /\ Backward(blocks) = f[m]
  BY BackwardReads
<1>3. PICK g : Reads(g, more) /\ Backward(more) = g[m + 1]
  <2> HIDE DEF more
  <2> QED
    BY <1>1, BackwardReads
<1>4. f[0] = <<>> /\ \A n \in 1..m : f[n] = blocks[n].recs \o f[n - 1]
  BY <1>2 DEF Reads
<1>5. g[0] = <<>> /\ \A n \in 1..(m + 1) : g[n] = more[n].recs \o g[n - 1]
  <2> HIDE DEF more
  <2> QED
    BY <1>1, <1>3 DEF Reads
<1> HIDE DEF more, m
<1>6. \A n \in 0..m : f[n] = g[n]
  <2>1. \A n \in 1..m : f[n - 1] = g[n - 1] => f[n] = g[n]
    <3> TAKE n \in 1..m
    <3>1. n \in 1..(m + 1)
      BY <1>1
    <3>2. g[n] = blocks[n].recs \o g[n - 1]
      BY <1>1, <1>5, <3>1
    <3> QED
      BY <1>4, <3>2
  <2>2. m \in Nat /\ f[0] = g[0]
    BY <1>1, <1>4, <1>5
  <2>3. InStep(f, g, m)
    BY <2>1, <2>2 DEF InStep
  <2> QED
    BY <2>2, <2>3, SameRecursion
<1>7. g[m + 1] = b.recs \o g[m]
  <2>1. m + 1 \in 1..(m + 1) /\ (m + 1) - 1 = m
    BY <1>1
  <2>2. g[m + 1] = more[m + 1].recs \o g[(m + 1) - 1]
    BY <1>5, <2>1
  <2> QED
    BY <1>1, <2>1, <2>2
<1>8. f[m] = g[m]
  BY <1>1, <1>6
<1> QED
  BY <1>2, <1>3, <1>7, <1>8 DEF more

LEMMA BackwardNone == Backward(<<>>) = <<>>
<1>1. <<>> \in Seq(Page) /\ Len(<<>>) = 0
  BY EmptySeq
<1>2. PICK f : Reads(f, <<>>) /\ Backward(<<>>) = f[0]
  BY <1>1, BackwardReads
<1> QED
  BY <1>2 DEF Reads

LEMMA BackwardOne ==
  ASSUME NEW b \in Page, b.recs = <<>>
  PROVE  Backward(<<b>>) = <<>>
<1>1. <<>> \in Seq(Page) /\ <<b>> = Append(<<>>, b)
  BY EmptySeq
<1>2. Backward(<<b>>) = b.recs \o Backward(<<>>)
  BY <1>1, BackwardAppend
<1>3. b.recs \o <<>> = <<>>
  BY EmptySeq, ConcatEmptySeq
<1> QED
  BY <1>2, <1>3, BackwardNone

\* The last of some blocks, taken apart and replaced.
LEMMA LastBlock ==
  ASSUME NEW blocks \in Seq(Page), blocks # <<>>, NEW b \in Page
  PROVE  /\ Front(blocks) \in Seq(Page)
         /\ Len(Front(blocks)) = Len(blocks) - 1
         /\ \A n \in 1..(Len(blocks) - 1) : Front(blocks)[n] = blocks[n]
         /\ blocks = Append(Front(blocks), blocks[Len(blocks)])
         /\ [blocks EXCEPT ![Len(blocks)] = b] = Append(Front(blocks), b)
<1> DEFINE m == Len(blocks)
           front == Front(blocks)
<1>1. m \in Nat \ {0} /\ \A n \in 1..m : blocks[n] \in Page
  BY EmptySeq, ElementOfSeq
<1>2. /\ front \in Seq(Page) /\ Len(front) = m - 1
      /\ \A n \in 1..(m - 1) : front[n] = blocks[n]
  <2>1. \A n \in 1..(m - 1) : blocks[n] \in Page
    BY <1>1
  <2>2. 1 \in Int /\ m - 1 \in Int
    BY <1>1
  <2>3. /\ SubSeq(blocks, 1, m - 1) \in Seq(Page)
        /\ Len(SubSeq(blocks, 1, m - 1)) = IF 1 <= m - 1 THEN m - 1 - 1 + 1 ELSE 0
        /\ \A i \in 1 .. m - 1 - 1 + 1 : SubSeq(blocks, 1, m - 1)[i] = blocks[1 + i - 1]
    <3> HIDE DEF m
    <3> QED
      BY <2>1, <2>2, SubSeqProperties
  <2>4. front = SubSeq(blocks, 1, m - 1)
    BY DEF Front
  <2> HIDE DEF front, m
  <2> QED
    BY <1>1, <2>3, <2>4
<1>3. /\ m \in 1..Len(blocks)
      /\ blocks[m] \in Page
  BY <1>1
<1>4. \A c \in Page :
        /\ Append(front, c) \in Seq(Page) /\ Len(Append(front, c)) = m
        /\ Append(front, c)[m] = c
        /\ \A n \in 1..(m - 1) : Append(front, c)[n] = blocks[n]
  <2> HIDE DEF front, m
  <2> TAKE c \in Page
  <2>1. /\ Append(front, c) \in Seq(Page) /\ Len(Append(front, c)) = Len(front) + 1
        /\ \A n \in 1..Len(front) : Append(front, c)[n] = front[n]
        /\ Append(front, c)[Len(front) + 1] = c
    BY <1>2, AppendProperties
  <2> QED
    BY <1>1, <1>2, <2>1
<1>5. blocks = Append(front, blocks[m])
  <2>1. \A n \in 1..m : n = m \/ n \in 1..(m - 1)
    BY <1>1
  <2>2. \A n \in 1..m : blocks[n] = Append(front, blocks[m])[n]
    BY <1>3, <1>4, <2>1
  <2>3. Len(Append(front, blocks[m])) = m /\ Append(front, blocks[m]) \in Seq(Page)
    BY <1>3, <1>4
  <2> DEFINE whole == Append(front, blocks[m])
  <2> HIDE DEF front, whole
  <2> QED
    BY <2>2, <2>3, SeqEqual DEF whole
<1>6. [blocks EXCEPT ![m] = b] = Append(front, b)
  <2>1. /\ [blocks EXCEPT ![m] = b] \in Seq(Page)
        /\ Len([blocks EXCEPT ![m] = b]) = m
        /\ \A j \in 1 .. m : [blocks EXCEPT ![m] = b][j] = IF j=m THEN b ELSE blocks[j]
    BY <1>3, ExceptSeq
  <2>2. Append(front, b) \in Seq(Page) /\ Len(Append(front, b)) = m
    BY <1>4
  <2>3. \A j \in 1..m : [blocks EXCEPT ![m] = b][j] = Append(front, b)[j]
    <3> TAKE j \in 1..m
    <3>1. j = m \/ j \in 1..(m - 1)
      BY <1>1
    <3> HIDE DEF front, m
    <3> QED
      BY <1>4, <2>1, <3>1
  <2> DEFINE new == [blocks EXCEPT ![m] = b]
             whole == Append(front, b)
  <2>4. /\ new \in Seq(Page) /\ whole \in Seq(Page) /\ Len(new) = Len(whole)
        /\ \A j \in 1..Len(new) : new[j] = whole[j]
    BY <2>1, <2>2, <2>3
  <2> HIDE DEF new, whole
  <2>5. new = whole
    BY <2>4, SeqEqual
  <2> QED
    BY <2>5 DEF new, whole
<1> QED
  BY <1>2, <1>5, <1>6

\* The blocks before one that was just added.
LEMMA FrontOfAppend ==
  ASSUME NEW blocks \in Seq(Page), NEW b \in Page
  PROVE  Front(Append(blocks, b)) = blocks
<1> DEFINE more == Append(blocks, b)
           front == Front(more)
<1>1. /\ more \in Seq(Page) /\ more # <<>> /\ Len(more) = Len(blocks) + 1
      /\ \A n \in 1..Len(blocks) : more[n] = blocks[n]
      /\ Len(blocks) \in Nat
  BY AppendProperties, LenProperties
<1> HIDE DEF more
<1>2. /\ front \in Seq(Page) /\ Len(front) = Len(more) - 1
      /\ \A n \in 1..(Len(more) - 1) : front[n] = more[n]
  BY <1>1, LastBlock
<1> HIDE DEF front
<1>3. Len(front) = Len(blocks) /\ \A n \in 1..Len(front) : front[n] = blocks[n]
  BY <1>1, <1>2
<1>4. front = blocks
  BY <1>2, <1>3, SeqEqual
<1> QED
  BY <1>4 DEF front, more

-----------------------------------------------------------------------------
(* What the operators on records compute.                                  *)

\* f[n] is the size of the last n records.
Sums(f, recs) ==
  /\ f \in [0..Len(recs) -> Nat]
  /\ f[0] = 0
  /\ \A n \in 1..Len(recs) : f[n] = Size[recs[Len(recs) - n + 1]] + f[n - 1]

LEMMA SizeSums ==
  ASSUME NEW recs \in Seq(Record)
  PROVE  \E f : Sums(f, recs) /\ SizeOf(recs) = f[Len(recs)]
<1> DEFINE m == Len(recs)
           size(n) == Size[recs[m - n + 1]]
           Is(f) == f = [n \in 0..m |-> IF n = 0 THEN 0 ELSE size(n) + f[n - 1]]
           last == CHOOSE f : Is(f)
           step == [n \in 1..m |-> [s \in Nat |-> size(n) + s]]
<1>1. SizeOf(recs) = last[m]
  BY DEF SizeOf
<1>2. m \in Nat /\ \A n \in 1..m : size(n) \in Nat
  <2>1. m \in Nat /\ \A n \in 1..m : recs[n] \in Record
    BY LenProperties, ElementOfSeq
  <2>2. \A n \in 1..m : m - n + 1 \in 1..m
    BY <2>1
  <2> QED
    BY <2>1, <2>2, LogManagerAssumption
<1>3. \A n \in 1..m : \A s \in Nat : step[n][s] \in Nat
  <2> HIDE DEF size, m
  <2> QED
    BY <1>2
<1>4. PICK f :
        /\ f \in [0..m -> Nat] /\ f[0] = 0
        /\ \A n \in 1..m : f[n] = step[n][f[n - 1]]
  <2>1. 0 \in Nat /\ m \in Nat
    BY <1>2
  <2> HIDE DEF m, step
  <2>2. \E f : f \in [0..m -> Nat] /\ Recursive(f, m, 0, step)
    BY <1>3, <2>1, RecursionExists
  <2> QED
    BY <2>2 DEF Recursive
<1>5. \A n \in 1..m : n - 1 \in 0..m /\ n \in 0..m
  BY <1>2
<1> HIDE DEF size
<1>6. \A n \in 1..m : f[n] = size(n) + f[n - 1]
  BY <1>4, <1>5
<1>7. Is(f)
  <2>1. \A n \in 0..m : n = 0 \/ n \in 1..m
    BY <1>2
  <2>2. \A n \in 0..m : f[n] = IF n = 0 THEN 0 ELSE size(n) + f[n - 1]
    <3> TAKE n \in 0..m
    <3>1. CASE n = 0
      BY <3>1, <1>4
    <3>2. CASE n # 0
      BY <3>2, <2>1, <1>6
    <3> QED
      BY <3>1, <3>2
  <2> HIDE DEF m
  <2> QED
    BY <2>2, <1>4
<1>8. Is(last)
  <2> HIDE DEF Is
  <2> QED
    BY <1>7
<1>9. /\ last[0] = 0
      /\ \A n \in 1..m : last[n] = size(n) + last[n - 1]
  <2>1. last = [n \in 0..m |-> IF n = 0 THEN 0 ELSE size(n) + last[n - 1]]
    BY <1>8
  <2> HIDE DEF last
  <2>2. 0 \in 0..m /\ \A n \in 1..m : n \in 0..m /\ n # 0
    BY <1>2
  <2> HIDE DEF m
  <2> QED
    BY <2>1, <2>2
<1>10. \A n \in 0..m : f[n] = last[n]
  <2> HIDE DEF last, m
  <2>1. \A n \in 1..m : f[n - 1] = last[n - 1] => f[n] = last[n]
    BY <1>6, <1>9
  <2>2. m \in Nat /\ f[0] = last[0]
    BY <1>2, <1>4, <1>9
  <2>3. InStep(f, last, m)
    BY <2>1, <2>2 DEF InStep
  <2> QED
    BY <2>2, <2>3, SameRecursion
<1>11. f[m] = last[m]
  <2> HIDE DEF last, m
  <2> QED
    BY <1>2, <1>10
<1> QED
  <2> HIDE DEF last, Is
  <2> QED
    BY <1>1, <1>4, <1>6, <1>11 DEF Sums, size

LEMMA SizeOfNone == SizeOf(<<>>) = 0
<1>1. <<>> \in Seq(Record) /\ Len(<<>>) = 0
  BY EmptySeq
<1>2. PICK f : Sums(f, <<>>) /\ SizeOf(<<>>) = f[0]
  BY <1>1, SizeSums
<1> QED
  BY <1>2 DEF Sums

\* A record put in front of others.
LEMMA InFront ==
  ASSUME NEW recs \in Seq(Record), NEW r \in Record
  PROVE  /\ <<r>> \o recs \in Seq(Record)
         /\ Len(<<r>> \o recs) = Len(recs) + 1
         /\ (<<r>> \o recs)[1] = r
         /\ \A n \in 2..(Len(recs) + 1) : (<<r>> \o recs)[n] = recs[n - 1]
<1>1. <<r>> \in Seq(Record) /\ Len(<<r>>) = 1 /\ <<r>>[1] = r
  OBVIOUS
<1> DEFINE one == <<r>>
<1>2. one \in Seq(Record) /\ Len(one) = 1 /\ one[1] = r
  BY <1>1
<1> HIDE DEF one
<1>3. /\ one \o recs \in Seq(Record)
      /\ Len(one \o recs) = Len(one) + Len(recs)
      /\ \A i \in 1 .. Len(one) + Len(recs) :
           (one \o recs)[i] = IF i <= Len(one) THEN one[i] ELSE recs[i - Len(one)]
  BY <1>2, ConcatProperties
<1>4. Len(recs) \in Nat
  BY LenProperties
<1>5. /\ one \o recs \in Seq(Record)
      /\ Len(one \o recs) = Len(recs) + 1
      /\ (one \o recs)[1] = r
      /\ \A n \in 2..(Len(recs) + 1) : (one \o recs)[n] = recs[n - 1]
  BY <1>2, <1>3, <1>4
<1> QED
  BY <1>5 DEF one

LEMMA SizeOfInFront ==
  ASSUME NEW recs \in Seq(Record), NEW r \in Record
  PROVE  SizeOf(recs) \in Nat /\ SizeOf(<<r>> \o recs) = SizeOf(recs) + Size[r]
<1> DEFINE more == <<r>> \o recs
           m == Len(recs)
<1>1. /\ more \in Seq(Record) /\ Len(more) = m + 1 /\ more[1] = r
      /\ \A n \in 2..(m + 1) : more[n] = recs[n - 1]
  BY InFront
<1>2. m \in Nat /\ Size[r] \in Nat
  BY LenProperties, LogManagerAssumption
<1>3. PICK f : Sums(f, recs) /\ SizeOf(recs) = f[m]
  BY SizeSums
<1> HIDE DEF more
<1>4. PICK g : Sums(g, more) /\ SizeOf(more) = g[m + 1]
  BY <1>1, SizeSums
<1>5. /\ f \in [0..m -> Nat] /\ f[0] = 0
      /\ \A n \in 1..m : f[n] = Size[recs[m - n + 1]] + f[n - 1]
  BY <1>3 DEF Sums
<1> HIDE DEF m
<1>6. g[0] = 0 /\ \A n \in 1..(m + 1) : g[n] = Size[more[(m + 1) - n + 1]] + g[n - 1]
  BY <1>1, <1>4 DEF Sums
<1>7. \A n \in 0..m : f[n] = g[n]
  <2>1. \A n \in 1..m : f[n - 1] = g[n - 1] => f[n] = g[n]
    <3> TAKE n \in 1..m
    <3>1. /\ n \in 1..(m + 1) /\ (m + 1) - n + 1 \in 2..(m + 1)
          /\ (m + 1) - n + 1 - 1 = m - n + 1
      BY <1>2
    <3>2. more[(m + 1) - n + 1] = recs[m - n + 1]
      BY <1>1, <3>1
    <3>3. g[n] = Size[recs[m - n + 1]] + g[n - 1]
      BY <1>6, <3>1, <3>2
    <3> QED
      BY <1>5, <3>3
  <2>2. m \in Nat /\ f[0] = g[0]
    BY <1>2, <1>5, <1>6
  <2>3. InStep(f, g, m)
    BY <2>1, <2>2 DEF InStep
  <2> QED
    BY <2>2, <2>3, SameRecursion
<1>8. f[m] = g[m] /\ f[m] \in Nat
  BY <1>2, <1>5, <1>7
<1>9. g[m + 1] = Size[r] + g[m]
  <2>1. m + 1 \in 1..(m + 1) /\ (m + 1) - (m + 1) + 1 = 1 /\ (m + 1) - 1 = m
    BY <1>2
  <2>2. g[m + 1] = Size[more[(m + 1) - (m + 1) + 1]] + g[(m + 1) - 1]
    BY <1>6, <2>1
  <2> QED
    BY <1>1, <2>1, <2>2
<1>10. SizeOf(recs) \in Nat /\ SizeOf(more) = SizeOf(recs) + Size[r]
  BY <1>2, <1>3, <1>4, <1>8, <1>9
<1> QED
  BY <1>10 DEF more

LEMMA ReverseProperties ==
  ASSUME NEW recs \in Seq(Record)
  PROVE  /\ Reverse(recs) \in Seq(Record)
         /\ Len(Reverse(recs)) = Len(recs)
         /\ \A n \in 1..Len(recs) : Reverse(recs)[n] = recs[(Len(recs) - n) + 1]
<1>1. Len(recs) \in Nat /\ \A n \in 1..Len(recs) : recs[n] \in Record
  BY LenProperties, ElementOfSeq
<1>2. \A n \in 1..Len(recs) : (Len(recs) - n) + 1 \in 1..Len(recs)
  BY <1>1
<1>3. Reverse(recs) \in [1..Len(recs) -> Record]
  BY <1>1, <1>2 DEF Reverse
<1>4. Reverse(recs) \in Seq(Record) /\ Len(Reverse(recs)) = Len(recs)
  BY <1>1, <1>3
<1> QED
  BY <1>4 DEF Reverse

LEMMA ReverseInFront ==
  ASSUME NEW recs \in Seq(Record), NEW r \in Record
  PROVE  Reverse(<<r>> \o recs) = Append(Reverse(recs), r)
<1> DEFINE more == <<r>> \o recs
           m == Len(recs)
           back == Reverse(recs)
           left == Reverse(more)
           right == Append(back, r)
<1>1. /\ more \in Seq(Record) /\ Len(more) = m + 1 /\ more[1] = r
      /\ \A n \in 2..(m + 1) : more[n] = recs[n - 1]
  BY InFront
<1>2. m \in Nat
  BY LenProperties
<1>3. /\ back \in Seq(Record) /\ Len(back) = m
      /\ \A n \in 1..m : back[n] = recs[(m - n) + 1]
  BY ReverseProperties
<1> HIDE DEF more, back
<1>4. /\ left \in Seq(Record) /\ Len(left) = m + 1
      /\ \A n \in 1..(m + 1) : left[n] = more[((m + 1) - n) + 1]
  <2>1. /\ left \in Seq(Record) /\ Len(left) = Len(more)
        /\ \A n \in 1..Len(more) : left[n] = more[(Len(more) - n) + 1]
    BY <1>1, ReverseProperties
  <2> HIDE DEF left, m
  <2> QED
    BY <1>1, <2>1
<1> HIDE DEF m
<1>5. /\ right \in Seq(Record) /\ Len(right) = m + 1 /\ right[m + 1] = r
      /\ \A n \in 1..m : right[n] = back[n]
  BY <1>3, AppendProperties
<1> HIDE DEF left, right
<1>6. \A n \in 1..(m + 1) : left[n] = right[n]
  <2> TAKE n \in 1..(m + 1)
  <2>1. CASE n = m + 1
    BY <1>1, <1>2, <1>4, <1>5, <2>1
  <2>2. CASE n # m + 1
    <3>1. n \in 1..m /\ ((m + 1) - n) + 1 \in 2..(m + 1) /\ ((m + 1) - n) + 1 - 1 = (m - n) + 1
      BY <1>2, <2>2
    <3>2. left[n] = more[((m + 1) - n) + 1]
      BY <1>4
    <3>3. more[((m + 1) - n) + 1] = recs[(m - n) + 1]
      BY <1>1, <3>1
    <3>4. right[n] = recs[(m - n) + 1]
      BY <1>3, <1>5, <3>1
    <3> QED
      BY <3>2, <3>3, <3>4
  <2> QED
    BY <2>1, <2>2
<1>7. left = right
  BY <1>4, <1>5, <1>6, SeqEqual
<1> QED
  BY <1>7 DEF left, right, more, back

\* Reading backward, what is older comes last.
LEMMA ReverseOfOlder ==
  ASSUME NEW new \in Seq(Record), NEW old \in Seq(Record)
  PROVE  Reverse(old) = SubSeq(Reverse(new \o old), 1, Len(old))
<1> DEFINE all == new \o old
           m == Len(old)
           k == Len(new)
           back == Reverse(all)
           left == Reverse(old)
           right == SubSeq(back, 1, m)
<1>1. m \in Nat /\ k \in Nat
  BY LenProperties
<1>2. /\ all \in Seq(Record) /\ Len(all) = k + m
      /\ \A n \in 1..(k + m) : all[n] = IF n <= k THEN new[n] ELSE old[n - k]
  BY ConcatProperties
<1>3. /\ left \in Seq(Record) /\ Len(left) = m
      /\ \A n \in 1..m : left[n] = old[(m - n) + 1]
  BY ReverseProperties
<1> HIDE DEF all, left
<1>4. /\ back \in Seq(Record) /\ Len(back) = k + m
      /\ \A n \in 1..(k + m) : back[n] = all[((k + m) - n) + 1]
  <2>1. /\ back \in Seq(Record) /\ Len(back) = Len(all)
        /\ \A n \in 1..Len(all) : back[n] = all[(Len(all) - n) + 1]
    BY <1>2, ReverseProperties
  <2> HIDE DEF back, m, k
  <2> QED
    BY <1>2, <2>1
<1> HIDE DEF back, m, k
<1>5. /\ right \in Seq(Record) /\ Len(right) = m
      /\ \A n \in 1..m : right[n] = back[n]
  <2>1. \A n \in 1..m : back[n] \in Record
    <3>1. \A n \in 1..m : n \in 1..(k + m)
      BY <1>1
    <3> QED
      BY <1>4, <3>1, ElementOfSeq
  <2>2. 1 \in Int /\ m \in Int
    BY <1>1
  <2>3. /\ right \in Seq(Record)
        /\ Len(right) = IF 1 <= m THEN m - 1 + 1 ELSE 0
        /\ \A i \in 1 .. m - 1 + 1 : right[i] = back[1 + i - 1]
    BY <2>1, <2>2, SubSeqProperties
  <2> HIDE DEF right
  <2> QED
    BY <1>1, <2>3
<1> HIDE DEF right
<1>6. \A n \in 1..m : left[n] = right[n]
  <2> TAKE n \in 1..m
  <2>1. /\ n \in 1..(k + m) /\ ((k + m) - n) + 1 \in 1..(k + m)
        /\ ~(((k + m) - n) + 1 <= k) /\ ((k + m) - n) + 1 - k = (m - n) + 1
    BY <1>1
  <2>2. right[n] = all[((k + m) - n) + 1]
    BY <1>4, <1>5, <2>1
  <2> DEFINE i == ((k + m) - n) + 1
  <2>3. all[i] = old[i - k]
    <3> HIDE DEF i
    <3>1. i \in 1..(k + m) /\ ~(i <= k)
      BY <2>1 DEF i
    <3> QED
      BY <1>2, <3>1
  <2>4. i - k = (m - n) + 1
    BY <1>1
  <2>5. right[n] = all[i]
    BY <2>2
  <2> HIDE DEF i
  <2> QED
    BY <1>3, <2>3, <2>4, <2>5
<1>7. left = right
  BY <1>3, <1>5, <1>6, SeqEqual
<1> QED
  BY <1>7 DEF left, right, back, all, m

-----------------------------------------------------------------------------
(* The inductive invariant.                                                *)

\* The records old are the last of recs.
Ends(old, recs) ==
  /\ Len(old) <= Len(recs)
  /\ \A n \in 1..Len(old) : recs[Len(recs) - Len(old) + n] = old[n]

\* While the manager runs, the page is that of the last block of the file,
\* with the records it has not written yet in front; or the write that should
\* have made a last block failed, and left zeros there.
PageAtEnd ==
  Running =>
    /\ current_block \in 1..Len(disk)
    /\ log_page.boundary = 0 => disk[current_block].boundary = 0
    /\ current_block < Len(disk) => disk[Len(disk)].boundary = 0
    /\ current_block = Len(disk) =>
         /\ disk[current_block].boundary = 0 => log_page.boundary = 0
         /\ Ends(disk[current_block].recs, log_page.recs)

\* Between the writes that add a block: what is in the file and in memory.
Growing ==
  /\ pc = "create" => disk = <<Zeros>>
  /\ pc = "append_block" =>
       /\ disk[current_block] = log_page
       /\ appending \in Record /\ ~fits(log_page, appending)
  /\ pc = "write_new" =>
       /\ current_block \in 1..(Len(disk) - 1)
       /\ disk[Len(disk)] = Zeros /\ log_page = Empty
       /\ appending \in Record /\ ~fits(disk[Len(disk) - 1], appending)

\* SavedIsDurable while the page is between two blocks.
SavedInNewBlock ==
  pc = "write_new" /\ Readable => Len(Backward(disk)) = opened + latest

IInv ==
  /\ TypeOK /\ PageAtEnd /\ Growing
  /\ LayoutHolds
  /\ SavedIsDurable /\ SavedInNewBlock

LEMMA EndsItself ==
  ASSUME NEW recs \in Seq(Record)
  PROVE  Ends(recs, recs)
<1>1. Len(recs) \in Nat
  BY LenProperties
<1>2. \A n \in 1..Len(recs) : Len(recs) - Len(recs) + n = n
  BY <1>1
<1> QED
  BY <1>1, <1>2 DEF Ends

LEMMA EndsInFront ==
  ASSUME NEW old \in Seq(Record), NEW recs \in Seq(Record), NEW r \in Record,
         Ends(old, recs)
  PROVE  Ends(old, <<r>> \o recs)
<1> DEFINE more == <<r>> \o recs
           m == Len(recs)
           k == Len(old)
<1>1. /\ Len(more) = m + 1
      /\ \A n \in 2..(m + 1) : more[n] = recs[n - 1]
  BY InFront
<1>2. m \in Nat /\ k \in Nat
  BY LenProperties
<1>3. k <= m /\ \A n \in 1..k : recs[m - k + n] = old[n]
  BY DEF Ends
<1> HIDE DEF more, m, k
<1>4. ASSUME NEW n \in 1..k PROVE more[(m + 1) - k + n] = old[n]
  <2> DEFINE i == (m + 1) - k + n
  <2>1. i \in 2..(m + 1) /\ i - 1 = m - k + n
    BY <1>2, <1>3
  <2> HIDE DEF i
  <2>2. more[i] = recs[m - k + n]
    BY <1>1, <2>1
  <2> QED
    BY <1>3, <2>2 DEF i
<1>5. k <= m + 1
  BY <1>2, <1>3
<1> QED
  BY <1>1, <1>4, <1>5 DEF Ends, more, k

LEMMA EndsSplit ==
  ASSUME NEW old \in Seq(Record), NEW recs \in Seq(Record), Ends(old, recs)
  PROVE  \E new \in Seq(Record) : recs = new \o old
<1> DEFINE m == Len(recs)
           k == Len(old)
           new == SubSeq(recs, 1, m - k)
           both == new \o old
<1>1. m \in Nat /\ k \in Nat /\ m - k \in Nat
  <2>1. m \in Nat /\ k \in Nat /\ k <= m
    BY LenProperties DEF Ends
  <2> QED
    BY <2>1
<1>2. \A n \in 1..k : recs[m - k + n] = old[n]
  BY DEF Ends
<1>3. /\ new \in Seq(Record) /\ Len(new) = m - k
      /\ \A n \in 1..(m - k) : new[n] = recs[n]
  <2>1. \A n \in 1..(m - k) : recs[n] \in Record
    <3>1. \A n \in 1..(m - k) : n \in 1..Len(recs)
      BY <1>1
    <3> QED
      BY <3>1, ElementOfSeq
  <2>2. 1 \in Int /\ m - k \in Int
    BY <1>1
  <2> HIDE DEF m, k
  <2>3. /\ new \in Seq(Record)
        /\ Len(new) = IF 1 <= m - k THEN m - k - 1 + 1 ELSE 0
        /\ \A i \in 1 .. m - k - 1 + 1 : new[i] = recs[1 + i - 1]
    BY <2>1, <2>2, SubSeqProperties
  <2> HIDE DEF new
  <2> QED
    BY <1>1, <2>3
<1> HIDE DEF new
<1>4. /\ both \in Seq(Record) /\ Len(both) = (m - k) + k
      /\ \A n \in 1..((m - k) + k) :
           both[n] = IF n <= m - k THEN new[n] ELSE old[n - (m - k)]
  <2>1. /\ both \in Seq(Record) /\ Len(both) = Len(new) + Len(old)
        /\ \A n \in 1..(Len(new) + Len(old)) :
             both[n] = IF n <= Len(new) THEN new[n] ELSE old[n - Len(new)]
    BY <1>3, ConcatProperties
  <2> QED
    BY <1>3, <2>1
<1> HIDE DEF both, m, k
<1>5. Len(both) = m /\ \A n \in 1..m : both[n] = IF n <= m - k THEN new[n] ELSE old[n - (m - k)]
  BY <1>1, <1>4
<1>6. \A n \in 1..m : recs[n] = both[n]
  <2> TAKE n \in 1..m
  <2>1. CASE n <= m - k
    <3>1. n \in 1..(m - k)
      BY <1>1, <2>1
    <3> QED
      BY <1>3, <1>5, <2>1, <3>1
  <2>2. CASE ~(n <= m - k)
    <3> DEFINE i == n - (m - k)
    <3>1. i \in 1..k /\ m - k + i = n
      BY <1>1, <2>2
    <3>2. both[n] = old[i]
      BY <1>5, <2>2
    <3> HIDE DEF i
    <3> QED
      BY <1>2, <3>1, <3>2
  <2> QED
    BY <2>1, <2>2
<1>7. recs = both
  BY <1>4, <1>5, <1>6, SeqEqual DEF m
<1> QED
  BY <1>3, <1>7 DEF both

\* A record that fits is placed without reaching the boundary word.
LEMMA Place ==
  ASSUME NEW p \in Page, NEW r \in Record, fits(p, r)
  PROVE  /\ place(p, r) \in Page
         /\ place(p, r).boundary # 0
         /\ place(p, r).recs = <<r>> \o p.recs
         /\ place(p, r).recs # <<>>
         /\ BlockLayout(p) => BlockLayout(place(p, r))
<1>1. /\ BlockSize \in Nat /\ Size[r] \in Nat \ {0}
      /\ p.boundary \in 0..BlockSize /\ p.boundary \in Nat /\ p.recs \in Seq(Record)
      /\ p.boundary >= Size[r] + 1
  BY LogManagerAssumption DEF Page, fits, BoundarySize
<1>2. /\ p.boundary - Size[r] \in 0..BlockSize
      /\ p.boundary - Size[r] >= 1 /\ p.boundary # 0
  BY <1>1
<1>3. /\ <<r>> \o p.recs \in Seq(Record)
      /\ Len(<<r>> \o p.recs) = Len(p.recs) + 1 /\ Len(p.recs) \in Nat
  BY <1>1, InFront, LenProperties
<1>4. <<r>> \o p.recs # <<>>
  <2>1. Len(p.recs) + 1 # 0 /\ Len(<<>>) = 0
    BY <1>3
  <2> QED
    BY <1>3, <2>1
<1>5. BlockLayout(p) => BlockLayout(place(p, r))
  <2> SUFFICES ASSUME BlockLayout(p) PROVE BlockLayout(place(p, r))
    OBVIOUS
  <2>1. p.boundary + SizeOf(p.recs) = BlockSize
    BY <1>2 DEF BlockLayout, Zeros
  <2>2. SizeOf(p.recs) \in Nat /\ SizeOf(<<r>> \o p.recs) = SizeOf(p.recs) + Size[r]
    BY <1>1, SizeOfInFront
  <2>3. (p.boundary - Size[r]) + SizeOf(<<r>> \o p.recs) = BlockSize
    BY <1>1, <2>1, <2>2
  <2> QED
    BY <1>2, <2>3 DEF BlockLayout, place, BoundarySize
<1>6. place(p, r).boundary = p.boundary - Size[r] /\ place(p, r).recs = <<r>> \o p.recs
  BY DEF place
<1>7. place(p, r) \in Page
  BY <1>2, <1>3 DEF place, Page
<1>8. p.boundary - Size[r] # 0
  BY <1>2, <1>1
<1> QED
  BY <1>4, <1>5, <1>6, <1>7, <1>8

LEMMA SpecialPages ==
  /\ Zeros \in Page /\ Zeros.recs = <<>>
  /\ Empty \in Page /\ Empty.recs = <<>> /\ Empty.boundary # 0
  /\ BlockLayout(Zeros) /\ BlockLayout(Empty)
<1>1. <<>> \in Seq(Record)
  BY EmptySeq
<1>2. BlockSize \in Nat /\ BlockSize >= 1
  BY LogManagerAssumption DEF BoundarySize
<1>3. Zeros \in Page /\ Empty \in Page
  BY <1>1, <1>2 DEF Zeros, Empty, Page
<1>4. BlockSize + SizeOf(<<>>) = BlockSize
  BY <1>2, SizeOfNone
<1>5. BlockLayout(Zeros) /\ BlockLayout(Empty)
  BY <1>2, <1>4 DEF BlockLayout, Zeros, Empty, BoundarySize
<1> QED
  BY <1>2, <1>3, <1>5 DEF Zeros, Empty

\* The file with a block written in the place of its last.
LEMMA WriteLast ==
  ASSUME NEW blocks \in Seq(Page), blocks # <<>>, NEW b \in Page
  PROVE  LET new == [blocks EXCEPT ![Len(blocks)] = b] IN
         /\ new \in Seq(Page) /\ Len(new) = Len(blocks) /\ new # <<>>
         /\ new[Len(blocks)] = b
         /\ \A n \in 1..(Len(blocks) - 1) : new[n] = blocks[n]
         /\ blocks[Len(blocks)] \in Page
         /\ Backward(Front(blocks)) \in Seq(Record)
         /\ Backward(blocks) = blocks[Len(blocks)].recs \o Backward(Front(blocks))
         /\ Backward(new) = b.recs \o Backward(Front(blocks))
<1> DEFINE m == Len(blocks)
           new == [blocks EXCEPT ![m] = b]
<1>1. m \in Nat \ {0} /\ m \in 1..m
  BY EmptySeq, LenProperties
<1>2. blocks[m] \in Page
  BY <1>1, ElementOfSeq
<1>3. /\ new \in Seq(Page) /\ Len(new) = m
      /\ \A j \in 1..m : new[j] = IF j = m THEN b ELSE blocks[j]
  BY <1>1, ExceptSeq
<1>4. /\ Front(blocks) \in Seq(Page)
      /\ blocks = Append(Front(blocks), blocks[m])
      /\ new = Append(Front(blocks), b)
  BY LastBlock
<1> HIDE DEF new
<1>5. Backward(new) = b.recs \o Backward(Front(blocks))
  BY <1>4, BackwardAppend
<1>6. Backward(blocks) = blocks[m].recs \o Backward(Front(blocks))
  <2> DEFINE front == Front(blocks)
             last == blocks[m]
  <2>1. front \in Seq(Page) /\ last \in Page /\ blocks = Append(front, last)
    BY <1>2, <1>4
  <2> HIDE DEF front, last
  <2>2. Backward(blocks) = last.recs \o Backward(front)
    BY <2>1, BackwardAppend
  <2> QED
    BY <2>2 DEF front, last
<1>7. Backward(Front(blocks)) \in Seq(Record)
  BY <1>4, ReadsType
<1>8. new # <<>> /\ new[m] = b /\ \A n \in 1..(m - 1) : new[n] = blocks[n]
  <2>1. \A n \in 1..(m - 1) : n \in 1..m /\ n # m
    BY <1>1
  <2>2. Len(<<>>) = 0
    OBVIOUS
  <2> HIDE DEF m
  <2>3. new # <<>>
    BY <1>1, <1>3, <2>2
  <2> QED
    BY <1>1, <1>3, <2>1, <2>3
<1> QED
  BY <1>2, <1>3, <1>5, <1>6, <1>7, <1>8 DEF new

\* The file with any one block written.
LEMMA WriteAt ==
  ASSUME NEW blocks \in Seq(Page), NEW i \in 1..Len(blocks), NEW b \in Page
  PROVE  LET new == [blocks EXCEPT ![i] = b] IN
         /\ new \in Seq(Page) /\ Len(new) = Len(blocks)
         /\ DOMAIN new = 1..Len(blocks)
         /\ new[i] = b
         /\ \A n \in 1..Len(blocks) : n # i => new[n] = blocks[n]
<1> DEFINE new == [blocks EXCEPT ![i] = b]
<1>1. /\ new \in Seq(Page) /\ Len(new) = Len(blocks)
      /\ \A j \in 1..Len(blocks) : new[j] = IF j = i THEN b ELSE blocks[j]
  BY ExceptSeq
<1> HIDE DEF new
<1>2. DOMAIN new = 1..Len(blocks)
  BY <1>1, LenProperties
<1> QED
  BY <1>1, <1>2 DEF new

-----------------------------------------------------------------------------
(* Every action leaves the types, the page and the layout right.           *)

LEMMA TypeStep == IInv /\ [Next]_vars => TypeOK'
<1> SUFFICES ASSUME IInv, [Next]_vars PROVE TypeOK'
  OBVIOUS
<1>1. /\ disk \in Seq(Page) /\ log_page \in Page
      /\ current_block \in 0..Len(disk) /\ Len(disk) \in Nat
      /\ latest \in Nat /\ last_saved \in 0..latest
      /\ pc \in Pc /\ appending \in Record \cup {None} /\ opened \in Nat
  BY LenProperties DEF IInv, TypeOK
<1>2. 0 \in 0..0 /\ 0 \in Nat /\ 0 \in 0..Len(disk)
  BY <1>1
<1>3. latest + 1 \in Nat /\ last_saved \in 0..(latest + 1) /\ latest \in 0..latest
  BY <1>1
<1>4. CASE OpenExisting
  <2>1. disk # <<>> /\ Last(disk) = disk[Len(disk)]
    BY <1>4 DEF OpenExisting, Last
  <2>2. Last(disk) \in Page
    BY <1>1, <2>1, WriteLast
  <2>3. Len(Backward(disk)) \in Nat
    BY <1>1, ReadsType, LenProperties
  <2>4. Len(disk) \in 0..Len(disk)
    BY <1>1
  <2> QED
    BY <1>1, <1>2, <1>4, <2>2, <2>3, <2>4 DEF OpenExisting, TypeOK, Pc
<1>5. CASE OpenNew
  <2>1. <<Zeros>> \in Seq(Page) /\ Len(<<Zeros>>) = 1
    BY SpecialPages
  <2>2. current_block \in 0..1
    BY <1>1, <1>5 DEF OpenNew
  <2> QED
    BY <1>1, <1>5, <2>1, <2>2 DEF OpenNew, TypeOK, memory, Pc
<1>6. CASE WriteFirst
  <2>1. <<Empty>> \in Seq(Page) /\ Len(<<Empty>>) = 1 /\ Empty \in Page
    BY SpecialPages
  <2> QED
    BY <1>1, <1>2, <1>6, <2>1 DEF WriteFirst, TypeOK, Pc
<1>7. ASSUME NEW r \in Record, AppendFitting(r) PROVE TypeOK'
  <2>1. place(log_page, r) \in Page
    BY <1>1, <1>7, Place DEF AppendFitting
  <2> QED
    BY <1>1, <1>3, <1>7, <2>1 DEF AppendFitting, TypeOK
<1>8. ASSUME current_block \in 1..Len(disk)
      PROVE  LET new == [disk EXCEPT ![current_block] = log_page] IN
             new \in Seq(Page) /\ current_block \in 0..Len(new)
  BY <1>1, <1>8, WriteAt
<1>9. ASSUME NEW r \in Record, AppendFull(r) PROVE TypeOK'
  <2>1. current_block \in 1..Len(disk)
    BY <1>9 DEF AppendFull, IInv, PageAtEnd, Running
  <2>2. disk' \in Seq(Page) /\ current_block \in 0..Len(disk')
    BY <1>8, <1>9, <2>1 DEF AppendFull
  <2>3. /\ log_page' \in Page /\ current_block' = current_block
        /\ latest' = latest /\ last_saved' = latest /\ pc' = "append_block"
        /\ appending' = r /\ opened' = opened
    BY <1>1, <1>9 DEF AppendFull
  <2> QED
    BY <1>1, <1>3, <2>2, <2>3 DEF TypeOK, Pc
<1>10. CASE AppendBlock
  <2>1. Append(disk, Zeros) \in Seq(Page) /\ Len(Append(disk, Zeros)) = Len(disk) + 1
    BY <1>1, SpecialPages, AppendProperties
  <2>2. current_block \in 0..(Len(disk) + 1)
    BY <1>1
  <2> QED
    BY <1>1, <1>10, <2>1, <2>2, SpecialPages DEF AppendBlock, TypeOK, Pc
<1>11. CASE AppendBlockFails
  BY <1>1, <1>11 DEF AppendBlockFails, TypeOK, memory, Pc
<1>12. CASE WriteNew
  <2>1. appending \in Record /\ current_block \in 1..(Len(disk) - 1)
    BY <1>1, <1>12 DEF WriteNew, IInv, Growing
  <2>6. Len(disk) \in 1..Len(disk)
    BY <1>1, <2>1
  <2>2. disk' \in Seq(Page) /\ Len(disk') = Len(disk)
    BY <1>1, <1>12, <2>6, WriteAt DEF WriteNew
  <2>3. current_block' \in 0..Len(disk')
    BY <1>1, <1>12, <2>2 DEF WriteNew
  <2>4. log_page' \in Page /\ latest' \in Nat /\ last_saved' \in 0..latest'
    <3>1. CASE fits(log_page, appending)
      <4>1. place(log_page, appending) \in Page
        BY <1>1, <2>1, <3>1, Place
      <4> QED
        BY <1>1, <1>3, <1>12, <3>1, <4>1 DEF WriteNew
    <3>2. CASE ~fits(log_page, appending)
      BY <1>1, <1>12, <3>2 DEF WriteNew
    <3> QED
      BY <3>1, <3>2
  <2>5. pc' = "idle" /\ appending' = None /\ opened' = opened
    BY <1>12 DEF WriteNew
  <2> QED
    BY <1>1, <2>2, <2>3, <2>4, <2>5 DEF TypeOK, Pc
<1>13. ASSUME pc = "idle", disk' = [disk EXCEPT ![current_block] = log_page],
              last_saved' = latest,
              UNCHANGED <<log_page, current_block, latest, pc, appending, opened>>
       PROVE  TypeOK'
  <2>1. current_block \in 1..Len(disk)
    BY <1>13 DEF IInv, PageAtEnd, Running
  <2>2. disk' \in Seq(Page) /\ current_block \in 0..Len(disk')
    BY <1>8, <1>13, <2>1
  <2> QED
    BY <1>1, <1>3, <1>13, <2>2 DEF TypeOK
<1>14. ASSUME NEW n \in 0..latest, Flush(n) PROVE TypeOK'
  BY <1>13, <1>14 DEF Flush
<1>15. CASE GetBackwardIter
  BY <1>13, <1>15 DEF GetBackwardIter
<1>16. CASE Crash
  BY <1>1, <1>2, <1>16, SpecialPages DEF Crash, TypeOK, Pc
<1>17. CASE WriteNewFails
  BY <1>1, <1>17 DEF WriteNewFails, TypeOK, memory, Pc
<1>18. CASE UNCHANGED vars
  BY <1>1, <1>18 DEF vars, memory, TypeOK
<1> QED
  BY <1>4, <1>5, <1>6, <1>7, <1>9, <1>10, <1>11, <1>12, <1>14, <1>15, <1>16, <1>17,
     <1>18 DEF Next

LEMMA PageStep == IInv /\ [Next]_vars => PageAtEnd' /\ Growing'
<1> SUFFICES ASSUME IInv, [Next]_vars PROVE PageAtEnd' /\ Growing'
  OBVIOUS
<1> USE DEF Running
<1>1. /\ disk \in Seq(Page) /\ log_page \in Page /\ Len(disk) \in Nat
      /\ log_page.recs \in Seq(Record)
      /\ None \notin Record
  BY LenProperties, LogManagerAssumption DEF IInv, TypeOK, Page
<1>2. PageAtEnd /\ Growing
  BY DEF IInv
<1>3. \A p \in Page : p.recs \in Seq(Record) /\ Ends(p.recs, p.recs)
  BY EndsItself DEF Page
<1>4. CASE OpenExisting
  <2>1. disk # <<>> /\ log_page' = disk[Len(disk)] /\ disk' = disk
        /\ current_block' = Len(disk) /\ pc' = "idle"
    BY <1>4 DEF OpenExisting, Last
  <2>2. disk[Len(disk)] \in Page
    BY <1>1, <2>1, WriteLast
  <2>3. Len(disk) \in 1..Len(disk) /\ ~(Len(disk) < Len(disk))
    BY <1>1, <2>1, EmptySeq
  <2> QED
    BY <1>3, <2>1, <2>2, <2>3 DEF PageAtEnd, Growing
<1>5. CASE OpenNew
  BY <1>5 DEF OpenNew, PageAtEnd, Growing
<1>6. CASE WriteFirst
  <2>1. disk' = <<Empty>> /\ log_page' = Empty /\ current_block' = 1 /\ pc' = "idle"
    BY <1>6 DEF WriteFirst
  <2>2. Len(<<Empty>>) = 1 /\ <<Empty>>[1] = Empty
    OBVIOUS
  <2>3. Empty \in Page /\ Empty.boundary # 0
    BY SpecialPages
  <2> QED
    BY <1>3, <2>1, <2>2, <2>3 DEF PageAtEnd, Growing
<1>7. ASSUME NEW r \in Record, AppendFitting(r) PROVE PageAtEnd' /\ Growing'
  <2>1. /\ pc = "idle" /\ pc' = "idle" /\ disk' = disk /\ current_block' = current_block
        /\ fits(log_page, r) /\ log_page' = place(log_page, r)
    BY <1>7 DEF AppendFitting
  <2>2. /\ current_block \in 1..Len(disk)
        /\ current_block < Len(disk) => disk[Len(disk)].boundary = 0
        /\ current_block = Len(disk) =>
             /\ disk[current_block].boundary = 0 => log_page.boundary = 0
             /\ Ends(disk[current_block].recs, log_page.recs)
    BY <1>2, <2>1 DEF PageAtEnd
  <2>3. log_page.boundary # 0
    BY <1>1, <2>1, LogManagerAssumption DEF fits, Page, BoundarySize
  <2>4. disk[current_block].recs \in Seq(Record)
    BY <1>1, <1>3, <2>2, ElementOfSeq
  <2>5. log_page'.recs = <<r>> \o log_page.recs /\ log_page'.boundary # 0
    BY <1>1, <2>1, Place
  <2>6. current_block = Len(disk) => Ends(disk[current_block].recs, <<r>> \o log_page.recs)
    BY <1>1, <2>2, <2>4, EndsInFront
  <2> QED
    BY <2>1, <2>2, <2>3, <2>5, <2>6 DEF PageAtEnd, Growing
<1>8. ASSUME pc = "idle", disk' = [disk EXCEPT ![current_block] = log_page],
             log_page' = log_page, current_block' = current_block
      PROVE  /\ current_block' \in 1..Len(disk')
             /\ disk'[current_block'] = log_page'
             /\ current_block' < Len(disk') => disk'[Len(disk')].boundary = 0
             /\ Ends(disk'[current_block'].recs, log_page'.recs)
  <2>1. /\ current_block \in 1..Len(disk)
        /\ current_block < Len(disk) => disk[Len(disk)].boundary = 0
    BY <1>2, <1>8 DEF PageAtEnd
  <2>2. /\ Len(disk') = Len(disk) /\ disk'[current_block] = log_page
        /\ \A n \in 1..Len(disk) : n # current_block => disk'[n] = disk[n]
    BY <1>1, <1>8, <2>1, WriteAt
  <2>3. current_block < Len(disk) => Len(disk) \in 1..Len(disk) /\ Len(disk) # current_block
    BY <1>1, <2>1
  <2> QED
    BY <1>1, <1>3, <1>8, <2>1, <2>2, <2>3
<1>9. ASSUME NEW r \in Record, AppendFull(r) PROVE PageAtEnd' /\ Growing'
  BY <1>8, <1>9 DEF AppendFull, PageAtEnd, Growing
<1>10. CASE AppendBlock
  <2>1. /\ pc = "append_block" /\ pc' = "write_new" /\ disk' = Append(disk, Zeros)
        /\ log_page' = Empty /\ appending' = appending /\ current_block' = current_block
    BY <1>10 DEF AppendBlock
  <2>2. /\ current_block \in 1..Len(disk) /\ disk[current_block] = log_page
        /\ current_block < Len(disk) => disk[Len(disk)].boundary = 0
        /\ appending \in Record /\ ~fits(log_page, appending)
    BY <1>2, <2>1 DEF PageAtEnd, Growing
  <2>3. Len(disk) \in 1..Len(disk) /\ (current_block = Len(disk) \/ current_block < Len(disk))
    BY <1>1, <2>2
  <2>4. /\ Len(disk') = Len(disk) + 1 /\ disk'[Len(disk) + 1] = Zeros
        /\ \A n \in 1..Len(disk) : disk'[n] = disk[n]
    BY <1>1, <2>1, SpecialPages, AppendProperties
  <2>5. disk'[Len(disk')] = Zeros /\ Len(disk') - 1 = Len(disk)
    BY <1>1, <2>4
  <2>6. ~fits(disk[Len(disk)], appending)
    <3>1. CASE current_block = Len(disk)
      BY <2>2, <3>1
    <3>2. CASE current_block < Len(disk)
      BY <2>2, <3>2, LogManagerAssumption DEF fits, BoundarySize
    <3> QED
      BY <2>3, <3>1, <3>2
  <2>7. ~fits(disk'[Len(disk') - 1], appending)
    BY <2>3, <2>4, <2>5, <2>6
  <2> QED
    BY <2>1, <2>2, <2>5, <2>7 DEF PageAtEnd, Growing
<1>11. CASE AppendBlockFails
  BY <1>2, <1>11 DEF AppendBlockFails, memory, PageAtEnd, Growing
<1>12. CASE WriteNew
  <2>1. /\ pc = "write_new" /\ pc' = "idle" /\ disk' = [disk EXCEPT ![Len(disk)] = log_page]
        /\ current_block' = Len(disk)
        /\ log_page' = IF fits(log_page, appending) THEN place(log_page, appending) ELSE log_page
    BY <1>12 DEF WriteNew
  <2>2. /\ current_block \in 1..(Len(disk) - 1) /\ Len(disk) \in 1..Len(disk)
        /\ ~(Len(disk) < Len(disk)) /\ log_page = Empty /\ appending \in Record
    BY <1>1, <1>2, <2>1 DEF Growing
  <2>3. Len(disk') = Len(disk) /\ disk'[Len(disk)] = Empty
    BY <1>1, <2>1, <2>2, WriteAt
  <2>4. Empty \in Page /\ Empty.boundary # 0 /\ Empty.recs \in Seq(Record)
    BY <1>3, SpecialPages
  <2>5. Ends(Empty.recs, log_page'.recs) /\ log_page'.boundary # 0
    <3>1. CASE fits(log_page, appending)
      BY <1>3, <2>1, <2>2, <2>4, <3>1, EndsInFront, Place
    <3>2. CASE ~fits(log_page, appending)
      BY <1>3, <2>1, <2>2, <2>4, <3>2
    <3> QED
      BY <3>1, <3>2
  <2> QED
    BY <2>1, <2>2, <2>3, <2>4, <2>5 DEF PageAtEnd, Growing
<1>13. CASE WriteNewFails
  <2>1. /\ pc = "write_new" /\ pc' = "idle" /\ disk' = disk
        /\ current_block' = current_block /\ log_page' = log_page
    BY <1>13 DEF WriteNewFails, memory
  <2>2. /\ current_block \in 1..(Len(disk) - 1) /\ log_page = Empty
        /\ disk[Len(disk)] = Zeros
    BY <1>2, <2>1 DEF Growing
  <2>3. current_block \in 1..Len(disk) /\ current_block # Len(disk)
    BY <1>1, <2>2
  <2>4. Empty.boundary # 0 /\ Zeros.boundary = 0
    BY SpecialPages DEF Zeros
  <2> QED
    BY <2>1, <2>2, <2>3, <2>4 DEF PageAtEnd, Growing
<1>14. ASSUME NEW n \in 0..latest, Flush(n) PROVE PageAtEnd' /\ Growing'
  BY <1>8, <1>14 DEF Flush, PageAtEnd, Growing
<1>15. CASE GetBackwardIter
  BY <1>8, <1>15 DEF GetBackwardIter, PageAtEnd, Growing
<1>16. CASE Crash
  BY <1>16 DEF Crash, PageAtEnd, Growing
<1>17. CASE UNCHANGED vars
  BY <1>2, <1>17 DEF vars, memory, PageAtEnd, Growing
<1> QED
  BY <1>4, <1>5, <1>6, <1>7, <1>9, <1>10, <1>11, <1>12, <1>13, <1>14, <1>15, <1>16,
     <1>17 DEF Next

LEMMA LayoutStep == IInv /\ [Next]_vars => LayoutHolds'
<1> SUFFICES ASSUME IInv, [Next]_vars PROVE LayoutHolds'
  OBVIOUS
<1>1. /\ disk \in Seq(Page) /\ log_page \in Page /\ Len(disk) \in Nat
      /\ DOMAIN disk = 1..Len(disk)
  BY LenProperties DEF IInv, TypeOK
<1>2. BlockLayout(log_page) /\ \A i \in DOMAIN disk : BlockLayout(disk[i])
  BY DEF IInv, LayoutHolds
<1>3. ASSUME NEW at \in 1..Len(disk)
      PROVE  LET new == [disk EXCEPT ![at] = log_page] IN
             \A i \in DOMAIN new : BlockLayout(new[i])
  <2> DEFINE new == [disk EXCEPT ![at] = log_page]
  <2>1. /\ DOMAIN new = 1..Len(disk) /\ new[at] = log_page
        /\ \A n \in 1..Len(disk) : n # at => new[n] = disk[n]
    BY <1>1, WriteAt
  <2> HIDE DEF new
  <2>2. \A n \in 1..Len(disk) : BlockLayout(new[n])
    BY <1>1, <1>2, <2>1
  <2> QED
    BY <2>1, <2>2 DEF new
<1>4. CASE OpenExisting
  <2>1. disk # <<>> /\ log_page' = disk[Len(disk)] /\ disk' = disk
    BY <1>4 DEF OpenExisting, Last
  <2>2. Len(disk) \in DOMAIN disk
    BY <1>1, <2>1, EmptySeq
  <2> QED
    BY <1>2, <2>1, <2>2 DEF LayoutHolds
<1>5. CASE OpenNew
  <2>1. \A i \in DOMAIN <<Zeros>> : <<Zeros>>[i] = Zeros
    OBVIOUS
  <2>2. log_page' = log_page /\ disk' = <<Zeros>>
    BY <1>5 DEF OpenNew, memory
  <2> QED
    BY <1>2, <2>1, <2>2, SpecialPages DEF LayoutHolds
<1>6. CASE WriteFirst
  <2>1. \A i \in DOMAIN <<Empty>> : <<Empty>>[i] = Empty
    OBVIOUS
  <2>2. log_page' = Empty /\ disk' = <<Empty>>
    BY <1>6 DEF WriteFirst
  <2> QED
    BY <2>1, <2>2, SpecialPages DEF LayoutHolds
<1>7. ASSUME NEW r \in Record, AppendFitting(r) PROVE LayoutHolds'
  <2>1. fits(log_page, r) /\ log_page' = place(log_page, r) /\ disk' = disk
    BY <1>7 DEF AppendFitting
  <2>2. BlockLayout(place(log_page, r))
    BY <1>1, <1>2, <2>1, Place
  <2> QED
    BY <1>2, <2>1, <2>2 DEF LayoutHolds
<1>8. ASSUME pc = "idle", disk' = [disk EXCEPT ![current_block] = log_page],
             log_page' = log_page
      PROVE  LayoutHolds'
  <2>1. current_block \in 1..Len(disk)
    BY <1>8 DEF IInv, PageAtEnd, Running
  <2>2. \A i \in DOMAIN disk' : BlockLayout(disk'[i])
    BY <1>3, <1>8, <2>1
  <2> QED
    BY <1>2, <1>8, <2>2 DEF LayoutHolds
<1>9. ASSUME NEW r \in Record, AppendFull(r) PROVE LayoutHolds'
  BY <1>8, <1>9 DEF AppendFull
<1>10. CASE AppendBlock
  <2>1. disk' = Append(disk, Zeros) /\ log_page' = Empty
    BY <1>10 DEF AppendBlock
  <2>2. /\ disk' \in Seq(Page) /\ Len(disk') = Len(disk) + 1 /\ disk'[Len(disk) + 1] = Zeros
        /\ \A n \in 1..Len(disk) : disk'[n] = disk[n]
    BY <1>1, <2>1, SpecialPages, AppendProperties
  <2>3. DOMAIN disk' = 1..(Len(disk) + 1)
    BY <2>2, LenProperties
  <2>4. \A n \in 1..(Len(disk) + 1) : BlockLayout(disk'[n])
    <3> TAKE n \in 1..(Len(disk) + 1)
    <3>1. n = Len(disk) + 1 \/ n \in 1..Len(disk)
      BY <1>1
    <3> QED
      BY <1>1, <1>2, <2>2, <3>1, SpecialPages
  <2> QED
    BY <2>1, <2>3, <2>4, SpecialPages DEF LayoutHolds
<1>11. CASE AppendBlockFails
  BY <1>2, <1>11 DEF AppendBlockFails, memory, LayoutHolds
<1>12. CASE WriteNew
  <2>1. /\ pc = "write_new" /\ disk' = [disk EXCEPT ![Len(disk)] = log_page]
        /\ log_page' = IF fits(log_page, appending) THEN place(log_page, appending) ELSE log_page
    BY <1>12 DEF WriteNew
  <2>2. appending \in Record /\ Len(disk) \in 1..Len(disk)
    BY <1>1, <2>1 DEF IInv, Growing
  <2>3. BlockLayout(log_page')
    <3>1. CASE fits(log_page, appending)
      BY <1>1, <1>2, <2>1, <2>2, <3>1, Place
    <3>2. CASE ~fits(log_page, appending)
      BY <1>2, <2>1, <3>2
    <3> QED
      BY <3>1, <3>2
  <2>4. \A i \in DOMAIN disk' : BlockLayout(disk'[i])
    BY <1>3, <2>1, <2>2
  <2> QED
    BY <2>3, <2>4 DEF LayoutHolds
<1>13. ASSUME NEW n \in 0..latest, Flush(n) PROVE LayoutHolds'
  BY <1>8, <1>13 DEF Flush
<1>14. CASE GetBackwardIter
  BY <1>8, <1>14 DEF GetBackwardIter
<1>15. CASE Crash
  BY <1>2, <1>15, SpecialPages DEF Crash, LayoutHolds
<1>16. CASE WriteNewFails
  BY <1>2, <1>16 DEF WriteNewFails, memory, LayoutHolds
<1>17. CASE UNCHANGED vars
  BY <1>2, <1>17 DEF vars, memory, LayoutHolds
<1> QED
  BY <1>4, <1>5, <1>6, <1>7, <1>9, <1>10, <1>11, <1>12, <1>13, <1>14, <1>15, <1>16,
     <1>17 DEF Next

-----------------------------------------------------------------------------
(* Which logs can be read.                                                 *)

CanRead(blocks) ==
  \A i \in DOMAIN blocks :
    /\ blocks[i].boundary # 0
    /\ i < Len(blocks) => blocks[i].recs # <<>>

\* Blocks that can be read can be read with another last one.
LEMMA ReadLast ==
  ASSUME NEW blocks \in Seq(Page), blocks # <<>>, NEW b \in Page,
         CanRead(blocks), b.boundary # 0
  PROVE  CanRead([blocks EXCEPT ![Len(blocks)] = b])
<1> DEFINE m == Len(blocks)
           new == [blocks EXCEPT ![m] = b]
<1>1. /\ m \in Nat /\ DOMAIN blocks = 1..m
      /\ new \in Seq(Page) /\ Len(new) = m /\ new[m] = b
      /\ \A n \in 1..(m - 1) : new[n] = blocks[n]
  BY WriteLast, LenProperties
<1> HIDE DEF new
<1>2. DOMAIN new = 1..m
  BY <1>1, LenProperties
<1> HIDE DEF m
<1>3. ASSUME NEW i \in 1..m
      PROVE  new[i].boundary # 0 /\ (i < m => new[i].recs # <<>>)
  <2>1. CASE i = m
    BY <1>1, <2>1
  <2>2. CASE i # m
    <3>1. i \in 1..(m - 1)
      BY <1>1, <2>2
    <3>2. blocks[i].boundary # 0 /\ (i < m => blocks[i].recs # <<>>)
      BY <1>1 DEF CanRead, m
    <3> QED
      BY <1>1, <3>1, <3>2
  <2> QED
    BY <2>1, <2>2
<1>4. CanRead(new)
  BY <1>1, <1>2, <1>3 DEF CanRead
<1> QED
  BY <1>4 DEF new, m

\* While the log can be read, the page is that of the last block.
LEMMA AtEnd ==
  ASSUME IInv, Readable, Running
  PROVE  /\ disk # <<>> /\ current_block = Len(disk)
         /\ disk[current_block].boundary = 0 => log_page.boundary = 0
         /\ Ends(disk[current_block].recs, log_page.recs)
<1>1. disk \in Seq(Page) /\ log_page \in Page /\ Len(disk) \in Nat
  BY LenProperties DEF IInv, TypeOK
<1>2. /\ current_block \in 1..Len(disk)
      /\ current_block < Len(disk) => disk[Len(disk)].boundary = 0
      /\ current_block = Len(disk) =>
           /\ disk[current_block].boundary = 0 => log_page.boundary = 0
           /\ Ends(disk[current_block].recs, log_page.recs)
  BY DEF IInv, PageAtEnd
<1>3. Settled = [disk EXCEPT ![current_block] = log_page]
  BY DEF Settled, Written, Running
<1>4. /\ DOMAIN Settled = 1..Len(disk)
      /\ \A n \in 1..Len(disk) : n # current_block => Settled[n] = disk[n]
  BY <1>1, <1>2, <1>3, WriteAt
<1>5. ASSUME current_block # Len(disk) PROVE FALSE
  <2>1. current_block < Len(disk) /\ Len(disk) \in 1..Len(disk)
    BY <1>1, <1>2, <1>5
  <2>2. Settled[Len(disk)].boundary = 0
    BY <1>2, <1>4, <1>5, <2>1
  <2> QED
    BY <1>4, <2>1, <2>2 DEF Readable
<1>6. disk # <<>>
  <2>1. Len(disk) # 0
    BY <1>1, <1>2
  <2>2. Len(<<>>) = 0
    OBVIOUS
  <2> QED
    BY <2>1, <2>2
<1> QED
  BY <1>2, <1>5, <1>6

\* After the failing write of a new block the log cannot be read.
LEMMA FailsUnreadable ==
  ASSUME IInv, WriteNewFails
  PROVE  ~Readable'
<1>1. disk \in Seq(Page) /\ log_page \in Page /\ Len(disk) \in Nat
  BY LenProperties DEF IInv, TypeOK
<1>2. /\ pc = "write_new" /\ pc' = "idle" /\ disk' = disk
      /\ current_block' = current_block /\ log_page' = log_page
  BY DEF WriteNewFails, memory
<1>3. current_block \in 1..(Len(disk) - 1) /\ disk[Len(disk)] = Zeros
  BY <1>2 DEF IInv, Growing
<1>4. /\ current_block \in 1..Len(disk) /\ Len(disk) \in 1..Len(disk)
      /\ Len(disk) # current_block
  BY <1>1, <1>3
<1>5. Settled' = [disk EXCEPT ![current_block] = log_page]
  BY <1>2 DEF Settled, Written, Running
<1>6. DOMAIN Settled' = 1..Len(disk) /\ Settled'[Len(disk)] = Zeros
  BY <1>1, <1>3, <1>4, <1>5, WriteAt
<1>7. Zeros.boundary = 0
  BY DEF Zeros
<1> QED
  BY <1>4, <1>6, <1>7 DEF Readable

\* The block that keeps the log from being read.
Stuck(blocks, i) ==
  /\ i \in DOMAIN blocks
  /\ blocks[i].boundary = 0 \/ (i < Len(blocks) /\ blocks[i].recs = <<>>)

\* A log that cannot be read stays so.
LEMMA StaysUnreadable ==
  ASSUME IInv, [Next]_vars, ~Readable
  PROVE  ~Readable'
<1> USE DEF Running
<1>1. /\ disk \in Seq(Page) /\ log_page \in Page /\ Len(disk) \in Nat
      /\ DOMAIN disk = 1..Len(disk)
  BY LenProperties DEF IInv, TypeOK
<1>2. PICK i : Stuck(Settled, i)
  BY DEF Readable, Stuck
<1>3. ASSUME NEW j, Stuck(Settled', j) PROVE ~Readable'
  BY <1>3 DEF Readable, Stuck
<1>4. /\ pc \in {"create", "write_new"} => Settled = Front(disk)
      /\ pc \notin {"create", "write_new"} => Settled = Written
      /\ pc' \in {"create", "write_new"} => Settled' = Front(disk')
      /\ pc' \notin {"create", "write_new"} => Settled' = Written'
  BY DEF Settled
<1>5. ASSUME Settled' = Settled PROVE ~Readable'
  BY <1>5 DEF Readable
<1>6. ASSUME Running
      PROVE  /\ current_block \in 1..Len(disk)
             /\ log_page.boundary = 0 => disk[current_block].boundary = 0
             /\ current_block < Len(disk) =>
                  /\ disk[Len(disk)].boundary = 0
                  /\ Len(disk) \in 1..Len(disk) /\ Len(disk) # current_block
             /\ Settled = [disk EXCEPT ![current_block] = log_page]
             /\ Len(Settled) = Len(disk) /\ DOMAIN Settled = 1..Len(disk)
             /\ Settled[current_block] = log_page
             /\ \A n \in 1..Len(disk) : n # current_block => Settled[n] = disk[n]
  <2>1. /\ current_block \in 1..Len(disk)
        /\ log_page.boundary = 0 => disk[current_block].boundary = 0
        /\ current_block < Len(disk) => disk[Len(disk)].boundary = 0
    BY <1>6 DEF IInv, PageAtEnd
  <2>2. Settled = [disk EXCEPT ![current_block] = log_page]
    BY <1>4, <1>6 DEF Written
  <2>3. current_block < Len(disk) => Len(disk) \in 1..Len(disk) /\ Len(disk) # current_block
    BY <1>1, <2>1
  <2> QED
    BY <1>1, <2>1, <2>2, <2>3, WriteAt
<1>7. ASSUME pc \in {"create", "write_new"}
      PROVE  /\ pc = "write_new" /\ Len(disk) \in 1..Len(disk)
             /\ Len(Settled) = Len(disk) - 1 /\ DOMAIN Settled = 1..(Len(disk) - 1)
             /\ \A n \in 1..(Len(disk) - 1) : Settled[n] = disk[n]
             /\ i \in 1..(Len(disk) - 1) /\ i \in 1..Len(disk)
             /\ i # Len(disk) /\ i < Len(disk)
  <2>1. disk # <<>> /\ Len(disk) >= 1
    <3>1. CASE pc = "create"
      <4>1. disk = <<Zeros>> /\ Len(<<Zeros>>) = 1 /\ Len(<<>>) = 0
        BY <3>1 DEF IInv, Growing
      <4> QED
        BY <1>1, <4>1
    <3>2. CASE pc = "write_new"
      <4>1. Len(disk) >= 2 /\ Len(<<>>) = 0
        BY <1>1, <3>2 DEF IInv, Growing
      <4> QED
        BY <1>1, <4>1
    <3> QED
      BY <1>7, <3>1, <3>2
  <2> DEFINE front == Front(disk)
  <2>2. /\ front \in Seq(Page) /\ Len(front) = Len(disk) - 1
        /\ \A n \in 1..(Len(disk) - 1) : front[n] = disk[n]
    BY <1>1, <2>1, LastBlock
  <2>3. Settled = front
    BY <1>4, <1>7
  <2> HIDE DEF front
  <2>4. DOMAIN front = 1..(Len(disk) - 1)
    BY <2>2, LenProperties
  <2>5. i \in 1..(Len(disk) - 1)
    BY <1>2, <2>3, <2>4 DEF Stuck
  <2>6. ASSUME pc = "create" PROVE FALSE
    <3>1. Len(disk) = 1
      BY <2>6 DEF IInv, Growing
    <3> QED
      BY <2>5, <3>1
  <2>7. Len(disk) \in 1..Len(disk) /\ i \in 1..Len(disk) /\ i # Len(disk) /\ i < Len(disk)
    <3> DEFINE m == Len(disk)
    <3>1. m \in Nat /\ m >= 1 /\ i \in 1..(m - 1)
      BY <1>1, <2>1, <2>5
    <3> HIDE DEF m
    <3>2. m \in 1..m /\ i \in 1..m /\ i # m /\ i < m
      BY <3>1
    <3> QED
      BY <3>2 DEF m
  <2> QED
    BY <1>7, <2>2, <2>3, <2>4, <2>5, <2>6, <2>7
<1>8. CASE OpenExisting
  <2>1. /\ pc = "down" /\ pc' = "idle" /\ disk' = disk
        /\ log_page' = disk[Len(disk)] /\ current_block' = Len(disk)
    BY <1>8 DEF OpenExisting, Last
  <2>2. [disk EXCEPT ![Len(disk)] = disk[Len(disk)]] = disk
    BY <1>1
  <2>3. Written = disk /\ Written' = disk
    BY <2>1, <2>2 DEF Written
  <2> QED
    BY <1>4, <1>5, <2>1, <2>3
<1>9. CASE OpenNew
  <2>1. pc = "down" /\ disk = <<>> /\ Settled = disk
    BY <1>4, <1>9 DEF OpenNew, Written
  <2>2. DOMAIN disk = {}
    BY <2>1
  <2> QED
    BY <1>2, <2>1, <2>2 DEF Stuck
<1>10. CASE WriteFirst
  BY <1>7, <1>10 DEF WriteFirst
<1>11. ASSUME NEW r \in Record, AppendFitting(r) PROVE ~Readable'
  <2>1. /\ pc = "idle" /\ pc' = "idle" /\ disk' = disk /\ current_block' = current_block
        /\ fits(log_page, r) /\ log_page' = place(log_page, r)
    BY <1>11 DEF AppendFitting
  <2>2. log_page' \in Page
    BY <1>1, <2>1, Place
  <2>3. Settled' = [disk EXCEPT ![current_block] = log_page']
    BY <1>4, <2>1 DEF Written
  <2>4. /\ DOMAIN Settled' = 1..Len(disk) /\ Len(Settled') = Len(disk)
        /\ \A n \in 1..Len(disk) : n # current_block => Settled'[n] = disk[n]
    <3>1. current_block \in 1..Len(disk)
      BY <1>6, <2>1
    <3>2. PICK b : b = log_page'
      OBVIOUS
    <3> QED
      BY <1>1, <2>2, <2>3, <3>1, <3>2, WriteAt
  <2>5. CASE i # current_block
    <3>1. i \in 1..Len(disk) /\ Settled'[i] = Settled[i]
      BY <1>2, <1>6, <2>1, <2>4, <2>5 DEF Stuck
    <3>2. Stuck(Settled', i)
      BY <1>2, <1>6, <2>1, <2>4, <3>1 DEF Stuck
    <3> QED
      BY <1>3, <3>2
  <2>6. CASE i = current_block
    <3>1. log_page.boundary # 0
      BY <1>1, <2>1, LogManagerAssumption DEF fits, Page, BoundarySize
    <3>2. current_block < Len(disk)
      BY <1>2, <1>6, <2>1, <2>6, <3>1 DEF Stuck
    <3>3. Stuck(Settled', Len(disk))
      BY <1>6, <2>1, <2>4, <3>2 DEF Stuck
    <3> QED
      BY <1>3, <3>3
  <2> QED
    BY <2>5, <2>6
<1>12. ASSUME pc = "idle", disk' = [disk EXCEPT ![current_block] = log_page],
              log_page' = log_page, current_block' = current_block, Running'
       PROVE  ~Readable'
  <2>1. /\ Settled = disk' /\ Settled[current_block] = log_page
    BY <1>6, <1>12
  <2>2. [disk' EXCEPT ![current_block] = log_page] = disk'
    <3>1. disk' \in Seq(Page)
      BY <1>1, <1>6, <1>12, WriteAt
    <3> QED
      BY <2>1, <3>1
  <2>3. Settled' = disk'
    BY <1>4, <1>12, <2>2 DEF Written
  <2> QED
    BY <1>5, <2>1, <2>3
<1>13. ASSUME NEW r \in Record, AppendFull(r) PROVE ~Readable'
  BY <1>12, <1>13 DEF AppendFull
<1>14. CASE AppendBlock
  <2>1. /\ pc = "append_block" /\ pc' = "write_new" /\ disk' = Append(disk, Zeros)
    BY <1>14 DEF AppendBlock
  <2>2. disk[current_block] = log_page
    BY <2>1 DEF IInv, Growing
  <2>3. Settled = disk
    BY <1>1, <1>6, <2>1, <2>2
  <2>4. Settled' = disk
    BY <1>1, <1>4, <2>1, FrontOfAppend, SpecialPages
  <2> QED
    BY <1>5, <2>3, <2>4
<1>15. CASE AppendBlockFails
  <2>1. /\ pc = "append_block" /\ pc' = "idle" /\ disk' = disk
        /\ log_page' = log_page /\ current_block' = current_block
    BY <1>15 DEF AppendBlockFails, memory
  <2>2. Settled' = Settled
    BY <1>4, <2>1 DEF Written
  <2> QED
    BY <1>5, <2>2
<1>16. CASE WriteNew
  <2>1. /\ pc = "write_new" /\ pc' = "idle" /\ disk' = [disk EXCEPT ![Len(disk)] = log_page]
        /\ current_block' = Len(disk)
    BY <1>16 DEF WriteNew
  <2>2. log_page' \in Page
    BY TypeStep DEF TypeOK
  <2>3. Settled' = [disk EXCEPT ![Len(disk)] = log_page']
    <3>1. Written' = [[disk EXCEPT ![Len(disk)] = log_page] EXCEPT ![Len(disk)] = log_page']
      BY <2>1 DEF Written
    <3> QED
      BY <1>4, <2>1, <3>1
  <2>4. /\ DOMAIN Settled' = 1..Len(disk) /\ Len(Settled') = Len(disk)
        /\ \A n \in 1..Len(disk) : n # Len(disk) => Settled'[n] = disk[n]
    <3>1. Len(disk) \in 1..Len(disk)
      BY <1>7, <2>1
    <3>2. PICK b : b = log_page'
      OBVIOUS
    <3> QED
      BY <1>1, <2>2, <2>3, <3>1, <3>2, WriteAt
  <2>5. Settled'[i] = Settled[i] /\ i \in DOMAIN Settled' /\ i < Len(Settled')
    BY <1>7, <2>1, <2>4
  <2>6. Stuck(Settled', i)
    BY <1>2, <2>5 DEF Stuck
  <2> QED
    BY <1>3, <2>6
<1>17. CASE WriteNewFails
  BY <1>17, FailsUnreadable
<1>18. ASSUME (\E n \in 0..latest : Flush(n)) \/ GetBackwardIter PROVE ~Readable'
  BY <1>12, <1>18 DEF Flush, GetBackwardIter
<1>19. CASE Crash
  <2>1. pc # "down" /\ pc' = "down" /\ disk' = disk
    BY <1>19 DEF Crash
  <2>2. Settled' = disk
    BY <1>4, <2>1 DEF Written
  <2>3. CASE pc \in {"create", "write_new"}
    <3>1. Settled[i] = disk[i] /\ i \in DOMAIN disk /\ i < Len(disk)
      BY <1>1, <1>7, <2>3
    <3>2. Stuck(Settled', i)
      BY <1>2, <2>2, <3>1 DEF Stuck
    <3> QED
      BY <1>3, <3>2
  <2>4. CASE Running
    <3>1. CASE i # current_block
      <4>1. Stuck(Settled', i)
        BY <1>1, <1>2, <1>6, <2>2, <2>4, <3>1 DEF Stuck
      <4> QED
        BY <1>3, <4>1
    <3>2. CASE i = current_block /\ disk[current_block].boundary = 0
      <4>1. Stuck(Settled', i)
        BY <1>1, <1>6, <2>2, <2>4, <3>2 DEF Stuck
      <4> QED
        BY <1>3, <4>1
    <3>3. CASE i = current_block /\ disk[current_block].boundary # 0
      <4>1. current_block < Len(disk)
        BY <1>2, <1>6, <2>4, <3>3 DEF Stuck
      <4>2. Stuck(Settled', Len(disk))
        BY <1>1, <1>6, <2>2, <2>4, <4>1 DEF Stuck
      <4> QED
        BY <1>3, <4>2
    <3> QED
      BY <3>1, <3>2, <3>3
  <2> QED
    BY <2>1, <2>3, <2>4 DEF IInv, TypeOK, Pc
<1>20. CASE UNCHANGED vars
  BY <1>5, <1>20 DEF vars, memory, Settled, Written
<1> QED
  BY <1>8, <1>9, <1>10, <1>11, <1>13, <1>14, <1>15, <1>16, <1>17, <1>18, <1>19, <1>20 DEF Next

-----------------------------------------------------------------------------
(* What every action does to the records of the log and to those on disk.  *)

Log == Backward(Written)
Safe == Backward(disk)

LEMMA LogTypes ==
  ASSUME IInv, Readable
  PROVE  /\ Safe \in Seq(Record) /\ Log \in Seq(Record)
         /\ ~Running => Log = Safe
         /\ Running => \E older \in Seq(Record) :
                         /\ Safe = disk[current_block].recs \o older
                         /\ Log = log_page.recs \o older
<1>1. disk \in Seq(Page) /\ log_page \in Page
  BY DEF IInv, TypeOK
<1>2. CASE ~Running
  BY <1>1, <1>2, ReadsType DEF Safe, Log, Written
<1>3. CASE Running
  <2>1. disk # <<>> /\ current_block = Len(disk)
    BY <1>3, AtEnd
  <2>2. Written = [disk EXCEPT ![Len(disk)] = log_page]
    BY <1>3, <2>1 DEF Written
  <2>3. /\ Written \in Seq(Page)
        /\ Backward(Front(disk)) \in Seq(Record)
        /\ Safe = disk[current_block].recs \o Backward(Front(disk))
        /\ Log = log_page.recs \o Backward(Front(disk))
    BY <1>1, <2>1, <2>2, WriteLast DEF Safe, Log
  <2> QED
    BY <1>1, <1>3, <2>3, ReadsType DEF Safe, Log
<1> QED
  BY <1>2, <1>3

LEMMA OpenEffect ==
  ASSUME IInv, OpenExisting \/ OpenNew \/ WriteFirst
  PROVE  Log' = Log /\ Safe' = Safe
<1> USE DEF Running
<1>1. disk \in Seq(Page)
  BY DEF IInv, TypeOK
<1>2. CASE OpenExisting
  <2>1. /\ pc = "down" /\ pc' = "idle" /\ disk # <<>> /\ disk' = disk
        /\ log_page' = disk[Len(disk)] /\ current_block' = Len(disk)
    BY <1>2 DEF OpenExisting, Last
  <2>2. [disk EXCEPT ![Len(disk)] = disk[Len(disk)]] = disk
    BY <1>1
  <2>3. Written = disk /\ Written' = disk
    BY <2>1, <2>2 DEF Written
  <2> QED
    BY <2>1, <2>3 DEF Log, Safe
<1>3. CASE OpenNew
  <2>1. pc = "down" /\ pc' = "create" /\ disk = <<>> /\ disk' = <<Zeros>>
    BY <1>3 DEF OpenNew
  <2>2. Written = <<>> /\ Written' = <<Zeros>>
    BY <2>1 DEF Written
  <2>3. Backward(<<>>) = <<>> /\ Backward(<<Zeros>>) = <<>>
    BY BackwardNone, BackwardOne, SpecialPages
  <2> QED
    BY <2>1, <2>2, <2>3 DEF Log, Safe
<1>4. CASE WriteFirst
  <2>1. /\ pc = "create" /\ pc' = "idle" /\ disk' = <<Empty>>
        /\ log_page' = Empty /\ current_block' = 1
    BY <1>4 DEF WriteFirst
  <2>2. disk = <<Zeros>>
    BY <2>1 DEF IInv, Growing
  <2>3. [<<Empty>> EXCEPT ![1] = Empty] = <<Empty>>
    OBVIOUS
  <2>4. Written = <<Zeros>> /\ Written' = <<Empty>>
    BY <2>1, <2>2, <2>3 DEF Written
  <2>5. Backward(<<Empty>>) = <<>> /\ Backward(<<Zeros>>) = <<>>
    BY BackwardOne, SpecialPages
  <2> QED
    BY <2>1, <2>2, <2>4, <2>5 DEF Log, Safe
<1> QED
  BY <1>2, <1>3, <1>4

LEMMA PlaceEffect ==
  ASSUME IInv, Readable, NEW r \in Record, AppendFitting(r)
  PROVE  Log' = <<r>> \o Log /\ Safe' = Safe
<1> USE DEF Running
<1>1. /\ disk \in Seq(Page) /\ log_page \in Page /\ log_page.recs \in Seq(Record)
  BY DEF IInv, TypeOK, Page
<1>2. /\ pc = "idle" /\ pc' = "idle" /\ disk' = disk /\ current_block' = current_block
      /\ fits(log_page, r) /\ log_page' = place(log_page, r)
  BY DEF AppendFitting
<1>3. disk # <<>> /\ current_block = Len(disk)
  BY <1>2, AtEnd
<1>4. /\ Written = [disk EXCEPT ![Len(disk)] = log_page]
      /\ Written' = [disk EXCEPT ![Len(disk)] = log_page']
  BY <1>2, <1>3 DEF Written
<1> DEFINE older == Backward(Front(disk))
<1>5. log_page' \in Page /\ log_page'.recs = <<r>> \o log_page.recs
  BY <1>1, <1>2, Place
<1>6. Log = log_page.recs \o older /\ older \in Seq(Record)
  BY <1>1, <1>3, <1>4, WriteLast DEF Log
<1>7. Log' = log_page'.recs \o older
  BY <1>1, <1>3, <1>4, <1>5, WriteLast DEF Log
<1>8. (<<r>> \o log_page.recs) \o older = <<r>> \o (log_page.recs \o older)
  <2> DEFINE one == <<r>>
             page == log_page.recs
  <2>1. one \in Seq(Record) /\ page \in Seq(Record) /\ older \in Seq(Record)
    BY <1>1, <1>6
  <2> HIDE DEF older, one, page
  <2>2. (one \o page) \o older = one \o (page \o older)
    BY <2>1, ConcatAssociative
  <2> QED
    BY <2>2 DEF one, page
<1>9. Log' = <<r>> \o Log
  <2> HIDE DEF older
  <2> QED
    BY <1>5, <1>6, <1>7, <1>8
<1> QED
  BY <1>2, <1>9 DEF Safe

LEMMA SaveEffect ==
  ASSUME IInv, Readable, pc = "idle", disk' = [disk EXCEPT ![current_block] = log_page],
         log_page' = log_page, current_block' = current_block, Running'
  PROVE  Log' = Log /\ Safe' = Log
<1>1. disk \in Seq(Page) /\ log_page \in Page
  BY DEF IInv, TypeOK
<1>2. disk # <<>> /\ current_block = Len(disk) /\ Running
  BY AtEnd DEF Running
<1>3. /\ disk' \in Seq(Page) /\ Len(disk') = Len(disk)
      /\ disk'[Len(disk)] = log_page
  BY <1>1, <1>2, WriteLast
<1>4. Written = disk'
  BY <1>2 DEF Written
<1>5. Written' = [disk' EXCEPT ![current_block] = log_page]
  BY DEF Written
<1>6. [disk' EXCEPT ![current_block] = log_page] = disk'
  BY <1>2, <1>3
<1> QED
  BY <1>4, <1>5, <1>6 DEF Log, Safe

LEMMA GrowEffect ==
  ASSUME IInv, AppendBlock \/ AppendBlockFails
  PROVE  Log' = Log /\ Safe' = Safe /\ (AppendBlock => Log = Safe)
<1> USE DEF Running
<1>1. disk \in Seq(Page) /\ log_page \in Page
  BY DEF IInv, TypeOK
<1>2. CASE AppendBlock
  <2>1. /\ pc = "append_block" /\ pc' = "write_new" /\ disk' = Append(disk, Zeros)
    BY <1>2 DEF AppendBlock
  <2>2. disk[current_block] = log_page
    BY <2>1 DEF IInv, Growing
  <2>3. [disk EXCEPT ![current_block] = log_page] = disk
    BY <1>1, <2>2
  <2>4. Written = disk /\ Written' = disk'
    BY <2>1, <2>3 DEF Written
  <2>5. Backward(disk') = Zeros.recs \o Backward(disk)
    BY <1>1, <2>1, SpecialPages, BackwardAppend
  <2>6. Zeros.recs \o Backward(disk) = Backward(disk)
    BY <1>1, SpecialPages, ReadsType, ConcatEmptySeq
  <2> QED
    BY <2>4, <2>5, <2>6 DEF Log, Safe
<1>3. CASE AppendBlockFails
  <2>1. /\ pc = "append_block" /\ pc' = "idle" /\ disk' = disk
        /\ log_page' = log_page /\ current_block' = current_block
    BY <1>3 DEF AppendBlockFails, memory
  <2>2. ~AppendBlock
    BY <2>1 DEF AppendBlock
  <2> QED
    BY <2>1, <2>2 DEF Log, Safe, Written
<1> QED
  BY <1>2, <1>3

LEMMA NewBlockEffect ==
  ASSUME IInv, WriteNew
  PROVE  /\ Log = Safe /\ Safe' = Safe /\ appending \in Record
         /\ Log' = IF fits(log_page, appending) THEN <<appending>> \o Log ELSE Log
<1> USE DEF Running
<1>1. disk \in Seq(Page) /\ log_page \in Page
  BY DEF IInv, TypeOK
<1>2. /\ pc = "write_new" /\ pc' = "idle" /\ disk' = [disk EXCEPT ![Len(disk)] = log_page]
      /\ current_block' = Len(disk)
      /\ log_page' = IF fits(log_page, appending) THEN place(log_page, appending) ELSE log_page
  BY DEF WriteNew
<1>3. /\ disk[Len(disk)] = Zeros /\ log_page = Empty
      /\ appending \in Record /\ disk # <<>>
  <2>1. Len(disk) \in Nat /\ Len(<<>>) = 0
    BY <1>1, LenProperties
  <2> QED
    BY <1>2, <2>1 DEF IInv, Growing
<1> DEFINE older == Backward(Front(disk))
<1>4. /\ older \in Seq(Record) /\ Safe = Zeros.recs \o older
      /\ disk' \in Seq(Page) /\ Len(disk') = Len(disk)
      /\ Safe' = Empty.recs \o older
  BY <1>1, <1>2, <1>3, WriteLast DEF Safe
<1>5. log_page' \in Page
  <2>1. CASE fits(log_page, appending)
    BY <1>1, <1>2, <1>3, <2>1, Place
  <2>2. CASE ~fits(log_page, appending)
    BY <1>1, <1>2, <2>2
  <2> QED
    BY <2>1, <2>2
<1>6. Written' = [disk EXCEPT ![Len(disk)] = log_page']
  <2>1. Written' = [[disk EXCEPT ![Len(disk)] = log_page] EXCEPT ![Len(disk)] = log_page']
    BY <1>2 DEF Written
  <2> QED
    BY <2>1
<1>7. Log' = log_page'.recs \o older
  BY <1>1, <1>3, <1>5, <1>6, WriteLast DEF Log
<1>8. Log = Safe
  BY <1>2 DEF Log, Safe, Written
<1> HIDE DEF older
<1>9. Safe = older /\ Safe' = older
  BY <1>4, SpecialPages, ConcatEmptySeq
<1>10. CASE fits(log_page, appending)
  <2>1. log_page'.recs = <<appending>> \o <<>>
    BY <1>1, <1>2, <1>3, <1>10, Place, SpecialPages
  <2>2. <<appending>> \in Seq(Record)
    BY <1>3
  <2>3. <<appending>> \o <<>> = <<appending>>
    BY <2>2, ConcatEmptySeq
  <2> QED
    BY <1>3, <1>7, <1>8, <1>9, <1>10, <2>1, <2>3
<1>11. CASE ~fits(log_page, appending)
  <2>1. log_page'.recs = <<>>
    BY <1>2, <1>3, <1>11, SpecialPages
  <2>2. <<>> \o older = older
    BY <1>4, ConcatEmptySeq
  <2> QED
    BY <1>3, <1>7, <1>8, <1>9, <1>11, <2>1, <2>2
<1> QED
  BY <1>10, <1>11

\* A crash costs the records of the page that were not written.
LEMMA CrashEffect ==
  ASSUME IInv, Readable, Crash
  PROVE  /\ Safe' = Safe /\ Log' = Safe
         /\ \E new \in Seq(Record) : Log = new \o Safe
<1>1. disk' = disk /\ pc' = "down"
  BY DEF Crash
<1>2. Safe' = Safe /\ Log' = Safe
  BY <1>1 DEF Safe, Log, Written, Running
<1>3. CASE ~Running
  <2>1. Log = Safe /\ Safe \in Seq(Record)
    BY <1>3, LogTypes
  <2>2. <<>> \in Seq(Record) /\ <<>> \o Safe = Safe
    BY <2>1, EmptySeq, ConcatEmptySeq
  <2> QED
    BY <1>2, <2>1, <2>2
<1>4. CASE Running
  <2>1. PICK older \in Seq(Record) :
          /\ Safe = disk[current_block].recs \o older
          /\ Log = log_page.recs \o older
    BY <1>4, LogTypes
  <2>2. /\ disk \in Seq(Page) /\ log_page \in Page
        /\ disk # <<>> /\ current_block = Len(disk)
        /\ Ends(disk[current_block].recs, log_page.recs)
    BY <1>4, AtEnd DEF IInv, TypeOK
  <2>3. disk[current_block] \in Page
    BY <2>2, WriteLast
  <2>4. disk[current_block].recs \in Seq(Record) /\ log_page.recs \in Seq(Record)
    BY <2>2, <2>3 DEF Page
  <2>5. PICK new \in Seq(Record) : log_page.recs = new \o disk[current_block].recs
    BY <2>2, <2>4, EndsSplit
  <2>6. (new \o disk[current_block].recs) \o older = new \o (disk[current_block].recs \o older)
    <3> DEFINE block == disk[current_block].recs
    <3>1. block \in Seq(Record)
      BY <2>4
    <3> HIDE DEF block
    <3>2. (new \o block) \o older = new \o (block \o older)
      BY <3>1, ConcatAssociative
    <3> QED
      BY <3>2 DEF block
  <2>7. Log = new \o Safe
    BY <2>1, <2>5, <2>6
  <2> QED
    BY <1>2, <2>7
<1> QED
  BY <1>3, <1>4

-----------------------------------------------------------------------------
(* The invariants.                                                         *)

LEMMA SavedStep == IInv /\ [Next]_vars => SavedIsDurable' /\ SavedInNewBlock'
<1> SUFFICES ASSUME IInv, [Next]_vars, Readable' PROVE SavedIsDurable' /\ SavedInNewBlock'
  BY DEF SavedIsDurable, SavedInNewBlock
<1> USE DEF Running
<1>0. Readable
  BY StaysUnreadable
<1>1. /\ latest \in Nat /\ last_saved \in 0..latest /\ opened \in Nat
  BY DEF IInv, TypeOK
<1>2. /\ Safe \in Seq(Record) /\ Log \in Seq(Record)
      /\ Len(Safe) \in Nat /\ Len(Log) \in Nat
  BY <1>0, LogTypes, LenProperties
<1>3. /\ Running => Len(Safe) >= opened + last_saved /\ Len(Log) = opened + latest
      /\ pc = "write_new" => Len(Safe) = opened + latest
  BY <1>0 DEF IInv, SavedIsDurable, SavedInNewBlock, Safe, Log
<1>4. /\ SavedIsDurable' <=> (Running' => /\ Len(Safe') >= opened' + last_saved'
                                         /\ Len(Log') = opened' + latest')
      /\ SavedInNewBlock' <=> (pc' = "write_new" => Len(Safe') = opened' + latest')
  BY DEF SavedIsDurable, SavedInNewBlock, Safe, Log
<1>5. CASE OpenExisting
  <2>1. pc' = "idle" /\ opened' = Len(Safe) /\ latest' = 0 /\ last_saved' = 0 /\ ~Running
    BY <1>5 DEF OpenExisting, Safe
  <2>2. Log' = Safe /\ Safe' = Safe
    BY <1>0, <1>5, <2>1, OpenEffect, LogTypes
  <2> QED
    BY <1>2, <1>4, <2>1, <2>2
<1>6. CASE OpenNew
  <2>1. pc' = "create"
    BY <1>6 DEF OpenNew
  <2> QED
    BY <1>4, <2>1
<1>7. CASE WriteFirst
  <2>1. /\ pc' = "idle" /\ opened' = 0 /\ latest' = 0 /\ last_saved' = 0 /\ ~Running
        /\ disk' = <<Empty>>
    BY <1>7 DEF WriteFirst
  <2>2. Safe' = <<>>
    BY <2>1, BackwardOne, SpecialPages DEF Safe
  <2>3. Log' = <<>>
    BY <1>0, <1>7, <2>1, <2>2, OpenEffect, LogTypes
  <2>4. Len(<<>>) = 0
    OBVIOUS
  <2>5. Len(Safe') = 0 /\ Len(Log') = 0
    BY <2>2, <2>3, <2>4
  <2> QED
    BY <1>4, <2>1, <2>5
<1>8. ASSUME NEW r \in Record, AppendFitting(r) PROVE SavedIsDurable' /\ SavedInNewBlock'
  <2>1. /\ pc = "idle" /\ pc' = "idle" /\ opened' = opened /\ latest' = latest + 1
        /\ last_saved' = last_saved
    BY <1>8 DEF AppendFitting
  <2>2. Log' = <<r>> \o Log /\ Safe' = Safe
    BY <1>0, <1>8, PlaceEffect
  <2>3. Len(Log') = Len(Log) + 1
    BY <1>2, <2>2, InFront
  <2> QED
    BY <1>1, <1>2, <1>3, <1>4, <2>1, <2>2, <2>3
<1>9. ASSUME pc = "idle", disk' = [disk EXCEPT ![current_block] = log_page],
             log_page' = log_page, current_block' = current_block, Running',
             opened' = opened, latest' = latest, last_saved' = latest
      PROVE  SavedIsDurable' /\ SavedInNewBlock'
  <2>1. Log' = Log /\ Safe' = Log
    BY <1>0, <1>9, SaveEffect
  <2>2. Len(Log) = opened + latest
    BY <1>3, <1>9
  <2> QED
    BY <1>1, <1>2, <1>4, <1>9, <2>1, <2>2
<1>10. ASSUME NEW r \in Record, AppendFull(r) PROVE SavedIsDurable' /\ SavedInNewBlock'
  BY <1>9, <1>10 DEF AppendFull
<1>11. CASE AppendBlock
  <2>1. pc = "append_block" /\ pc' = "write_new" /\ opened' = opened /\ latest' = latest
    BY <1>11 DEF AppendBlock
  <2>2. Log = Safe /\ Safe' = Safe
    BY <1>11, GrowEffect
  <2> QED
    BY <1>3, <1>4, <2>1, <2>2
<1>12. CASE AppendBlockFails
  <2>1. /\ pc = "append_block" /\ pc' = "idle" /\ opened' = opened /\ latest' = latest
        /\ last_saved' = last_saved
    BY <1>12 DEF AppendBlockFails, memory
  <2>2. Log' = Log /\ Safe' = Safe
    BY <1>12, GrowEffect
  <2> QED
    BY <1>3, <1>4, <2>1, <2>2
<1>13. CASE WriteNew
  <2>1. /\ pc = "write_new" /\ pc' = "idle" /\ opened' = opened /\ last_saved' = last_saved
        /\ latest' = IF fits(log_page, appending) THEN latest + 1 ELSE latest
    BY <1>13 DEF WriteNew
  <2>2. /\ Log = Safe /\ Safe' = Safe /\ appending \in Record
        /\ Log' = IF fits(log_page, appending) THEN <<appending>> \o Log ELSE Log
    BY <1>13, NewBlockEffect
  <2>3. Len(Safe) = opened + latest /\ Len(Log) = opened + latest
    BY <1>3, <2>1, <2>2
  <2>4. Len(Log') = opened + latest'
    <3>1. CASE fits(log_page, appending)
      <4>1. Len(Log') = Len(Log) + 1
        BY <1>2, <2>2, <3>1, InFront
      <4> QED
        BY <1>1, <2>1, <2>3, <3>1, <4>1
    <3>2. CASE ~fits(log_page, appending)
      BY <2>1, <2>2, <2>3, <3>2
    <3> QED
      BY <3>1, <3>2
  <2>5. Len(Safe) >= opened + last_saved
    BY <1>1, <2>3
  <2> QED
    BY <1>4, <2>1, <2>2, <2>4, <2>5
<1>14. ASSUME NEW n \in 0..latest, Flush(n) PROVE SavedIsDurable' /\ SavedInNewBlock'
  BY <1>9, <1>14 DEF Flush
<1>15. CASE GetBackwardIter
  BY <1>9, <1>15 DEF GetBackwardIter
<1>16. CASE Crash
  <2>1. pc' = "down"
    BY <1>16 DEF Crash
  <2> QED
    BY <1>4, <2>1
<1>17. CASE UNCHANGED vars
  <2>1. SavedIsDurable /\ SavedInNewBlock
    BY DEF IInv
  <2> QED
    BY <1>17, <2>1 DEF vars, memory, SavedIsDurable, SavedInNewBlock, Readable, Settled, Written
<1>18. CASE WriteNewFails
  BY <1>18, FailsUnreadable
<1> QED
  BY <1>5, <1>6, <1>7, <1>8, <1>10, <1>11, <1>12, <1>13, <1>14, <1>15, <1>16, <1>17,
     <1>18 DEF Next

LEMMA Initially == Init => IInv
<1> SUFFICES ASSUME Init PROVE IInv
  OBVIOUS
<1> USE DEF Init
<1>1. <<>> \in Seq(Page) /\ Len(<<>>) = 0
  BY EmptySeq
<1>2. TypeOK
  BY <1>1, SpecialPages DEF TypeOK, Pc
<1>3. LayoutHolds
  BY SpecialPages DEF LayoutHolds
<1> QED
  BY <1>2, <1>3 DEF IInv, PageAtEnd, Growing, SavedIsDurable, SavedInNewBlock, Running

\* The inductive invariant holds.
THEOREM Invariance == Spec => []IInv
<1>1. IInv /\ [Next]_vars => IInv'
  BY TypeStep, PageStep, LayoutStep, SavedStep DEF IInv
<1> QED
  BY Initially, <1>1, PTL DEF Spec

\* Every variable has its type.
THEOREM TypeCorrect == Spec => []TypeOK
<1>1. IInv => TypeOK
  BY DEF IInv
<1> QED
  BY Invariance, <1>1, PTL

\* The boundary of every page and block is where its most recent record begins.
THEOREM LayoutCorrect == Spec => []LayoutHolds
<1>1. IInv => LayoutHolds
  BY DEF IInv
<1> QED
  BY Invariance, <1>1, PTL

\* While recovery can read the log, the records up to
\* last_saved_log_sequence_number are on disk.
THEOREM SavedCorrect == Spec => []SavedIsDurable
<1>1. IInv => SavedIsDurable
  BY DEF IInv
<1> QED
  BY Invariance, <1>1, PTL

-----------------------------------------------------------------------------
(* LogManager implements DurableLog.                                       *)

LEMMA PromisedInit == Init => Promised!Init
<1> SUFFICES ASSUME Init PROVE Promised!Init
  OBVIOUS
<1>1. Written = <<>> /\ Backward(<<>>) = <<>> /\ disk = <<>>
  BY BackwardNone DEF Init, Written, Running
<1>2. Reverse(<<>>) = <<>>
  <2>1. <<>> \in Seq(Record) /\ Len(<<>>) = 0
    BY EmptySeq
  <2>2. Reverse(<<>>) \in Seq(Record) /\ Len(Reverse(<<>>)) = 0
    BY <2>1, ReverseProperties
  <2> QED
    BY <2>2, EmptySeq
<1>3. Len(<<>>) = 0
  OBVIOUS
<1> QED
  BY <1>1, <1>2, <1>3 DEF Promised!Init

LEMMA PromisedStep ==
  IInv /\ [Next]_vars => (Readable' => Readable /\ [Promised!Next]_(Promised!vars))
<1> SUFFICES ASSUME IInv, [Next]_vars, Readable'
             PROVE  Readable /\ [Promised!Next]_(Promised!vars)
  OBVIOUS
<1>0. Readable
  BY StaysUnreadable
<1>1. /\ Safe \in Seq(Record) /\ Log \in Seq(Record)
  BY <1>0, LogTypes
<1>2. ASSUME Log' = Log, Safe' = Safe PROVE UNCHANGED Promised!vars
  BY <1>2 DEF Promised!vars, Log, Safe
<1>3. ASSUME NEW r \in Record, Log' = <<r>> \o Log, Safe' = Safe
      PROVE  Promised!AppendRecord(r)
  <2>1. Reverse(Log') = Append(Reverse(Log), r)
    BY <1>1, <1>3, ReverseInFront
  <2> QED
    BY <1>3, <2>1 DEF Promised!AppendRecord, Log, Safe
<1>4. ASSUME Log' = Log, Safe' = Log PROVE Promised!Save
  <2>1. Len(Reverse(Log)) = Len(Log)
    BY <1>1, ReverseProperties
  <2> QED
    BY <1>4, <2>1 DEF Promised!Save, Log, Safe
<1>5. CASE OpenExisting \/ OpenNew \/ WriteFirst
  BY <1>0, <1>2, <1>5, OpenEffect
<1>6. ASSUME NEW r \in Record, AppendFitting(r) PROVE Promised!AppendRecord(r)
  BY <1>0, <1>3, <1>6, PlaceEffect
<1>7. ASSUME NEW r \in Record, AppendFull(r) PROVE Promised!Save
  <2>1. /\ pc = "idle" /\ disk' = [disk EXCEPT ![current_block] = log_page]
        /\ log_page' = log_page /\ current_block' = current_block /\ Running'
    BY <1>7 DEF AppendFull, Running
  <2> QED
    BY <1>0, <1>4, <2>1, SaveEffect
<1>8. CASE AppendBlock \/ AppendBlockFails
  BY <1>0, <1>2, <1>8, GrowEffect
<1>9. CASE WriteNew
  BY <1>0, <1>2, <1>3, <1>9, NewBlockEffect DEF Promised!Next
<1>10. ASSUME (\E n \in 0..latest : Flush(n)) \/ GetBackwardIter PROVE Promised!Save
  <2>1. /\ pc = "idle" /\ disk' = [disk EXCEPT ![current_block] = log_page]
        /\ log_page' = log_page /\ current_block' = current_block /\ Running'
    BY <1>10 DEF Flush, GetBackwardIter, Running
  <2> QED
    BY <1>0, <1>4, <2>1, SaveEffect
<1>11. CASE Crash
  <2>1. PICK new \in Seq(Record) : Log = new \o Safe
    BY <1>0, <1>11, CrashEffect
  <2>2. Safe' = Safe /\ Log' = Safe
    BY <1>0, <1>11, CrashEffect
  <2>3. Reverse(Safe) = SubSeq(Reverse(Log), 1, Len(Safe))
    BY <1>1, <2>1, ReverseOfOlder
  <2>4. Promised!Crash
    BY <2>2, <2>3 DEF Promised!Crash, Log, Safe
  <2> QED
    BY <1>0, <2>4 DEF Promised!Next
<1>12. CASE UNCHANGED vars
  <2>1. Log' = Log /\ Safe' = Safe
    BY <1>12 DEF vars, memory, Log, Safe, Written, Running
  <2> QED
    BY <1>0, <1>2, <2>1
<1>13. CASE WriteNewFails
  BY <1>13, FailsUnreadable
<1> QED
  BY <1>0, <1>5, <1>6, <1>7, <1>8, <1>9, <1>10, <1>11, <1>12, <1>13 DEF Next, Promised!Next

\* As long as recovery can read the log, the manager does what DurableLog
\* promises: records are only added at the end, a save covers every one of
\* them, and a crash at any point costs only records that were not saved.  A
\* log that it cannot read stays so.
THEOREM Refinement == Spec => ImplementsDurableLog
<1>1. IInv /\ [Next]_vars => [Readable' => Readable /\ [Promised!Next]_(Promised!vars)]_vars
  BY PromisedStep
<1> QED
  BY PromisedInit, <1>1, Initially, Invariance, PTL DEF Spec, ImplementsDurableLog

-----------------------------------------------------------------------------
(* What makes the log unreadable.                                          *)

Cause ==
  \/ pc \in {"create", "write_new"} /\ pc' # pc /\ UNCHANGED disk
  \/ appending # None /\ Size[appending] + BoundarySize > BlockSize

\* A block that can be read and has no records has room for any record that
\* a block can hold.
LEMMA EmptyHasRoom ==
  ASSUME NEW b \in Page, BlockLayout(b), b.boundary # 0, b.recs = <<>>,
         NEW r \in Record, ~fits(b, r)
  PROVE  r # None /\ Size[r] + BoundarySize > BlockSize
<1>1. b.boundary + SizeOf(<<>>) = BlockSize /\ b.boundary \in Nat
  BY LogManagerAssumption DEF BlockLayout, Zeros, Page
<1>2. b.boundary = BlockSize
  BY <1>1, SizeOfNone
<1>3. Size[r] \in Nat /\ BlockSize \in Nat /\ r # None
  BY LogManagerAssumption
<1> QED
  BY <1>2, <1>3 DEF fits, BoundarySize

LEMMA DamageStep == IInv /\ [Next]_vars => [Readable /\ ~Readable' => Cause]_vars
<1> SUFFICES ASSUME IInv, Next, Readable PROVE Readable' \/ Cause
  OBVIOUS
<1> USE DEF Running
<1>1. /\ disk \in Seq(Page) /\ log_page \in Page /\ Len(disk) \in Nat
      /\ DOMAIN disk = 1..Len(disk)
  BY LenProperties DEF IInv, TypeOK
<1>2. Readable <=> CanRead(Settled)
  BY DEF Readable, CanRead
<1>3. Readable' <=> CanRead(Settled')
  BY DEF Readable, CanRead
<1>4. /\ pc \in {"create", "write_new"} => Settled = Front(disk)
      /\ pc \notin {"create", "write_new"} => Settled = Written
      /\ pc' \in {"create", "write_new"} => Settled' = Front(disk')
      /\ pc' \notin {"create", "write_new"} => Settled' = Written'
  BY DEF Settled
<1>5. CanRead(Settled)
  BY <1>2
<1>6. CASE OpenExisting
  <2>1. /\ pc = "down" /\ pc' = "idle" /\ disk' = disk
        /\ log_page' = disk[Len(disk)] /\ current_block' = Len(disk)
    BY <1>6 DEF OpenExisting, Last
  <2>2. [disk EXCEPT ![Len(disk)] = disk[Len(disk)]] = disk
    BY <1>1
  <2>3. Written = disk /\ Written' = disk
    BY <2>1, <2>2 DEF Written
  <2> QED
    BY <1>3, <1>4, <1>5, <2>1, <2>3
<1>7. CASE OpenNew
  <2>1. pc' = "create" /\ disk' = <<Zeros>>
    BY <1>7 DEF OpenNew
  <2>2. <<Zeros>> \in Seq(Page) /\ <<Zeros>> # <<>> /\ Len(<<Zeros>>) = 1 /\ Zeros \in Page
    BY SpecialPages
  <2>3. Front(<<Zeros>>) \in Seq(Page) /\ Len(Front(<<Zeros>>)) = 0
    <3> DEFINE new == <<Zeros>>
    <3>1. new \in Seq(Page) /\ new # <<>> /\ Len(new) = 1
      BY <2>2
    <3> HIDE DEF new
    <3>2. Front(new) \in Seq(Page) /\ Len(Front(new)) = Len(new) - 1
      BY <2>2, <3>1, LastBlock
    <3>3. Front(new) \in Seq(Page) /\ Len(Front(new)) = 0
      BY <3>1, <3>2
    <3> QED
      BY <3>3 DEF new
  <2>4. Settled' = Front(<<Zeros>>)
    BY <1>4, <2>1
  <2>5. DOMAIN Settled' = {}
    <3> DEFINE front == Front(<<Zeros>>)
    <3> HIDE DEF front
    <3>1. front \in Seq(Page) /\ Len(front) = 0
      BY <2>3 DEF front
    <3>2. DOMAIN front = {}
      BY <3>1, LenProperties
    <3> QED
      BY <2>4, <3>2 DEF front
  <2> QED
    BY <1>3, <2>5 DEF CanRead
<1>8. CASE WriteFirst
  <2>1. pc' = "idle" /\ disk' = <<Empty>> /\ log_page' = Empty /\ current_block' = 1
    BY <1>8 DEF WriteFirst
  <2>2. [<<Empty>> EXCEPT ![1] = Empty] = <<Empty>>
    OBVIOUS
  <2>3. Settled' = <<Empty>>
    BY <1>4, <2>1, <2>2 DEF Written
  <2>4. CanRead(<<Empty>>)
    BY SpecialPages DEF CanRead
  <2> QED
    BY <1>3, <2>3, <2>4
<1>9. ASSUME NEW r \in Record, AppendFitting(r) PROVE Readable'
  <2>1. /\ pc = "idle" /\ pc' = "idle" /\ disk' = disk /\ current_block' = current_block
        /\ fits(log_page, r) /\ log_page' = place(log_page, r)
    BY <1>9 DEF AppendFitting
  <2>2. disk # <<>> /\ current_block = Len(disk)
    BY <2>1, AtEnd
  <2>3. /\ Settled = [disk EXCEPT ![Len(disk)] = log_page]
        /\ Settled' = [disk EXCEPT ![Len(disk)] = log_page']
    BY <1>4, <2>1, <2>2 DEF Written
  <2>4. log_page' \in Page /\ log_page'.boundary # 0
    BY <1>1, <2>1, Place
  <2>5. /\ Settled \in Seq(Page) /\ Len(Settled) = Len(disk) /\ Settled # <<>>
    BY <1>1, <2>2, <2>3, WriteLast
  <2>6. CanRead([Settled EXCEPT ![Len(Settled)] = log_page'])
    BY <1>5, <2>4, <2>5, ReadLast
  <2>7. [Settled EXCEPT ![Len(Settled)] = log_page'] = Settled'
    BY <2>3, <2>5
  <2> QED
    BY <1>3, <2>6, <2>7
<1>10. ASSUME pc = "idle", disk' = [disk EXCEPT ![current_block] = log_page],
              log_page' = log_page, current_block' = current_block, Running'
       PROVE  Readable'
  <2>1. disk # <<>> /\ current_block = Len(disk)
    BY <1>10, AtEnd
  <2>2. disk' \in Seq(Page) /\ Len(disk') = Len(disk) /\ disk'[Len(disk)] = log_page
    BY <1>1, <1>10, <2>1, WriteLast
  <2>3. Settled = disk'
    BY <1>4, <1>10, <2>1 DEF Written
  <2>4. [disk' EXCEPT ![current_block] = log_page] = disk'
    BY <2>1, <2>2
  <2>5. Settled' = disk'
    BY <1>4, <1>10, <2>4 DEF Written
  <2> QED
    BY <1>3, <1>5, <2>3, <2>5
<1>11. ASSUME NEW r \in Record, AppendFull(r) PROVE Readable'
  <2>1. /\ pc = "idle" /\ disk' = [disk EXCEPT ![current_block] = log_page]
        /\ log_page' = log_page /\ current_block' = current_block /\ Running'
    BY <1>11 DEF AppendFull
  <2> QED
    BY <1>10, <2>1
<1>12. CASE AppendBlock
  <2>1. pc = "append_block" /\ pc' = "write_new" /\ disk' = Append(disk, Zeros)
    BY <1>12 DEF AppendBlock
  <2>2. disk[current_block] = log_page
    BY <2>1 DEF IInv, Growing
  <2>3. [disk EXCEPT ![current_block] = log_page] = disk
    BY <1>1, <2>2
  <2>4. Settled = disk
    BY <1>4, <2>1, <2>3 DEF Written
  <2>10. Settled' = disk
    BY <1>1, <1>4, <2>1, SpecialPages, FrontOfAppend
  <2> QED
    BY <1>3, <1>5, <2>4, <2>10
<1>13. CASE AppendBlockFails
  <2>1. /\ pc = "append_block" /\ pc' = "idle" /\ disk' = disk
        /\ log_page' = log_page /\ current_block' = current_block
    BY <1>13 DEF AppendBlockFails, memory
  <2>2. Settled' = Settled
    BY <1>4, <2>1 DEF Written
  <2> QED
    BY <1>3, <1>5, <2>2
<1>14. CASE WriteNew
  <2>1. /\ pc = "write_new" /\ pc' = "idle" /\ disk' = [disk EXCEPT ![Len(disk)] = log_page]
        /\ current_block' = Len(disk)
        /\ log_page' = IF fits(log_page, appending) THEN place(log_page, appending) ELSE log_page
    BY <1>14 DEF WriteNew
  <2>2. /\ Len(disk) >= 2 /\ log_page = Empty /\ appending \in Record /\ disk # <<>>
        /\ ~fits(disk[Len(disk) - 1], appending)
    <3>1. Len(<<>>) = 0
      OBVIOUS
    <3> QED
      BY <1>1, <2>1, <3>1 DEF IInv, Growing
  <2>3. log_page' \in Page /\ log_page'.boundary # 0
    <3>1. CASE fits(log_page, appending)
      BY <1>1, <2>1, <2>2, <3>1, Place
    <3>2. CASE ~fits(log_page, appending)
      BY <2>1, <2>2, <3>2, SpecialPages
    <3> QED
      BY <3>1, <3>2
  <2> DEFINE m == Len(disk)
             new == [disk EXCEPT ![m] = log_page']
  <2>4. Settled' = new
    <3>1. Written' = [[disk EXCEPT ![m] = log_page] EXCEPT ![m] = log_page']
      BY <2>1 DEF Written
    <3> QED
      BY <1>4, <2>1, <3>1
  <2>5. /\ new \in Seq(Page) /\ Len(new) = m /\ new[m] = log_page'
        /\ \A n \in 1..(m - 1) : new[n] = disk[n]
    <3>1. disk \in Seq(Page) /\ disk # <<>> /\ log_page' \in Page
      BY <1>1, <2>2, <2>3
    <3>2. PICK p : p = log_page'
      OBVIOUS
    <3> QED
      BY <3>1, <3>2, WriteLast
  <2>6. DOMAIN new = 1..m
    <3> HIDE DEF new
    <3> QED
      BY <2>5, LenProperties
  <2>7. /\ Settled \in Seq(Page) /\ Len(Settled) = m - 1
        /\ \A n \in 1..(m - 1) : Settled[n] = disk[n]
    BY <1>1, <1>4, <2>1, <2>2, LastBlock
  <2>8. DOMAIN Settled = 1..(m - 1)
    BY <2>7, LenProperties
  <2> HIDE DEF new
  <2>9. CASE disk[m - 1].recs = <<>>
    <3>1. m - 1 \in 1..(m - 1) /\ m - 1 \in 1..m
      BY <1>1, <2>2
    <3>2. disk[m - 1].boundary # 0
      <4>1. Settled[m - 1].boundary # 0
        BY <1>5, <2>8, <3>1 DEF CanRead
      <4> QED
        BY <2>7, <3>1, <4>1
    <3>3. disk[m - 1] \in Page
      BY <1>1, <3>1, ElementOfSeq
    <3>4. BlockLayout(disk[m - 1])
      BY <1>1, <3>1 DEF IInv, LayoutHolds
    <3>5. appending # None /\ Size[appending] + BoundarySize > BlockSize
      BY <2>2, <2>9, <3>2, <3>3, <3>4, EmptyHasRoom
    <3> QED
      BY <3>5 DEF Cause
  <2>10. CASE disk[m - 1].recs # <<>>
    <3>1. m \in Nat /\ m >= 2
      BY <1>1, <2>2
    <3> HIDE DEF m
    <3>2. ASSUME NEW i \in 1..m
          PROVE  new[i].boundary # 0 /\ (i < m => new[i].recs # <<>>)
      <4>1. CASE i = m
        BY <2>3, <2>5, <3>1, <4>1
      <4>2. CASE i = m - 1
        <5>1. i \in 1..(m - 1)
          BY <3>1, <4>2
        <5>2. new[i] = disk[i] /\ Settled[i] = disk[i] /\ Settled[i].boundary # 0
          BY <1>5, <2>5, <2>7, <2>8, <5>1 DEF CanRead
        <5> QED
          BY <2>10, <4>2, <5>2
      <4>3. CASE i \notin {m, m - 1}
        <5>1. i \in 1..(m - 1) /\ i < m - 1
          BY <3>1, <4>3
        <5>2. new[i] = disk[i] /\ Settled[i] = disk[i]
          BY <2>5, <2>7, <5>1
        <5>3. Settled[i].boundary # 0 /\ Settled[i].recs # <<>>
          BY <1>5, <2>7, <2>8, <5>1 DEF CanRead
        <5> QED
          BY <5>2, <5>3
      <4> QED
        BY <4>1, <4>2, <4>3
    <3>3. CanRead(new)
      BY <2>5, <2>6, <3>2 DEF CanRead
    <3> QED
      BY <1>3, <2>4, <3>3
  <2> QED
    BY <2>9, <2>10
<1>15. ASSUME (\E n \in 0..latest : Flush(n)) \/ GetBackwardIter PROVE Readable'
  <2>1. /\ pc = "idle" /\ disk' = [disk EXCEPT ![current_block] = log_page]
        /\ log_page' = log_page /\ current_block' = current_block /\ Running'
    BY <1>15 DEF Flush, GetBackwardIter
  <2> QED
    BY <1>10, <2>1
<1>16. CASE Crash
  <2>1. pc' = "down" /\ disk' = disk
    BY <1>16 DEF Crash
  <2>2. Settled' = disk
    BY <1>4, <2>1 DEF Written
  <2>3. CASE pc \in {"create", "write_new"}
    BY <2>1, <2>3 DEF Cause
  <2>4. CASE pc \notin {"create", "write_new"} /\ ~Running
    <3>1. Settled = disk
      BY <1>4, <2>4 DEF Written
    <3> QED
      BY <1>3, <1>5, <2>2, <3>1
  <2>5. CASE pc \notin {"create", "write_new"} /\ Running
    <3>1. /\ disk # <<>> /\ current_block = Len(disk)
          /\ disk[Len(disk)].boundary = 0 => log_page.boundary = 0
      BY <2>5, AtEnd
    <3>2. Settled = [disk EXCEPT ![Len(disk)] = log_page]
      BY <1>4, <2>5, <3>1 DEF Written
    <3>3. /\ Settled \in Seq(Page) /\ Len(Settled) = Len(disk) /\ Settled # <<>>
          /\ Settled[Len(disk)] = log_page /\ disk[Len(disk)] \in Page
      BY <1>1, <3>1, <3>2, WriteLast
    <3>4. Len(disk) \in DOMAIN Settled
      <4>1. DOMAIN Settled = 1..Len(disk) /\ Len(disk) # 0
        BY <1>1, <3>1, <3>3, LenProperties, EmptySeq
      <4> QED
        BY <1>1, <4>1
    <3>5. disk[Len(disk)].boundary # 0
      BY <1>5, <3>1, <3>3, <3>4 DEF CanRead
    <3>6. CanRead([Settled EXCEPT ![Len(Settled)] = disk[Len(disk)]])
      BY <1>5, <3>3, <3>5, ReadLast
    <3>7. [Settled EXCEPT ![Len(Settled)] = disk[Len(disk)]] = disk
      <4> DEFINE last == disk[Len(disk)]
                 back == [Settled EXCEPT ![Len(Settled)] = last]
      <4>1. last \in Page /\ Settled \in Seq(Page) /\ Settled # <<>>
        BY <3>3
      <4>2. \A n \in 1..(Len(disk) - 1) : Settled[n] = disk[n]
        <5>1. \A n \in 1..(Len(disk) - 1) : [disk EXCEPT ![Len(disk)] = log_page][n] = disk[n]
          BY <1>1, <3>1, WriteLast
        <5> QED
          BY <3>2, <5>1
      <4> HIDE DEF last
      <4>3. /\ back \in Seq(Page) /\ Len(back) = Len(Settled) /\ back[Len(Settled)] = last
            /\ \A n \in 1..(Len(Settled) - 1) : back[n] = Settled[n]
        BY <4>1, WriteLast
      <4> HIDE DEF back
      <4>4. ASSUME NEW n \in 1..Len(disk) PROVE back[n] = disk[n]
        <5>1. CASE n = Len(disk)
          BY <3>3, <4>3, <5>1 DEF last
        <5>2. CASE n # Len(disk)
          <6>1. Len(disk) \in Nat
            BY <1>1
          <6>2. n \in 1..(Len(disk) - 1)
            BY <5>2, <6>1
          <6> QED
            BY <3>3, <4>2, <4>3, <6>2
        <5> QED
          BY <5>1, <5>2
      <4>5. back = disk
        BY <1>1, <3>3, <4>3, <4>4, SeqEqual
      <4> QED
        BY <4>5 DEF back, last
    <3> QED
      BY <1>3, <2>2, <3>6, <3>7
  <2> QED
    BY <2>3, <2>4, <2>5
<1>17. CASE WriteNewFails
  BY <1>17 DEF WriteNewFails, Cause
<1> QED
  BY <1>6, <1>7, <1>8, <1>9, <1>11, <1>12, <1>13, <1>14, <1>15, <1>16, <1>17 DEF Next

\* The log becomes unreadable only when the second of the two writes that add
\* a block is never done, or by a record too large for any block.
THEOREM DamageNeedsCauseHolds == Spec => DamageNeedsCause
<1>1. IInv /\ [Next]_vars => [Readable /\ ~Readable' =>
        \/ pc \in {"create", "write_new"} /\ pc' # pc /\ UNCHANGED disk
        \/ appending # None /\ Size[appending] + BoundarySize > BlockSize]_vars
  BY DamageStep DEF Cause
<1> QED
  BY Invariance, <1>1, PTL DEF Spec, DamageNeedsCause

=============================================================================
