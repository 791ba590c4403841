-------------------------- MODULE TableScansProofs --------------------------
(***************************************************************************)
(* Proofs about TableScans: its types, that a scan misses no row and sees  *)
(* none twice whatever other transactions do, and that the slots, with     *)
(* what is put back into them, are the table of rows of RowStore.          *)
(***************************************************************************)
EXTENDS TableScans, Integers, FiniteSetsExt, NaturalsInduction,
        SequenceTheorems, WellFoundedInduction, TLAPS

-----------------------------------------------------------------------------
(* Least and greatest numbers of a set.                                    *)

\* A set of numbers that has one has a least one.
LEMMA LeastExists ==
  ASSUME NEW S, S \subseteq Nat, S # {}
  PROVE  \E i \in S : \A j \in S : i <= j
<1>1. IsWellFoundedOn(OpToRel(<, Nat), Nat)
  BY NatLessThanWellFounded
<1>2. PICK x \in S : \A y \in S : ~ (<<y, x>> \in OpToRel(<, Nat))
  BY <1>1, WFMin
<1>3. \A y \in S : x =< y
  <2> TAKE y \in S
  <2>1. <<y, x>> \in OpToRel(<, Nat) <=> y < x
    BY DEF OpToRel
  <2>2. x \in Nat /\ y \in Nat /\ ~ (y < x)
    BY <1>2, <2>1
  <2> QED
    BY <2>2
<1> QED
  BY <1>2, <1>3

\* A set of numbers up to n that has one has a greatest one.
LEMMA GreatestExists ==
  ASSUME NEW n \in Nat, NEW S \in SUBSET (0..n), S # {}
  PROVE  \E i \in S : \A j \in S : j <= i
<1> DEFINE T == {n - j : j \in S}
<1>1. T \subseteq Nat /\ T # {}
  <2>1. \A j \in S : n - j \in Nat
    OBVIOUS
  <2> QED
    BY <2>1
<1>2. PICK k \in T : \A m \in T : k <= m
  <2> HIDE DEF T
  <2> QED
    BY <1>1, LeastExists
<1>3. PICK i \in S : k = n - i
  BY <1>2
<1>4. \A j \in S : i >= j
  BY <1>2, <1>3
<1> QED
  BY <1>4

LEMMA MinProperty ==
  ASSUME NEW S \in SUBSET Nat, S # {}
  PROVE  Min(S) \in S /\ \A j \in S : Min(S) <= j
<1> QED
  BY LeastExists DEF Min

LEMMA MaxProperty ==
  ASSUME NEW n \in Nat, NEW S \in SUBSET (0..n), S # {}
  PROVE  Max(S) \in S /\ \A j \in S : j <= Max(S)
<1> QED
  BY GreatestExists DEF Max

-----------------------------------------------------------------------------
(* The inductive invariant.                                                *)

Reading(t) == pc[t] \notin {"closed", "open"}

\* Locks exclude each other and are on blocks of the file; what a transaction
\* would put back it has locked; and a scan that found no block when it was
\* opened still finds none.
LocksHold ==
  /\ Locks!Exclusion
  /\ \A t \in Tx : \A b \in Blocks : held[t][b] # "none" => b \in DOMAIN file
  /\ \A t \in Tx : \A x \in DOMAIN undo[t] : held[t][x[1]] = "exclusive"
  /\ \A t \in Tx : pc[t] = "open" => file = <<>> /\ held[t][EofBlock] # "none"

\* The blocks that a pass has gone through are locked, and the end of the file
\* when the pass has come to it.
Covered(t) ==
  /\ pass[t].kind = "forward" =>
       /\ \A b \in Blocks : b < at[t].block => held[t][b] # "none"
       /\ at[t].slot # Start => held[t][at[t].block] # "none"
       /\ pass[t].complete => /\ held[t][EofBlock] # "none"
                              /\ at[t].block = Len(file) /\ at[t].slot = End
  /\ pass[t].kind = "backward" =>
       /\ held[t][EofBlock] # "none"
       /\ \A b \in DOMAIN file : b > at[t].block => held[t][b] # "none"
       /\ at[t].slot # End => held[t][at[t].block] # "none"
       /\ pass[t].complete => at[t].block = 1 /\ at[t].slot = Start

Here(t) == <<at[t].block, at[t].slot>>

\* A pass of this kind comes to x before y.
Earlier(kind, x, y) == IF kind = "forward" THEN Precedes(x, y) ELSE Precedes(y, x)

Behind(t, x) == x = Here(t) \/ Earlier(pass[t].kind, x, Here(t))

InOrder(kind, seen) == \A j, k \in DOMAIN seen : j < k => Earlier(kind, seen[j], seen[k])

\* The slots that a pass has gone through.
Way(t) == {x \in (DOMAIN file) \X Slots : pass[t].complete \/ Behind(t, x)}

Elements(seq) == {seq[k] : k \in DOMAIN seq}

IsFull(x) == file[x[1]][x[2]].full

\* PassIsExact of one transaction.
Exact(t) ==
  pass[t].kind # "none" =>
    /\ Elements(pass[t].seen) = {x \in Way(t) : IsFull(x)}
    /\ InOrder(pass[t].kind, pass[t].seen)

PassHolds(t) ==
  /\ pass[t].kind = "none" => pass[t].seen = <<>>
  /\ pass[t].kind # "none" => Reading(t)
  /\ Covered(t)
  /\ Exact(t)

IInv == TypeOK /\ LocksHold /\ \A t \in Tx : PassHolds(t)

Pc == {"closed", "open", "idle", "next", "previous", "insert"}
Position == [block : Blocks, slot : Start..End]
Pass == [kind : {"none", "forward", "backward"}, complete : BOOLEAN,
         seen : Seq(Blocks \X Slots)]
Lock == Blocks \cup {EofBlock}

-----------------------------------------------------------------------------
(* What the parts of the actions do.                                       *)

LEMMA Sizes ==
  /\ NumSlots \in Nat \ {0} /\ MaxBlocks \in Nat \ {0} /\ MaxRows \in Nat
  /\ Start = 0 /\ End = NumSlots + 1 /\ EofBlock = 0 /\ EofBlock \notin Blocks
  /\ Start \in Start..End /\ End \in Start..End /\ Slots \subseteq Start..End
  /\ 1 \in Blocks /\ Blocks \subseteq Nat /\ Slots \subseteq Nat
  /\ \A s \in Start..End : s \in Int /\ (s = Start \/ s = End \/ s \in Slots)
BY TableScansAssumption DEF Start, End, Slots, Blocks, EofBlock

LEMMA Types ==
  ASSUME TypeOK
  PROVE  /\ file \in Seq([Slots -> Slot]) /\ Len(file) \in Nat /\ Len(file) <= MaxBlocks
         /\ DOMAIN file = 1..Len(file) /\ DOMAIN file \subseteq Blocks
         /\ \A b \in DOMAIN file : file[b] \in [Slots -> Slot]
         /\ held \in [Tx -> [Lock -> {"none", "shared", "exclusive"}]]
         /\ pc \in [Tx -> Pc]
         /\ at \in [Tx -> Position]
         /\ pass \in [Tx -> Pass]
         /\ \A t \in Tx : /\ at[t].block \in Blocks /\ at[t].block \in Nat
                          /\ at[t].slot \in Start..End /\ at[t].slot \in Int
         /\ \A t \in Tx : Reading(t) => at[t].block \in DOMAIN file
<1>1. file \in Seq([Slots -> Slot]) /\ Len(file) <= MaxBlocks
  BY DEF TypeOK
<1>2. Len(file) \in Nat /\ DOMAIN file = 1..Len(file)
  BY <1>1, LenProperties
<1>3. DOMAIN file \subseteq Blocks
  BY <1>1, <1>2, Sizes DEF Blocks
<1>4. \A b \in DOMAIN file : file[b] \in [Slots -> Slot]
  BY <1>1, <1>2, ElementOfSeq
<1>5. /\ held \in [Tx -> [Lock -> {"none", "shared", "exclusive"}]]
      /\ pc \in [Tx -> Pc] /\ at \in [Tx -> Position] /\ pass \in [Tx -> Pass]
  BY DEF TypeOK, Locks!Held, Locks!Mode, Lock, Pc, Position, Pass
<1>6. \A t \in Tx : Reading(t) => at[t].block \in DOMAIN file
  BY DEF TypeOK, Reading
<1>7. \A t \in Tx : /\ at[t].block \in Blocks /\ at[t].block \in Nat
                    /\ at[t].slot \in Start..End /\ at[t].slot \in Int
  BY <1>5, Sizes DEF Position
<1> QED
  BY <1>1, <1>2, <1>3, <1>4, <1>5, <1>6, <1>7

\* Only the scan of t moves.
Alone(t) ==
  /\ pc' \in [Tx -> Pc] /\ at' \in [Tx -> Position] /\ pass' \in [Tx -> Pass]
  /\ \A u \in Tx \ {t} : pc'[u] = pc[u] /\ at'[u] = at[u] /\ pass'[u] = pass[u]

LEMMA MoveAlone ==
  ASSUME TypeOK, NEW t \in Tx, NEW l \in Pc, NEW b \in Blocks, NEW i \in Start..End,
         Move(t, l, b, i)
  PROVE  /\ pc' \in [Tx -> Pc] /\ at' \in [Tx -> Position]
         /\ \A u \in Tx \ {t} : pc'[u] = pc[u] /\ at'[u] = at[u]
         /\ pc'[t] = l /\ at'[t].block = b /\ at'[t].slot = i
<1>1. pc \in [Tx -> Pc] /\ at \in [Tx -> Position]
  BY Types
<1>2. [block |-> b, slot |-> i] \in Position
  BY DEF Position
<1> QED
  BY <1>1, <1>2 DEF Move

\* How a pass goes on.
NextPass(t) ==
  \/ EndPass(t)
  \/ \E kind \in {"forward", "backward"} :
       \/ pass' = [pass EXCEPT ![t] = From(kind)]
       \/ Passed(t, kind) \/ Continue(t, kind)
       \/ \E b \in Blocks, i \in Slots : Seen(t, kind, b, i)
  \/ Forget(t)
  \/ pass' = pass

LEMMA PassTypes ==
  /\ NoPass \in Pass /\ NoPass.kind = "none" /\ NoPass.complete = FALSE /\ NoPass.seen = <<>>
  /\ \A kind \in {"forward", "backward"} :
       /\ From(kind) \in Pass /\ From(kind).kind = kind
       /\ From(kind).complete = FALSE /\ From(kind).seen = <<>>
<1>1. <<>> \in Seq(Blocks \X Slots)
  BY EmptySeq
<1>2. NoPass \in Pass
  BY <1>1 DEF NoPass, From, Pass
<1>3. \A kind \in {"forward", "backward"} : From(kind) \in Pass
  BY <1>1 DEF From, Pass
<1> QED
  BY <1>2, <1>3 DEF From, NoPass

LEMMA PassAlone ==
  ASSUME TypeOK, NEW t \in Tx, NextPass(t)
  PROVE  pass' \in [Tx -> Pass] /\ \A u \in Tx \ {t} : pass'[u] = pass[u]
<1>1. pass \in [Tx -> Pass] /\ pass[t] \in Pass
  BY Types
<1>2. pass[t].seen \in Seq(Blocks \X Slots)
  BY <1>1 DEF Pass
<1>3. CASE EndPass(t)
  BY <1>1, <1>3, PassTypes DEF EndPass
<1>4. ASSUME NEW kind \in {"forward", "backward"},
             pass' = [pass EXCEPT ![t] = From(kind)]
      PROVE  pass' \in [Tx -> Pass] /\ \A u \in Tx \ {t} : pass'[u] = pass[u]
  BY <1>1, <1>4, PassTypes
<1>5. ASSUME NEW kind \in {"forward", "backward"}, Passed(t, kind)
      PROVE  pass' \in [Tx -> Pass] /\ \A u \in Tx \ {t} : pass'[u] = pass[u]
  <2>1. [pass[t] EXCEPT !.complete = TRUE] \in Pass
    BY <1>1 DEF Pass
  <2> QED
    BY <1>1, <1>5, <2>1, PassTypes DEF Passed
<1>6. ASSUME NEW kind \in {"forward", "backward"}, Continue(t, kind)
      PROVE  pass' \in [Tx -> Pass] /\ \A u \in Tx \ {t} : pass'[u] = pass[u]
  BY <1>1, <1>6, PassTypes DEF Continue
<1>7. ASSUME NEW kind \in {"forward", "backward"}, NEW b \in Blocks, NEW i \in Slots,
             Seen(t, kind, b, i)
      PROVE  pass' \in [Tx -> Pass] /\ \A u \in Tx \ {t} : pass'[u] = pass[u]
  <2>1. <<b, i>> \in Blocks \X Slots
    OBVIOUS
  <2>2. Append(pass[t].seen, <<b, i>>) \in Seq(Blocks \X Slots)
    BY <1>2, <2>1, AppendProperties
  <2> DEFINE more == Append(pass[t].seen, <<b, i>>)
             on == [kind |-> kind, complete |-> FALSE, seen |-> more]
  <2>3. pass' = [pass EXCEPT ![t] = IF pass[t].kind = kind /\ ~pass[t].complete
                                    THEN on ELSE NoPass]
    BY <1>7 DEF Seen
  <2> HIDE DEF more
  <2>4. on \in Pass
    BY <1>1, <2>2 DEF Pass, more
  <2> HIDE DEF on
  <2> QED
    BY <1>1, <2>3, <2>4, PassTypes
<1>8. CASE Forget(t)
  <2> DEFINE s == pass[t].seen
             rest == IF s = <<>> THEN s ELSE SubSeq(s, 1, Len(s) - 1)
  <2>1. rest \in Seq(Blocks \X Slots)
    <3>1. CASE s = <<>>
      BY <1>2, <3>1
    <3>2. CASE s # <<>>
      <4>1. Len(s) \in Nat /\ \A n \in 1..(Len(s) - 1) : s[n] \in Blocks \X Slots
        <5>1. Len(s) \in Nat /\ \A n \in 1..Len(s) : s[n] \in Blocks \X Slots
          BY <1>2, LenProperties, ElementOfSeq
        <5> HIDE DEF s
        <5> QED
          BY <5>1
      <4> HIDE DEF s
      <4>2. SubSeq(s, 1, Len(s) - 1) \in Seq(Blocks \X Slots)
        BY <4>1, SubSeqProperties
      <4> QED
        BY <3>2, <4>2
    <3> QED
      BY <3>1, <3>2
  <2>2. pass' = [pass EXCEPT ![t] = [pass[t] EXCEPT !.seen = rest]]
    BY <1>1, <1>8 DEF Forget
  <2> HIDE DEF rest
  <2>3. [pass[t] EXCEPT !.seen = rest] \in Pass
    BY <1>1, <2>1 DEF Pass
  <2> QED
    BY <1>1, <2>2, <2>3
<1>9. CASE pass' = pass
  BY <1>1, <1>9
<1> QED
  BY <1>3, <1>4, <1>5, <1>6, <1>7, <1>8, <1>9 DEF NextPass

\* t gets locks, which exclude those of the others, and gives none back.
Locking(t) ==
  /\ held' \in Locks!Held
  /\ Locks!Exclusion'
  /\ \A u \in Tx \ {t} : held'[u] = held[u]
  /\ \A b \in Lock : /\ held[t][b] # "none" => held'[t][b] # "none"
                     /\ held[t][b] = "exclusive" => held'[t][b] = "exclusive"

LEMMA SameLocks ==
  ASSUME TypeOK, Locks!Exclusion, NEW t \in Tx, held' = held
  PROVE  Locking(t)
BY DEF TypeOK, Locks!Exclusion, Locking

LEMMA ReadLocking ==
  ASSUME TypeOK, Locks!Exclusion, NEW t \in Tx, NEW b \in Lock, CanRead(t, b), ReadLock(t, b)
  PROVE  /\ Locking(t) /\ held'[t][b] # "none"
         /\ \A c \in Lock \ {b} : held'[t][c] = held[t][c]
<1>1. held \in [Tx -> [Lock -> {"none", "shared", "exclusive"}]]
  BY Types
<1>2. held' = [held EXCEPT ![t][b] = IF held[t][b] = "none" THEN "shared" ELSE held[t][b]]
  BY <1>1 DEF ReadLock
<1>3. held' \in [Tx -> [Lock -> {"none", "shared", "exclusive"}]]
  BY <1>1, <1>2
<1>4. /\ \A u \in Tx \ {t} : held'[u] = held[u]
      /\ \A c \in Lock \ {b} : held'[t][c] = held[t][c]
      /\ held'[t][b] = IF held[t][b] = "none" THEN "shared" ELSE held[t][b]
  BY <1>1, <1>2
<1>5. ASSUME NEW u \in Tx, NEW v \in Tx, NEW c \in Lock, held'[u][c] = "exclusive", u # v
      PROVE  held'[v][c] = "none"
  <2>1. held[u][c] = "exclusive"
    BY <1>4, <1>5
  <2>2. held[v][c] = "none"
    BY <1>5, <2>1 DEF Locks!Exclusion, Lock
  <2>3. ~(v = t /\ c = b)
    BY <1>5, <2>1 DEF CanRead
  <2> QED
    BY <1>4, <2>2, <2>3
<1>6. Locks!Exclusion'
  BY <1>5 DEF Locks!Exclusion, Lock
<1> QED
  BY <1>3, <1>4, <1>6 DEF Locking, Locks!Held, Locks!Mode, Lock

LEMMA WriteLocking ==
  ASSUME TypeOK, Locks!Exclusion, NEW t \in Tx, NEW b \in Lock, CanWrite(t, b), WriteLock(t, b)
  PROVE  /\ Locking(t) /\ held'[t][b] = "exclusive"
         /\ \A c \in Lock \ {b} : held'[t][c] = held[t][c]
<1>1. held \in [Tx -> [Lock -> {"none", "shared", "exclusive"}]]
  BY Types
<1>2. held' = [held EXCEPT ![t][b] = "exclusive"]
  BY DEF WriteLock
<1>3. held' \in [Tx -> [Lock -> {"none", "shared", "exclusive"}]]
  BY <1>1, <1>2
<1>4. /\ \A u \in Tx \ {t} : held'[u] = held[u]
      /\ \A c \in Lock \ {b} : held'[t][c] = held[t][c]
      /\ held'[t][b] = "exclusive"
  BY <1>1, <1>2
<1>5. ASSUME NEW u \in Tx, NEW v \in Tx, NEW c \in Lock, held'[u][c] = "exclusive", u # v
      PROVE  held'[v][c] = "none"
  <2>1. CASE u = t /\ c = b
    BY <1>4, <1>5, <2>1 DEF CanWrite
  <2>2. CASE ~(u = t /\ c = b)
    <3>1. held[u][c] = "exclusive" /\ held[v][c] = "none"
      BY <1>4, <1>5, <2>2 DEF Locks!Exclusion, Lock
    <3>2. ~(v = t /\ c = b)
      BY <1>5, <3>1 DEF CanWrite
    <3> QED
      BY <1>4, <3>1, <3>2
  <2> QED
    BY <2>1, <2>2
<1>6. Locks!Exclusion'
  BY <1>5 DEF Locks!Exclusion, Lock
<1> QED
  BY <1>3, <1>4, <1>6 DEF Locking, Locks!Held, Locks!Mode, Lock

-----------------------------------------------------------------------------
(* Types and locks after every action.                                     *)

\* What t does leaves the scans and the locks of the others alone, and the
\* blocks, and the end of the file, that they have locked.
Apart(t) ==
  /\ \A u \in Tx \ {t} : /\ held'[u] = held[u] /\ pc'[u] = pc[u]
                         /\ at'[u] = at[u] /\ pass'[u] = pass[u]
  /\ Len(file) <= Len(file')
  /\ \A b \in DOMAIN file :
       file'[b] = file[b] \/ \A u \in Tx \ {t} : held[u][b] = "none"
  /\ Len(file') = Len(file) \/ \A u \in Tx \ {t} : held[u][EofBlock] = "none"

Sound(t) == TypeOK' /\ LocksHold' /\ Apart(t)

LEMMA Adding ==
  ASSUME NEW D, NEW f \in [D -> Slot], NEW x, NEW s \in Slot
  PROVE  /\ DOMAIN Remember(f, x, s) = D \cup {x}
         /\ Remember(f, x, s) \in [D \cup {x} -> Slot]
BY DEF Remember

\* A step that changes no block.
LEMMA Looking ==
  ASSUME IInv, NEW t \in Tx, UNCHANGED <<file, undo, row>>, Alone(t), Locking(t),
         \A b \in Blocks : held'[t][b] # "none" => b \in DOMAIN file,
         Reading(t)' => at'[t].block \in DOMAIN file,
         pc'[t] = "open" => file = <<>> /\ held'[t][EofBlock] # "none"
  PROVE  Sound(t)
<1>1. TypeOK /\ LocksHold
  BY DEF IInv
<1>2. /\ pc' \in [Tx -> Pc] /\ at' \in [Tx -> Position] /\ pass' \in [Tx -> Pass]
      /\ \A u \in Tx \ {t} : /\ held'[u] = held[u] /\ pc'[u] = pc[u]
                             /\ at'[u] = at[u] /\ pass'[u] = pass[u]
  BY DEF Alone, Locking
<1>3. \A u \in Tx : pc'[u] \notin {"closed", "open"} => at'[u].block \in DOMAIN file
  BY <1>1, <1>2 DEF TypeOK, Reading
<1>4. TypeOK'
  BY <1>1, <1>2, <1>3 DEF TypeOK, Locking, Pc, Position, Pass
<1>5. \A u \in Tx : \A x \in DOMAIN undo[u] : held'[u][x[1]] = "exclusive"
  <2> TAKE u \in Tx
  <2> TAKE x \in DOMAIN undo[u]
  <2>1. x[1] \in Lock /\ held[u][x[1]] = "exclusive"
    BY <1>1, Types DEF TypeOK, LocksHold, Lock
  <2> QED
    BY <1>2, <2>1 DEF Locking
<1>6. LocksHold'
  BY <1>1, <1>2, <1>5 DEF LocksHold, Locking
<1>7. Apart(t)
  BY <1>1, <1>2, Types DEF Apart
<1> QED
  BY <1>4, <1>6, <1>7 DEF Sound

\* A step that changes a slot.
LEMMA Writing ==
  ASSUME IInv, NEW t \in Tx, NEW b \in DOMAIN file, NEW i \in Slots, NEW s \in Slot,
         CanWrite(t, b), WriteLock(t, b), Write(t, b, i, s), row' \in 0..MaxRows, Alone(t),
         pc'[t] # "open", Reading(t)' => at'[t].block \in DOMAIN file
  PROVE  /\ Sound(t) /\ held'[t][b] = "exclusive"
         /\ DOMAIN file' = DOMAIN file /\ Len(file') = Len(file)
         /\ \A c \in DOMAIN file \ {b} : file'[c] = file[c]
         /\ \A j \in Slots : file'[b][j] = IF j = i THEN s ELSE file[b][j]
<1>1. TypeOK /\ LocksHold /\ Locks!Exclusion
  BY DEF IInv, LocksHold
<1>2. /\ file \in Seq([Slots -> Slot]) /\ Len(file) \in Nat /\ DOMAIN file = 1..Len(file)
      /\ file[b] \in [Slots -> Slot] /\ b \in Lock /\ b \in Blocks
  BY <1>1, Types DEF Lock
<1>3. /\ Locking(t) /\ held'[t][b] = "exclusive"
      /\ \A c \in Lock \ {b} : held'[t][c] = held[t][c]
  BY <1>1, <1>2, WriteLocking
<1>4. /\ pc' \in [Tx -> Pc] /\ at' \in [Tx -> Position] /\ pass' \in [Tx -> Pass]
      /\ \A u \in Tx \ {t} : /\ held'[u] = held[u] /\ pc'[u] = pc[u]
                             /\ at'[u] = at[u] /\ pass'[u] = pass[u]
  BY <1>3 DEF Alone, Locking
<1> DEFINE block == [file[b] EXCEPT ![i] = s]
<1>5. file' = [file EXCEPT ![b] = block]
  BY <1>2 DEF Write
<1>6. block \in [Slots -> Slot] /\ \A j \in Slots : block[j] = IF j = i THEN s ELSE file[b][j]
  BY <1>2
<1> HIDE DEF block
<1>7. /\ file' \in Seq([Slots -> Slot]) /\ Len(file') = Len(file)
      /\ \A j \in 1..Len(file) : file'[j] = IF j = b THEN block ELSE file[j]
  BY <1>2, <1>5, <1>6, ExceptSeq
<1>8. DOMAIN file' = DOMAIN file
  BY <1>2, <1>7, LenProperties
<1>9. /\ DOMAIN undo' = Tx
      /\ \A u \in Tx \ {t} : undo'[u] = undo[u]
      /\ undo'[t] = Remember(undo[t], <<b, i>>, file[b][i])
  BY <1>1 DEF Write, TypeOK
<1>10. /\ undo'[t] \in [DOMAIN undo'[t] -> Slot]
       /\ DOMAIN undo'[t] = DOMAIN undo[t] \cup {<<b, i>>}
  <2>1. file[b][i] \in Slot
    BY <1>2
  <2>2. undo[t] \in [DOMAIN undo[t] -> Slot]
    BY <1>1 DEF TypeOK
  <2> DEFINE old == file[b][i]
  <2> HIDE DEF old
  <2>3. old \in Slot /\ undo'[t] = Remember(undo[t], <<b, i>>, old)
    BY <1>9, <2>1 DEF old
  <2> DEFINE D == DOMAIN undo[t]
             f == undo[t]
             x == <<b, i>>
  <2>4. f \in [D -> Slot]
    BY <2>2
  <2>5. undo'[t] = Remember(f, x, old)
    BY <2>3
  <2> HIDE DEF D, f, x
  <2>6. DOMAIN undo'[t] = D \cup {x} /\ undo'[t] \in [D \cup {x} -> Slot]
    <3>1. old \in Slot
      BY <2>3
    <3>2. /\ DOMAIN Remember(f, x, old) = D \cup {x}
          /\ Remember(f, x, old) \in [D \cup {x} -> Slot]
      BY <3>1, <2>4, Adding
    <3> QED
      BY <2>5, <3>2
  <2> QED
    BY <2>6 DEF D, x
<1>11. \A u \in Tx : /\ DOMAIN undo'[u] \subseteq (DOMAIN file') \X Slots
                    /\ undo'[u] \in [DOMAIN undo'[u] -> Slot]
  <2> TAKE u \in Tx
  <2>1. /\ DOMAIN undo[u] \subseteq (DOMAIN file) \X Slots
        /\ undo[u] \in [DOMAIN undo[u] -> Slot]
    BY <1>1 DEF TypeOK
  <2>2. CASE u = t
    BY <1>8, <1>10, <2>1, <2>2
  <2>3. CASE u # t
    BY <1>8, <1>9, <2>1, <2>3
  <2> QED
    BY <2>2, <2>3
<1>12. \A u \in Tx : pc'[u] \notin {"closed", "open"} => at'[u].block \in DOMAIN file
  BY <1>1, <1>4 DEF TypeOK, Reading
<1>13. TypeOK'
  BY <1>1, <1>3, <1>4, <1>7, <1>8, <1>9, <1>11, <1>12 DEF TypeOK, Locking, Pc, Position, Pass
<1>14. \A u \in Tx : \A x \in DOMAIN undo'[u] : held'[u][x[1]] = "exclusive"
  <2> TAKE u \in Tx
  <2> TAKE x \in DOMAIN undo'[u]
  <2>1. CASE u = t /\ x = <<b, i>>
    BY <1>3, <2>1
  <2>2. CASE ~(u = t /\ x = <<b, i>>)
    <3>1. x \in DOMAIN undo[u]
      BY <1>9, <1>10, <2>2
    <3>2. x[1] \in Lock /\ held[u][x[1]] = "exclusive"
      BY <1>1, <3>1, Types DEF TypeOK, LocksHold, Lock
    <3> QED
      BY <1>3, <1>4, <3>2 DEF Locking
  <2> QED
    BY <2>1, <2>2
<1>15. \A u \in Tx : \A c \in Blocks : held'[u][c] # "none" => c \in DOMAIN file'
  <2> TAKE u \in Tx
  <2> TAKE c \in Blocks
  <2>1. held[u][c] # "none" => c \in DOMAIN file
    BY <1>1 DEF LocksHold
  <2>2. CASE u = t /\ c = b
    BY <1>8, <2>2
  <2>3. CASE ~(u = t /\ c = b)
    BY <1>3, <1>4, <1>8, <2>1, <2>3 DEF Lock
  <2> QED
    BY <2>2, <2>3
<1>16. \A u \in Tx : pc'[u] = "open" => file' = <<>> /\ held'[u][EofBlock] # "none"
  <2> TAKE u \in Tx
  <2>1. CASE u = t
    BY <2>1
  <2>2. CASE u # t
    <3>1. pc[u] # "open"
      BY <1>1, <1>2 DEF LocksHold
    <3> QED
      BY <1>4, <2>2, <3>1
  <2> QED
    BY <2>1, <2>2
<1>17. LocksHold'
  BY <1>3, <1>14, <1>15, <1>16 DEF LocksHold, Locking
<1>18. Apart(t)
  <2>1. \A c \in DOMAIN file : file'[c] = file[c] \/ \A u \in Tx \ {t} : held[u][c] = "none"
    BY <1>2, <1>7 DEF CanWrite
  <2> QED
    BY <1>2, <1>4, <1>7, <2>1 DEF Apart
<1> QED
  BY <1>2, <1>3, <1>6, <1>7, <1>8, <1>13, <1>17, <1>18 DEF Sound

LEMMA ZerosType == Zeros \in [Slots -> Slot] /\ \A i \in Slots : ~Zeros[i].full
BY TableScansAssumption DEF Zeros, Slot

\* A step that adds a block of zeros.
LEMMA Extending ==
  ASSUME IInv, NEW t \in Tx, file' = Append(file, Zeros), Len(file) < MaxBlocks,
         UNCHANGED <<undo, row>>, Alone(t), Locking(t), CanWrite(t, EofBlock),
         \A b \in Blocks : held'[t][b] # "none" => b \in DOMAIN file \/ b = Len(file) + 1,
         Reading(t)' => at'[t].block \in DOMAIN file \/ at'[t].block = Len(file) + 1,
         pc'[t] # "open"
  PROVE  /\ Sound(t)
         /\ Len(file') = Len(file) + 1 /\ file'[Len(file) + 1] = Zeros
         /\ \A b \in DOMAIN file : file'[b] = file[b]
<1>1. TypeOK /\ LocksHold
  BY DEF IInv
<1>2. /\ file \in Seq([Slots -> Slot]) /\ Len(file) \in Nat /\ DOMAIN file = 1..Len(file)
  BY <1>1, Types
<1>3. /\ pc' \in [Tx -> Pc] /\ at' \in [Tx -> Position] /\ pass' \in [Tx -> Pass]
      /\ \A u \in Tx \ {t} : /\ held'[u] = held[u] /\ pc'[u] = pc[u]
                             /\ at'[u] = at[u] /\ pass'[u] = pass[u]
  BY DEF Alone, Locking
<1>4. /\ file' \in Seq([Slots -> Slot]) /\ Len(file') = Len(file) + 1
      /\ file'[Len(file) + 1] = Zeros
      /\ \A b \in 1..Len(file) : file'[b] = file[b]
  BY <1>2, ZerosType, AppendProperties
<1>5. DOMAIN file' = 1..(Len(file) + 1)
  BY <1>4, LenProperties
<1>6. DOMAIN file \subseteq DOMAIN file' /\ Len(file) + 1 \in DOMAIN file'
  BY <1>2, <1>5
<1>7. \A u \in Tx : pc'[u] \notin {"closed", "open"} => at'[u].block \in DOMAIN file'
  BY <1>1, <1>3, <1>6 DEF TypeOK, Reading
<1>8. Len(file') <= MaxBlocks
  BY <1>2, <1>4, Sizes
<1>9. TypeOK'
  <2>1. \A u \in Tx : /\ DOMAIN undo[u] \subseteq (DOMAIN file') \X Slots
                      /\ undo[u] \in [DOMAIN undo[u] -> Slot]
    BY <1>1, <1>6 DEF TypeOK
  <2> QED
    BY <1>1, <1>3, <1>4, <1>7, <1>8, <2>1 DEF TypeOK, Locking, Pc, Position, Pass
<1>10. \A u \in Tx : \A x \in DOMAIN undo[u] : held'[u][x[1]] = "exclusive"
  <2> TAKE u \in Tx
  <2> TAKE x \in DOMAIN undo[u]
  <2>1. x[1] \in Lock /\ held[u][x[1]] = "exclusive"
    BY <1>1, Types DEF TypeOK, LocksHold, Lock
  <2> QED
    BY <1>3, <2>1 DEF Locking
<1>11. \A u \in Tx : \A b \in Blocks : held'[u][b] # "none" => b \in DOMAIN file'
  BY <1>1, <1>3, <1>6 DEF LocksHold
<1>12. \A u \in Tx : pc'[u] # "open"
  <2> TAKE u \in Tx
  <2>1. CASE u = t
    BY <2>1
  <2>2. CASE u # t
    BY <1>1, <1>3, <2>2 DEF LocksHold, CanWrite
  <2> QED
    BY <2>1, <2>2
<1>13. LocksHold'
  BY <1>10, <1>11, <1>12 DEF LocksHold, Locking
<1>14. Apart(t)
  <2>1. Len(file) <= Len(file') /\ \A u \in Tx \ {t} : held[u][EofBlock] = "none"
    BY <1>2, <1>4 DEF CanWrite
  <2>2. \A b \in DOMAIN file : file'[b] = file[b]
    BY <1>2, <1>4
  <2> QED
    BY <1>3, <2>1, <2>2 DEF Apart
<1> QED
  BY <1>2, <1>4, <1>9, <1>13, <1>14 DEF Sound

\* A step that ends a transaction.
LEMMA Ending ==
  ASSUME IInv, NEW t \in Tx, Finish(t),
         file' \in Seq([Slots -> Slot]), Len(file') = Len(file),
         \A b \in DOMAIN file : file'[b] = file[b] \/ held[t][b] = "exclusive"
  PROVE  Sound(t) /\ PassHolds(t)'
<1>1. TypeOK /\ LocksHold
  BY DEF IInv
<1>2. /\ Len(file) \in Nat /\ DOMAIN file = 1..Len(file)
      /\ held \in [Tx -> [Lock -> {"none", "shared", "exclusive"}]]
      /\ pass \in [Tx -> Pass]
  BY <1>1, Types
<1>3. DOMAIN file' = DOMAIN file
  BY <1>2, LenProperties
<1>4. /\ pc' \in [Tx -> Pc] /\ at' \in [Tx -> Position]
      /\ \A u \in Tx \ {t} : pc'[u] = pc[u] /\ at'[u] = at[u]
      /\ pc'[t] = "closed"
  BY <1>1, MoveAlone, Sizes DEF Finish, Pc
<1>5. pass' = [pass EXCEPT ![t] = NoPass]
  BY DEF Finish, EndPass
<1>6. pass' \in [Tx -> Pass] /\ pass'[t] = NoPass /\ \A u \in Tx \ {t} : pass'[u] = pass[u]
  BY <1>2, <1>5, PassTypes
<1>7. held' = [held EXCEPT ![t] = [b \in Lock |-> "none"]]
  <2>1. DOMAIN held[t] = Lock
    BY <1>2
  <2> QED
    BY <2>1 DEF Finish
<1>8. /\ held' \in [Tx -> [Lock -> {"none", "shared", "exclusive"}]]
      /\ \A b \in Lock : held'[t][b] = "none"
      /\ \A u \in Tx \ {t} : held'[u] = held[u]
  BY <1>2, <1>7
<1>9. DOMAIN undo = Tx
  BY <1>1 DEF TypeOK
<1>10. /\ DOMAIN undo' = Tx /\ undo'[t] = [x \in {} |-> Zeros[1]]
       /\ \A u \in Tx \ {t} : undo'[u] = undo[u]
  BY <1>9 DEF Finish
<1>11. DOMAIN undo'[t] = {} /\ undo'[t] \in [DOMAIN undo'[t] -> Slot]
  <2> DEFINE z == Zeros[1]
  <2> HIDE DEF z
  <2>1. undo'[t] = [x \in {} |-> z]
    BY <1>10 DEF z
  <2> QED
    BY <2>1
<1>12. TypeOK'
  <2>1. \A u \in Tx : /\ DOMAIN undo'[u] \subseteq (DOMAIN file') \X Slots
                      /\ undo'[u] \in [DOMAIN undo'[u] -> Slot]
    BY <1>1, <1>3, <1>10, <1>11 DEF TypeOK
  <2>2. \A u \in Tx : pc'[u] \notin {"closed", "open"} => at'[u].block \in DOMAIN file'
    BY <1>1, <1>3, <1>4 DEF TypeOK
  <2>3. row' \in 0..MaxRows /\ Len(file') <= MaxBlocks
    BY <1>1 DEF Finish, TypeOK
  <2>4. held' \in Locks!Held
    BY <1>8 DEF Locks!Held, Locks!Mode, Lock
  <2> QED
    BY <1>4, <1>6, <1>10, <2>1, <2>2, <2>3, <2>4 DEF TypeOK, Pc, Position, Pass
<1>13. Locks!Exclusion'
  <2>1. ASSUME NEW u \in Tx, NEW v \in Tx, NEW c \in Lock, held'[u][c] = "exclusive", u # v
        PROVE  held'[v][c] = "none"
    <3>1. u # t
      BY <1>8, <2>1
    <3>2. held[u][c] = "exclusive"
      BY <1>8, <2>1, <3>1
    <3>3. held[v][c] = "none"
      BY <1>1, <2>1, <3>2 DEF LocksHold, Locks!Exclusion, Lock
    <3> QED
      BY <1>8, <3>3
  <2> QED
    BY <2>1 DEF Locks!Exclusion, Lock
<1>14. LocksHold'
  <2>1. \A u \in Tx : \A b \in Blocks : held'[u][b] # "none" => b \in DOMAIN file'
    BY <1>1, <1>3, <1>8 DEF LocksHold, Lock
  <2>2. \A u \in Tx : \A x \in DOMAIN undo'[u] : held'[u][x[1]] = "exclusive"
    BY <1>1, <1>8, <1>10, <1>11 DEF LocksHold
  <2>3. \A u \in Tx : pc'[u] = "open" => file' = <<>> /\ held'[u][EofBlock] # "none"
    <3> TAKE u \in Tx
    <3>1. CASE u = t
      BY <1>4, <3>1
    <3>2. CASE u # t
      <4>1. pc[u] = "open" => Len(file') = 0 /\ held[u][EofBlock] # "none"
        BY <1>1 DEF LocksHold
      <4>2. Len(file') = 0 => file' = <<>>
        BY EmptySeq
      <4> QED
        BY <1>4, <1>8, <3>2, <4>1, <4>2
    <3> QED
      BY <3>1, <3>2
  <2> QED
    BY <1>13, <2>1, <2>2, <2>3 DEF LocksHold
<1>15. Apart(t)
  <2>1. \A b \in DOMAIN file : file'[b] = file[b] \/ \A u \in Tx \ {t} : held[u][b] = "none"
    <3> TAKE b \in DOMAIN file
    <3>1. b \in Lock
      BY <1>1, Types DEF Lock
    <3>2. held[t][b] = "exclusive" => \A u \in Tx \ {t} : held[u][b] = "none"
      BY <1>1, <3>1 DEF LocksHold, Locks!Exclusion, Lock
    <3> QED
      BY <3>2
  <2> QED
    BY <1>2, <1>4, <1>6, <1>8, <2>1 DEF Apart
<1>16. PassHolds(t)'
  BY <1>6, PassTypes DEF PassHolds, Covered, Exact
<1> QED
  BY <1>12, <1>14, <1>15, <1>16 DEF Sound

-----------------------------------------------------------------------------
(* The passes of the other transactions.                                   *)

LEMMA Order ==
  ASSUME NEW kind, NEW x \in Nat \X Int, NEW y \in Nat \X Int
  PROVE  /\ ~Earlier(kind, x, x)
         /\ Earlier(kind, x, y) => ~Earlier(kind, y, x)
         /\ x = y \/ Earlier(kind, x, y) \/ Earlier(kind, y, x)
         /\ \A z \in Nat \X Int :
              Earlier(kind, x, y) /\ Earlier(kind, y, z) => Earlier(kind, x, z)
<1>1. x[1] \in Int /\ x[2] \in Int /\ y[1] \in Int /\ y[2] \in Int
  OBVIOUS
<1>2. \A z \in Nat \X Int : z[1] \in Int /\ z[2] \in Int
  OBVIOUS
<1> QED
  BY <1>1, <1>2 DEF Earlier, Precedes

\* What a pass has gone through is locked.
LEMMA WayLocked ==
  ASSUME TypeOK, NEW t \in Tx, Covered(t), pass[t].kind # "none", NEW x \in Way(t)
  PROVE  held[t][x[1]] # "none" /\ x[1] \in DOMAIN file /\ x[2] \in Slots
<1>1. /\ x[1] \in DOMAIN file /\ x[2] \in Slots
      /\ pass[t].complete \/ Behind(t, x)
  BY DEF Way
<1>2. /\ Len(file) \in Nat /\ DOMAIN file = 1..Len(file) /\ DOMAIN file \subseteq Blocks
      /\ at[t].block \in Nat /\ at[t].slot \in Int
      /\ pass[t].kind \in {"forward", "backward"}
  BY Types DEF Pass
<1>3. x[1] \in Int /\ x[2] \in Int /\ 1 <= x[1] /\ x[1] <= Len(file) /\ 1 <= x[2] /\ x[2] <= NumSlots
  BY <1>1, <1>2, Sizes DEF Slots
<1>4. x[1] \in Blocks /\ NumSlots \in Int /\ Start = 0 /\ End = NumSlots + 1
  BY <1>1, <1>2, Sizes
<1>5. CASE pass[t].kind = "forward"
  <2>1. \/ pass[t].complete \/ x[1] < at[t].block
        \/ x[1] = at[t].block /\ x[2] <= at[t].slot
    BY <1>1, <1>2, <1>3, <1>5 DEF Behind, Earlier, Precedes, Here
  <2>2. x[1] < at[t].block => held[t][x[1]] # "none"
    BY <1>4, <1>5 DEF Covered
  <2>3. at[t].slot # Start => held[t][at[t].block] # "none"
    BY <1>5 DEF Covered
  <2>4. pass[t].complete => at[t].block = Len(file) /\ at[t].slot = End
    BY <1>5 DEF Covered
  <2> QED
    BY <1>1, <1>2, <1>3, <1>4, <2>1, <2>2, <2>3, <2>4
<1>6. CASE pass[t].kind = "backward"
  <2>1. \/ pass[t].complete \/ x[1] > at[t].block
        \/ x[1] = at[t].block /\ x[2] >= at[t].slot
    BY <1>1, <1>2, <1>3, <1>6 DEF Behind, Earlier, Precedes, Here
  <2>2. x[1] > at[t].block => held[t][x[1]] # "none"
    BY <1>1, <1>6 DEF Covered
  <2>3. at[t].slot # End => held[t][at[t].block] # "none"
    BY <1>6 DEF Covered
  <2>4. pass[t].complete => at[t].block = 1 /\ at[t].slot = Start
    BY <1>6 DEF Covered
  <2> QED
    BY <1>1, <1>2, <1>3, <1>4, <2>1, <2>2, <2>3, <2>4, Sizes
<1> QED
  BY <1>1, <1>2, <1>5, <1>6

\* A step of t does not concern the pass of another transaction.
LEMMA OthersPass ==
  ASSUME IInv, NEW t \in Tx, Sound(t), NEW u \in Tx, u # t
  PROVE  PassHolds(u)'
<1>1. TypeOK /\ TypeOK' /\ PassHolds(u) /\ Covered(u)
  BY DEF IInv, Sound, PassHolds
<1>2. held'[u] = held[u] /\ pc'[u] = pc[u] /\ at'[u] = at[u] /\ pass'[u] = pass[u]
  BY DEF Sound, Apart
<1>3. /\ Len(file) \in Nat /\ DOMAIN file = 1..Len(file) /\ DOMAIN file \subseteq Blocks
      /\ at[u].block \in Nat /\ at[u].slot \in Int
      /\ pass[u] \in Pass /\ (Reading(u) => at[u].block \in DOMAIN file)
  BY <1>1, Types
<1>4. Len(file') \in Nat /\ DOMAIN file' = 1..Len(file')
  <2>1. file' \in Seq([Slots -> Slot])
    BY <1>1 DEF TypeOK
  <2> QED
    BY <2>1, LenProperties
<1>5. held[u][EofBlock] # "none" => Len(file') = Len(file)
  BY DEF Sound, Apart
<1>6. Len(file) <= Len(file')
  BY DEF Sound, Apart
<1>7. Here(u)' = Here(u) /\ (Reading(u)' <=> Reading(u))
  BY <1>2 DEF Here, Reading
<1>8. CASE pass[u].kind = "none"
  BY <1>1, <1>2, <1>8 DEF PassHolds, Covered, Exact
<1>9. CASE pass[u].kind # "none"
  <2>1. pass[u].kind \in {"forward", "backward"}
    BY <1>3, <1>9 DEF Pass
  <2>2. Covered(u)'
    <3>1. CASE pass[u].kind = "forward"
      <4>1. pass[u].complete => Len(file') = Len(file)
        BY <1>1, <1>5, <3>1 DEF Covered
      <4> QED
        BY <1>1, <1>2, <3>1, <4>1 DEF Covered
    <3>2. CASE pass[u].kind = "backward"
      <4>1. DOMAIN file' = DOMAIN file
        BY <1>1, <1>3, <1>4, <1>5, <3>2 DEF Covered
      <4> QED
        BY <1>1, <1>2, <3>2, <4>1 DEF Covered
    <3> QED
      BY <2>1, <3>1, <3>2
  <2>3. Way(u)' = Way(u)
    <3>1. \A x : Behind(u, x)' <=> Behind(u, x)
      BY <1>2, <1>7 DEF Behind
    <3>2. ASSUME NEW x \in (DOMAIN file') \X Slots, pass[u].complete \/ Behind(u, x)
          PROVE  x[1] \in DOMAIN file
      <4>1. x[1] \in 1..Len(file') /\ x[1] \in Nat
        BY <1>4
      <4>2. at[u].block \in DOMAIN file
        BY <1>1, <1>3, <1>9 DEF PassHolds
      <4>3. CASE pass[u].kind = "forward"
        <5>1. CASE pass[u].complete
          BY <1>1, <1>3, <1>5, <4>1, <4>3, <5>1 DEF Covered
        <5>2. CASE Behind(u, x)
          <6>1. x[1] <= at[u].block
            BY <1>3, <4>1, <4>3, <5>2 DEF Behind, Earlier, Precedes, Here
          <6> QED
            BY <1>3, <4>1, <4>2, <6>1
        <5> QED
          BY <3>2, <5>1, <5>2
      <4>4. CASE pass[u].kind = "backward"
        BY <1>1, <1>3, <1>5, <4>1, <4>4 DEF Covered
      <4> QED
        BY <2>1, <4>3, <4>4
    <3>3. DOMAIN file \subseteq DOMAIN file'
      BY <1>3, <1>4, <1>6
    <3>4. Way(u)' = {x \in (DOMAIN file') \X Slots : pass[u].complete \/ Behind(u, x)}
      BY <1>2, <3>1 DEF Way
    <3> QED
      BY <3>2, <3>3, <3>4 DEF Way
  <2>4. \A x \in Way(u) : IsFull(x)' <=> IsFull(x)
    <3> TAKE x \in Way(u)
    <3>1. held[u][x[1]] # "none" /\ x[1] \in DOMAIN file
      BY <1>1, <1>9, WayLocked
    <3>2. file'[x[1]] = file[x[1]]
      BY <3>1 DEF Sound, Apart
    <3> QED
      BY <3>2 DEF IsFull
  <2>5. {x \in Way(u) : IsFull(x)}' = {x \in Way(u) : IsFull(x)}
    BY <2>3, <2>4
  <2> QED
    BY <1>1, <1>2, <1>7, <1>9, <2>2, <2>5 DEF PassHolds, Exact
<1> QED
  BY <1>8, <1>9

-----------------------------------------------------------------------------
(* The pass of the transaction itself.                                     *)

LEMMA PassEnds ==
  ASSUME NEW t \in Tx, pass'[t] = NoPass
  PROVE  PassHolds(t)'
BY PassTypes DEF PassHolds, Covered, Exact

\* A pass starts, and there is nothing behind it.
LEMMA PassStarts ==
  ASSUME TypeOK', NEW t \in Tx, NEW kind \in {"forward", "backward"},
         pass'[t] = From(kind), pc'[t] = "idle",
         kind = "forward" => at'[t].block = 1 /\ at'[t].slot = Start,
         kind = "backward" =>
           at'[t].block = Len(file') /\ at'[t].slot = End /\ held'[t][EofBlock] # "none"
  PROVE  PassHolds(t)'
<1>1. /\ pass'[t].kind = kind /\ ~pass'[t].complete /\ pass'[t].seen = <<>>
  BY PassTypes
<1>2. Len(file') \in Nat /\ DOMAIN file' = 1..Len(file')
  <2>1. file' \in Seq([Slots -> Slot])
    BY DEF TypeOK
  <2> QED
    BY <2>1, LenProperties
<1>3. Covered(t)'
  BY <1>1, <1>2, Sizes DEF Covered
<1>4. ASSUME NEW x \in (DOMAIN file') \X Slots, Behind(t, x)'
      PROVE  FALSE
  <2>1. /\ x[1] \in Int /\ 1 <= x[1] /\ x[1] <= Len(file')
        /\ x[2] \in Int /\ 1 <= x[2] /\ x[2] <= NumSlots
    BY <1>2, Sizes DEF Slots
  <2> QED
    BY <1>1, <1>2, <1>4, <2>1, Sizes DEF Behind, Earlier, Precedes, Here
<1>5. Way(t)' = {}
  BY <1>1, <1>4 DEF Way
<1>6. Elements(pass'[t].seen) = {}
  BY <1>1 DEF Elements
<1>7. InOrder(kind, <<>>)
  BY DEF InOrder
<1> QED
  BY <1>1, <1>3, <1>5, <1>6, <1>7 DEF PassHolds, Exact, Reading

\* A pass has gone through the same rows as before.
LEMMA PassStays ==
  ASSUME IInv, NEW t \in Tx, pass'[t].kind = pass[t].kind, pass'[t].seen = pass[t].seen,
         pass[t].kind # "none" =>
           Reading(t)' /\ {x \in Way(t) : IsFull(x)}' = {x \in Way(t) : IsFull(x)},
         Covered(t)'
  PROVE  PassHolds(t)'
<1>1. PassHolds(t)
  BY DEF IInv
<1>2. CASE pass[t].kind = "none"
  BY <1>1, <1>2 DEF PassHolds, Exact
<1>3. CASE pass[t].kind # "none"
  <2>1. Exact(t)'
    BY <1>1, <1>3 DEF PassHolds, Exact
  <2> QED
    BY <1>3, <2>1 DEF PassHolds
<1> QED
  BY <1>2, <1>3

\* A transaction that only ends or goes on with a call.
LEMMA ScanStays ==
  ASSUME IInv, NEW t \in Tx, file' = file, pass'[t] = pass[t], at'[t] = at[t], Locking(t),
         Reading(t)' \/ pass[t].kind = "none"
  PROVE  PassHolds(t)'
<1>1. TypeOK /\ Covered(t)
  BY DEF IInv, PassHolds
<1>2. \A b \in Lock : held[t][b] # "none" => held'[t][b] # "none"
  BY DEF Locking
<1>3. DOMAIN file \subseteq Lock /\ Blocks \subseteq Lock /\ EofBlock \in Lock /\ at[t].block \in Lock
  BY <1>1, Types DEF Lock
<1>4. Covered(t)'
  BY <1>1, <1>2, <1>3 DEF Covered
<1>5. \A x : (Behind(t, x)' <=> Behind(t, x)) /\ (IsFull(x)' <=> IsFull(x))
  BY DEF Behind, Here, IsFull
<1>6. {x \in Way(t) : IsFull(x)}' = {x \in Way(t) : IsFull(x)}
  BY <1>5 DEF Way
<1> QED
  BY <1>4, <1>6, PassStays

AllEarlier(kind, seen, x) == \A k \in DOMAIN seen : Earlier(kind, seen[k], x)

LEMMA AppendInOrder ==
  ASSUME NEW S, NEW s \in Seq(S), NEW y \in S, NEW kind, InOrder(kind, s),
         AllEarlier(kind, s, y), NEW r, r = Append(s, y)
  PROVE  /\ InOrder(kind, r)
         /\ Elements(r) = Elements(s) \cup {y}
<1>1. /\ r \in Seq(S) /\ Len(r) = Len(s) + 1 /\ r[Len(s) + 1] = y
      /\ \A k \in 1..Len(s) : r[k] = s[k]
  BY AppendProperties
<1>2. Len(s) \in Nat /\ DOMAIN s = 1..Len(s)
  BY LenProperties
<1>3. DOMAIN r = 1..(Len(s) + 1)
  BY <1>1, LenProperties
<1>4. InOrder(kind, r)
  <2>1. ASSUME NEW j \in DOMAIN r, NEW k \in DOMAIN r, j < k
        PROVE  Earlier(kind, r[j], r[k])
    <3>1. j \in DOMAIN s /\ r[j] = s[j]
      BY <1>1, <1>2, <1>3, <2>1
    <3>2. CASE k = Len(s) + 1
      BY <1>1, <3>1, <3>2 DEF AllEarlier
    <3>3. CASE k # Len(s) + 1
      <4>1. k \in DOMAIN s /\ r[k] = s[k]
        BY <1>1, <1>2, <1>3, <3>3
      <4> QED
        BY <2>1, <3>1, <4>1 DEF InOrder
    <3> QED
      BY <3>2, <3>3
  <2> QED
    BY <2>1 DEF InOrder
<1>5. Elements(r) = Elements(s) \cup {y}
  <2>1. \A k \in DOMAIN r : r[k] \in {s[j] : j \in DOMAIN s} \cup {y}
    BY <1>1, <1>2, <1>3
  <2>2. \A k \in DOMAIN s : k \in DOMAIN r /\ r[k] = s[k]
    BY <1>1, <1>2, <1>3
  <2>3. Len(s) + 1 \in DOMAIN r
    BY <1>2, <1>3
  <2> QED
    BY <1>1, <2>1, <2>2, <2>3 DEF Elements
<1> QED
  BY <1>4, <1>5

\* A pass comes to the next row.
LEMMA PassComes ==
  ASSUME IInv, NEW t \in Tx, file' = file, NEW kind \in {"forward", "backward"},
         pass[t].kind = kind, ~pass[t].complete,
         NEW b \in DOMAIN file, NEW i \in Slots, IsFull(<<b, i>>),
         pass'[t] = [kind |-> kind, complete |-> FALSE, seen |-> Append(pass[t].seen, <<b, i>>)],
         at'[t].block = b, at'[t].slot = i, pc'[t] = "idle", Covered(t)',
         Earlier(kind, Here(t), <<b, i>>),
         \A x \in (DOMAIN file) \X Slots :
           Earlier(kind, Here(t), x) /\ Earlier(kind, x, <<b, i>>) => ~IsFull(x)
  PROVE  PassHolds(t)'
<1>1. TypeOK /\ Exact(t)
  BY DEF IInv, PassHolds
<1>2. DOMAIN file \subseteq Nat /\ DOMAIN file \subseteq Blocks /\ Slots \subseteq Int
  BY <1>1, Types, Sizes
<1>3. Here(t) \in Nat \X Int
  BY <1>1, Types DEF Here
<1>4. pass[t].seen \in Seq(Blocks \X Slots)
  BY <1>1, Types DEF Pass
<1> DEFINE y == <<b, i>>
           s == pass[t].seen
<1>5. y \in (DOMAIN file) \X Slots /\ y \in Nat \X Int /\ y \in Blocks \X Slots
  BY <1>2
<1>6. Elements(s) = {x \in Way(t) : IsFull(x)} /\ InOrder(kind, s)
  BY <1>1 DEF Exact
<1>7. /\ IsFull(y) /\ Earlier(kind, Here(t), y) /\ Here(t)' = y
      /\ pass'[t].kind = kind /\ ~pass'[t].complete /\ pass'[t].seen = Append(s, y)
  BY DEF Here
<1>8. \A x \in (DOMAIN file) \X Slots :
        Earlier(kind, Here(t), x) /\ Earlier(kind, x, y) => ~IsFull(x)
  OBVIOUS
<1> HIDE DEF y, s
<1>9. \A x \in (DOMAIN file) \X Slots : x \in Way(t) => Earlier(kind, x, y)
  <2> TAKE x \in (DOMAIN file) \X Slots
  <2>1. x \in Nat \X Int
    BY <1>2
  <2>2. x \in Way(t) => x = Here(t) \/ Earlier(kind, x, Here(t))
    BY DEF Way, Behind
  <2> QED
    BY <1>3, <1>5, <1>7, <2>1, <2>2, Order
<1>10. \A x : x \in Way(t)' <=> x \in (DOMAIN file) \X Slots /\ (x = y \/ Earlier(kind, x, y))
  BY <1>7 DEF Way, Behind
<1>11. \A x \in (DOMAIN file) \X Slots :
         IsFull(x) /\ Earlier(kind, x, y) => x \in Way(t)
  <2> TAKE x \in (DOMAIN file) \X Slots
  <2>1. x \in Nat \X Int
    BY <1>2
  <2>2. x = Here(t) \/ Earlier(kind, x, Here(t)) \/ Earlier(kind, Here(t), x)
    BY <1>3, <2>1, Order
  <2>3. x = Here(t) \/ Earlier(kind, x, Here(t)) => x \in Way(t)
    BY DEF Way, Behind
  <2> QED
    BY <1>8, <2>2, <2>3
<1>12. \A x : IsFull(x)' <=> IsFull(x)
  BY DEF IsFull
<1>13. \A x : x \in Way(t) => x \in (DOMAIN file) \X Slots
  BY DEF Way
<1>14. {x \in Way(t) : IsFull(x)}' = {x \in Way(t) : IsFull(x)} \cup {y}
  BY <1>5, <1>7, <1>9, <1>10, <1>11, <1>12, <1>13
<1>15. \A k \in DOMAIN s : Earlier(kind, s[k], y)
  BY <1>6, <1>9, <1>13 DEF Elements
<1>16. s \in Seq(Blocks \X Slots)
  BY <1>4 DEF s
<1> DEFINE r == Append(s, y)
<1>17. InOrder(kind, r) /\ Elements(r) = Elements(s) \cup {y}
  <2> DEFINE S == Blocks \X Slots
  <2>1. y \in S /\ s \in Seq(S)
    BY <1>5, <1>16
  <2>2. InOrder(kind, s) /\ AllEarlier(kind, s, y)
    BY <1>6, <1>15 DEF AllEarlier
  <2>3. r = Append(s, y)
    OBVIOUS
  <2> HIDE DEF S, r
  <2> QED
    BY ONLY <2>1, <2>2, <2>3, AppendInOrder
<1> HIDE DEF r
<1>18. pass'[t].seen = r
  BY <1>7 DEF r
<1>19. Exact(t)'
  <2>1. Elements(r) = {x \in Way(t) : IsFull(x)}'
    BY <1>6, <1>14, <1>17
  <2> QED
    BY <1>7, <1>17, <1>18, <2>1 DEF Exact
<1> QED
  BY <1>7, <1>19 DEF PassHolds, Reading

\* The row that is deleted is the last one of a pass.
LEMMA PassForgets ==
  ASSUME IInv, NEW t \in Tx, Forget(t), Reading(t)', Covered(t)', Here(t)' = Here(t),
         DOMAIN file' = DOMAIN file, IsFull(Here(t)), ~IsFull(Here(t))',
         Here(t) \in (DOMAIN file) \X Slots, pass[t].kind # "none" => ~pass[t].complete,
         \A x \in (DOMAIN file) \X Slots : x # Here(t) => (IsFull(x)' <=> IsFull(x))
  PROVE  PassHolds(t)'
<1>1. TypeOK /\ PassHolds(t)
  BY DEF IInv
<1>2. DOMAIN file \subseteq Nat /\ DOMAIN file \subseteq Blocks /\ Slots \subseteq Int
  BY <1>1, Types, Sizes
<1>3. pass[t] \in Pass /\ pass \in [Tx -> Pass]
  BY <1>1, Types
<1> DEFINE s == pass[t].seen
           kind == pass[t].kind
           rest == IF s = <<>> THEN s ELSE SubSeq(s, 1, Len(s) - 1)
           y == Here(t)
<1>4. pass' = [pass EXCEPT ![t].seen = rest]
  BY <1>3 DEF Forget
<1>5. s \in Seq(Blocks \X Slots)
  BY <1>3 DEF Pass
<1>6. y \in (DOMAIN file) \X Slots /\ y \in Nat \X Int
  BY <1>2
<1>7. CASE kind = "none"
  <2>1. s = <<>>
    BY <1>1, <1>7 DEF PassHolds
  <2> HIDE DEF s
  <2>2. rest = <<>>
    BY <2>1
  <2> HIDE DEF rest
  <2>3. pass'[t].kind = "none" /\ pass'[t].seen = <<>>
    BY <1>3, <1>4, <1>7, <2>2 DEF Pass
  <2> QED
    BY <2>3 DEF PassHolds, Exact
<1>8. CASE kind # "none"
  <2>1. Elements(s) = {x \in Way(t) : IsFull(x)} /\ InOrder(kind, s)
    BY <1>1, <1>8 DEF PassHolds, Exact
  <2>2. y \in Way(t) /\ IsFull(y)
    BY <1>6 DEF Way, Behind
  <2>3. Len(s) \in Nat /\ DOMAIN s = 1..Len(s)
    BY <1>5, LenProperties
  <2>4. \A x \in Way(t) : x \in Nat \X Int /\ (x = y \/ Earlier(kind, x, y))
    BY <1>2, <1>8 DEF Way, Behind
  <2> HIDE DEF s, y
  <2>5. PICK k \in DOMAIN s : s[k] = y
    BY <2>1, <2>2 DEF Elements
  <2>6. k = Len(s)
    <3>1. SUFFICES ASSUME k # Len(s) PROVE FALSE
      OBVIOUS
    <3>2. Len(s) \in DOMAIN s /\ k < Len(s)
      BY <2>3, <2>5, <3>1
    <3>3. Earlier(kind, y, s[Len(s)])
      BY <2>1, <2>5, <3>2 DEF InOrder
    <3>4. s[Len(s)] \in Way(t)
      BY <2>1, <3>2 DEF Elements
    <3> QED
      <4> DEFINE z == s[Len(s)]
      <4>1. z \in Nat \X Int /\ (z = y \/ Earlier(kind, z, y)) /\ Earlier(kind, y, z)
        BY <2>4, <3>3, <3>4
      <4> HIDE DEF z
      <4> QED
        BY <1>6, <4>1, Order
  <2>7. Len(s) # 0 /\ s # <<>>
    BY <2>3, <2>5, <2>6
  <2>8. rest = SubSeq(s, 1, Len(s) - 1)
    BY <2>7
  <2>9. /\ DOMAIN rest = 1..(Len(s) - 1)
        /\ \A j \in 1..(Len(s) - 1) : rest[j] = s[j]
    <3>1. \A j \in 1..(Len(s) - 1) : s[j] \in Blocks \X Slots
      <4>1. \A j \in 1..Len(s) : s[j] \in Blocks \X Slots
        BY <1>5, ElementOfSeq DEF s
      <4> QED
        BY <2>3, <4>1
    <3> HIDE DEF rest
    <3>2. /\ rest \in Seq(Blocks \X Slots) /\ Len(rest) = Len(s) - 1
          /\ \A j \in 1..(Len(s) - 1) : rest[j] = s[j]
      <4>1. Len(s) - 1 - 1 + 1 = Len(s) - 1
        BY <2>3
      <4>2. 1 \in Int /\ Len(s) - 1 \in Int /\ 1 <= Len(s)
        BY <2>3, <2>7
      <4> QED
        BY <2>3, <2>8, <3>1, <4>1, <4>2, SubSeqProperties
    <3> QED
      BY <3>2, LenProperties
  <2> HIDE DEF rest
  <2>10. InOrder(kind, rest)
    BY <2>1, <2>3, <2>9 DEF InOrder
  <2>11. Elements(rest) = {x \in Way(t) : IsFull(x)} \ {y}
    <3>1. \A j \in DOMAIN rest : j \in DOMAIN s /\ rest[j] = s[j] /\ s[j] # y
      <4> TAKE j \in DOMAIN rest
      <4>1. j \in DOMAIN s /\ rest[j] = s[j] /\ j < k
        BY <2>3, <2>6, <2>9
      <4>2. Earlier(kind, s[j], y)
        BY <2>1, <2>5, <4>1 DEF InOrder
      <4> QED
        BY <1>6, <4>1, <4>2, Order
    <3>2. \A j \in DOMAIN s : s[j] # y => j \in DOMAIN rest /\ rest[j] = s[j]
      BY <2>3, <2>5, <2>6, <2>9
    <3> QED
      BY <2>1, <3>1, <3>2 DEF Elements
  <2>12. /\ pass'[t].kind = kind /\ pass'[t].seen = rest
         /\ pass'[t].complete = pass[t].complete
    BY <1>3, <1>4 DEF Pass
  <2>13. \A x : Behind(t, x)' <=> Behind(t, x)
    BY <2>12 DEF Behind
  <2>14. Way(t)' = Way(t)
    BY <2>12, <2>13 DEF Way
  <2>15. {x \in Way(t) : IsFull(x)}' = {x \in Way(t) : IsFull(x)} \ {y}
    <3>1. \A x \in Way(t) : IsFull(x)' <=> IsFull(x) /\ x # y
      BY <2>2 DEF Way, y
    <3> QED
      BY <2>14, <3>1
  <2>16. Exact(t)'
    BY <2>10, <2>11, <2>12, <2>15 DEF Exact
  <2> QED
    BY <1>8, <2>12, <2>16 DEF PassHolds
<1> QED
  BY <1>7, <1>8

-----------------------------------------------------------------------------
(* The actions that only look.                                             *)

\* A turn that moves the scan to a slot of the file, with the lock it needs.
LEMMA Turning ==
  ASSUME IInv, NEW t \in Tx, UNCHANGED <<file, undo, row>>,
         NEW l \in Pc \ {"open"}, NEW b \in DOMAIN file, NEW i \in Start..End,
         Move(t, l, b, i), NextPass(t),
         \/ held' = held
         \/ \E c \in DOMAIN file \cup {EofBlock} : CanRead(t, c) /\ ReadLock(t, c)
  PROVE  /\ Sound(t) /\ Locking(t)
         /\ pc'[t] = l /\ at'[t].block = b /\ at'[t].slot = i
<1>1. TypeOK /\ LocksHold /\ Locks!Exclusion
  BY DEF IInv, LocksHold
<1>2. DOMAIN file \subseteq Blocks
  BY <1>1, Types
<1>3. /\ pc' \in [Tx -> Pc] /\ at' \in [Tx -> Position]
      /\ \A u \in Tx \ {t} : pc'[u] = pc[u] /\ at'[u] = at[u]
      /\ pc'[t] = l /\ at'[t].block = b /\ at'[t].slot = i
  BY <1>1, <1>2, MoveAlone
<1>4. Alone(t)
  BY <1>1, <1>3, PassAlone DEF Alone
<1>5. Locking(t) /\ \A c \in Blocks : held'[t][c] # "none" => c \in DOMAIN file
  <2>1. \A c \in Blocks : held[t][c] # "none" => c \in DOMAIN file
    BY <1>1 DEF LocksHold
  <2>2. CASE held' = held
    BY <1>1, <2>1, <2>2, SameLocks
  <2>3. ASSUME NEW c \in DOMAIN file \cup {EofBlock}, CanRead(t, c), ReadLock(t, c)
        PROVE  Locking(t) /\ \A d \in Blocks : held'[t][d] # "none" => d \in DOMAIN file
    <3>1. c \in Lock /\ (c \in Blocks => c \in DOMAIN file)
      BY <1>2, Sizes DEF Lock
    <3>2. Locking(t) /\ \A d \in Lock \ {c} : held'[t][d] = held[t][d]
      BY <1>1, <2>3, <3>1, ReadLocking
    <3> QED
      BY <2>1, <3>1, <3>2 DEF Lock
  <2> QED
    BY <2>2, <2>3
<1>6. Sound(t)
  BY <1>3, <1>4, <1>5, Looking
<1> QED
  BY <1>3, <1>5, <1>6

\* A call that is not in the middle of another one.
LEMMA Running ==
  ASSUME IInv, NEW t \in Tx, NEW call \in {"idle", "next", "previous", "insert"},
         MayRun(t, call)
  PROVE  /\ Reading(t) /\ at[t].block \in DOMAIN file
         /\ Len(file) \in DOMAIN file /\ 1 \in DOMAIN file
         /\ Len(file) \in Nat /\ DOMAIN file = 1..Len(file)
         /\ at[t].block \in Nat /\ at[t].slot \in Start..End /\ at[t].slot \in Int
<1>1. TypeOK
  BY DEF IInv
<1>2. Reading(t)
  BY DEF MayRun, Reading
<1>3. /\ at[t].block \in DOMAIN file
      /\ Len(file) \in Nat /\ DOMAIN file = 1..Len(file)
      /\ at[t].block \in Nat /\ at[t].slot \in Start..End /\ at[t].slot \in Int
  BY <1>1, <1>2, Types
<1> QED
  BY <1>2, <1>3

LEMMA BeforeFirstHolds ==
  ASSUME IInv, NEW t \in Tx, BeforeFirst(t)
  PROVE  Sound(t) /\ PassHolds(t)'
<1>1. 1 \in DOMAIN file
  BY Running DEF BeforeFirst
<1>2. NextPass(t)
  BY DEF BeforeFirst, NextPass
<1>3. Sound(t) /\ pc'[t] = "idle" /\ at'[t].block = 1 /\ at'[t].slot = Start
  BY <1>1, <1>2, Turning, Sizes DEF BeforeFirst, Pc
<1>4. pass'[t] = From("forward")
  BY Types DEF BeforeFirst, IInv
<1> QED
  BY <1>3, <1>4, PassStarts DEF Sound

LEMMA AfterLastHolds ==
  ASSUME IInv, NEW t \in Tx, AfterLast(t)
  PROVE  Sound(t) /\ PassHolds(t)'
<1>1. Len(file) \in DOMAIN file
  BY Running DEF AfterLast
<1>2. NextPass(t)
  BY DEF AfterLast, NextPass
<1>3. /\ Sound(t) /\ pc'[t] = "idle"
      /\ at'[t].block = Len(file) /\ at'[t].slot = End
  <2>1. UNCHANGED <<file, undo, row>> /\ Move(t, "idle", Len(file), End)
    BY DEF AfterLast
  <2>2. EofBlock \in DOMAIN file \cup {EofBlock} /\ CanRead(t, EofBlock) /\ ReadLock(t, EofBlock)
    BY DEF AfterLast
  <2>3. "idle" \in Pc \ {"open"}
    BY DEF Pc
  <2> QED
    BY <1>1, <1>2, <2>1, <2>2, <2>3, Turning, Sizes
<1>4. pass'[t] = From("backward") /\ file' = file
  BY Types DEF AfterLast, IInv
<1>5. held'[t][EofBlock] # "none"
  BY ReadLocking DEF AfterLast, IInv, LocksHold, Lock
<1> QED
  BY <1>3, <1>4, <1>5, PassStarts DEF Sound

LEMMA MoveToHolds ==
  ASSUME IInv, NEW t \in Tx, NEW b \in DOMAIN file, NEW i \in Slots, MoveTo(t, b, i)
  PROVE  Sound(t) /\ PassHolds(t)'
<1>1. NextPass(t)
  BY DEF MoveTo, NextPass
<1>2. Sound(t)
  <2>1. UNCHANGED <<file, undo, row>> /\ held' = held /\ Move(t, "idle", b, i)
    BY DEF MoveTo
  <2>2. "idle" \in Pc \ {"open"} /\ i \in Start..End
    BY Sizes DEF Pc
  <2> QED
    BY <1>1, <2>1, <2>2, Turning
<1>3. pass'[t] = NoPass
  BY Types DEF MoveTo, EndPass, IInv
<1> QED
  BY <1>2, <1>3, PassEnds

LEMMA GiveUpHolds ==
  ASSUME IInv, NEW t \in Tx, GiveUp(t) \/ OpenFails(t)
  PROVE  Sound(t) /\ PassHolds(t)'
<1>1. TypeOK /\ Locks!Exclusion /\ LocksHold
  BY DEF IInv, LocksHold
<1>2. /\ pc \in [Tx -> Pc] /\ at \in [Tx -> Position] /\ pass \in [Tx -> Pass]
      /\ (Reading(t) => at[t].block \in DOMAIN file)
  BY <1>1, Types
<1>3. UNCHANGED <<file, held, at, undo, row, pass>>
  BY DEF GiveUp, OpenFails
<1>4. PICK l : /\ l = "idle" \/ l = "closed"
               /\ pc' = [pc EXCEPT ![t] = l]
               /\ l = "idle" => Reading(t)
  BY DEF GiveUp, OpenFails, Reading
<1>5. pc'[t] = l /\ Alone(t)
  <2>1. pc' \in [Tx -> Pc] /\ pc'[t] = l /\ \A u \in Tx \ {t} : pc'[u] = pc[u]
    BY <1>2, <1>4 DEF Pc
  <2> QED
    BY <1>2, <1>3, <2>1 DEF Alone
<1>6. Locking(t)
  BY <1>1, <1>3, SameLocks
<1>7. Reading(t)' => Reading(t)
  BY <1>4, <1>5 DEF Reading
<1>8. \A b \in Blocks : held'[t][b] # "none" => b \in DOMAIN file
  BY <1>1, <1>3 DEF LocksHold
<1>9. Sound(t)
  BY <1>2, <1>3, <1>4, <1>5, <1>6, <1>7, <1>8, Looking
<1>10. Reading(t)' \/ pass[t].kind = "none"
  <2>1. pass[t].kind # "none" => Reading(t)
    BY DEF IInv, PassHolds
  <2>2. CASE GiveUp(t)
    BY <1>2, <2>2 DEF GiveUp, Reading
  <2>3. CASE OpenFails(t)
    BY <2>1, <2>3 DEF OpenFails, Reading
  <2> QED
    BY <2>2, <2>3
<1> QED
  BY <1>3, <1>6, <1>9, <1>10, ScanStays

LEMMA OpenHolds ==
  ASSUME IInv, NEW t \in Tx, Open(t)
  PROVE  Sound(t) /\ PassHolds(t)'
<1>1. TypeOK /\ Locks!Exclusion /\ LocksHold
  BY DEF IInv, LocksHold
<1>2. /\ pc \in [Tx -> Pc] /\ at \in [Tx -> Position] /\ pass \in [Tx -> Pass]
      /\ Len(file) \in Nat /\ DOMAIN file = 1..Len(file) /\ file \in Seq([Slots -> Slot])
  BY <1>1, Types
<1>3. UNCHANGED <<file, undo, row>> /\ CanRead(t, EofBlock) /\ ReadLock(t, EofBlock)
  BY DEF Open
<1>4. /\ Locking(t) /\ held'[t][EofBlock] # "none"
      /\ \A b \in Lock \ {EofBlock} : held'[t][b] = held[t][b]
  BY <1>1, <1>3, ReadLocking DEF Lock
<1>5. CASE file = <<>>
  <2>1. pc' = [pc EXCEPT ![t] = "open"] /\ UNCHANGED <<at, pass>>
    BY <1>5 DEF Open
  <2>2. Alone(t) /\ pc'[t] = "open"
    <3>1. pc' \in [Tx -> Pc] /\ pc'[t] = "open" /\ \A u \in Tx \ {t} : pc'[u] = pc[u]
      BY <1>2, <2>1 DEF Pc
    <3> QED
      BY <1>2, <2>1, <3>1 DEF Alone
  <2>3. \A b \in Blocks : held'[t][b] # "none" => b \in DOMAIN file
    BY <1>1, <1>4, Sizes DEF LocksHold, Lock
  <2>4. Sound(t)
    BY <1>3, <1>4, <1>5, <2>2, <2>3, Looking DEF Reading
  <2>5. pass[t].kind = "none"
    BY DEF IInv, PassHolds, Open, Reading
  <2> QED
    BY <1>3, <1>4, <2>1, <2>4, <2>5, ScanStays
<1>6. CASE file # <<>>
  <2>1. 1 \in DOMAIN file
    BY <1>2, <1>6, EmptySeq
  <2>2. Move(t, "idle", 1, Start) /\ pass' = [pass EXCEPT ![t] = From("forward")]
    BY <1>6 DEF Open, Placed
  <2>3. NextPass(t)
    BY <2>2 DEF NextPass
  <2>4. "idle" \in Pc \ {"open"}
    BY DEF Pc
  <2>5. Sound(t) /\ pc'[t] = "idle" /\ at'[t].block = 1 /\ at'[t].slot = Start
    BY <1>3, <2>1, <2>2, <2>3, <2>4, Turning, Sizes
  <2>6. pass'[t] = From("forward")
    BY <1>2, <2>2
  <2> QED
    BY <2>5, <2>6, PassStarts DEF Sound
<1> QED
  BY <1>5, <1>6

LEMMA OpenNewHolds ==
  ASSUME IInv, NEW t \in Tx, OpenNew(t)
  PROVE  Sound(t) /\ PassHolds(t)'
<1>1. TypeOK /\ Locks!Exclusion /\ LocksHold
  BY DEF IInv, LocksHold
<1>2. /\ held \in [Tx -> [Lock -> {"none", "shared", "exclusive"}]]
      /\ pass \in [Tx -> Pass]
  BY <1>1, Types
<1>3. file = <<>> /\ Len(file) = 0 /\ DOMAIN file = {}
  BY <1>1, EmptySeq DEF LocksHold, OpenNew
<1>4. file' = Append(file, Zeros) /\ Len(file) < MaxBlocks
  BY <1>3, Sizes DEF OpenNew
<1>5. EofBlock \in Lock /\ 1 \in Lock /\ EofBlock # 1
  BY Sizes DEF Lock
<1>6. held' = [held EXCEPT ![t][EofBlock] = "exclusive", ![t][1] = "exclusive"]
  BY DEF OpenNew
<1>7. held' \in [Tx -> [Lock -> {"none", "shared", "exclusive"}]]
  BY <1>2, <1>5, <1>6
<1>8. /\ \A u \in Tx \ {t} : held'[u] = held[u]
      /\ \A b \in Lock : held'[t][b] = IF b \in {EofBlock, 1} THEN "exclusive" ELSE held[t][b]
  BY <1>2, <1>5, <1>6
<1>9. \A u \in Tx : \A b \in Lock \ {EofBlock} : held[u][b] = "none"
  BY <1>1, <1>3 DEF LocksHold, Lock
<1>10. \A u \in Tx \ {t} : held[u][EofBlock] = "none"
  BY DEF OpenNew, CanWrite
<1>11. Locking(t)
  <2>1. \A u \in Tx \ {t} : \A b \in Lock : held'[u][b] = "none"
    BY <1>8, <1>9, <1>10
  <2>2. Locks!Exclusion'
    BY <2>1 DEF Locks!Exclusion, Lock
  <2> QED
    BY <1>7, <1>8, <2>2 DEF Locking, Locks!Held, Locks!Mode, Lock
<1>12. \A b \in Blocks : held'[t][b] # "none" => b \in DOMAIN file \/ b = Len(file) + 1
  BY <1>3, <1>8, <1>9, Sizes DEF Lock
<1>13. /\ pc' \in [Tx -> Pc] /\ at' \in [Tx -> Position]
       /\ \A u \in Tx \ {t} : pc'[u] = pc[u] /\ at'[u] = at[u]
       /\ pc'[t] = "idle" /\ at'[t].block = 1 /\ at'[t].slot = Start
  BY <1>1, MoveAlone, Sizes DEF OpenNew, Placed, Pc
<1>14. pass' = [pass EXCEPT ![t] = From("forward")] /\ UNCHANGED <<undo, row>>
  BY DEF OpenNew, Placed
<1>15. NextPass(t)
  BY <1>14 DEF NextPass
<1>16. Alone(t)
  BY <1>1, <1>13, <1>15, PassAlone DEF Alone
<1>17. CanWrite(t, EofBlock)
  BY DEF OpenNew
<1>18. Sound(t)
  BY <1>3, <1>4, <1>11, <1>12, <1>13, <1>14, <1>16, <1>17, Extending
<1>19. pass'[t] = From("forward")
  BY <1>2, <1>14
<1> QED
  BY <1>13, <1>18, <1>19, PassStarts DEF Sound

-----------------------------------------------------------------------------
(* The turns of next.                                                      *)

LEMMA ForwardWay ==
  ASSUME NEW x \in Nat \X Int, NEW h \in Nat \X Int
  PROVE  x = h \/ Earlier("forward", x, h) <=> x[1] < h[1] \/ (x[1] = h[1] /\ x[2] <= h[2])
BY DEF Earlier, Precedes

LEMMA BackwardWay ==
  ASSUME NEW x \in Nat \X Int, NEW h \in Nat \X Int
  PROVE  x = h \/ Earlier("backward", x, h) <=> x[1] > h[1] \/ (x[1] = h[1] /\ x[2] >= h[2])
BY DEF Earlier, Precedes

\* What a pass has gone through after a step that changes no block.
LEMMA WayAfter ==
  ASSUME IInv, NEW t \in Tx, file' = file, pass[t].kind # "none", ~pass[t].complete,
         pass'[t].kind = pass[t].kind, ~pass'[t].complete,
         NEW b \in Nat, NEW i \in Int, at'[t].block = b, at'[t].slot = i,
         NEW x \in (DOMAIN file) \X Slots
  PROVE  /\ IsFull(x)' <=> IsFull(x)
         /\ pass[t].kind = "forward" =>
              /\ x \in Way(t) <=> \/ x[1] < at[t].block
                                  \/ x[1] = at[t].block /\ x[2] <= at[t].slot
              /\ x \in Way(t)' <=> x[1] < b \/ (x[1] = b /\ x[2] <= i)
         /\ pass[t].kind = "backward" =>
              /\ x \in Way(t) <=> \/ x[1] > at[t].block
                                  \/ x[1] = at[t].block /\ x[2] >= at[t].slot
              /\ x \in Way(t)' <=> x[1] > b \/ (x[1] = b /\ x[2] >= i)
<1>1. x \in Nat \X Int
  BY Types, Sizes DEF IInv
<1>2. Here(t) \in Nat \X Int /\ Here(t)[1] = at[t].block /\ Here(t)[2] = at[t].slot
  BY Types DEF Here, IInv
<1>3. Here(t)' = <<b, i>>
  BY DEF Here
<1>4. x \in Way(t) <=> x = Here(t) \/ Earlier(pass[t].kind, x, Here(t))
  BY DEF Way, Behind
<1>5. x \in Way(t)' <=> x = <<b, i>> \/ Earlier(pass[t].kind, x, <<b, i>>)
  BY <1>3 DEF Way, Behind
<1>6. <<b, i>> \in Nat \X Int /\ <<b, i>>[1] = b /\ <<b, i>>[2] = i
  OBVIOUS
<1>7. IsFull(x)' <=> IsFull(x)
  BY DEF IsFull
<1>8. CASE pass[t].kind = "forward"
  <2>1. x = Here(t) \/ Earlier("forward", x, Here(t)) <=>
          x[1] < at[t].block \/ (x[1] = at[t].block /\ x[2] <= at[t].slot)
    BY <1>1, <1>2, ForwardWay
  <2>2. x = <<b, i>> \/ Earlier("forward", x, <<b, i>>) <=>
          x[1] < b \/ (x[1] = b /\ x[2] <= i)
    BY <1>1, <1>6, ForwardWay
  <2> QED
    BY <1>4, <1>5, <1>7, <1>8, <2>1, <2>2
<1>9. CASE pass[t].kind = "backward"
  <2>1. x = Here(t) \/ Earlier("backward", x, Here(t)) <=>
          x[1] > at[t].block \/ (x[1] = at[t].block /\ x[2] >= at[t].slot)
    BY <1>1, <1>2, BackwardWay
  <2>2. x = <<b, i>> \/ Earlier("backward", x, <<b, i>>) <=>
          x[1] > b \/ (x[1] = b /\ x[2] >= i)
    BY <1>1, <1>6, BackwardWay
  <2> QED
    BY <1>4, <1>5, <1>7, <1>9, <2>1, <2>2
<1> QED
  BY <1>7, <1>8, <1>9

\* How the pass of a turn goes on.
LEMMA PassGoesOn ==
  ASSUME IInv, NEW t \in Tx, NEW kind \in {"forward", "backward"}
  PROVE  /\ \A b \in Blocks, i \in Slots : Seen(t, kind, b, i) =>
              /\ NextPass(t)
              /\ IF pass[t].kind = kind /\ ~pass[t].complete
                 THEN pass'[t] = [kind |-> kind, complete |-> FALSE,
                                  seen |-> Append(pass[t].seen, <<b, i>>)]
                 ELSE pass'[t] = NoPass
         /\ Continue(t, kind) =>
              /\ NextPass(t)
              /\ IF pass[t].kind = kind THEN pass'[t] = pass[t] ELSE pass'[t] = NoPass
         /\ Passed(t, kind) =>
              /\ NextPass(t)
              /\ IF pass[t].kind = kind
                 THEN /\ pass'[t].kind = kind /\ pass'[t].complete
                      /\ pass'[t].seen = pass[t].seen
                 ELSE pass'[t] = NoPass
<1>1. pass \in [Tx -> Pass] /\ pass[t] \in Pass
  BY Types DEF IInv
<1>2. ASSUME NEW b \in Blocks, NEW i \in Slots, Seen(t, kind, b, i)
      PROVE  /\ NextPass(t)
             /\ IF pass[t].kind = kind /\ ~pass[t].complete
                THEN pass'[t] = [kind |-> kind, complete |-> FALSE,
                                 seen |-> Append(pass[t].seen, <<b, i>>)]
                ELSE pass'[t] = NoPass
  <2>1. NextPass(t)
    BY <1>2 DEF NextPass
  <2> QED
    BY <1>1, <1>2, <2>1 DEF Seen
<1>3. Continue(t, kind) =>
        /\ NextPass(t)
        /\ IF pass[t].kind = kind THEN pass'[t] = pass[t] ELSE pass'[t] = NoPass
  BY <1>1 DEF Continue, NextPass
<1>4. ASSUME Passed(t, kind)
      PROVE  /\ NextPass(t)
             /\ IF pass[t].kind = kind
                THEN /\ pass'[t].kind = kind /\ pass'[t].complete
                     /\ pass'[t].seen = pass[t].seen
                ELSE pass'[t] = NoPass
  <2>1. NextPass(t)
    BY <1>4 DEF NextPass
  <2> QED
    BY <1>1, <1>4, <2>1 DEF Passed, Pass
<1> QED
  BY <1>2, <1>3, <1>4

LEMMA NextInBlockHolds ==
  ASSUME IInv, NEW t \in Tx, NextInBlock(t)
  PROVE  Sound(t) /\ PassHolds(t)'
<1>1. TypeOK /\ Locks!Exclusion /\ Covered(t)
  BY DEF IInv, LocksHold, PassHolds
<1>2. /\ Reading(t) /\ at[t].block \in DOMAIN file /\ DOMAIN file \subseteq Blocks
      /\ at[t].block \in Nat /\ at[t].slot \in Start..End /\ at[t].slot \in Int
  BY <1>1, Running, Types DEF NextInBlock
<1> DEFINE b == at[t].block
           i == at[t].slot
           m == Min(After(t, TRUE))
<1>3. /\ MayRun(t, "next") /\ i # End /\ UNCHANGED <<file, undo, row>>
      /\ IF i < NumSlots THEN CanRead(t, b) /\ ReadLock(t, b) ELSE UNCHANGED held
  BY DEF NextInBlock
<1>4. \/ After(t, TRUE) # {} /\ Move(t, "idle", b, m) /\ Seen(t, "forward", b, m)
      \/ After(t, TRUE) = {} /\ Move(t, "next", b, End) /\ Continue(t, "forward")
  BY DEF NextInBlock
<1>5. \A j \in Int : j \in After(t, TRUE) <=> i < j /\ j <= NumSlots /\ IsFull(<<b, j>>)
  BY <1>2, Sizes DEF After, IsFull
<1>6. After(t, TRUE) \in SUBSET Nat /\ After(t, TRUE) \subseteq Slots
  BY <1>2, Sizes DEF After, Slots
<1>7. After(t, TRUE) # {} => m \in After(t, TRUE) /\ \A j \in After(t, TRUE) : m <= j
  BY <1>6, MinProperty
<1>8. \/ held' = held
      \/ \E c \in DOMAIN file \cup {EofBlock} : CanRead(t, c) /\ ReadLock(t, c)
  BY <1>2, <1>3
<1>9. Start = 0 /\ End = NumSlots + 1 /\ NumSlots \in Nat \ {0} /\ End \in Start..End /\ Slots \subseteq Start..End
  BY Sizes
<1>10. Locking(t) /\ pass[t].kind = "forward" =>
         /\ \A c \in Blocks : c < b => held'[t][c] # "none"
         /\ held'[t][b] # "none"
  <2>1. CASE i < NumSlots
    <3>1. held'[t][b] # "none"
      BY <1>1, <1>2, <1>3, <2>1, ReadLocking DEF Lock
    <3> QED
      BY <1>1, <3>1 DEF Covered, Locking, Lock
  <2>2. CASE ~(i < NumSlots)
    <3>1. i # Start
      BY <1>2, <1>9, <2>2
    <3> QED
      BY <1>1, <1>2, <3>1 DEF Covered, Locking, Lock
  <2> QED
    BY <2>1, <2>2
<1>11. pass[t].kind = "forward" => ~pass[t].complete
  BY <1>1, <1>3 DEF Covered
<1> HIDE DEF b, i, m
<1>12. b = at[t].block /\ i = at[t].slot /\ b \in Blocks /\ b \in Nat /\ b \in DOMAIN file /\ i \in Int
  BY <1>2 DEF b, i
<1>13. Here(t) = <<b, i>>
  BY DEF Here, b, i
<1>14. CASE After(t, TRUE) # {}
  <2>1. Move(t, "idle", b, m) /\ Seen(t, "forward", b, m)
    BY <1>4, <1>14
  <2>2. /\ m \in Slots /\ m \in Int /\ i < m /\ m <= NumSlots /\ IsFull(<<b, m>>)
        /\ \A j \in After(t, TRUE) : m <= j
    BY <1>5, <1>6, <1>7, <1>14, Sizes
  <2>3. /\ NextPass(t)
        /\ IF pass[t].kind = "forward" /\ ~pass[t].complete
           THEN pass'[t] = [kind |-> "forward", complete |-> FALSE,
                            seen |-> Append(pass[t].seen, <<b, m>>)]
           ELSE pass'[t] = NoPass
    BY <1>12, <2>1, <2>2, PassGoesOn
  <2>4. "idle" \in Pc \ {"open"}
    BY DEF Pc
  <2>5. /\ Sound(t) /\ Locking(t)
        /\ pc'[t] = "idle" /\ at'[t].block = b /\ at'[t].slot = m
    <3>1. m \in Start..End /\ NextPass(t) /\ Move(t, "idle", b, m)
      BY <1>9, <2>1, <2>2, <2>3
    <3>2. UNCHANGED <<file, undo, row>>
      BY <1>3
    <3> QED
      BY <1>8, <1>12, <2>4, <3>1, <3>2, Turning
  <2>6. CASE pass[t].kind = "forward"
    <3>1. Covered(t)'
      BY <1>10, <1>11, <2>3, <2>5, <2>6 DEF Covered
    <3>2. Earlier("forward", Here(t), <<b, m>>)
      BY <1>13, <2>2 DEF Earlier, Precedes
    <3>3. ASSUME NEW x \in (DOMAIN file) \X Slots,
                 Earlier("forward", Here(t), x), Earlier("forward", x, <<b, m>>)
          PROVE  ~IsFull(x)
      <4>1. x[1] \in Nat /\ x[2] \in Int
        BY <1>2, Sizes
      <4>2. x[1] = b /\ i < x[2] /\ x[2] < m
        BY <1>12, <1>13, <2>2, <3>3, <4>1 DEF Earlier, Precedes
      <4>3. x[2] \notin After(t, TRUE) /\ x[2] <= NumSlots
        <5> DEFINE j == x[2]
        <5>1. j \in Int /\ j < m
          BY <4>1, <4>2
        <5> HIDE DEF j
        <5>2. j <= NumSlots
          BY <1>9, <2>2, <5>1
        <5>3. ASSUME j \in After(t, TRUE) PROVE FALSE
          <6>1. m <= j
            BY <2>2, <5>3
          <6> QED
            BY <2>2, <5>1, <6>1
        <5> QED
          BY <5>2, <5>3 DEF j
      <4>4. x = <<b, x[2]>>
        BY <4>2
      <4> QED
        BY <1>5, <4>1, <4>2, <4>3, <4>4
    <3>4. pass'[t] = [kind |-> "forward", complete |-> FALSE,
                      seen |-> Append(pass[t].seen, <<b, m>>)]
      BY <1>11, <2>3, <2>6
    <3> QED
      BY <1>3, <1>11, <1>12, <2>2, <2>5, <2>6, <3>1, <3>2, <3>3, <3>4, PassComes
  <2>7. CASE pass[t].kind # "forward"
    BY <2>3, <2>5, <2>7, PassEnds
  <2> QED
    BY <2>5, <2>6, <2>7
<1>15. CASE After(t, TRUE) = {}
  <2>1. Move(t, "next", b, End) /\ Continue(t, "forward")
    BY <1>4, <1>15
  <2>2. /\ NextPass(t)
        /\ IF pass[t].kind = "forward" THEN pass'[t] = pass[t] ELSE pass'[t] = NoPass
    BY <2>1, PassGoesOn
  <2>3. "next" \in Pc \ {"open"}
    BY DEF Pc
  <2>4. /\ Sound(t) /\ Locking(t)
        /\ pc'[t] = "next" /\ at'[t].block = b /\ at'[t].slot = End
    BY <1>3, <1>8, <1>9, <1>12, <2>1, <2>2, <2>3, Turning
  <2>5. CASE pass[t].kind = "forward"
    <3>1. Covered(t)'
      BY <1>10, <1>11, <2>2, <2>4, <2>5 DEF Covered
    <3>2. Reading(t)'
      BY <2>4 DEF Reading
    <3>3. ASSUME NEW x \in (DOMAIN file) \X Slots
          PROVE  (x \in Way(t)' /\ IsFull(x)') <=> (x \in Way(t) /\ IsFull(x))
      <4>1. x[1] \in Nat /\ x[2] \in Int /\ x[2] <= NumSlots /\ End \in Int
        BY <1>2, Sizes DEF Slots
      <4>2. /\ IsFull(x)' <=> IsFull(x)
            /\ x \in Way(t) <=> x[1] < b \/ (x[1] = b /\ x[2] <= i)
            /\ x \in Way(t)' <=> x[1] < b \/ (x[1] = b /\ x[2] <= End)
        BY <1>3, <1>11, <1>12, <2>2, <2>4, <2>5, <4>1, WayAfter
      <4>3. x[1] = b /\ i < x[2] => ~IsFull(x)
        <5>1. x[1] = b => x = <<b, x[2]>>
          OBVIOUS
        <5> QED
          BY <1>5, <1>15, <4>1, <5>1
      <4> QED
        BY <1>9, <1>12, <4>1, <4>2, <4>3
    <3>4. {x \in Way(t) : IsFull(x)}' = {x \in Way(t) : IsFull(x)}
      <4>1. \A x : (x \in Way(t) \/ x \in Way(t)') => x \in (DOMAIN file) \X Slots
        BY <1>3 DEF Way
      <4> QED
        BY <3>3, <4>1
    <3> QED
      BY <2>2, <2>4, <2>5, <3>1, <3>2, <3>4, PassStays
  <2>6. CASE pass[t].kind # "forward"
    BY <2>2, <2>4, <2>6, PassEnds
  <2> QED
    BY <2>4, <2>5, <2>6
<1> QED
  BY <1>14, <1>15

\* A pass that has come to its end has gone through everything.
LEMMA PassIsOver ==
  ASSUME IInv, NEW t \in Tx, file' = file, pass[t].kind # "none",
         pass'[t].kind = pass[t].kind, pass'[t].complete, pass'[t].seen = pass[t].seen,
         Reading(t)', Covered(t)',
         pass[t].kind = "forward" => at[t].block = Len(file) /\ at[t].slot = End,
         pass[t].kind = "backward" => at[t].block = 1 /\ at[t].slot = Start
  PROVE  PassHolds(t)'
<1>1. /\ DOMAIN file \subseteq Nat /\ Slots \subseteq Int /\ Len(file) \in Nat
      /\ DOMAIN file = 1..Len(file) /\ pass[t].kind \in {"forward", "backward"}
  BY Types, Sizes DEF IInv, Pass
<1>2. Here(t) \in Nat \X Int /\ Here(t)[1] = at[t].block /\ Here(t)[2] = at[t].slot
  BY Types DEF Here, IInv
<1>3. ASSUME NEW x \in (DOMAIN file) \X Slots
      PROVE  Behind(t, x)
  <2>1. /\ x \in Nat \X Int /\ x[1] \in Nat /\ x[2] \in Int
        /\ 1 <= x[1] /\ x[1] <= Len(file) /\ 1 <= x[2] /\ x[2] <= NumSlots
    BY <1>1, Sizes DEF Slots
  <2>2. CASE pass[t].kind = "forward"
    <3>1. x[1] < at[t].block \/ (x[1] = at[t].block /\ x[2] <= at[t].slot)
      BY <1>1, <2>1, <2>2, Sizes
    <3> QED
      BY <1>2, <2>1, <2>2, <3>1, ForwardWay DEF Behind
  <2>3. CASE pass[t].kind = "backward"
    <3>1. x[1] > at[t].block \/ (x[1] = at[t].block /\ x[2] >= at[t].slot)
      BY <1>1, <2>1, <2>3, Sizes
    <3> QED
      BY <1>2, <2>1, <2>3, <3>1, BackwardWay DEF Behind
  <2> QED
    BY <1>1, <2>2, <2>3
<1>4. Way(t) = (DOMAIN file) \X Slots
  BY <1>3 DEF Way
<1>5. Way(t)' = (DOMAIN file) \X Slots
  BY DEF Way
<1>6. \A x : IsFull(x)' <=> IsFull(x)
  BY DEF IsFull
<1>7. {x \in Way(t) : IsFull(x)}' = {x \in Way(t) : IsFull(x)}
  BY <1>4, <1>5, <1>6
<1> QED
  BY <1>7, PassStays

LEMMA NextBlockHolds ==
  ASSUME IInv, NEW t \in Tx, NextBlock(t)
  PROVE  Sound(t) /\ PassHolds(t)'
<1>1. TypeOK /\ Locks!Exclusion /\ Covered(t)
  BY DEF IInv, LocksHold, PassHolds
<1>2. /\ at[t].block \in DOMAIN file /\ DOMAIN file \subseteq Blocks
      /\ at[t].block \in Nat /\ Len(file) \in Nat /\ DOMAIN file = 1..Len(file)
  BY <1>1, Running, Types DEF NextBlock
<1> DEFINE b == at[t].block
<1>3. /\ at[t].slot = End /\ UNCHANGED <<file, undo, row>>
      /\ CanRead(t, EofBlock) /\ ReadLock(t, EofBlock)
      /\ \/ b = Len(file) /\ Move(t, "idle", b, End) /\ Passed(t, "forward")
         \/ b # Len(file) /\ Move(t, "next", b + 1, Start) /\ Continue(t, "forward")
  BY DEF NextBlock
<1>4. \E c \in DOMAIN file \cup {EofBlock} : CanRead(t, c) /\ ReadLock(t, c)
  BY <1>3
<1>5. Locking(t) /\ held'[t][EofBlock] # "none"
  BY <1>1, <1>3, ReadLocking DEF Lock
<1>6. pass[t].kind = "forward" =>
        /\ \A c \in Blocks : c < b => held'[t][c] # "none"
        /\ held'[t][b] # "none"
        /\ pass[t].complete => b = Len(file)
  <2>1. End # Start
    BY Sizes
  <2> QED
    BY <1>1, <1>2, <1>3, <1>5, <2>1 DEF Covered, Locking, Lock
<1> HIDE DEF b
<1>7. b = at[t].block /\ b \in DOMAIN file /\ b \in Nat /\ b \in 1..Len(file)
  BY <1>2 DEF b
<1>8. Start = 0 /\ End = NumSlots + 1 /\ NumSlots \in Nat /\ Start \in Start..End /\ End \in Start..End
  BY Sizes
<1>9. CASE b = Len(file)
  <2>1. Move(t, "idle", b, End) /\ Passed(t, "forward")
    BY <1>3, <1>9
  <2>2. /\ NextPass(t)
        /\ IF pass[t].kind = "forward"
           THEN /\ pass'[t].kind = "forward" /\ pass'[t].complete
                /\ pass'[t].seen = pass[t].seen
           ELSE pass'[t] = NoPass
    BY <2>1, PassGoesOn
  <2>3. "idle" \in Pc \ {"open"}
    BY DEF Pc
  <2>4. /\ Sound(t)
        /\ pc'[t] = "idle" /\ at'[t].block = b /\ at'[t].slot = End
    BY <1>3, <1>4, <1>7, <1>8, <2>1, <2>2, <2>3, Turning
  <2>5. CASE pass[t].kind = "forward"
    <3>1. Covered(t)'
      BY <1>3, <1>5, <1>6, <1>9, <2>2, <2>4, <2>5 DEF Covered
    <3>2. Reading(t)'
      BY <2>4 DEF Reading
    <3> QED
      BY <1>3, <1>7, <1>9, <2>2, <2>4, <2>5, <3>1, <3>2, PassIsOver
  <2>6. CASE pass[t].kind # "forward"
    BY <2>2, <2>4, <2>6, PassEnds
  <2> QED
    BY <2>5, <2>6
<1>10. CASE b # Len(file)
  <2>1. Move(t, "next", b + 1, Start) /\ Continue(t, "forward")
    BY <1>3, <1>10
  <2>2. /\ NextPass(t)
        /\ IF pass[t].kind = "forward" THEN pass'[t] = pass[t] ELSE pass'[t] = NoPass
    BY <2>1, PassGoesOn
  <2>3. "next" \in Pc \ {"open"} /\ b + 1 \in DOMAIN file /\ b + 1 \in Nat
    BY <1>2, <1>7, <1>10 DEF Pc
  <2>4. /\ Sound(t)
        /\ pc'[t] = "next" /\ at'[t].block = b + 1 /\ at'[t].slot = Start
    BY <1>3, <1>4, <1>7, <1>8, <2>1, <2>2, <2>3, Turning
  <2>5. CASE pass[t].kind = "forward"
    <3>1. ~pass[t].complete
      BY <1>6, <1>10, <2>5
    <3>2. \A c \in Blocks : c < b + 1 => held'[t][c] # "none"
      <4>1. \A c \in Blocks : c < b + 1 => c < b \/ c = b
        BY <1>7, Sizes
      <4> QED
        BY <1>6, <2>5, <4>1
    <3>3. Covered(t)'
      BY <2>2, <2>4, <2>5, <3>1, <3>2 DEF Covered
    <3>4. Reading(t)'
      BY <2>4 DEF Reading
    <3>5. ASSUME NEW x \in (DOMAIN file) \X Slots
          PROVE  (x \in Way(t)' /\ IsFull(x)') <=> (x \in Way(t) /\ IsFull(x))
      <4>1. x[1] \in Nat /\ x[2] \in Int /\ x[2] <= NumSlots /\ 1 <= x[2] /\ Start \in Int
        BY <1>2, Sizes DEF Slots
      <4>2. /\ IsFull(x)' <=> IsFull(x)
            /\ x \in Way(t) <=> x[1] < b \/ (x[1] = b /\ x[2] <= End)
            /\ x \in Way(t)' <=> x[1] < b + 1 \/ (x[1] = b + 1 /\ x[2] <= Start)
        <5> DEFINE c == b + 1
        <5>1. at'[t].block = c /\ at'[t].slot = Start /\ c \in Nat
          BY <2>3, <2>4
        <5> HIDE DEF c
        <5>2. /\ IsFull(x)' <=> IsFull(x)
              /\ x \in Way(t) <=> \/ x[1] < at[t].block
                                  \/ x[1] = at[t].block /\ x[2] <= at[t].slot
              /\ x \in Way(t)' <=> x[1] < c \/ (x[1] = c /\ x[2] <= Start)
          BY <1>3, <2>2, <2>5, <3>1, <4>1, <5>1, WayAfter
        <5> QED
          BY <1>3, <1>7, <5>2 DEF c
      <4> QED
        BY <1>7, <1>8, <4>1, <4>2
    <3>6. {x \in Way(t) : IsFull(x)}' = {x \in Way(t) : IsFull(x)}
      <4>1. \A x : (x \in Way(t) \/ x \in Way(t)') => x \in (DOMAIN file) \X Slots
        BY <1>3 DEF Way
      <4> QED
        BY <3>5, <4>1
    <3> QED
      BY <2>2, <2>4, <2>5, <3>3, <3>4, <3>6, PassStays
  <2>6. CASE pass[t].kind # "forward"
    BY <2>2, <2>4, <2>6, PassEnds
  <2> QED
    BY <2>5, <2>6
<1> QED
  BY <1>9, <1>10

-----------------------------------------------------------------------------
(* The turns of previous.                                                  *)

LEMMA PreviousInBlockHolds ==
  ASSUME IInv, NEW t \in Tx, PreviousInBlock(t)
  PROVE  Sound(t) /\ PassHolds(t)'
<1>1. TypeOK /\ Locks!Exclusion /\ Covered(t)
  BY DEF IInv, LocksHold, PassHolds
<1>2. /\ Reading(t) /\ at[t].block \in DOMAIN file /\ DOMAIN file \subseteq Blocks
      /\ at[t].block \in Nat /\ at[t].slot \in Start..End /\ at[t].slot \in Int
  BY <1>1, Running, Types DEF PreviousInBlock
<1> DEFINE b == at[t].block
           i == at[t].slot
           m == Max(Before(t))
<1>3. /\ MayRun(t, "previous") /\ i # Start /\ UNCHANGED <<file, undo, row>>
      /\ IF i > 1 THEN CanRead(t, b) /\ ReadLock(t, b) ELSE UNCHANGED held
  BY DEF PreviousInBlock
<1>4. \/ Before(t) # {} /\ Move(t, "idle", b, m) /\ Seen(t, "backward", b, m)
      \/ Before(t) = {} /\ Move(t, "previous", b, Start) /\ Continue(t, "backward")
  BY DEF PreviousInBlock
<1>5. \A j \in Int : j \in Before(t) <=> 1 <= j /\ j < i /\ IsFull(<<b, j>>)
  BY <1>2, Sizes DEF Before, IsFull
<1>6. Before(t) \in SUBSET (0..NumSlots) /\ Before(t) \subseteq Slots
  BY <1>2, Sizes DEF Before, Slots
<1>7. Before(t) # {} => m \in Before(t) /\ \A j \in Before(t) : j <= m
  BY <1>6, MaxProperty, Sizes
<1>8. \/ held' = held
      \/ \E c \in DOMAIN file \cup {EofBlock} : CanRead(t, c) /\ ReadLock(t, c)
  BY <1>2, <1>3
<1>9. Start = 0 /\ End = NumSlots + 1 /\ NumSlots \in Nat \ {0} /\ Start \in Start..End /\ Slots \subseteq Start..End
  BY Sizes
<1>10. Locking(t) /\ pass[t].kind = "backward" =>
         /\ \A c \in DOMAIN file : c > b => held'[t][c] # "none"
         /\ held'[t][EofBlock] # "none"
         /\ held'[t][b] # "none"
  <2>1. CASE i > 1
    <3>1. held'[t][b] # "none"
      BY <1>1, <1>2, <1>3, <2>1, ReadLocking DEF Lock
    <3> QED
      BY <1>1, <1>2, <3>1 DEF Covered, Locking, Lock
  <2>2. CASE ~(i > 1)
    <3>1. i # End
      BY <1>2, <1>9, <2>2
    <3> QED
      BY <1>1, <1>2, <3>1 DEF Covered, Locking, Lock
  <2> QED
    BY <2>1, <2>2
<1>11. pass[t].kind = "backward" => ~pass[t].complete
  BY <1>1, <1>3 DEF Covered
<1> HIDE DEF b, i, m
<1>12. b = at[t].block /\ i = at[t].slot /\ b \in Blocks /\ b \in Nat /\ b \in DOMAIN file /\ i \in Int
  BY <1>2 DEF b, i
<1>13. Here(t) = <<b, i>>
  BY DEF Here, b, i
<1>14. CASE Before(t) # {}
  <2>1. Move(t, "idle", b, m) /\ Seen(t, "backward", b, m)
    BY <1>4, <1>14
  <2>2. /\ m \in Slots /\ m \in Int /\ m < i /\ 1 <= m /\ IsFull(<<b, m>>)
        /\ \A j \in Before(t) : j <= m
    BY <1>5, <1>6, <1>7, <1>14, Sizes
  <2>3. /\ NextPass(t)
        /\ IF pass[t].kind = "backward" /\ ~pass[t].complete
           THEN pass'[t] = [kind |-> "backward", complete |-> FALSE,
                            seen |-> Append(pass[t].seen, <<b, m>>)]
           ELSE pass'[t] = NoPass
    BY <1>12, <2>1, <2>2, PassGoesOn
  <2>4. "idle" \in Pc \ {"open"}
    BY DEF Pc
  <2>5. /\ Sound(t) /\ Locking(t)
        /\ pc'[t] = "idle" /\ at'[t].block = b /\ at'[t].slot = m
    <3>1. m \in Start..End /\ NextPass(t) /\ Move(t, "idle", b, m)
      BY <1>9, <2>1, <2>2, <2>3
    <3>2. UNCHANGED <<file, undo, row>>
      BY <1>3
    <3> QED
      BY <1>8, <1>12, <2>4, <3>1, <3>2, Turning
  <2>6. CASE pass[t].kind = "backward"
    <3>1. Covered(t)'
      BY <1>3, <1>10, <1>11, <2>3, <2>5, <2>6 DEF Covered
    <3>2. Earlier("backward", Here(t), <<b, m>>)
      BY <1>13, <2>2 DEF Earlier, Precedes
    <3>3. ASSUME NEW x \in (DOMAIN file) \X Slots,
                 Earlier("backward", Here(t), x), Earlier("backward", x, <<b, m>>)
          PROVE  ~IsFull(x)
      <4>1. x[1] \in Nat /\ x[2] \in Int
        BY <1>2, Sizes
      <4>2. x[1] = b /\ m < x[2] /\ x[2] < i
        BY <1>12, <1>13, <2>2, <3>3, <4>1 DEF Earlier, Precedes
      <4>3. x[2] \notin Before(t) /\ 1 <= x[2]
        <5> DEFINE j == x[2]
        <5>1. j \in Int /\ m < j
          BY <4>1, <4>2
        <5> HIDE DEF j
        <5>2. 1 <= j
          BY <1>9, <2>2, <5>1
        <5>3. ASSUME j \in Before(t) PROVE FALSE
          <6>1. j <= m
            BY <2>2, <5>3
          <6> QED
            BY <2>2, <5>1, <6>1
        <5> QED
          BY <5>2, <5>3 DEF j
      <4>4. x = <<b, x[2]>>
        BY <4>2
      <4> QED
        BY <1>5, <4>1, <4>2, <4>3, <4>4
    <3>4. pass'[t] = [kind |-> "backward", complete |-> FALSE,
                      seen |-> Append(pass[t].seen, <<b, m>>)]
      BY <1>11, <2>3, <2>6
    <3> QED
      BY <1>3, <1>11, <1>12, <2>2, <2>5, <2>6, <3>1, <3>2, <3>3, <3>4, PassComes
  <2>7. CASE pass[t].kind # "backward"
    BY <2>3, <2>5, <2>7, PassEnds
  <2> QED
    BY <2>5, <2>6, <2>7
<1>15. CASE Before(t) = {}
  <2>1. Move(t, "previous", b, Start) /\ Continue(t, "backward")
    BY <1>4, <1>15
  <2>2. /\ NextPass(t)
        /\ IF pass[t].kind = "backward" THEN pass'[t] = pass[t] ELSE pass'[t] = NoPass
    BY <2>1, PassGoesOn
  <2>3. "previous" \in Pc \ {"open"}
    BY DEF Pc
  <2>4. /\ Sound(t) /\ Locking(t)
        /\ pc'[t] = "previous" /\ at'[t].block = b /\ at'[t].slot = Start
    BY <1>3, <1>8, <1>9, <1>12, <2>1, <2>2, <2>3, Turning
  <2>5. CASE pass[t].kind = "backward"
    <3>1. Covered(t)'
      BY <1>3, <1>10, <1>11, <2>2, <2>4, <2>5 DEF Covered
    <3>2. Reading(t)'
      BY <2>4 DEF Reading
    <3>3. ASSUME NEW x \in (DOMAIN file) \X Slots
          PROVE  (x \in Way(t)' /\ IsFull(x)') <=> (x \in Way(t) /\ IsFull(x))
      <4>1. x[1] \in Nat /\ x[2] \in Int /\ 1 <= x[2] /\ Start \in Int
        <5>1. NumSlots \in Nat /\ Start = 0
          BY Sizes
        <5>2. x[1] \in DOMAIN file /\ x[2] \in 1..NumSlots
          BY DEF Slots
        <5>3. x[2] \in Int /\ 1 <= x[2]
          BY <5>1, <5>2
        <5>4. x[1] \in Nat
          <6>1. DOMAIN file \subseteq Blocks /\ Blocks \subseteq Nat
            BY <1>2, Sizes
          <6> QED
            BY <5>2, <6>1
        <5> QED
          BY <5>1, <5>3, <5>4
      <4>2. /\ IsFull(x)' <=> IsFull(x)
            /\ x \in Way(t) <=> x[1] > b \/ (x[1] = b /\ x[2] >= i)
            /\ x \in Way(t)' <=> x[1] > b \/ (x[1] = b /\ x[2] >= Start)
        BY <1>3, <1>11, <1>12, <2>2, <2>4, <2>5, <4>1, WayAfter
      <4>3. x[1] = b /\ x[2] < i => ~IsFull(x)
        <5>1. x[1] = b => x = <<b, x[2]>>
          OBVIOUS
        <5> QED
          BY <1>5, <1>15, <4>1, <5>1
      <4> QED
        BY <1>9, <1>12, <4>1, <4>2, <4>3
    <3>4. {x \in Way(t) : IsFull(x)}' = {x \in Way(t) : IsFull(x)}
      <4>1. \A x : (x \in Way(t) \/ x \in Way(t)') => x \in (DOMAIN file) \X Slots
        BY <1>3 DEF Way
      <4> QED
        BY <3>3, <4>1
    <3> QED
      BY <2>2, <2>4, <2>5, <3>1, <3>2, <3>4, PassStays
  <2>6. CASE pass[t].kind # "backward"
    BY <2>2, <2>4, <2>6, PassEnds
  <2> QED
    BY <2>4, <2>5, <2>6
<1> QED
  BY <1>14, <1>15

LEMMA PreviousBlockHolds ==
  ASSUME IInv, NEW t \in Tx, PreviousBlock(t)
  PROVE  Sound(t) /\ PassHolds(t)'
<1>1. TypeOK /\ Locks!Exclusion /\ Covered(t)
  BY DEF IInv, LocksHold, PassHolds
<1>2. /\ at[t].block \in DOMAIN file /\ DOMAIN file \subseteq Blocks
      /\ at[t].block \in Nat /\ Len(file) \in Nat /\ DOMAIN file = 1..Len(file)
  BY <1>1, Running, Types DEF PreviousBlock
<1> DEFINE b == at[t].block
<1>3. /\ at[t].slot = Start /\ UNCHANGED <<file, undo, row>> /\ held' = held
      /\ \/ b = 1 /\ Move(t, "idle", b, Start) /\ Passed(t, "backward")
         \/ b # 1 /\ Move(t, "previous", b - 1, End) /\ Continue(t, "backward")
  BY DEF PreviousBlock
<1>6. pass[t].kind = "backward" =>
        /\ \A c \in DOMAIN file : c > b => held'[t][c] # "none"
        /\ held'[t][b] # "none" /\ held'[t][EofBlock] # "none"
        /\ pass[t].complete => b = 1
  <2>1. End # Start
    BY Sizes
  <2> QED
    BY <1>1, <1>2, <1>3, <2>1 DEF Covered
<1> HIDE DEF b
<1>7. b = at[t].block /\ b \in DOMAIN file /\ b \in Nat /\ b \in 1..Len(file)
  BY <1>2 DEF b
<1>8. Start = 0 /\ End = NumSlots + 1 /\ NumSlots \in Nat /\ Start \in Start..End /\ End \in Start..End
  BY Sizes
<1>9. CASE b = 1
  <2>1. Move(t, "idle", b, Start) /\ Passed(t, "backward")
    BY <1>3, <1>9
  <2>2. /\ NextPass(t)
        /\ IF pass[t].kind = "backward"
           THEN /\ pass'[t].kind = "backward" /\ pass'[t].complete
                /\ pass'[t].seen = pass[t].seen
           ELSE pass'[t] = NoPass
    BY <2>1, PassGoesOn
  <2>3. "idle" \in Pc \ {"open"}
    BY DEF Pc
  <2>4. /\ Sound(t)
        /\ pc'[t] = "idle" /\ at'[t].block = b /\ at'[t].slot = Start
    BY <1>3, <1>7, <1>8, <2>1, <2>2, <2>3, Turning
  <2>5. CASE pass[t].kind = "backward"
    <3>1. Covered(t)'
      BY <1>3, <1>6, <1>9, <2>2, <2>4, <2>5 DEF Covered
    <3>2. Reading(t)'
      BY <2>4 DEF Reading
    <3> QED
      BY <1>3, <1>7, <1>9, <2>2, <2>4, <2>5, <3>1, <3>2, PassIsOver
  <2>6. CASE pass[t].kind # "backward"
    BY <2>2, <2>4, <2>6, PassEnds
  <2> QED
    BY <2>5, <2>6
<1>10. CASE b # 1
  <2>1. Move(t, "previous", b - 1, End) /\ Continue(t, "backward")
    BY <1>3, <1>10
  <2>2. /\ NextPass(t)
        /\ IF pass[t].kind = "backward" THEN pass'[t] = pass[t] ELSE pass'[t] = NoPass
    BY <2>1, PassGoesOn
  <2>3. "previous" \in Pc \ {"open"} /\ b - 1 \in DOMAIN file /\ b - 1 \in Nat
    BY <1>2, <1>7, <1>10 DEF Pc
  <2>4. /\ Sound(t)
        /\ pc'[t] = "previous" /\ at'[t].block = b - 1 /\ at'[t].slot = End
    BY <1>3, <1>7, <1>8, <2>1, <2>2, <2>3, Turning
  <2>5. CASE pass[t].kind = "backward"
    <3>1. ~pass[t].complete
      BY <1>6, <1>10, <2>5
    <3>2. \A c \in DOMAIN file : c > b - 1 => held'[t][c] # "none"
      <4>1. \A c \in DOMAIN file : c > b - 1 => c > b \/ c = b
        BY <1>2, <1>7
      <4> QED
        BY <1>6, <2>5, <4>1
    <3>3. Covered(t)'
      BY <1>3, <1>6, <2>2, <2>4, <2>5, <3>1, <3>2 DEF Covered
    <3>4. Reading(t)'
      BY <2>4 DEF Reading
    <3>5. ASSUME NEW x \in (DOMAIN file) \X Slots
          PROVE  (x \in Way(t)' /\ IsFull(x)') <=> (x \in Way(t) /\ IsFull(x))
      <4>1. x[1] \in Nat /\ x[2] \in Int /\ x[2] <= NumSlots /\ 1 <= x[2] /\ End \in Int
        BY <1>2, Sizes DEF Slots
      <4>2. /\ IsFull(x)' <=> IsFull(x)
            /\ x \in Way(t) <=> x[1] > b \/ (x[1] = b /\ x[2] >= Start)
            /\ x \in Way(t)' <=> x[1] > b - 1 \/ (x[1] = b - 1 /\ x[2] >= End)
        <5> DEFINE c == b - 1
        <5>1. at'[t].block = c /\ at'[t].slot = End /\ c \in Nat
          BY <2>3, <2>4
        <5> HIDE DEF c
        <5>2. /\ IsFull(x)' <=> IsFull(x)
              /\ x \in Way(t) <=> \/ x[1] > at[t].block
                                  \/ x[1] = at[t].block /\ x[2] >= at[t].slot
              /\ x \in Way(t)' <=> x[1] > c \/ (x[1] = c /\ x[2] >= End)
          BY <1>3, <2>2, <2>5, <3>1, <4>1, <5>1, WayAfter
        <5> QED
          BY <1>3, <1>7, <5>2 DEF c
      <4> QED
        BY <1>7, <1>8, <4>1, <4>2
    <3>6. {x \in Way(t) : IsFull(x)}' = {x \in Way(t) : IsFull(x)}
      <4>1. \A x : (x \in Way(t) \/ x \in Way(t)') => x \in (DOMAIN file) \X Slots
        BY <1>3 DEF Way
      <4> QED
        BY <3>5, <4>1
    <3> QED
      BY <2>2, <2>4, <2>5, <3>3, <3>4, <3>6, PassStays
  <2>6. CASE pass[t].kind # "backward"
    BY <2>2, <2>4, <2>6, PassEnds
  <2> QED
    BY <2>5, <2>6
<1> QED
  BY <1>9, <1>10

-----------------------------------------------------------------------------
(* The actions that change rows.                                           *)

LEMMA CoveredStays ==
  ASSUME IInv, NEW t \in Tx, Locking(t), DOMAIN file' = DOMAIN file, Len(file') = Len(file),
         at'[t] = at[t], pass'[t].kind = pass[t].kind, pass'[t].complete = pass[t].complete
  PROVE  Covered(t)'
<1>1. TypeOK /\ Covered(t)
  BY DEF IInv, PassHolds
<1>2. \A b \in Lock : held[t][b] # "none" => held'[t][b] # "none"
  BY DEF Locking
<1>3. DOMAIN file \subseteq Lock /\ Blocks \subseteq Lock /\ EofBlock \in Lock /\ at[t].block \in Lock
  BY <1>1, Types DEF Lock
<1> QED
  BY <1>1, <1>2, <1>3 DEF Covered

LEMMA InsertInBlockHolds ==
  ASSUME IInv, NEW t \in Tx, InsertInBlock(t)
  PROVE  Sound(t) /\ PassHolds(t)'
<1>1. TypeOK
  BY DEF IInv
<1>2. /\ at[t].block \in DOMAIN file /\ DOMAIN file \subseteq Blocks
      /\ at[t].block \in Blocks
      /\ at[t].slot \in Start..End /\ at[t].slot \in Int
  BY <1>1, Running, Types DEF InsertInBlock
<1> DEFINE b == at[t].block
           i == Min(After(t, FALSE))
           new == [file[b][i] EXCEPT !.full = TRUE, !.row = row + 1]
<1>3. /\ at[t].slot < NumSlots => CanRead(t, b)
      /\ row < MaxRows /\ EndPass(t)
      /\ \/ /\ After(t, FALSE) # {} /\ CanWrite(t, b)
            /\ WriteLock(t, b) /\ Write(t, b, i, new)
            /\ row' = row + 1 /\ Move(t, "idle", b, i)
         \/ /\ After(t, FALSE) # {} /\ ReadLock(t, b) /\ Move(t, "idle", b, at[t].slot)
            /\ UNCHANGED <<file, undo, row>>
         \/ /\ IF at[t].slot < NumSlots THEN ReadLock(t, b) ELSE UNCHANGED held
            /\ Move(t, "insert", b, End)
            /\ UNCHANGED <<file, undo, row>>
  BY DEF InsertInBlock
<1>4. /\ After(t, FALSE) \in SUBSET Nat /\ After(t, FALSE) \subseteq Slots
      /\ After(t, FALSE) # {} => at[t].slot < NumSlots
  BY <1>2, Sizes DEF After, Slots
<1>5. After(t, FALSE) # {} => i \in Slots
  BY <1>4, MinProperty
<1>6. NextPass(t) /\ pass'[t] = NoPass
  BY <1>1, <1>3, Types DEF NextPass, EndPass
<1>7. "idle" \in Pc \ {"open"} /\ "insert" \in Pc \ {"open"}
  BY DEF Pc
<1>8. i \in Slots => new \in Slot
  <2>1. i \in Slots => file[b][i] \in Slot
    BY <1>1, <1>2, Types
  <2>2. row + 1 \in 0..MaxRows
    BY <1>1, <1>3, Sizes DEF TypeOK
  <2> DEFINE old == file[b][i]
  <2> HIDE DEF old
  <2>3. old \in Slot => [old EXCEPT !.full = TRUE, !.row = row + 1] \in Slot
    BY <2>2 DEF Slot
  <2> QED
    BY <2>1, <2>3 DEF old
<1> HIDE DEF b, i, new
<1>9. b \in DOMAIN file /\ b \in Blocks
  BY <1>2 DEF b
<1>10. CASE /\ After(t, FALSE) # {} /\ CanWrite(t, b)
            /\ WriteLock(t, b) /\ Write(t, b, i, new)
            /\ row' = row + 1 /\ Move(t, "idle", b, i)
  <2>1. i \in Slots /\ i \in Start..End /\ new \in Slot /\ row' \in 0..MaxRows
    <3>1. i \in Slots
      BY <1>5, <1>10
    <3>2. row \in 0..MaxRows /\ row < MaxRows /\ row' = row + 1 /\ MaxRows \in Nat
      BY <1>1, <1>3, <1>10, Sizes DEF TypeOK
    <3>3. row' \in 0..MaxRows
      BY <3>2
    <3> QED
      BY <1>8, <3>1, <3>3, Sizes
  <2>2. /\ pc' \in [Tx -> Pc] /\ at' \in [Tx -> Position]
        /\ \A u \in Tx \ {t} : pc'[u] = pc[u] /\ at'[u] = at[u]
        /\ pc'[t] = "idle" /\ at'[t].block = b
    BY <1>1, <1>7, <1>9, <1>10, <2>1, MoveAlone
  <2>3. Alone(t)
    BY <1>1, <1>6, <2>2, PassAlone DEF Alone
  <2>4. Sound(t)
    BY <1>9, <1>10, <2>1, <2>2, <2>3, Writing
  <2> QED
    BY <1>6, <2>4, PassEnds
<1>11. CASE /\ After(t, FALSE) # {} /\ ReadLock(t, b) /\ Move(t, "idle", b, at[t].slot)
            /\ UNCHANGED <<file, undo, row>>
  <2>1. \E c \in DOMAIN file \cup {EofBlock} : CanRead(t, c) /\ ReadLock(t, c)
    BY <1>3, <1>4, <1>9, <1>11
  <2>2. Sound(t)
    BY <1>2, <1>6, <1>7, <1>9, <1>11, <2>1, Turning
  <2> QED
    BY <1>6, <2>2, PassEnds
<1>12. CASE /\ IF at[t].slot < NumSlots THEN ReadLock(t, b) ELSE UNCHANGED held
            /\ Move(t, "insert", b, End)
            /\ UNCHANGED <<file, undo, row>>
  <2>1. \/ held' = held
        \/ \E c \in DOMAIN file \cup {EofBlock} : CanRead(t, c) /\ ReadLock(t, c)
    BY <1>3, <1>9, <1>12
  <2>2. Sound(t)
    BY <1>6, <1>7, <1>9, <1>12, <2>1, Turning, Sizes
  <2> QED
    BY <1>6, <2>2, PassEnds
<1> QED
  BY <1>3, <1>10, <1>11, <1>12

LEMMA InsertInNextBlockHolds ==
  ASSUME IInv, NEW t \in Tx, InsertInNextBlock(t)
  PROVE  Sound(t) /\ PassHolds(t)'
<1>1. TypeOK /\ Locks!Exclusion /\ LocksHold
  BY DEF IInv, LocksHold
<1>2. /\ at[t].block \in DOMAIN file /\ DOMAIN file \subseteq Blocks
      /\ at[t].block \in Nat /\ Len(file) \in Nat /\ DOMAIN file = 1..Len(file)
  BY <1>1, Running, Types DEF InsertInNextBlock
<1> DEFINE b == at[t].block
<1>3. /\ CanRead(t, EofBlock) /\ EndPass(t) /\ UNCHANGED <<undo, row>>
      /\ \/ /\ b # Len(file) /\ ReadLock(t, EofBlock)
            /\ Move(t, "insert", b + 1, Start) /\ UNCHANGED file
         \/ /\ b = Len(file) /\ b < MaxBlocks /\ CanWrite(t, EofBlock) /\ WriteLock(t, EofBlock)
            /\ file' = Append(file, Zeros) /\ Move(t, "insert", b + 1, Start)
         \/ /\ b = Len(file) /\ ReadLock(t, EofBlock)
            /\ Move(t, "idle", b, End) /\ UNCHANGED file
  BY DEF InsertInNextBlock
<1>4. NextPass(t) /\ pass'[t] = NoPass
  BY <1>1, <1>3, Types DEF NextPass, EndPass
<1>5. "idle" \in Pc \ {"open"} /\ "insert" \in Pc \ {"open"}
  BY DEF Pc
<1> HIDE DEF b
<1>6. b \in DOMAIN file /\ b \in Nat
  BY <1>2 DEF b
<1>7. CASE /\ b # Len(file) /\ ReadLock(t, EofBlock)
           /\ Move(t, "insert", b + 1, Start) /\ UNCHANGED file
  <2> DEFINE c == b + 1
  <2>1. c \in DOMAIN file /\ Move(t, "insert", c, Start)
    BY <1>2, <1>6, <1>7
  <2> HIDE DEF c
  <2>2. \E d \in DOMAIN file \cup {EofBlock} : CanRead(t, d) /\ ReadLock(t, d)
    BY <1>3, <1>7
  <2>3. Sound(t)
    BY <1>3, <1>4, <1>5, <1>7, <2>1, <2>2, Turning, Sizes
  <2> QED
    BY <1>4, <2>3, PassEnds
<1>8. CASE /\ b = Len(file) /\ b < MaxBlocks /\ CanWrite(t, EofBlock) /\ WriteLock(t, EofBlock)
           /\ file' = Append(file, Zeros) /\ Move(t, "insert", b + 1, Start)
  <2> DEFINE c == b + 1
  <2>1. c \in Blocks /\ Move(t, "insert", c, Start) /\ c = Len(file) + 1
    BY <1>2, <1>6, <1>8, Sizes DEF Blocks
  <2> HIDE DEF c
  <2>2. /\ pc' \in [Tx -> Pc] /\ at' \in [Tx -> Position]
        /\ \A u \in Tx \ {t} : pc'[u] = pc[u] /\ at'[u] = at[u]
        /\ pc'[t] = "insert" /\ at'[t].block = c
    BY <1>1, <1>5, <2>1, MoveAlone, Sizes
  <2>3. Alone(t)
    BY <1>1, <1>4, <2>2, PassAlone DEF Alone
  <2>4. Locking(t) /\ \A d \in Lock \ {EofBlock} : held'[t][d] = held[t][d]
    BY <1>1, <1>8, WriteLocking DEF Lock
  <2>5. \A d \in Blocks : held'[t][d] # "none" => d \in DOMAIN file
    BY <1>1, <2>4, Sizes DEF LocksHold, Lock
  <2>6. Sound(t)
    BY <1>3, <1>8, <2>1, <2>2, <2>3, <2>4, <2>5, Extending
  <2> QED
    BY <1>4, <2>6, PassEnds
<1>9. CASE /\ b = Len(file) /\ ReadLock(t, EofBlock)
           /\ Move(t, "idle", b, End) /\ UNCHANGED file
  <2>1. \E d \in DOMAIN file \cup {EofBlock} : CanRead(t, d) /\ ReadLock(t, d)
    BY <1>3, <1>9
  <2>2. Sound(t)
    BY <1>3, <1>4, <1>5, <1>6, <1>9, <2>1, Turning, Sizes
  <2> QED
    BY <1>4, <2>2, PassEnds
<1> QED
  BY <1>3, <1>7, <1>8, <1>9

\* A scan that is on a row and changes it stays where it is.
LEMMA RowChanged ==
  ASSUME IInv, NEW t \in Tx, OnRow(t), NEW s \in Slot,
         NEW b, b = at[t].block, NEW i, i = at[t].slot,
         CanWrite(t, b), WriteLock(t, b), Write(t, b, i, s),
         UNCHANGED <<pc, at, row>>, NextPass(t)
  PROVE  /\ Sound(t) /\ Locking(t) /\ Reading(t)
         /\ DOMAIN file' = DOMAIN file /\ Len(file') = Len(file)
         /\ Here(t) = <<b, i>> /\ Here(t) \in (DOMAIN file) \X Slots /\ IsFull(Here(t))
         /\ \A x \in (DOMAIN file) \X Slots :
              IsFull(x)' <=> IF x = Here(t) THEN s.full ELSE IsFull(x)
<1>1. TypeOK /\ LocksHold /\ Locks!Exclusion
  BY DEF IInv, LocksHold
<1>2. Reading(t) /\ b \in DOMAIN file /\ i \in Slots /\ DOMAIN file \subseteq Blocks
  BY <1>1, Running, Types DEF OnRow
<1>3. Alone(t)
  BY <1>1, PassAlone, Types DEF Alone
<1>4. pc'[t] # "open" /\ (Reading(t)' => at'[t].block \in DOMAIN file) /\ row' \in 0..MaxRows
  BY <1>1, <1>2 DEF Reading, TypeOK
<1>5. /\ Sound(t) /\ DOMAIN file' = DOMAIN file /\ Len(file') = Len(file)
      /\ \A c \in DOMAIN file \ {b} : file'[c] = file[c]
      /\ \A j \in Slots : file'[b][j] = IF j = i THEN s ELSE file[b][j]
  BY <1>2, <1>3, <1>4, Writing
<1>6. Locking(t)
  BY <1>1, <1>2, WriteLocking DEF Lock
<1>7. Here(t) = <<b, i>> /\ IsFull(Here(t))
  BY DEF Here, OnRow, IsFull
<1>8. \A x \in (DOMAIN file) \X Slots :
        IsFull(x)' <=> IF x = <<b, i>> THEN s.full ELSE IsFull(x)
  <2> TAKE x \in (DOMAIN file) \X Slots
  <2>1. x[1] \in DOMAIN file /\ x[2] \in Slots /\ (x = <<b, i>> <=> x[1] = b /\ x[2] = i)
    OBVIOUS
  <2> QED
    BY <1>5, <2>1 DEF IsFull
<1> QED
  BY <1>2, <1>5, <1>6, <1>7, <1>8

LEMMA SetHolds ==
  ASSUME IInv, NEW t \in Tx, NEW v \in Field, Set(t, v)
  PROVE  Sound(t) /\ PassHolds(t)'
<1> DEFINE b == at[t].block
           i == at[t].slot
           old == file[b][i]
           new == [old EXCEPT !.field = v]
<1>1. /\ OnRow(t) /\ CanWrite(t, b) /\ WriteLock(t, b) /\ Write(t, b, i, new)
      /\ UNCHANGED <<pc, at, row, pass>>
  BY DEF Set
<1>2. old \in Slot /\ old.full
  BY <1>1, Running, Types DEF OnRow, IInv
<1> HIDE DEF old
<1>3. new \in Slot /\ new.full
  BY <1>2 DEF Slot
<1>4. b = at[t].block /\ i = at[t].slot
  OBVIOUS
<1>5. NextPass(t)
  BY <1>1 DEF NextPass
<1> HIDE DEF b, i, new
<1>6. /\ Sound(t) /\ Locking(t) /\ Reading(t)
      /\ DOMAIN file' = DOMAIN file /\ Len(file') = Len(file)
      /\ IsFull(Here(t))
      /\ \A x \in (DOMAIN file) \X Slots :
           IsFull(x)' <=> IF x = Here(t) THEN new.full ELSE IsFull(x)
  BY <1>1, <1>3, <1>4, <1>5, RowChanged
<1>7. Covered(t)' /\ Reading(t)'
  BY <1>1, <1>6, CoveredStays DEF Reading
<1>8. {x \in Way(t) : IsFull(x)}' = {x \in Way(t) : IsFull(x)}
  <2>1. \A x : Behind(t, x)' <=> Behind(t, x)
    BY <1>1 DEF Behind, Here
  <2>2. Way(t)' = Way(t)
    BY <1>1, <1>6, <2>1 DEF Way
  <2>3. \A x \in Way(t) : IsFull(x)' <=> IsFull(x)
    BY <1>3, <1>6 DEF Way
  <2> QED
    BY <2>2, <2>3
<1> QED
  BY <1>1, <1>6, <1>7, <1>8, PassStays

LEMMA DeleteHolds ==
  ASSUME IInv, NEW t \in Tx, Delete(t)
  PROVE  Sound(t) /\ PassHolds(t)'
<1> DEFINE b == at[t].block
           i == at[t].slot
           old == file[b][i]
           new == [old EXCEPT !.full = FALSE, !.row = 0]
<1>1. /\ OnRow(t) /\ CanWrite(t, b) /\ WriteLock(t, b) /\ Write(t, b, i, new)
      /\ Forget(t) /\ UNCHANGED <<pc, at, row>>
  BY DEF Delete
<1>2. old \in Slot
  BY <1>1, Running, Types DEF OnRow, IInv
<1> HIDE DEF old
<1>3. new \in Slot /\ ~new.full
  <2>1. 0 \in 0..MaxRows
    BY Sizes
  <2> QED
    BY <1>2, <2>1 DEF Slot
<1>4. b = at[t].block /\ i = at[t].slot
  OBVIOUS
<1>5. NextPass(t)
  BY <1>1 DEF NextPass
<1> HIDE DEF b, i, new
<1>6. /\ Sound(t) /\ Locking(t) /\ Reading(t)
      /\ DOMAIN file' = DOMAIN file /\ Len(file') = Len(file)
      /\ Here(t) \in (DOMAIN file) \X Slots /\ IsFull(Here(t))
      /\ \A x \in (DOMAIN file) \X Slots :
           IsFull(x)' <=> IF x = Here(t) THEN new.full ELSE IsFull(x)
  BY <1>1, <1>3, <1>4, <1>5, RowChanged
<1>7. Here(t)' = Here(t)
  BY <1>1 DEF Here
<1>8. ~IsFull(Here(t))'
  BY <1>3, <1>6, <1>7 DEF IsFull
<1>9. pass'[t].kind = pass[t].kind /\ pass'[t].complete = pass[t].complete
  BY <1>1, Types DEF Forget, Pass, IInv
<1>10. Covered(t)' /\ Reading(t)'
  BY <1>1, <1>6, <1>9, CoveredStays DEF Reading
<1>11. pass[t].kind # "none" => ~pass[t].complete
  <2>1. i \in Slots
    BY <1>1 DEF OnRow, i
  <2>2. i # Start /\ i # End
    BY <2>1, Sizes DEF Slots
  <2> QED
    BY <2>2, Types DEF IInv, PassHolds, Covered, Pass, i
<1> QED
  BY <1>1, <1>6, <1>7, <1>8, <1>10, <1>11, PassForgets

-----------------------------------------------------------------------------
(* Ending.                                                                 *)

LEMMA CommitHolds ==
  ASSUME IInv, NEW t \in Tx, Commit(t)
  PROVE  Sound(t) /\ PassHolds(t)'
<1>1. Finish(t) /\ file' = file
  BY DEF Commit
<1>2. file \in Seq([Slots -> Slot])
  BY Types DEF IInv
<1> QED
  BY <1>1, <1>2, Ending

LEMMA RollbackHolds ==
  ASSUME IInv, NEW t \in Tx, Rollback(t)
  PROVE  Sound(t) /\ PassHolds(t)'
<1>1. TypeOK /\ LocksHold
  BY DEF IInv
<1>2. /\ Len(file) \in Nat /\ DOMAIN file = 1..Len(file)
      /\ \A b \in DOMAIN file : file[b] \in [Slots -> Slot]
  BY <1>1, Types
<1> DEFINE back(b, i) == IF <<b, i>> \in DOMAIN undo[t] THEN undo[t][<<b, i>>] ELSE file[b][i]
           block(b) == [i \in Slots |-> back(b, i)]
<1>3. Finish(t) /\ file' = [b \in 1..Len(file) |-> block(b)]
  BY <1>2 DEF Rollback
<1>4. ASSUME NEW b \in DOMAIN file
      PROVE  /\ block(b) \in [Slots -> Slot]
             /\ block(b) = file[b] \/ held[t][b] = "exclusive"
  <2>1. file[b] \in [Slots -> Slot]
    BY <1>2
  <2>2. \A i \in Slots : back(b, i) \in Slot
    <3>1. undo[t] \in [DOMAIN undo[t] -> Slot]
      BY <1>1 DEF TypeOK
    <3> QED
      BY <2>1, <3>1
  <2>3. CASE \E i \in Slots : <<b, i>> \in DOMAIN undo[t]
    <3>1. PICK i : i \in Slots /\ <<b, i>> \in DOMAIN undo[t]
      BY <2>3
    <3>2. held[t][b] = "exclusive"
      BY <1>1, <3>1 DEF LocksHold
    <3> QED
      BY <2>2, <3>2
  <2>4. CASE ~ \E i \in Slots : <<b, i>> \in DOMAIN undo[t]
    <3>1. block(b) = [i \in Slots |-> file[b][i]]
      BY <2>4
    <3>2. [i \in Slots |-> file[b][i]] = file[b]
      BY <2>1
    <3> QED
      BY <2>1, <3>1, <3>2
  <2> QED
    BY <2>3, <2>4
<1> HIDE DEF block
<1>5. file' \in Seq([Slots -> Slot]) /\ Len(file') = Len(file)
  <2>1. \A b \in 1..Len(file) : block(b) \in [Slots -> Slot]
    BY <1>2, <1>4
  <2> QED
    BY <1>2, <1>3, <2>1, IsASeq
<1>6. \A b \in DOMAIN file : file'[b] = file[b] \/ held[t][b] = "exclusive"
  BY <1>2, <1>3, <1>4
<1> QED
  BY <1>3, <1>5, <1>6, Ending

-----------------------------------------------------------------------------
(* The theorems.                                                           *)

\* The inductive invariant holds in every state: the locks are what makes a pass
\* of a scan exact, those of the blocks that it has read for the rows behind it
\* and that of the end of the file for the rows that are still to come.
THEOREM Invariance == Spec => []IInv
<1>1. Init => IInv
  <2> SUFFICES ASSUME Init PROVE IInv
    OBVIOUS
  <2> DEFINE z == Zeros[1]
             nothing == [x \in {} |-> z]
             start == [block |-> 1, slot |-> Start]
  <2>1. start \in Position /\ NoPass \in Pass
    BY Sizes, PassTypes DEF Position
  <2>2. /\ file = <<>> /\ pc = [t \in Tx |-> "closed"]
        /\ at = [t \in Tx |-> start] /\ undo = [t \in Tx |-> nothing]
        /\ row = 0 /\ pass = [t \in Tx |-> NoPass]
    BY DEF Init
  <2>3. held = [t \in Tx |-> [b \in Lock |-> "none"]]
    BY DEF Init, Locks!Init, Lock
  <2>4. DOMAIN nothing = {} /\ nothing \in [DOMAIN nothing -> Slot]
    <3> HIDE DEF z
    <3> QED
      OBVIOUS
  <2> HIDE DEF nothing, start
  <2>5. Len(file) = 0 /\ file \in Seq([Slots -> Slot])
    BY <2>2, EmptySeq
  <2>6. TypeOK
    <3>1. held \in Locks!Held
      BY <2>3 DEF Locks!Held, Locks!Mode, Lock
    <3>2. \A t \in Tx : /\ DOMAIN undo[t] \subseteq (DOMAIN file) \X Slots
                        /\ undo[t] \in [DOMAIN undo[t] -> Slot]
      BY <2>2, <2>4
    <3>3. Len(file) <= MaxBlocks /\ row \in 0..MaxRows
      BY <2>2, <2>5, Sizes
    <3>4. /\ pc \in [Tx -> Pc] /\ at \in [Tx -> Position] /\ pass \in [Tx -> Pass]
          /\ DOMAIN undo = Tx
          /\ \A t \in Tx : pc[t] = "closed"
      BY <2>1, <2>2 DEF Pc
    <3> QED
      BY <2>5, <3>1, <3>2, <3>3, <3>4 DEF TypeOK, Pc, Position, Pass
  <2>7. LocksHold
    BY <2>2, <2>3, <2>4 DEF LocksHold, Locks!Exclusion, Lock
  <2>8. \A t \in Tx : PassHolds(t)
    BY <2>2, PassTypes DEF PassHolds, Covered, Exact
  <2> QED
    BY <2>6, <2>7, <2>8 DEF IInv
<1>2. IInv /\ [Next]_vars => IInv'
  <2> SUFFICES ASSUME IInv, [Next]_vars PROVE IInv'
    OBVIOUS
  <2>1. CASE UNCHANGED vars
    <3>1. TypeOK'
      BY <2>1 DEF vars, IInv, TypeOK, Locks!Held
    <3>2. LocksHold'
      BY <2>1 DEF vars, IInv, LocksHold, Locks!Exclusion
    <3>3. ASSUME NEW t \in Tx PROVE PassHolds(t)'
      <4>1. Locking(t)
        BY <2>1, SameLocks DEF vars, IInv, LocksHold
      <4>2. Reading(t)' \/ pass[t].kind = "none"
        BY <2>1 DEF vars, IInv, PassHolds, Reading
      <4> QED
        BY <2>1, <4>1, <4>2, ScanStays DEF vars
    <3> QED
      BY <3>1, <3>2, <3>3 DEF IInv
  <2>2. ASSUME NEW t \in Tx, Sound(t), PassHolds(t)'
        PROVE  IInv'
    <3>1. \A u \in Tx \ {t} : PassHolds(u)'
      BY <2>2, OthersPass
    <3> QED
      BY <2>2, <3>1 DEF IInv, Sound
  <2>3. CASE Next
    <3>1. PICK t \in Tx :
            \/ Open(t) \/ OpenNew(t) \/ OpenFails(t) \/ BeforeFirst(t) \/ AfterLast(t)
            \/ \E b \in DOMAIN file, i \in Slots : MoveTo(t, b, i)
            \/ NextInBlock(t) \/ NextBlock(t) \/ PreviousInBlock(t) \/ PreviousBlock(t)
            \/ InsertInBlock(t) \/ InsertInNextBlock(t)
            \/ \E v \in Field : Set(t, v)
            \/ Delete(t) \/ GiveUp(t) \/ Commit(t) \/ Rollback(t)
      BY <2>3 DEF Next
    <3>2. CASE Open(t)
      BY <2>2, <3>2, OpenHolds
    <3>3. CASE OpenNew(t)
      BY <2>2, <3>3, OpenNewHolds
    <3>4. CASE OpenFails(t) \/ GiveUp(t)
      BY <2>2, <3>4, GiveUpHolds
    <3>5. CASE BeforeFirst(t)
      BY <2>2, <3>5, BeforeFirstHolds
    <3>6. CASE AfterLast(t)
      BY <2>2, <3>6, AfterLastHolds
    <3>7. CASE \E b \in DOMAIN file, i \in Slots : MoveTo(t, b, i)
      BY <2>2, <3>7, MoveToHolds
    <3>8. CASE NextInBlock(t)
      BY <2>2, <3>8, NextInBlockHolds
    <3>9. CASE NextBlock(t)
      BY <2>2, <3>9, NextBlockHolds
    <3>10. CASE PreviousInBlock(t)
      BY <2>2, <3>10, PreviousInBlockHolds
    <3>11. CASE PreviousBlock(t)
      BY <2>2, <3>11, PreviousBlockHolds
    <3>12. CASE InsertInBlock(t)
      BY <2>2, <3>12, InsertInBlockHolds
    <3>13. CASE InsertInNextBlock(t)
      BY <2>2, <3>13, InsertInNextBlockHolds
    <3>14. CASE \E v \in Field : Set(t, v)
      BY <2>2, <3>14, SetHolds
    <3>15. CASE Delete(t)
      BY <2>2, <3>15, DeleteHolds
    <3>16. CASE Commit(t)
      BY <2>2, <3>16, CommitHolds
    <3>17. CASE Rollback(t)
      BY <2>2, <3>17, RollbackHolds
    <3> QED
      BY <3>1, <3>2, <3>3, <3>4, <3>5, <3>6, <3>7, <3>8, <3>9, <3>10, <3>11, <3>12, <3>13,
         <3>14, <3>15, <3>16, <3>17
  <2> QED
    BY <2>1, <2>3
<1> QED
  BY <1>1, <1>2, PTL DEF Spec

\* The variables keep their types, a scan is on a block of the file, and what a
\* transaction would put back is in the file.
THEOREM TypeCorrect == Spec => []TypeOK
<1>1. IInv => TypeOK
  BY DEF IInv
<1> QED
  BY <1>1, Invariance, PTL

\* A scan that goes on in one direction misses no row and comes to none twice,
\* and nobody adds or removes one behind it, whatever the other transactions do.
THEOREM PassCorrect == Spec => []PassIsExact
<1>1. IInv => PassIsExact
  <2> SUFFICES ASSUME IInv, NEW t \in Tx, pass[t].kind # "none"
               PROVE  /\ {pass[t].seen[k] : k \in DOMAIN pass[t].seen} =
                          {x \in Full : pass[t].complete \/ Behind(t, x)}
                      /\ InOrder(pass[t].kind, pass[t].seen)
    BY Zenon DEF PassIsExact, Behind, InOrder, Earlier, Here
  <2>1. /\ Elements(pass[t].seen) = {x \in Way(t) : IsFull(x)}
        /\ InOrder(pass[t].kind, pass[t].seen)
    BY DEF IInv, PassHolds, Exact
  <2>2. {x \in Way(t) : IsFull(x)} = {x \in Full : pass[t].complete \/ Behind(t, x)}
    BY DEF Way, Full, IsFull
  <2> QED
    BY <2>1, <2>2 DEF Elements
<1> QED
  BY <1>1, Invariance, PTL

-----------------------------------------------------------------------------
(* The rows of the slots.                                                  *)

\* What slots contain and contained, N and O, when n rows have been inserted:
\* a slot is in use if it has a row, and a row is in no two slots.
InPlace(C, N, O, n) ==
  /\ \A x \in C : \A s \in {N[x], O[x]} : s \in Slot /\ (s.full <=> s.row # 0) /\ s.row <= n
  /\ \A x, y \in C : \A s \in {N[x], O[x]}, u \in {N[y], O[y]} :
       s.row = u.row /\ s.row # 0 => x = y

RowsInPlace == InPlace(Cells, Contents, Originals, row)

\* What transactions would put back is what was there before.
UndoHolds ==
  /\ \A x \in Cells : /\ Contents[x] = file[x[1]][x[2]]
                      /\ Contents[x] \in Slot /\ Originals[x] \in Slot
  /\ \A t \in Tx : /\ DOMAIN undo[t] \subseteq Cells
                   /\ \A x \in DOMAIN undo[t] : Originals[x] = undo[t][x]
  /\ \A x \in Cells : (\A t \in Tx : x \notin DOMAIN undo[t]) => Originals[x] = Contents[x]
  /\ \A t, u \in Tx : t # u => DOMAIN undo[t] \cap DOMAIN undo[u] = {}

LEMMA Undoing == IInv => UndoHolds
<1> SUFFICES ASSUME IInv PROVE UndoHolds
  OBVIOUS
<1>1. TypeOK /\ LocksHold
  BY DEF IInv
<1>2. /\ DOMAIN file \subseteq Blocks /\ \A b \in DOMAIN file : file[b] \in [Slots -> Slot]
  BY <1>1, Types
<1>3. \A t \in Tx : DOMAIN undo[t] \subseteq Cells /\ undo[t] \in [DOMAIN undo[t] -> Slot]
  BY <1>1 DEF TypeOK, Cells
<1>4. \A x \in Cells : x[1] \in DOMAIN file /\ x[2] \in Slots
  BY DEF Cells
<1>5. \A x \in Cells : Contents[x] = file[x[1]][x[2]] /\ Contents[x] \in Slot
  BY <1>2, <1>4 DEF Contents
<1>6. ASSUME NEW t \in Tx, NEW u \in Tx, t # u, NEW x \in DOMAIN undo[t] PROVE x \notin DOMAIN undo[u]
  <2>1. x[1] \in Lock
    BY <1>2, <1>3, <1>4, <1>6 DEF Lock
  <2>2. held[t][x[1]] = "exclusive"
    BY <1>1, <1>6 DEF LocksHold
  <2>3. held[u][x[1]] = "none"
    BY <1>1, <1>6, <2>1, <2>2 DEF LocksHold, Locks!Exclusion, Lock
  <2> QED
    BY <1>1, <1>6, <2>3 DEF LocksHold
<1>7. ASSUME NEW x \in Cells
      PROVE  /\ Originals[x] \in Slot
             /\ \A t \in Tx : x \in DOMAIN undo[t] => Originals[x] = undo[t][x]
             /\ (\A t \in Tx : x \notin DOMAIN undo[t]) => Originals[x] = Contents[x]
  <2> DEFINE by == {t \in Tx : x \in DOMAIN undo[t]}
  <2>1. Originals[x] = IF by = {} THEN file[x[1]][x[2]] ELSE undo[CHOOSE t \in by : TRUE][x]
    BY DEF Originals
  <2>2. by # {} => (CHOOSE t \in by : TRUE) \in by
    OBVIOUS
  <2>3. \A t \in by : by = {t}
    BY <1>6
  <2> QED
    BY <1>3, <1>5, <2>1, <2>2, <2>3
<1> QED
  BY <1>3, <1>5, <1>6, <1>7 DEF UndoHolds

LEMMA UndoingNext == IInv' => UndoHolds'
BY Undoing, PTL

Distinct(S, N) == \A x, y \in S : N[x].full /\ N[y].full /\ N[x].row = N[y].row => x = y

\* The rows that the slots S have when they contain N.
RowsMap(f, S, N) ==
  /\ f = [r \in DOMAIN f |-> f[r]]
  /\ \A r : r \in DOMAIN f <=> \E x \in S : N[x].full /\ N[x].row = r
  /\ \A x \in S : N[x].full => f[N[x].row] = N[x].field

LEMMA InRows ==
  ASSUME NEW S, NEW N, Distinct(S, N)
  PROVE  RowsMap(RowsIn(S, N), S, N)
<1> DEFINE used == InUse(S, N)
           found(r) == CHOOSE x \in used : N[x].row = r
<1>1. RowsIn(S, N) = [r \in {N[x].row : x \in used} |-> N[found(r)].field]
  BY DEF RowsIn
<1>2. \A x, y \in used : N[x].row = N[y].row => x = y
  BY DEF InUse, Distinct
<1>3. \A x : x \in used <=> x \in S /\ N[x].full
  BY DEF InUse
<1> HIDE DEF used
<1>4. ASSUME NEW x \in used PROVE found(N[x].row) = x
  <2>1. found(N[x].row) \in used /\ N[found(N[x].row)].row = N[x].row
    OBVIOUS
  <2> QED
    BY <1>2, <2>1
<1> HIDE DEF found
<1>5. PICK f : f = RowsIn(S, N)
  OBVIOUS
<1>6. /\ f = [r \in DOMAIN f |-> f[r]]
      /\ \A r : r \in DOMAIN f <=> \E x \in used : N[x].row = r
      /\ \A x \in used : f[N[x].row] = N[x].field
  BY <1>1, <1>4, <1>5
<1> QED
  BY <1>3, <1>5, <1>6 DEF RowsMap

\* The changed rows, when the slots D contained O and now contain N.
ChangedMap(f, D, N, O) ==
  /\ f = [r \in DOMAIN f |-> f[r]]
  /\ \A r : r \in DOMAIN f <=> \E x \in D : \/ N[x].full /\ N[x].row = r
                                            \/ O[x].full /\ O[x].row = r
  /\ \A x \in D : N[x].full => f[N[x].row] = N[x].field
  /\ \A x \in D : O[x].full /\ (\A y \in D : N[y].full => N[y].row # O[x].row)
                    => f[O[x].row] = Gone

Maps ==
  /\ RowsMap(CommittedRows, Cells, Originals)
  /\ \A t \in Tx : ChangedMap(ChangedRows(t), DOMAIN undo[t], Contents, Originals)

LEMMA Mapping == UndoHolds /\ RowsInPlace => Maps
<1> SUFFICES ASSUME UndoHolds, RowsInPlace PROVE Maps
  OBVIOUS
<1>1. RowsMap(CommittedRows, Cells, Originals)
  <2>1. Distinct(Cells, Originals)
    BY DEF RowsInPlace, InPlace, Distinct
  <2> QED
    BY <2>1, InRows DEF CommittedRows
<1>2. ASSUME NEW t \in Tx
      PROVE  ChangedMap(ChangedRows(t), DOMAIN undo[t], Contents, Originals)
  <2> DEFINE D == DOMAIN undo[t]
             own == RowsIn(D, Contents)
             old == RowsIn(D, undo[t])
             f == [r \in DOMAIN own \cup DOMAIN old |-> IF r \in DOMAIN own THEN own[r] ELSE Gone]
  <2>1. D \subseteq Cells /\ \A x \in D : undo[t][x] = Originals[x]
    BY DEF UndoHolds
  <2>2. Distinct(D, Contents) /\ Distinct(D, undo[t])
    BY <2>1 DEF RowsInPlace, InPlace, Distinct
  <2>3. RowsMap(own, D, Contents) /\ RowsMap(old, D, undo[t])
    BY <2>2, InRows
  <2>4. ChangedRows(t) = f
    BY DEF ChangedRows
  <2> HIDE DEF own, old, D
  <2>5. /\ \A r : r \in DOMAIN own <=> \E x \in D : Contents[x].full /\ Contents[x].row = r
        /\ \A x \in D : Contents[x].full => own[Contents[x].row] = Contents[x].field
    BY <2>3 DEF RowsMap
  <2>6. \A r : r \in DOMAIN old <=> \E x \in D : Originals[x].full /\ Originals[x].row = r
    BY <2>1, <2>3 DEF RowsMap
  <2>7. PICK g : g = f
    OBVIOUS
  <2>8. /\ g = [r \in DOMAIN g |-> g[r]] /\ DOMAIN g = DOMAIN own \cup DOMAIN old
        /\ \A r \in DOMAIN g : g[r] = IF r \in DOMAIN own THEN own[r] ELSE Gone
    BY <2>7
  <2>9. ChangedMap(g, D, Contents, Originals)
    BY <2>5, <2>6, <2>8 DEF ChangedMap
  <2> QED
    BY <2>4, <2>7, <2>9 DEF D
<1> QED
  BY <1>1, <1>2 DEF Maps

LEMMA MappingNext == UndoHolds' /\ RowsInPlace' => Maps'
BY Mapping, PTL

LEMMA SameFunction ==
  ASSUME NEW f, NEW g, f = [r \in DOMAIN f |-> f[r]], g = [r \in DOMAIN g |-> g[r]],
         \A r : r \in DOMAIN f <=> r \in DOMAIN g, \A r \in DOMAIN f : f[r] = g[r]
  PROVE  f = g
<1>1. DOMAIN f = DOMAIN g
  OBVIOUS
<1> QED
  BY <1>1

\* Rows that are in the same slots as before.
LEMMA SameRows ==
  ASSUME NEW f, NEW g, NEW S, NEW N, NEW S2, NEW N2, RowsMap(f, S, N), RowsMap(g, S2, N2),
         \A x \in S : N[x].full => x \in S2 /\ N2[x] = N[x],
         \A x \in S2 : N2[x].full => x \in S /\ N2[x] = N[x]
  PROVE  g = f
<1>1. /\ f = [r \in DOMAIN f |-> f[r]] /\ g = [r \in DOMAIN g |-> g[r]]
      /\ \A r : r \in DOMAIN f <=> r \in DOMAIN g
      /\ \A r \in DOMAIN f : f[r] = g[r]
  BY DEF RowsMap
<1> QED
  BY <1>1, SameFunction

LEMMA SameChanges ==
  ASSUME NEW f, NEW g, NEW D, NEW N, NEW O, NEW N2, NEW O2,
         ChangedMap(f, D, N, O), ChangedMap(g, D, N2, O2),
         \A x \in D : N2[x] = N[x] /\ O2[x] = O[x]
  PROVE  g = f
<1>1. \A r : r \in DOMAIN f <=> r \in DOMAIN g
  BY DEF ChangedMap
<1>2. ASSUME NEW r \in DOMAIN f PROVE f[r] = g[r]
  <2>1. CASE \E x \in D : N[x].full /\ N[x].row = r
    BY <2>1 DEF ChangedMap
  <2>2. CASE \A x \in D : N[x].full => N[x].row # r
    <3>1. PICK x \in D : O[x].full /\ O[x].row = r
      BY <1>2, <2>2 DEF ChangedMap
    <3> QED
      BY <2>2, <3>1 DEF ChangedMap
  <2> QED
    BY <2>1, <2>2
<1>3. f = [r \in DOMAIN f |-> f[r]] /\ g = [r \in DOMAIN g |-> g[r]]
  BY DEF ChangedMap
<1> QED
  BY <1>1, <1>2, <1>3, SameFunction

\* A transaction with slots D writes s to slot x, and N becomes N2.
Writes(C, D, N, O, N2, x, s) ==
  /\ D \subseteq C /\ x \in C
  /\ x \notin D => O[x] = N[x]
  /\ \A y \in C : N2[y] = IF y = x THEN s ELSE N[y]

\* What is written is the row that slot x has, or one that no slot has or had.
Puts(C, N, O, x, s) ==
  /\ s.full
  /\ IF N[x].full THEN s.row = N[x].row
     ELSE \A y \in C : N[y].row # s.row /\ O[y].row # s.row

\* A row that is new, or is in the slot already, contains what was written.
LEMMA WithRow ==
  ASSUME NEW f, NEW g, NEW C, NEW D, NEW N, NEW O, NEW N2, NEW n, NEW x, NEW s,
         InPlace(C, N, O, n), Writes(C, D, N, O, N2, x, s), Puts(C, N, O, x, s),
         ChangedMap(f, D, N, O), ChangedMap(g, D \cup {x}, N2, O)
  PROVE  g = Rows!With(f, s.row, s.field)
<1> DEFINE k == s.row
           w == Rows!With(f, k, s.field)
<1>1. /\ D \subseteq C /\ x \in C /\ N2[x] = s
      /\ \A y \in D : y # x => N2[y] = N[y]
      /\ x \notin D => O[x] = N[x]
  BY DEF Writes
<1>2. \A y \in C : y # x => N[y].row # k \/ ~N[y].full
  BY <1>1 DEF InPlace, Puts
<1>3. \A y \in C : y # x => O[y].row # k \/ ~O[y].full
  BY <1>1 DEF InPlace, Puts
<1>4. \A r : r \in DOMAIN g <=> r \in DOMAIN f \/ r = k
  <2>1. ASSUME NEW r, r \in DOMAIN f PROVE r \in DOMAIN g
    <3>1. PICK y \in D : (N[y].full /\ N[y].row = r) \/ (O[y].full /\ O[y].row = r)
      BY <2>1 DEF ChangedMap
    <3>2. N[x].full => s.row = N[x].row
      BY DEF Puts
    <3> QED
      BY <1>1, <3>1, <3>2 DEF ChangedMap, Puts
  <2>2. k \in DOMAIN g
    BY <1>1 DEF ChangedMap, Puts
  <2>3. ASSUME NEW r, r \in DOMAIN g, r # k PROVE r \in DOMAIN f
    <3>1. PICK y \in D \cup {x} : (N2[y].full /\ N2[y].row = r) \/ (O[y].full /\ O[y].row = r)
      BY <2>3 DEF ChangedMap
    <3>2. CASE y # x
      BY <1>1, <3>1, <3>2 DEF ChangedMap
    <3>3. CASE y = x
      <4>1. O[x].full /\ O[x].row = r
        BY <1>1, <2>3, <3>1, <3>3
      <4>2. x \in D
        BY <1>1, <2>3, <4>1 DEF Puts
      <4> QED
        BY <4>1, <4>2 DEF ChangedMap
    <3> QED
      BY <3>2, <3>3
  <2> QED
    BY <2>1, <2>2, <2>3
<1>5. g[k] = s.field
  BY <1>1 DEF ChangedMap, Puts
<1>6. ASSUME NEW r \in DOMAIN f, r # k PROVE g[r] = f[r]
  <2>1. CASE \E y \in D : N[y].full /\ N[y].row = r
    <3>1. PICK y \in D : N[y].full /\ N[y].row = r
      BY <2>1
    <3>2. y # x
      BY <1>6, <3>1 DEF Puts
    <3> QED
      BY <1>1, <3>1, <3>2 DEF ChangedMap
  <2>2. CASE \A y \in D : N[y].full => N[y].row # r
    <3>1. PICK y \in D : O[y].full /\ O[y].row = r
      BY <1>6, <2>2 DEF ChangedMap
    <3>2. \A z \in D \cup {x} : N2[z].full => N2[z].row # r
      BY <1>1, <1>6, <2>2
    <3>3. f[r] = Gone /\ g[r] = Gone
      BY <2>2, <3>1, <3>2 DEF ChangedMap
    <3> QED
      BY <3>3
  <2> QED
    BY <2>1, <2>2
<1>7. w = [r \in DOMAIN f \cup {k} |-> IF r = k THEN s.field ELSE f[r]]
  BY DEF Rows!With
<1>8. PICK v : v = w
  OBVIOUS
<1>9. /\ DOMAIN v = DOMAIN f \cup {k} /\ v = [r \in DOMAIN v |-> v[r]]
      /\ v[k] = s.field /\ \A r \in DOMAIN f : r # k => v[r] = f[r]
  BY <1>7, <1>8
<1>10. g = [r \in DOMAIN g |-> g[r]]
  BY DEF ChangedMap
<1> HIDE DEF w, k
<1>11. g = v
  BY <1>4, <1>5, <1>6, <1>9, <1>10, SameFunction
<1> QED
  BY <1>8, <1>11 DEF w, k

\* A row that is deleted is gone if it was committed, and else was never there.
LEMMA WithoutRow ==
  ASSUME NEW f, NEW g, NEW h, NEW C, NEW D, NEW N, NEW O, NEW N2, NEW n, NEW x, NEW s,
         InPlace(C, N, O, n), Writes(C, D, N, O, N2, x, s), N[x].full, ~s.full,
         RowsMap(h, C, O), ChangedMap(f, D, N, O), ChangedMap(g, D \cup {x}, N2, O)
  PROVE  g = IF N[x].row \in DOMAIN h THEN Rows!With(f, N[x].row, Gone)
             ELSE Rows!Without(f, N[x].row)
<1> DEFINE k == N[x].row
<1>1. /\ D \subseteq C /\ x \in C /\ N2[x] = s
      /\ \A y \in D : y # x => N2[y] = N[y]
      /\ x \notin D => O[x] = N[x]
  BY DEF Writes
<1>2. \A y \in C : y # x => /\ N[y].row # k \/ ~N[y].full
                            /\ O[y].row # k \/ ~O[y].full
  BY <1>1 DEF InPlace
<1>3. k \in DOMAIN h <=> O[x].full /\ O[x].row = k
  BY <1>1, <1>2 DEF RowsMap
<1>4. ASSUME NEW r, r # k PROVE (r \in DOMAIN g <=> r \in DOMAIN f)
  <2>1. ASSUME NEW y \in D \cup {x},
               (N2[y].full /\ N2[y].row = r) \/ (O[y].full /\ O[y].row = r)
        PROVE  r \in DOMAIN f
    <3>1. CASE y = x
      <4>1. O[x].full /\ O[x].row = r
        BY <1>1, <2>1, <3>1
      <4>2. x \in D
        BY <1>1, <1>4, <4>1
      <4> QED
        BY <4>1, <4>2 DEF ChangedMap
    <3>2. CASE y # x
      BY <1>1, <2>1, <3>2 DEF ChangedMap
    <3> QED
      BY <3>1, <3>2
  <2>2. ASSUME NEW y \in D,
               (N[y].full /\ N[y].row = r) \/ (O[y].full /\ O[y].row = r)
        PROVE  r \in DOMAIN g
    BY <1>1, <1>4, <2>2 DEF ChangedMap
  <2> QED
    BY <2>1, <2>2 DEF ChangedMap
<1>5. k \in DOMAIN g <=> O[x].full /\ O[x].row = k
  <2>1. O[x].full /\ O[x].row = k => k \in DOMAIN g
    BY DEF ChangedMap
  <2>2. ASSUME k \in DOMAIN g PROVE O[x].full /\ O[x].row = k
    <3>1. PICK y \in D \cup {x} : (N2[y].full /\ N2[y].row = k) \/ (O[y].full /\ O[y].row = k)
      BY <2>2 DEF ChangedMap
    <3> QED
      BY <1>1, <1>2, <3>1
  <2> QED
    BY <2>1, <2>2
<1>6. k \in DOMAIN g => g[k] = Gone
  <2>1. \A y \in D \cup {x} : N2[y].full => N2[y].row # k
    BY <1>1, <1>2
  <2> QED
    BY <1>5, <2>1 DEF ChangedMap
<1>7. ASSUME NEW r \in DOMAIN f, r # k PROVE g[r] = f[r]
  <2>1. CASE \E y \in D : N[y].full /\ N[y].row = r
    <3>1. PICK y \in D : N[y].full /\ N[y].row = r
      BY <2>1
    <3>2. y # x
      BY <1>7, <3>1
    <3> QED
      BY <1>1, <3>1, <3>2 DEF ChangedMap
  <2>2. CASE \A y \in D : N[y].full => N[y].row # r
    <3>1. PICK y \in D : O[y].full /\ O[y].row = r
      BY <1>7, <2>2 DEF ChangedMap
    <3>2. \A z \in D \cup {x} : N2[z].full => N2[z].row # r
      BY <1>1, <2>2
    <3>3. f[r] = Gone /\ g[r] = Gone
      BY <2>2, <3>1, <3>2 DEF ChangedMap
    <3> QED
      BY <3>3
  <2> QED
    BY <2>1, <2>2
<1>8. g = [r \in DOMAIN g |-> g[r]]
  BY DEF ChangedMap
<1> HIDE DEF k
<1>9. CASE k \in DOMAIN h
  <2>1. PICK v : v = Rows!With(f, k, Gone)
    OBVIOUS
  <2>2. /\ DOMAIN v = DOMAIN f \cup {k} /\ v = [r \in DOMAIN v |-> v[r]]
        /\ v[k] = Gone /\ \A r \in DOMAIN f : r # k => v[r] = f[r]
    BY <2>1 DEF Rows!With
  <2>3. k \in DOMAIN g /\ g[k] = Gone
    BY <1>3, <1>5, <1>6, <1>9
  <2>4. g = v
    BY <1>4, <1>7, <1>8, <2>2, <2>3, SameFunction
  <2> QED
    BY <1>9, <2>1, <2>4 DEF k
<1>10. CASE k \notin DOMAIN h
  <2>1. PICK v : v = Rows!Without(f, k)
    OBVIOUS
  <2>2. /\ DOMAIN v = DOMAIN f \ {k} /\ v = [r \in DOMAIN v |-> v[r]]
        /\ \A r \in DOMAIN f : r # k => v[r] = f[r]
    BY <2>1 DEF Rows!Without
  <2>3. k \notin DOMAIN g
    BY <1>3, <1>5, <1>10
  <2>4. g = v
    BY <1>4, <1>7, <1>8, <2>2, <2>3, SameFunction
  <2> QED
    BY <1>10, <2>1, <2>4 DEF k
<1> QED
  BY <1>9, <1>10

\* The rows as a transaction has them, from its changed rows and the committed.
Content(f, h, r) == IF r \in DOMAIN f THEN f[r] ELSE h[r]
View(f, h) ==
  [r \in {k \in DOMAIN f \cup DOMAIN h : Content(f, h, k) # Gone} |-> Content(f, h, r)]

\* A transaction that changed D sees what it wrote there, and else what is committed.
Shows(v, C, D, N, O) ==
  /\ \A x \in D : N[x].full => N[x].row \in DOMAIN v /\ v[N[x].row] = N[x].field
  /\ \A x \in C \ D : O[x].full => O[x].row \in DOMAIN v /\ v[O[x].row] = O[x].field
  /\ \A r \in DOMAIN v : \/ \E x \in D : N[x].full /\ N[x].row = r
                         \/ \E x \in C \ D : O[x].full /\ O[x].row = r

LEMMA InView ==
  ASSUME NEW f, NEW h, NEW C, NEW D \in SUBSET C, NEW N, NEW O, NEW n,
         InPlace(C, N, O, n), RowsMap(h, C, O), ChangedMap(f, D, N, O)
  PROVE  Shows(View(f, h), C, D, N, O)
<1>1. PICK v : v = View(f, h)
  OBVIOUS
<1>2. /\ \A r : r \in DOMAIN v <=> r \in DOMAIN f \cup DOMAIN h /\ Content(f, h, r) # Gone
      /\ \A r \in DOMAIN v : v[r] = Content(f, h, r)
  BY <1>1 DEF View
<1>3. \A s \in Slot : s.field # Gone
  BY TableScansAssumption DEF Slot
<1>4. ASSUME NEW x \in D, N[x].full
      PROVE  N[x].row \in DOMAIN v /\ v[N[x].row] = N[x].field
  <2>1. N[x].row \in DOMAIN f /\ f[N[x].row] = N[x].field
    BY <1>4 DEF ChangedMap
  <2>2. N[x] \in Slot
    BY DEF InPlace
  <2> QED
    BY <1>2, <1>3, <2>1, <2>2 DEF Content
<1>5. ASSUME NEW x \in C \ D, O[x].full
      PROVE  O[x].row \in DOMAIN v /\ v[O[x].row] = O[x].field
  <2>1. O[x].row \in DOMAIN h /\ h[O[x].row] = O[x].field
    BY <1>5 DEF RowsMap
  <2>2. O[x] \in Slot /\ O[x].row # 0
    BY <1>5 DEF InPlace
  <2>3. O[x].row \notin DOMAIN f
    <3> SUFFICES ASSUME O[x].row \in DOMAIN f PROVE FALSE
      OBVIOUS
    <3>1. PICK y \in D : N[y].row = O[x].row \/ O[y].row = O[x].row
      BY DEF ChangedMap
    <3>2. y = x
      BY <2>2, <3>1 DEF InPlace
    <3> QED
      BY <3>2
  <2> QED
    BY <1>2, <1>3, <2>1, <2>2, <2>3 DEF Content
<1>6. ASSUME NEW r \in DOMAIN v
      PROVE  \/ \E x \in D : N[x].full /\ N[x].row = r
             \/ \E x \in C \ D : O[x].full /\ O[x].row = r
  <2>1. CASE r \in DOMAIN f
    <3>1. f[r] # Gone
      BY <1>2, <2>1 DEF Content
    <3> QED
      BY <2>1, <3>1 DEF ChangedMap
  <2>2. CASE r \notin DOMAIN f
    <3>1. PICK x \in C : O[x].full /\ O[x].row = r
      BY <1>2, <2>2 DEF RowsMap
    <3>2. x \notin D
      BY <2>2, <3>1 DEF ChangedMap
    <3> QED
      BY <3>1, <3>2
  <2> QED
    BY <2>1, <2>2
<1>7. Shows(v, C, D, N, O)
  BY <1>4, <1>5, <1>6 DEF Shows
<1> QED
  BY <1>1, <1>7

\* What is committed is what the transaction had.
LEMMA CommittedView ==
  ASSUME NEW f, NEW h, NEW g, NEW C, NEW D \in SUBSET C, NEW N, NEW O, NEW O2, NEW n,
         InPlace(C, N, O, n), RowsMap(h, C, O), ChangedMap(f, D, N, O), RowsMap(g, C, O2),
         \A x \in C : O2[x] = IF x \in D THEN N[x] ELSE O[x]
  PROVE  g = View(f, h)
<1>1. PICK v : v = View(f, h)
  OBVIOUS
<1>2. v = [r \in DOMAIN v |-> v[r]]
  BY <1>1 DEF View
<1>3. Shows(v, C, D, N, O)
  BY <1>1, InView
<1>4. \A r : r \in DOMAIN g <=> r \in DOMAIN v
  <2>1. ASSUME NEW r \in DOMAIN g PROVE r \in DOMAIN v
    <3>1. PICK x \in C : O2[x].full /\ O2[x].row = r
      BY DEF RowsMap
    <3> QED
      BY <1>3, <3>1 DEF Shows
  <2>2. ASSUME NEW r \in DOMAIN v PROVE r \in DOMAIN g
    BY <1>3 DEF RowsMap, Shows
  <2> QED
    BY <2>1, <2>2
<1>5. ASSUME NEW r \in DOMAIN g PROVE g[r] = v[r]
  <2>1. PICK x \in C : O2[x].full /\ O2[x].row = r
    BY DEF RowsMap
  <2>2. g[r] = O2[x].field
    BY <2>1 DEF RowsMap
  <2> QED
    BY <1>3, <2>1, <2>2 DEF Shows
<1>6. g = [r \in DOMAIN g |-> g[r]]
  BY DEF RowsMap
<1>7. g = v
  BY <1>2, <1>4, <1>5, <1>6, SameFunction
<1> QED
  BY <1>1, <1>7

\* How what is in the slots, and was, may change: what is new is a row that was
\* in the same slot, nothing, or the next row in a slot x.
Follows(C, N, O, n, x, C2, N2, O2, m) ==
  \A y \in C2 : \A s \in {N2[y], O2[y]} :
    /\ s \in Slot
    /\ \/ y \in C /\ \E o \in {N[y], O[y]} : s.row = o.row /\ s.full = o.full
       \/ s.row = 0 /\ ~s.full
       \/ y = x /\ s.row = n + 1 /\ s.full /\ m = n + 1

LEMMA StaysInPlace ==
  ASSUME NEW C, NEW N, NEW O, NEW n \in Nat, InPlace(C, N, O, n), NEW x,
         NEW C2, NEW N2, NEW O2, NEW m \in {n, n + 1},
         Follows(C, N, O, n, x, C2, N2, O2, m)
  PROVE  InPlace(C2, N2, O2, m)
<1>1. \A y \in C2 : \A s \in {N2[y], O2[y]} :
        /\ s \in Slot
        /\ \/ y \in C /\ \E o \in {N[y], O[y]} : s.row = o.row /\ s.full = o.full
           \/ s.row = 0 /\ ~s.full
           \/ y = x /\ s.row = n + 1 /\ s.full /\ m = n + 1
  BY DEF Follows
<1>2. \A s \in Slot : s.row \in Nat
  BY Sizes DEF Slot
<1>3. ASSUME NEW y \in C2, NEW s \in {N2[y], O2[y]}
      PROVE  s \in Slot /\ (s.full <=> s.row # 0) /\ s.row <= m
  <2>1. CASE y \in C /\ \E o \in {N[y], O[y]} : s.row = o.row /\ s.full = o.full
    <3>1. PICK o \in {N[y], O[y]} : s.row = o.row /\ s.full = o.full
      BY <2>1
    <3>2. o \in Slot /\ (o.full <=> o.row # 0) /\ o.row <= n
      BY <2>1 DEF InPlace
    <3> QED
      BY <1>1, <1>2, <1>3, <3>1, <3>2
  <2>2. CASE s.row = 0 /\ ~s.full
    BY <1>1, <1>3, <2>2
  <2>3. CASE y = x /\ s.row = n + 1 /\ s.full /\ m = n + 1
    BY <1>1, <1>3, <2>3
  <2> QED
    BY <1>1, <1>3, <2>1, <2>2, <2>3
<1>4. ASSUME NEW y \in C2, NEW z \in C2, NEW s \in {N2[y], O2[y]}, NEW u \in {N2[z], O2[z]},
             s.row = u.row, s.row # 0
      PROVE  y = z
  <2>1. \/ y \in C /\ \E o \in {N[y], O[y]} : s.row = o.row
        \/ y = x /\ s.row = n + 1
    BY <1>1, <1>4
  <2>2. \/ z \in C /\ \E o \in {N[z], O[z]} : u.row = o.row
        \/ z = x /\ u.row = n + 1
    BY <1>1, <1>4
  <2>3. \A w \in C : \A o \in {N[w], O[w]} : o.row # n + 1
    BY <1>2 DEF InPlace
  <2>4. CASE s.row = n + 1
    BY <1>4, <2>1, <2>2, <2>3, <2>4
  <2>5. CASE s.row # n + 1
    <3>1. PICK o \in {N[y], O[y]} : y \in C /\ s.row = o.row
      BY <2>1, <2>5
    <3>2. PICK q \in {N[z], O[z]} : z \in C /\ u.row = q.row
      BY <1>4, <2>2, <2>5
    <3>3. o.row = q.row /\ o.row # 0
      BY <1>4, <3>1, <3>2
    <3> QED
      BY <3>1, <3>2, <3>3 DEF InPlace
  <2> QED
    BY <2>4, <2>5
<1> QED
  BY <1>3, <1>4 DEF InPlace

-----------------------------------------------------------------------------
(* What the steps do to the slots.                                         *)

LEMMA Quiet ==
  ASSUME UNCHANGED <<file, undo, row>>, RowsInPlace
  PROVE  RowsInPlace'
<1>1. Cells' = Cells
  BY DEF Cells
<1>2. Contents' = Contents
  BY <1>1 DEF Contents
<1>3. Originals' = Originals
  BY <1>1 DEF Originals
<1> QED
  BY <1>1, <1>2, <1>3 DEF RowsInPlace

\* A transaction has written s to slot x, which no other transaction has changed.
Written(t, x, s) ==
  /\ Cells' = Cells /\ x \in Cells
  /\ \A y \in Cells : Contents'[y] = IF y = x THEN s ELSE Contents[y]
  /\ \A y \in Cells : Originals'[y] = Originals[y]
  /\ DOMAIN undo'[t] = DOMAIN undo[t] \cup {x}
  /\ \A u \in Tx \ {t} : undo'[u] = undo[u] /\ x \notin DOMAIN undo[u]

LEMMA WriteEffect ==
  ASSUME IInv, IInv', NEW t \in Tx, NEW b \in DOMAIN file, NEW i \in Slots, NEW s \in Slot,
         CanWrite(t, b), Write(t, b, i, s)
  PROVE  Written(t, <<b, i>>, s)
<1> DEFINE x == <<b, i>>
<1>1. UndoHolds /\ UndoHolds' /\ TypeOK /\ LocksHold
  BY Undoing, UndoingNext DEF IInv
<1>2. /\ DOMAIN file \subseteq Blocks /\ \A c \in DOMAIN file : file[c] \in [Slots -> Slot]
  BY <1>1, Types
<1>3. file' = [file EXCEPT ![b][i] = s]
  BY DEF Write
<1>4. Cells' = Cells
  BY <1>3 DEF Cells
<1>5. x \in Cells
  BY DEF Cells
<1>6. \A y \in Cells : file'[y[1]][y[2]] = IF y = x THEN s ELSE file[y[1]][y[2]]
  <2> TAKE y \in Cells
  <2>1. y[1] \in DOMAIN file /\ y[2] \in Slots /\ (y = x <=> y[1] = b /\ y[2] = i)
    BY DEF Cells
  <2> QED
    BY <1>2, <1>3, <2>1
<1>7. \A y \in Cells : Contents'[y] = IF y = x THEN s ELSE Contents[y]
  BY <1>1, <1>4, <1>6 DEF UndoHolds
<1>8. undo' = [undo EXCEPT ![t] = Remember(undo[t], x, file[b][i])]
  BY DEF Write
<1>9. DOMAIN undo = Tx
  BY <1>1 DEF TypeOK
<1>10. /\ DOMAIN undo'[t] = DOMAIN undo[t] \cup {x}
       /\ \A y \in DOMAIN undo[t] : undo'[t][y] = undo[t][y]
       /\ x \notin DOMAIN undo[t] => undo'[t][x] = file[b][i]
  BY <1>8, <1>9 DEF Remember
<1>11. ASSUME NEW u \in Tx \ {t} PROVE undo'[u] = undo[u] /\ x \notin DOMAIN undo[u]
  <2>1. held[u][b] = "none"
    BY DEF CanWrite
  <2>2. x[1] = b
    OBVIOUS
  <2>3. x \notin DOMAIN undo[u]
    BY <1>1, <2>1, <2>2 DEF LocksHold
  <2> QED
    BY <1>8, <1>9, <2>3
<1>12. x \notin DOMAIN undo[t] => Originals[x] = Contents[x] /\ Contents[x] = file[b][i]
  BY <1>1, <1>5, <1>11 DEF UndoHolds
<1> HIDE DEF x
<1>13. ASSUME NEW y \in Cells PROVE Originals'[y] = Originals[y]
  <2>1. CASE y = x
    <3>1. Originals'[x] = undo'[t][x]
      BY <1>1, <1>10 DEF UndoHolds
    <3>2. x \in DOMAIN undo[t] => Originals[x] = undo[t][x]
      BY <1>1 DEF UndoHolds
    <3> QED
      BY <1>10, <1>12, <2>1, <3>1, <3>2
  <2>2. ASSUME NEW u \in Tx, y \in DOMAIN undo[u], y # x PROVE Originals'[y] = Originals[y]
    <3>1. y \in DOMAIN undo'[u] /\ undo'[u][y] = undo[u][y]
      BY <1>10, <1>11, <2>2
    <3> QED
      BY <1>1, <2>2, <3>1 DEF UndoHolds
  <2>3. CASE y # x /\ \A u \in Tx : y \notin DOMAIN undo[u]
    <3>1. \A u \in Tx : y \notin DOMAIN undo'[u]
      BY <1>10, <1>11, <2>3
    <3>2. Originals'[y] = Contents'[y] /\ Originals[y] = Contents[y]
      BY <1>1, <1>4, <2>3, <3>1 DEF UndoHolds
    <3> QED
      BY <1>7, <2>3, <3>2
  <2> QED
    BY <2>1, <2>2, <2>3
<1>14. Written(t, x, s)
  BY <1>4, <1>5, <1>7, <1>10, <1>11, <1>13 DEF Written
<1> QED
  BY <1>14 DEF x

LEMMA WriteStays ==
  ASSUME IInv, IInv', RowsInPlace, NEW t \in Tx, NEW x, NEW s \in Slot, Written(t, x, s),
         \/ row' = row /\ s.row = Contents[x].row /\ s.full = Contents[x].full
         \/ row' = row /\ s.row = 0 /\ ~s.full
         \/ row' = row + 1 /\ s.row = row + 1 /\ s.full
  PROVE  RowsInPlace'
<1> DEFINE C2 == Cells'
           N2 == Contents'
           O2 == Originals'
           m == row'
<1>1. row \in Nat /\ m \in {row, row + 1}
  BY Sizes DEF IInv, TypeOK
<1>2. \A y \in C2 : N2[y] \in Slot /\ O2[y] \in Slot
  BY UndoingNext DEF UndoHolds
<1>3. InPlace(Cells, Contents, Originals, row)
  BY DEF RowsInPlace
<1>4. /\ C2 = Cells
      /\ \A y \in C2 : O2[y] = Originals[y] /\ (y # x => N2[y] = Contents[y])
      /\ x \in C2 => N2[x] = s
  BY DEF Written
<1> HIDE DEF C2, N2, O2, m
<1>5. ASSUME NEW y \in C2, NEW r \in {N2[y], O2[y]}
      PROVE  /\ r \in Slot
             /\ \/ y \in Cells /\ \E o \in {Contents[y], Originals[y]} : r.row = o.row /\ r.full = o.full
                \/ r.row = 0 /\ ~r.full
                \/ y = x /\ r.row = row + 1 /\ r.full /\ m = row + 1
  <2>1. CASE r = O2[y] \/ (r = N2[y] /\ y # x)
    BY <1>2, <1>4, <1>5, <2>1
  <2>2. CASE r = N2[y] /\ y = x
    BY <1>2, <1>4, <1>5, <2>2 DEF m
  <2> QED
    BY <1>5, <2>1, <2>2
<1>6. Follows(Cells, Contents, Originals, row, x, C2, N2, O2, m)
  BY <1>5 DEF Follows
<1>7. InPlace(C2, N2, O2, m)
  BY ONLY <1>1, <1>3, <1>6, StaysInPlace
<1> QED
  BY <1>7 DEF RowsInPlace, C2, N2, O2, m

\* Rows of other transactions, and those that are committed, stay.
LEMMA OthersKeep ==
  ASSUME IInv, IInv', RowsInPlace, RowsInPlace', NEW t \in Tx, NEW x, NEW s, Written(t, x, s)
  PROVE  /\ CommittedRows' = CommittedRows
         /\ \A u \in Tx \ {t} : ChangedRows(u)' = ChangedRows(u)
<1>1. UndoHolds /\ Maps /\ Maps'
  BY Undoing, UndoingNext, Mapping, MappingNext
<1>2. CommittedRows' = CommittedRows
  <2>1. /\ RowsMap(CommittedRows, Cells, Originals)
        /\ RowsMap(CommittedRows', Cells, Originals')
    BY <1>1 DEF Maps, Written
  <2>2. \A y \in Cells : Originals'[y] = Originals[y]
    BY DEF Written
  <2> QED
    BY ONLY <2>1, <2>2, SameRows
<1>3. ASSUME NEW u \in Tx \ {t} PROVE ChangedRows(u)' = ChangedRows(u)
  <2>1. /\ ChangedMap(ChangedRows(u), DOMAIN undo[u], Contents, Originals)
        /\ ChangedMap(ChangedRows(u)', DOMAIN undo[u], Contents', Originals')
    BY <1>1 DEF Maps, Written
  <2>2. \A y \in DOMAIN undo[u] : Contents'[y] = Contents[y] /\ Originals'[y] = Originals[y]
    BY <1>1 DEF Written, UndoHolds
  <2> QED
    BY ONLY <2>1, <2>2, SameChanges
<1> QED
  BY <1>2, <1>3

\* The rows of all transactions when those of t become f.
LEMMA OneChanges ==
  ASSUME NEW t \in Tx, NEW f, ChangedRows(t)' = f,
         \A u \in Tx \ {t} : ChangedRows(u)' = ChangedRows(u)
  PROVE  [u \in Tx |-> ChangedRows(u)]' = [[u \in Tx |-> ChangedRows(u)] EXCEPT ![t] = f]
OBVIOUS

\* Slot x is the transaction's: it has changed it, or nobody has.
LEMMA Writer ==
  ASSUME IInv, NEW t \in Tx, NEW x, NEW s, Written(t, x, s)
  PROVE  Writes(Cells, DOMAIN undo[t], Contents, Originals, Contents', x, s)
<1>1. UndoHolds
  BY Undoing
<1>2. DOMAIN undo[t] \subseteq Cells /\ x \in Cells
  BY <1>1 DEF UndoHolds, Written
<1>3. x \notin DOMAIN undo[t] => Originals[x] = Contents[x]
  BY <1>1 DEF UndoHolds, Written
<1> QED
  BY <1>2, <1>3 DEF Written, Writes

\* A row in slot x is to be seen by the transaction that may write there, and by
\* no other has it been changed.
LEMMA OwnRow ==
  ASSUME IInv, RowsInPlace, NEW t \in Tx, NEW x \in Cells, Contents[x].full,
         \A u \in Tx \ {t} : x \notin DOMAIN undo[u]
  PROVE  /\ Contents[x].row \in 1..MaxRows
         /\ Contents[x].row \in DOMAIN Rows!View(t) \ Rows!Touched(t)
<1>1. UndoHolds /\ Maps
  BY Undoing, Mapping
<1> DEFINE k == Contents[x].row
           D == DOMAIN undo[t]
<1>2. InPlace(Cells, Contents, Originals, row)
  BY DEF RowsInPlace
<1>3. k # 0 /\ k \in 0..MaxRows /\ k \in 1..MaxRows
  <2>1. Contents[x] \in Slot
    BY <1>1 DEF UndoHolds
  <2>2. k # 0
    BY <1>2 DEF InPlace
  <2> QED
    BY <2>1, <2>2, Sizes DEF Slot
<1>4. k \in DOMAIN Rows!View(t)
  <2> DEFINE v == View(ChangedRows(t), CommittedRows)
  <2>1. Rows!View(t) = v
    BY DEF Rows!View, Rows!Content, View, Content
  <2>2. Shows(v, Cells, D, Contents, Originals)
    <3>1. D \in SUBSET Cells /\ RowsMap(CommittedRows, Cells, Originals)
      BY <1>1 DEF UndoHolds, Maps
    <3>2. ChangedMap(ChangedRows(t), D, Contents, Originals)
      BY <1>1 DEF Maps
    <3> HIDE DEF D
    <3> QED
      BY ONLY <1>2, <3>1, <3>2, InView
  <2> HIDE DEF v
  <2>3. x \notin D => Originals[x] = Contents[x]
    BY <1>1 DEF UndoHolds
  <2>4. k \in DOMAIN v
    BY <2>2, <2>3 DEF Shows
  <2> QED
    BY <2>1, <2>4
<1>5. ASSUME NEW u \in Tx \ {t} PROVE k \notin DOMAIN ChangedRows(u)
  <2> SUFFICES ASSUME k \in DOMAIN ChangedRows(u) PROVE FALSE
    OBVIOUS
  <2>1. ChangedMap(ChangedRows(u), DOMAIN undo[u], Contents, Originals)
    BY <1>1 DEF Maps
  <2>2. PICK y \in DOMAIN undo[u] : Contents[y].row = k \/ Originals[y].row = k
    BY <2>1 DEF ChangedMap
  <2>3. y \in Cells /\ y # x
    BY <1>1 DEF UndoHolds
  <2> QED
    BY <1>2, <1>3, <2>2, <2>3 DEF InPlace
<1>6. k \notin Rows!Touched(t)
  BY <1>5 DEF Rows!Touched
<1> QED
  BY <1>3, <1>4, <1>6

-----------------------------------------------------------------------------
(* The steps as steps of RowStore.                                         *)

Simulates == UNCHANGED <<file, undo>> \/ UNCHANGED Rows!vars \/ Rows!Next

LEMMA PutsRow ==
  ASSUME IInv, IInv', RowsInPlace, RowsInPlace', NEW t \in Tx, NEW x, NEW s \in Slot,
         Written(t, x, s), s.full,
         IF Contents[x].full THEN s.row = Contents[x].row ELSE s.row = row + 1
  PROVE  ChangedRows(t)' = Rows!With(ChangedRows(t), s.row, s.field)
<1> DEFINE f == ChangedRows(t)
           g == ChangedRows(t)'
           D == DOMAIN undo[t]
           N2 == Contents'
<1>1. UndoHolds /\ Maps /\ Maps'
  BY Undoing, Mapping, MappingNext, UndoingNext
<1>2. InPlace(Cells, Contents, Originals, row)
  BY DEF RowsInPlace
<1>3. Writes(Cells, D, Contents, Originals, N2, x, s)
  BY Writer
<1>4. ChangedMap(f, D, Contents, Originals)
  BY <1>1 DEF Maps
<1>5. ChangedMap(g, D \cup {x}, N2, Originals)
  <2>1. ChangedMap(g, DOMAIN undo'[t], N2, Originals')
    BY <1>1 DEF Maps
  <2>2. DOMAIN undo'[t] = D \cup {x} /\ \A y \in D \cup {x} : Originals'[y] = Originals[y]
    BY <1>3 DEF Written, Writes
  <2> HIDE DEF g, N2, D
  <2>3. PICK O2 : O2 = Originals'
    OBVIOUS
  <2>4. ChangedMap(g, D \cup {x}, N2, O2) /\ \A y \in D \cup {x} : O2[y] = Originals[y]
    BY <2>1, <2>2, <2>3
  <2> QED
    BY ONLY <2>4 DEF ChangedMap
<1>6. Puts(Cells, Contents, Originals, x, s)
  <2>1. \A r \in Slot : r.row \in Nat
    BY Sizes DEF Slot
  <2>2. \A y \in Cells : /\ Contents[y] \in Slot /\ Contents[y].row <= row
                         /\ Originals[y] \in Slot /\ Originals[y].row <= row
    BY <1>2 DEF InPlace
  <2>3. row \in Nat
    BY Sizes DEF IInv, TypeOK
  <2> QED
    BY <2>1, <2>2, <2>3 DEF Puts
<1> HIDE DEF f, g, D, N2
<1>7. g = Rows!With(f, s.row, s.field)
  BY <1>2, <1>3, <1>4, <1>5, <1>6, WithRow
<1> QED
  BY <1>7 DEF f, g

LEMMA DropsRow ==
  ASSUME IInv, IInv', RowsInPlace, RowsInPlace', NEW t \in Tx, NEW x, NEW s \in Slot,
         Written(t, x, s), Contents[x].full, ~s.full
  PROVE  ChangedRows(t)' =
           IF Contents[x].row \in DOMAIN CommittedRows
           THEN Rows!With(ChangedRows(t), Contents[x].row, Gone)
           ELSE Rows!Without(ChangedRows(t), Contents[x].row)
<1> DEFINE f == ChangedRows(t)
           g == ChangedRows(t)'
           h == CommittedRows
           D == DOMAIN undo[t]
           N2 == Contents'
<1>1. UndoHolds /\ Maps /\ Maps'
  BY Undoing, Mapping, MappingNext, UndoingNext
<1>2. InPlace(Cells, Contents, Originals, row)
  BY DEF RowsInPlace
<1>3. Writes(Cells, D, Contents, Originals, N2, x, s)
  BY Writer
<1>4. ChangedMap(f, D, Contents, Originals) /\ RowsMap(h, Cells, Originals)
  BY <1>1 DEF Maps
<1>5. ChangedMap(g, D \cup {x}, N2, Originals)
  <2>1. ChangedMap(g, DOMAIN undo'[t], N2, Originals')
    BY <1>1 DEF Maps
  <2>2. DOMAIN undo'[t] = D \cup {x} /\ \A y \in D \cup {x} : Originals'[y] = Originals[y]
    BY <1>3 DEF Written, Writes
  <2> HIDE DEF g, N2, D
  <2>3. PICK O2 : O2 = Originals'
    OBVIOUS
  <2>4. ChangedMap(g, D \cup {x}, N2, O2) /\ \A y \in D \cup {x} : O2[y] = Originals[y]
    BY <2>1, <2>2, <2>3
  <2> QED
    BY ONLY <2>4 DEF ChangedMap
<1> HIDE DEF f, g, h, D, N2
<1>6. g = IF Contents[x].row \in DOMAIN h THEN Rows!With(f, Contents[x].row, Gone)
          ELSE Rows!Without(f, Contents[x].row)
  BY <1>2, <1>3, <1>4, <1>5, WithoutRow
<1> QED
  BY <1>6 DEF f, g, h

LEMMA InsertSimulated ==
  ASSUME IInv, IInv', RowsInPlace, NEW t \in Tx, InsertInBlock(t)
  PROVE  RowsInPlace' /\ Simulates
<1> DEFINE b == at[t].block
           i == Min(After(t, FALSE))
           old == file[b][i]
           s == [old EXCEPT !.full = TRUE, !.row = row + 1]
<1>1. \/ UNCHANGED <<file, undo, row>>
      \/ /\ After(t, FALSE) # {} /\ CanWrite(t, b) /\ Write(t, b, i, s)
         /\ row < MaxRows /\ row' = row + 1
  BY DEF InsertInBlock
<1>2. CASE UNCHANGED <<file, undo, row>>
  BY <1>2, Quiet DEF Simulates
<1>3. CASE /\ After(t, FALSE) # {} /\ CanWrite(t, b) /\ Write(t, b, i, s)
           /\ row < MaxRows /\ row' = row + 1
  <2>1. /\ b \in DOMAIN file /\ file[b] \in [Slots -> Slot]
        /\ at[t].slot \in Start..End
    BY Running, Types DEF IInv, InsertInBlock
  <2>2. i \in Slots /\ ~old.full
    <3>1. After(t, FALSE) \in SUBSET Nat
      BY <2>1, Sizes DEF After
    <3>2. i \in After(t, FALSE)
      BY <1>3, <3>1, MinProperty
    <3> QED
      BY <2>1, <3>2, Sizes DEF After, Slots
  <2>3. row \in Nat /\ row + 1 \in 1..MaxRows /\ row + 1 \in 0..MaxRows
    BY <1>3, Sizes DEF IInv, TypeOK
  <2>4. old \in Slot
    BY <2>1, <2>2
  <2> HIDE DEF b, i, old
  <2>5. s \in Slot /\ s.full /\ s.row = row + 1 /\ s.field \in Field
    BY <2>3, <2>4 DEF Slot
  <2> HIDE DEF s
  <2>6. PICK x : x = <<b, i>>
    OBVIOUS
  <2>7. Written(t, x, s)
    BY <1>3, <2>1, <2>2, <2>5, <2>6, WriteEffect
  <2>8. RowsInPlace'
    BY <1>3, <2>5, <2>7, WriteStays
  <2>9. UndoHolds /\ Maps
    BY Undoing, Mapping
  <2>10. Contents[x] = old
    <3>1. x \in Cells
      BY <2>7 DEF Written
    <3> QED
      BY <2>6, <2>9, <3>1 DEF UndoHolds, old
  <2>11. ChangedRows(t)' = Rows!With(ChangedRows(t), row + 1, s.field)
    BY <2>2, <2>5, <2>7, <2>8, <2>10, PutsRow
  <2>12. \A y \in Cells : Contents[y].row # row + 1 /\ Originals[y].row # row + 1
    <3>1. \A r \in Slot : r.row \in Nat
      BY Sizes DEF Slot
    <3> QED
      BY <2>3, <3>1 DEF RowsInPlace, InPlace
  <2>13. row + 1 \notin Rows!Used
    <3>1. row + 1 \notin DOMAIN CommittedRows
      BY <2>9, <2>12 DEF Maps, RowsMap
    <3>2. \A u \in Tx : row + 1 \notin DOMAIN ChangedRows(u)
      BY <2>9, <2>12 DEF Maps, ChangedMap, UndoHolds
    <3> QED
      BY <3>1, <3>2 DEF Rows!Used
  <2>14. /\ CommittedRows' = CommittedRows
         /\ \A u \in Tx \ {t} : ChangedRows(u)' = ChangedRows(u)
    BY <2>7, <2>8, OthersKeep
  <2>15. Rows!Insert(t, row + 1, s.field)
    BY <2>11, <2>13, <2>14, OneChanges DEF Rows!Insert
  <2> QED
    BY <2>3, <2>5, <2>8, <2>15 DEF Simulates, Rows!Next
<1> QED
  BY <1>1, <1>2, <1>3

\* The row that a scan is on is written, and the transaction alone has it.
LEMMA OnRowWritten ==
  ASSUME IInv, IInv', RowsInPlace, NEW t \in Tx, OnRow(t), NEW x, x = Here(t), NEW s \in Slot,
         CanWrite(t, x[1]), Write(t, x[1], x[2], s), row' = row,
         \/ s.row = Contents[x].row /\ s.full = Contents[x].full
         \/ s.row = 0 /\ ~s.full
  PROVE  /\ RowsInPlace' /\ Written(t, x, s)
         /\ Contents[x].full /\ Contents[x].row \in 1..MaxRows
         /\ Contents[x].row \in DOMAIN Rows!View(t) \ Rows!Touched(t)
         /\ CommittedRows' = CommittedRows
         /\ \A u \in Tx \ {t} : ChangedRows(u)' = ChangedRows(u)
<1>1. /\ at[t].block \in DOMAIN file /\ at[t].slot \in Slots
      /\ file[at[t].block][at[t].slot].full
  BY Running DEF OnRow
<1>2. x[1] \in DOMAIN file /\ x[2] \in Slots /\ x = <<x[1], x[2]>> /\ x \in Cells
  BY <1>1 DEF Here, Cells
<1>3. UndoHolds
  BY Undoing
<1>4. Contents[x].full
  BY <1>1, <1>2, <1>3 DEF UndoHolds, Here
<1>5. Written(t, x, s)
  BY <1>2, WriteEffect
<1>6. RowsInPlace'
  BY <1>5, WriteStays
<1>7. \A u \in Tx \ {t} : x \notin DOMAIN undo[u]
  BY <1>5 DEF Written
<1> QED
  BY <1>2, <1>4, <1>5, <1>6, <1>7, OwnRow, OthersKeep

LEMMA SetSimulated ==
  ASSUME IInv, IInv', RowsInPlace, NEW t \in Tx, NEW v \in Field, Set(t, v)
  PROVE  RowsInPlace' /\ Simulates
<1>1. PICK x : x = Here(t)
  OBVIOUS
<1> DEFINE old == file[x[1]][x[2]]
           s == [old EXCEPT !.field = v]
<1>2. x[1] = at[t].block /\ x[2] = at[t].slot
  BY <1>1 DEF Here
<1>3. OnRow(t) /\ CanWrite(t, x[1]) /\ Write(t, x[1], x[2], s) /\ row' = row
  BY <1>2 DEF Set
<1>4. x \in Cells
  BY <1>1, <1>3, Running DEF OnRow, Here, Cells
<1>5. Contents[x] = old /\ old \in Slot
  BY <1>4, Undoing DEF UndoHolds
<1> HIDE DEF old
<1>6. s \in Slot /\ s.row = Contents[x].row /\ s.full = Contents[x].full /\ s.field = v
  BY <1>5 DEF Slot
<1> HIDE DEF s
<1>7. /\ RowsInPlace' /\ Written(t, x, s)
      /\ Contents[x].full /\ Contents[x].row \in 1..MaxRows
      /\ Contents[x].row \in DOMAIN Rows!View(t) \ Rows!Touched(t)
      /\ CommittedRows' = CommittedRows
      /\ \A u \in Tx \ {t} : ChangedRows(u)' = ChangedRows(u)
  BY <1>1, <1>3, <1>6, OnRowWritten
<1>8. ChangedRows(t)' = Rows!With(ChangedRows(t), Contents[x].row, v)
  BY <1>6, <1>7, PutsRow
<1>9. Rows!Set(t, Contents[x].row, v)
  BY <1>7, <1>8, OneChanges DEF Rows!Set
<1> QED
  BY <1>7, <1>9 DEF Simulates, Rows!Next

LEMMA DeleteSimulated ==
  ASSUME IInv, IInv', RowsInPlace, NEW t \in Tx, Delete(t)
  PROVE  RowsInPlace' /\ Simulates
<1>1. PICK x : x = Here(t)
  OBVIOUS
<1> DEFINE old == file[x[1]][x[2]]
           s == [old EXCEPT !.full = FALSE, !.row = 0]
<1>2. x[1] = at[t].block /\ x[2] = at[t].slot
  BY <1>1 DEF Here
<1>3. OnRow(t) /\ CanWrite(t, x[1]) /\ Write(t, x[1], x[2], s) /\ row' = row
  BY <1>2 DEF Delete
<1>4. x \in Cells
  BY <1>1, <1>3, Running DEF OnRow, Here, Cells
<1>5. old \in Slot
  BY <1>4, Undoing DEF UndoHolds
<1> HIDE DEF old
<1>6. s \in Slot /\ s.row = 0 /\ ~s.full
  <2>1. 0 \in 0..MaxRows
    BY Sizes
  <2> QED
    BY <1>5, <2>1 DEF Slot
<1> HIDE DEF s
<1> DEFINE k == Contents[x].row
<1>7. /\ RowsInPlace' /\ Written(t, x, s)
      /\ Contents[x].full /\ k \in 1..MaxRows
      /\ k \in DOMAIN Rows!View(t) \ Rows!Touched(t)
      /\ CommittedRows' = CommittedRows
      /\ \A u \in Tx \ {t} : ChangedRows(u)' = ChangedRows(u)
  BY <1>1, <1>3, <1>6, OnRowWritten
<1>8. ChangedRows(t)' = IF k \in DOMAIN CommittedRows THEN Rows!With(ChangedRows(t), k, Gone)
                        ELSE Rows!Without(ChangedRows(t), k)
  BY <1>6, <1>7, DropsRow
<1> HIDE DEF k
<1>9. Rows!Delete(t, k)
  BY <1>7, <1>8, OneChanges DEF Rows!Delete
<1> QED
  BY <1>7, <1>9 DEF Simulates, Rows!Next

\* A block of zeros at the end of the file has no rows.
LEMMA ExtendSimulated ==
  ASSUME IInv, IInv', RowsInPlace, UNCHANGED <<undo, row>>,
         DOMAIN file \subseteq DOMAIN file',
         \A b \in DOMAIN file : file'[b] = file[b],
         \A b \in DOMAIN file' \ DOMAIN file : file'[b] = Zeros
  PROVE  RowsInPlace' /\ Simulates
<1> DEFINE C2 == Cells'
           N2 == Contents'
           O2 == Originals'
<1>1. UndoHolds /\ UndoHolds' /\ Maps
  BY Undoing, UndoingNext, Mapping
<1>2. Cells \subseteq C2
  BY DEF Cells
<1>3. \A y \in Cells : N2[y] = Contents[y]
  <2> TAKE y \in Cells
  <2>1. y[1] \in DOMAIN file
    BY DEF Cells
  <2> QED
    BY <1>1, <1>2, <2>1 DEF UndoHolds
<1>4. \A y \in C2 \ Cells : N2[y].row = 0 /\ ~N2[y].full
  <2> TAKE y \in C2 \ Cells
  <2>1. y[1] \in DOMAIN file' \ DOMAIN file /\ y[2] \in Slots
    BY DEF Cells
  <2>2. N2[y] = Zeros[y[2]]
    BY <1>1, <2>1 DEF UndoHolds
  <2> QED
    BY <2>1, <2>2 DEF Zeros
<1>5. \A y \in Cells : O2[y] = Originals[y]
  <2> TAKE y \in Cells
  <2>1. CASE \E u \in Tx : y \in DOMAIN undo[u]
    BY <1>1, <2>1 DEF UndoHolds
  <2>2. CASE \A u \in Tx : y \notin DOMAIN undo[u]
    BY <1>1, <1>2, <1>3, <2>2 DEF UndoHolds
  <2> QED
    BY <2>1, <2>2
<1>6. \A y \in C2 \ Cells : O2[y] = N2[y]
  <2> TAKE y \in C2 \ Cells
  <2>1. \A u \in Tx : y \notin DOMAIN undo'[u]
    BY <1>1 DEF UndoHolds
  <2> QED
    BY <1>1, <2>1 DEF UndoHolds
<1>7. \A y \in C2 : N2[y] \in Slot /\ O2[y] \in Slot
  BY <1>1 DEF UndoHolds
<1> HIDE DEF C2, N2, O2
<1>8. RowsInPlace'
  <2>1. Follows(Cells, Contents, Originals, row, 0, C2, N2, O2, row)
    BY <1>3, <1>4, <1>5, <1>6, <1>7 DEF Follows
  <2>2. row \in Nat /\ InPlace(Cells, Contents, Originals, row)
    BY Sizes DEF IInv, TypeOK, RowsInPlace
  <2>3. InPlace(C2, N2, O2, row)
    BY <2>1, <2>2, StaysInPlace
  <2> QED
    BY <2>3 DEF RowsInPlace, C2, N2, O2
<1>9. Maps'
  BY <1>1, <1>8, MappingNext
<1>10. CommittedRows' = CommittedRows
  <2>1. RowsMap(CommittedRows, Cells, Originals) /\ RowsMap(CommittedRows', C2, O2)
    BY <1>1, <1>9 DEF Maps, C2, O2
  <2>2. /\ \A y \in Cells : Originals[y].full => y \in C2 /\ O2[y] = Originals[y]
        /\ \A y \in C2 : O2[y].full => y \in Cells /\ O2[y] = Originals[y]
    BY <1>2, <1>4, <1>5, <1>6
  <2> QED
    BY ONLY <2>1, <2>2, SameRows
<1>11. ASSUME NEW u \in Tx PROVE ChangedRows(u)' = ChangedRows(u)
  <2>1. /\ ChangedMap(ChangedRows(u), DOMAIN undo[u], Contents, Originals)
        /\ ChangedMap(ChangedRows(u)', DOMAIN undo[u], N2, O2)
    BY <1>1, <1>9 DEF Maps, N2, O2
  <2>2. \A y \in DOMAIN undo[u] : N2[y] = Contents[y] /\ O2[y] = Originals[y]
    BY <1>1, <1>3, <1>5 DEF UndoHolds
  <2> QED
    BY ONLY <2>1, <2>2, SameChanges
<1>12. UNCHANGED Rows!vars
  BY <1>10, <1>11 DEF Rows!vars
<1> QED
  BY <1>8, <1>12 DEF Simulates

\* When a transaction ends, none of the changes is its own any more.
LEMMA Released ==
  ASSUME IInv, NEW t \in Tx, Finish(t)
  PROVE  /\ DOMAIN undo'[t] = {} /\ \A u \in Tx \ {t} : undo'[u] = undo[u]
         /\ row' = row
<1> DEFINE nothing == [x \in {} |-> Zeros[1]]
<1>1. undo' = [undo EXCEPT ![t] = nothing] /\ row' = row
  BY DEF Finish
<1>2. DOMAIN nothing = {}
  OBVIOUS
<1> HIDE DEF nothing
<1> QED
  BY <1>1, <1>2 DEF IInv, TypeOK

LEMMA Forgotten ==
  ASSUME IInv, NEW t \in Tx, Finish(t), Maps'
  PROVE  ChangedRows(t)' = Rows!Nothing
<1>1. DOMAIN undo'[t] = {}
  BY Released
<1>2. ChangedMap(ChangedRows(t)', {}, Contents', Originals')
  BY <1>1 DEF Maps
<1>3. PICK f : f = ChangedRows(t)'
  OBVIOUS
<1>4. f = [r \in DOMAIN f |-> f[r]] /\ \A r : r \notin DOMAIN f
  BY <1>2, <1>3 DEF ChangedMap
<1>5. PICK g : g = Rows!Nothing
  OBVIOUS
<1>6. g = [r \in DOMAIN g |-> g[r]] /\ \A r : r \notin DOMAIN g
  BY <1>5 DEF Rows!Nothing
<1>7. f = g
  BY ONLY <1>4, <1>6, SameFunction
<1> QED
  BY <1>3, <1>5, <1>7

LEMMA CommitSimulated ==
  ASSUME IInv, IInv', RowsInPlace, NEW t \in Tx, Commit(t)
  PROVE  RowsInPlace' /\ Simulates
<1> DEFINE D == DOMAIN undo[t]
           N2 == Contents'
           O2 == Originals'
<1>1. UndoHolds /\ UndoHolds' /\ Maps
  BY Undoing, UndoingNext, Mapping
<1>2. Finish(t) /\ file' = file
  BY DEF Commit
<1>3. /\ DOMAIN undo'[t] = {} /\ \A u \in Tx \ {t} : undo'[u] = undo[u]
      /\ row' = row
  BY <1>2, Released
<1>4. Cells' = Cells
  BY <1>2 DEF Cells
<1>5. \A y \in Cells : N2[y] = Contents[y]
  BY <1>1, <1>2, <1>4 DEF UndoHolds
<1>6. \A y \in Cells : O2[y] = IF y \in D THEN Contents[y] ELSE Originals[y]
  <2> TAKE y \in Cells
  <2>1. ASSUME NEW u \in Tx \ {t}, y \in DOMAIN undo[u]
        PROVE  O2[y] = Originals[y] /\ y \notin D
    BY <1>1, <1>3, <2>1 DEF UndoHolds
  <2>2. CASE \A u \in Tx \ {t} : y \notin DOMAIN undo[u]
    <3>1. O2[y] = N2[y]
      BY <1>1, <1>3, <1>4, <2>2 DEF UndoHolds
    <3>2. y \notin D => Originals[y] = Contents[y]
      BY <1>1, <2>2 DEF UndoHolds
    <3> QED
      BY <1>5, <3>1, <3>2
  <2> QED
    BY <2>1, <2>2
<1>7. \A y \in Cells : N2[y] \in Slot /\ O2[y] \in Slot
  BY <1>1, <1>4 DEF UndoHolds
<1> HIDE DEF D, N2, O2
<1>8. InPlace(Cells, Contents, Originals, row) /\ row \in Nat
  BY Sizes DEF IInv, TypeOK, RowsInPlace
<1>9. RowsInPlace'
  <2>1. Follows(Cells, Contents, Originals, row, 0, Cells, N2, O2, row)
    BY <1>5, <1>6, <1>7 DEF Follows
  <2>2. InPlace(Cells, N2, O2, row)
    BY <1>8, <2>1, StaysInPlace
  <2> QED
    BY <1>3, <1>4, <2>2 DEF RowsInPlace, N2, O2
<1>10. Maps'
  BY <1>1, <1>9, MappingNext
<1>11. CommittedRows' = Rows!View(t)
  <2>1. /\ RowsMap(CommittedRows, Cells, Originals) /\ RowsMap(CommittedRows', Cells, O2)
        /\ ChangedMap(ChangedRows(t), D, Contents, Originals) /\ D \in SUBSET Cells
    BY <1>1, <1>4, <1>10 DEF Maps, UndoHolds, D, O2
  <2>2. CommittedRows' = View(ChangedRows(t), CommittedRows)
    BY ONLY <1>6, <1>8, <2>1, CommittedView
  <2> QED
    BY <2>2 DEF Rows!View, Rows!Content, View, Content
<1>12. ASSUME NEW u \in Tx \ {t} PROVE ChangedRows(u)' = ChangedRows(u)
  <2>1. /\ ChangedMap(ChangedRows(u), DOMAIN undo[u], Contents, Originals)
        /\ ChangedMap(ChangedRows(u)', DOMAIN undo[u], N2, O2)
    BY <1>1, <1>3, <1>10 DEF Maps, N2, O2
  <2>2. \A y \in DOMAIN undo[u] : N2[y] = Contents[y] /\ O2[y] = Originals[y]
    BY <1>1, <1>5, <1>6 DEF UndoHolds, D
  <2> QED
    BY ONLY <2>1, <2>2, SameChanges
<1>13. ChangedRows(t)' = Rows!Nothing
  BY <1>2, <1>10, Forgotten
<1>14. Rows!Commit(t)
  BY <1>11, <1>12, <1>13, OneChanges DEF Rows!Commit
<1> QED
  BY <1>9, <1>14 DEF Simulates, Rows!Next

LEMMA RollbackSimulated ==
  ASSUME IInv, IInv', RowsInPlace, NEW t \in Tx, Rollback(t)
  PROVE  RowsInPlace' /\ Simulates
<1> DEFINE D == DOMAIN undo[t]
           N2 == Contents'
           O2 == Originals'
<1>1. UndoHolds /\ UndoHolds' /\ Maps
  BY Undoing, UndoingNext, Mapping
<1>2. /\ Finish(t)
      /\ file' = [b \in DOMAIN file |->
                    [i \in Slots |-> IF <<b, i>> \in D THEN undo[t][<<b, i>>] ELSE file[b][i]]]
  BY DEF Rollback
<1>3. /\ DOMAIN undo'[t] = {} /\ \A u \in Tx \ {t} : undo'[u] = undo[u]
      /\ row' = row
  BY <1>2, Released
<1>4. Cells' = Cells
  BY <1>2 DEF Cells
<1>5. \A y \in Cells : N2[y] = IF y \in D THEN Originals[y] ELSE Contents[y]
  <2> TAKE y \in Cells
  <2>1. y[1] \in DOMAIN file /\ y[2] \in Slots /\ <<y[1], y[2]>> = y
    BY DEF Cells
  <2>2. file'[y[1]][y[2]] = IF y \in D THEN undo[t][y] ELSE file[y[1]][y[2]]
    BY <1>2, <2>1
  <2>3. N2[y] = file'[y[1]][y[2]]
    BY <1>1, <1>4 DEF UndoHolds
  <2> QED
    BY <1>1, <2>2, <2>3 DEF UndoHolds
<1>6. \A y \in Cells : O2[y] = Originals[y]
  <2> TAKE y \in Cells
  <2>1. ASSUME NEW u \in Tx \ {t}, y \in DOMAIN undo[u] PROVE O2[y] = Originals[y]
    BY <1>1, <1>3, <2>1 DEF UndoHolds
  <2>2. CASE \A u \in Tx \ {t} : y \notin DOMAIN undo[u]
    <3>1. O2[y] = N2[y]
      BY <1>1, <1>3, <1>4, <2>2 DEF UndoHolds
    <3>2. y \notin D => Originals[y] = Contents[y]
      BY <1>1, <2>2 DEF UndoHolds
    <3> QED
      BY <1>5, <3>1, <3>2
  <2> QED
    BY <2>1, <2>2
<1>7. \A y \in Cells : N2[y] \in Slot /\ O2[y] \in Slot
  BY <1>1, <1>4 DEF UndoHolds
<1> HIDE DEF D, N2, O2
<1>8. InPlace(Cells, Contents, Originals, row) /\ row \in Nat
  BY Sizes DEF IInv, TypeOK, RowsInPlace
<1>9. RowsInPlace'
  <2>1. Follows(Cells, Contents, Originals, row, 0, Cells, N2, O2, row)
    BY <1>5, <1>6, <1>7 DEF Follows
  <2>2. InPlace(Cells, N2, O2, row)
    BY <1>8, <2>1, StaysInPlace
  <2> QED
    BY <1>3, <1>4, <2>2 DEF RowsInPlace, N2, O2
<1>10. Maps'
  BY <1>1, <1>9, MappingNext
<1>11. CommittedRows' = CommittedRows
  <2>1. RowsMap(CommittedRows, Cells, Originals) /\ RowsMap(CommittedRows', Cells, O2)
    BY <1>1, <1>4, <1>10 DEF Maps, O2
  <2> QED
    BY ONLY <1>6, <2>1, SameRows
<1>12. ASSUME NEW u \in Tx \ {t} PROVE ChangedRows(u)' = ChangedRows(u)
  <2>1. /\ ChangedMap(ChangedRows(u), DOMAIN undo[u], Contents, Originals)
        /\ ChangedMap(ChangedRows(u)', DOMAIN undo[u], N2, O2)
    BY <1>1, <1>3, <1>10 DEF Maps, N2, O2
  <2>2. \A y \in DOMAIN undo[u] : N2[y] = Contents[y] /\ O2[y] = Originals[y]
    BY <1>1, <1>5, <1>6 DEF UndoHolds, D
  <2> QED
    BY ONLY <2>1, <2>2, SameChanges
<1>13. ChangedRows(t)' = Rows!Nothing
  BY <1>2, <1>10, Forgotten
<1>14. Rows!Rollback(t)
  BY <1>11, <1>12, <1>13, OneChanges DEF Rows!Rollback
<1> QED
  BY <1>9, <1>14 DEF Simulates, Rows!Next

-----------------------------------------------------------------------------
(* The table of rows.                                                      *)

LEMMA InitSimulated ==
  ASSUME Init, IInv
  PROVE  RowsInPlace /\ Rows!Init
<1>1. file = <<>> /\ undo = [t \in Tx |-> [x \in {} |-> Zeros[1]]]
  BY DEF Init
<1>2. Cells = {}
  BY <1>1 DEF Cells
<1>3. RowsInPlace
  BY <1>2 DEF RowsInPlace, InPlace
<1>4. Maps /\ UndoHolds
  BY <1>3, Undoing, Mapping
<1>5. PICK none : none = Rows!Nothing
  OBVIOUS
<1>6. none = [r \in DOMAIN none |-> none[r]] /\ \A r : r \notin DOMAIN none
  BY <1>5 DEF Rows!Nothing
<1>7. CommittedRows = none
  <2>1. PICK f : f = CommittedRows
    OBVIOUS
  <2>2. f = [r \in DOMAIN f |-> f[r]] /\ \A r : r \notin DOMAIN f
    BY <1>2, <1>4, <2>1 DEF Maps, RowsMap
  <2> QED
    BY <1>6, <2>1, <2>2, SameFunction
<1>8. ASSUME NEW t \in Tx PROVE ChangedRows(t) = none
  <2>1. PICK f : f = ChangedRows(t)
    OBVIOUS
  <2>2. DOMAIN undo[t] = {}
    BY <1>2, <1>4 DEF UndoHolds
  <2>3. f = [r \in DOMAIN f |-> f[r]] /\ \A r : r \notin DOMAIN f
    BY <1>4, <2>1, <2>2 DEF Maps, ChangedMap
  <2> QED
    BY <1>6, <2>1, <2>3, SameFunction
<1> QED
  BY <1>3, <1>5, <1>7, <1>8 DEF Rows!Init

LEMMA NextSimulated ==
  ASSUME IInv, IInv', RowsInPlace, [Next]_vars
  PROVE  RowsInPlace' /\ Simulates
<1>1. CASE UNCHANGED <<file, undo, row>>
  BY <1>1, Quiet DEF Simulates
<1>2. CASE UNCHANGED vars
  BY <1>1, <1>2 DEF vars
<1>3. CASE Next
  <2>1. PICK t \in Tx :
          \/ Open(t) \/ OpenNew(t) \/ OpenFails(t) \/ BeforeFirst(t) \/ AfterLast(t)
          \/ \E b \in DOMAIN file, i \in Slots : MoveTo(t, b, i)
          \/ NextInBlock(t) \/ NextBlock(t) \/ PreviousInBlock(t) \/ PreviousBlock(t)
          \/ InsertInBlock(t) \/ InsertInNextBlock(t)
          \/ \E v \in Field : Set(t, v)
          \/ Delete(t) \/ GiveUp(t) \/ Commit(t) \/ Rollback(t)
    BY <1>3 DEF Next
  <2>2. CASE \/ Open(t) \/ OpenFails(t) \/ BeforeFirst(t) \/ AfterLast(t)
             \/ \E b \in DOMAIN file, i \in Slots : MoveTo(t, b, i)
             \/ NextInBlock(t) \/ NextBlock(t) \/ PreviousInBlock(t) \/ PreviousBlock(t)
             \/ GiveUp(t)
    BY <1>1, <2>2 DEF Open, OpenFails, BeforeFirst, AfterLast, MoveTo, NextInBlock,
       NextBlock, PreviousInBlock, PreviousBlock, GiveUp
  <2>3. CASE OpenNew(t)
    <3>1. file = <<>> /\ file' = <<Zeros>> /\ UNCHANGED <<undo, row>>
      BY <2>3 DEF OpenNew, IInv, LocksHold
    <3>2. DOMAIN file = {} /\ \A b \in DOMAIN file' : file'[b] = Zeros
      BY <3>1
    <3> QED
      BY <3>1, <3>2, ExtendSimulated
  <2>4. CASE InsertInNextBlock(t)
    <3>1. UNCHANGED <<undo, row>> /\ (file' = file \/ file' = Append(file, Zeros))
      BY <2>4 DEF InsertInNextBlock
    <3>2. CASE file' = Append(file, Zeros)
      <4>1. file \in Seq([Slots -> Slot]) /\ Len(file) \in Nat /\ DOMAIN file = 1..Len(file)
        BY Types DEF IInv
      <4>2. /\ DOMAIN file' = 1..(Len(file) + 1)
            /\ \A b \in 1..Len(file) : file'[b] = file[b]
            /\ file'[Len(file) + 1] = Zeros
        BY <3>2, <4>1, ZerosType, AppendProperties
      <4> QED
        BY <3>1, <4>1, <4>2, ExtendSimulated
    <3> QED
      BY <1>1, <3>1, <3>2
  <2>5. CASE InsertInBlock(t)
    BY <2>5, InsertSimulated
  <2>6. CASE \E v \in Field : Set(t, v)
    BY <2>6, SetSimulated
  <2>7. CASE Delete(t)
    BY <2>7, DeleteSimulated
  <2>8. CASE Commit(t)
    BY <2>8, CommitSimulated
  <2>9. CASE Rollback(t)
    BY <2>9, RollbackSimulated
  <2> QED
    BY <2>1, <2>2, <2>3, <2>4, <2>5, <2>6, <2>7, <2>8, <2>9
<1> QED
  BY <1>2, <1>3

\* A row is in one slot at most, in the file as in what transactions would put
\* back, and a slot is in use exactly when it has a row: that a slot is used again
\* before the deletion of its row is committed mixes up no rows.
THEOREM RowsCorrect == Spec => []RowsInPlace
<1>1. Init /\ IInv => RowsInPlace
  BY InitSimulated
<1>2. IInv /\ IInv' /\ RowsInPlace /\ [Next]_vars => RowsInPlace'
  BY NextSimulated
<1> QED
  BY <1>1, <1>2, Invariance, PTL DEF Spec

\* Through flags, slots that are used again, blocks that are appended and what is
\* put back, scans of concurrent transactions insert, change and delete the rows
\* of a table: changes show to nobody else until they are committed, a commit
\* makes all of them last, and a rollback takes back these and no others.
THEOREM Refinement == Spec => ImplementsRowStore
<1>1. Init /\ IInv => Rows!Init
  BY InitSimulated
<1>2. IInv /\ IInv' /\ RowsInPlace /\ [Next]_vars =>
        [UNCHANGED <<file, undo>> \/ UNCHANGED Rows!vars \/ Rows!Next]_<<file, undo>>
  BY NextSimulated DEF Simulates
<1> QED
  BY <1>1, <1>2, Invariance, RowsCorrect, PTL DEF Spec, ImplementsRowStore

=============================================================================
