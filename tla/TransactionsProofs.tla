------------------------- MODULE TransactionsProofs -------------------------
(***************************************************************************)
(* Proofs about Transactions, for any number of transactions, blocks and   *)
(* values, and logs of any length.                                         *)
(***************************************************************************)
EXTENDS Transactions, Integers, FiniteSetsExt, NaturalsInduction,
        WellFoundedInduction, TLAPS

-----------------------------------------------------------------------------
(* Least and greatest numbers of a set.                                    *)

\* A set of numbers that has one has a least one.
LEMMA LeastExists ==
  ASSUME NEW S, S \subseteq Nat, S # {}
  PROVE  \E i \in S : \A j \in S : i <= j
<1>1. IsWellFoundedOn(OpToRel(<, Nat), Nat)
  BY NatLessThanWellFounded
<1>2. PICK x \in S : \A y \in S : ~ (<<y, x>> \in OpToRel(<, Nat))
  BY <1>1, WFMin
<1>3. \A y \in S : x =< y
  <2> TAKE y \in S
  <2>1. <<y, x>> \in OpToRel(<, Nat) <=> y < x
    BY DEF OpToRel
  <2>2. x \in Nat /\ y \in Nat /\ ~ (y < x)
    BY <1>2, <2>1
  <2> QED
    BY <2>2
<1> QED
  BY <1>2, <1>3

\* A set of numbers up to n that has one has a greatest one.
LEMMA GreatestExists ==
  ASSUME NEW n \in Nat, NEW S \in SUBSET (0..n), S # {}
  PROVE  \E i \in S : \A j \in S : j <= i
<1> DEFINE T == {n - j : j \in S}
<1>1. T \subseteq Nat /\ T # {}
  <2>1. \A j \in S : n - j \in Nat
    OBVIOUS
  <2> QED
    BY <2>1
<1>2. PICK k \in T : \A m \in T : k <= m
  <2> HIDE DEF T
  <2> QED
    BY <1>1, LeastExists
<1>3. PICK i \in S : k = n - i
  BY <1>2
<1>4. \A j \in S : i >= j
  BY <1>2, <1>3
<1> QED
  BY <1>4

LEMMA MaxProperty ==
  ASSUME NEW n \in Nat, NEW S \in SUBSET (0..n), S # {}
  PROVE  Max(S) \in S /\ \A j \in S : j <= Max(S)
<1> QED
  BY GreatestExists DEF Max

-----------------------------------------------------------------------------
\* The updates that nothing on disk has settled.
Pending == {i \in DOMAIN records : IsUpdate(i) /\ ~Settled(i)}

\* Those that a rollback of t, or the recovery that t runs, has to undo.
ToUndo(t) == IF Recovering THEN Pending ELSE {i \in Pending : records[i].tx = t}

\* The first of the unsettled updates of a block keeps what it had before.
Oldest(b, i) == i \in Unsettled(b) /\ \A j \in Unsettled(b) : i <= j

Recovery == {"recover_undo", "recover_flush", "recover_log", "recover_save"}
RollingBack == {"rollback_undo", "rollback_flush", "rollback_log", "rollback_save"}

MarkOf(l) ==
  CASE l = "commit_save" -> "commit"
    [] l = "rollback_save" -> "rollback"
    [] l = "recover_save" -> "checkpoint"

-----------------------------------------------------------------------------
\* The opener works alone until it is done, and it alone recovers.
OpenerFirst ==
  /\ \A t \in Tx : pc[t] \in Recovery \cup {"down"} => t = Opener
  /\ pc[Opener] # "done" => \A t \in Tx \ {Opener} :
       pc[t] = "active" /\ \A b \in Block : held[t][b] = "none"

\* The end of the log that is not on disk has updates only, apart from the
\* mark of the one transaction that is about to flush it.
MarksInOrder ==
  /\ \A t, u \in Tx : pc[t] \in Saving /\ pc[u] \in Saving => t = u
  /\ \A t \in Tx : pc[t] \in Saving =>
       durable < Len(records) /\ records[Len(records)] = Mark(MarkOf(pc[t]), t)
  /\ \A j \in DOMAIN records : j > durable /\ ~IsUpdate(j) =>
       j = Len(records) /\ \E t \in Tx : pc[t] \in Saving

\* Whoever changed a page that is not on disk yet still has the lock.
DirtyLocked ==
  \A b \in Block : dirty[b] # None => held[dirty[b]][b] = "exclusive"

\* So has whoever made a change that is not settled, and it is still running.
PendingLocked ==
  ~Recovering => \A i \in Pending :
    /\ held[records[i].tx][records[i].block] = "exclusive"
    /\ pc[records[i].tx] \notin {"release", "done"}

\* A clean page is as the file, and a dirty one has a change not settled.
PagesClean ==
  \A b \in Block : IF dirty[b] = None THEN page[b] = disk[b] ELSE Unsettled(b) # {}

\* The log number of a page covers the changes whose records are not on disk.
LogCovers ==
  \A i \in DOMAIN records : IsUpdate(i) => i <= durable \/ i <= lsn[records[i].block]

\* The pages of a transaction are on disk before its mark goes to the log.
FlushedBefore ==
  \A t \in Tx : pc[t] \in Marking \cup Saving \cup {"release", "done"} =>
    \A b \in Block : dirty[b] # t

\* The old value of a change whose record is not on disk is still in the file.
OldInFile ==
  \A b \in Block : \A i \in Unsettled(b) :
    Oldest(b, i) /\ i > durable => disk[b] = records[i].old

\* What is settled and of a transaction that still runs is from an earlier
\* opening of the database.
SettledBefore ==
  ~Recovering =>
    \A i \in DOMAIN records :
      IsUpdate(i) /\ Settled(i) /\ pc[records[i].tx] \notin {"release", "done"} =>
        \E j \in i+1..durable : records[j].kind = "checkpoint"

\* Undoing goes from the last update to the first: what is left is a beginning
\* of what there was, and a block of which none is left has its old value back.
UndoesInOrder(t) ==
  /\ todo[t] \subseteq ToUndo(t)
  /\ \A i \in todo[t], j \in ToUndo(t) : j < i => j \in todo[t]
  /\ \A i \in todo[t], k \in DOMAIN records :
       IsUpdate(k) /\ records[k].block = records[i].block => k <= durable
  /\ \A i \in ToUndo(t) :
       \/ \E j \in todo[t] : records[j].block = records[i].block
       \/ page[records[i].block] = Recovered[records[i].block]

UndoInOrder ==
  \A t \in Tx :
    /\ pc[t] \notin Undoing \cup {"panicked"} => todo[t] = {}
    /\ pc[t] \in Recovery \cup RollingBack => UndoesInOrder(t)

\* No block that a transaction has changed is missing, and none at all that is
\* not of a temporary file.
MissingOnlyTemp ==
  /\ ~Recovering => \A i \in Pending : page[records[i].block] # Missing
  /\ \A b \in Block \ TempBlock : disk[b] # Missing /\ page[b] # Missing

\* While the database is down everything there is is on disk.
DownIsClean ==
  pc[Opener] = "down" => durable = Len(records) /\ \A b \in Block : dirty[b] = None

\* The inductive invariant.
IInv ==
  /\ TypeOK /\ OpenerFirst /\ MarksInOrder
  /\ Locks!Exclusion /\ DirtyLocked /\ PendingLocked
  /\ PagesClean /\ LogCovers /\ FlushedBefore /\ OldInFile
  /\ SettledBefore /\ UndoInOrder /\ MissingOnlyTemp /\ DownIsClean

-----------------------------------------------------------------------------
(* Records and the updates that are not settled.                           *)

LEMMA RecordType ==
  ASSUME TypeOK, NEW i \in DOMAIN records
  PROVE  /\ i \in 1..Len(records) /\ i \in Nat
         /\ records[i] \in LogRecord /\ records[i].tx \in Tx
         /\ IsUpdate(i) => /\ records[i].block \in Block /\ records[i].old \in Value
<1>1. records \in Seq(LogRecord)
  BY DEF TypeOK
<1>2. i \in 1..Len(records) /\ records[i] \in LogRecord
  BY <1>1
<1> QED
  BY <1>2 DEF LogRecord, IsUpdate

LEMMA LengthType ==
  ASSUME TypeOK
  PROVE  /\ Len(records) \in Nat /\ durable \in Nat /\ durable =< Len(records)
         /\ DOMAIN records = 1..Len(records)
BY DEF TypeOK

LEMMA PendingType ==
  ASSUME TypeOK, NEW i \in Pending
  PROVE  /\ i \in DOMAIN records /\ i \in Nat /\ IsUpdate(i)
         /\ records[i].tx \in Tx /\ records[i].block \in Block /\ records[i].old \in Value
BY RecordType DEF Pending

\* Unsettled updates by block.
LEMMA UnsettledIsPending ==
  \A b : Unsettled(b) = {i \in Pending : records[i].block = b}
BY DEF Unsettled, Pending

LEMMA OldestExists ==
  ASSUME TypeOK, NEW b \in Block, Unsettled(b) # {}
  PROVE  \E i \in Unsettled(b) : Oldest(b, i)
<1>1. Unsettled(b) \subseteq Nat
  BY LengthType DEF Unsettled
<1> QED
  BY <1>1, LeastExists DEF Oldest

LEMMA OldestUnique ==
  ASSUME TypeOK, NEW b \in Block, NEW i, NEW j, Oldest(b, i), Oldest(b, j)
  PROVE  i = j
<1>1. i \in Nat /\ j \in Nat
  BY LengthType DEF Oldest, Unsettled
<1> QED
  BY <1>1 DEF Oldest

\* What recovery would leave, told by the oldest unsettled update alone.
RecoveredIsOldest ==
  \A b \in Block :
    /\ Unsettled(b) = {} => Recovered[b] = disk[b]
    /\ \A i \in Unsettled(b) : Oldest(b, i) => Recovered[b] = records[i].old

LEMMA RecoveredValue == TypeOK /\ OldInFile => RecoveredIsOldest
<1> SUFFICES ASSUME TypeOK, OldInFile, NEW b \in Block
             PROVE  /\ Unsettled(b) = {} => Recovered[b] = disk[b]
                    /\ \A i \in Unsettled(b) : Oldest(b, i) => Recovered[b] = records[i].old
  BY DEF RecoveredIsOldest
<1>1. Unsettled(b) = {} => Recovered[b] = disk[b]
  BY DEF Recovered
<1>2. ASSUME NEW i \in Unsettled(b), Oldest(b, i) PROVE Recovered[b] = records[i].old
  <2>1. i \in Nat /\ durable \in Nat /\ i \in DOMAIN records
    BY LengthType DEF Unsettled
  <2>2. CASE i > durable
    <3>1. \A j \in Unsettled(b) : j > durable
      <4> TAKE j \in Unsettled(b)
      <4>1. j \in Nat /\ i <= j
        BY <1>2, LengthType DEF Oldest, Unsettled
      <4> QED
        BY <2>1, <2>2, <4>1
    <3>2. Recovered[b] = disk[b]
      BY <3>1 DEF Recovered
    <3> QED
      BY <1>2, <2>1, <2>2, <3>2 DEF OldInFile
  <2>3. CASE ~ (i > durable)
    <3> DEFINE c == CHOOSE k \in Unsettled(b) : \A j \in Unsettled(b) : k <= j
    <3>1. Recovered[b] = records[c].old
      BY <2>3 DEF Recovered
    <3>2. c \in Unsettled(b) /\ \A j \in Unsettled(b) : c <= j
      BY <1>2 DEF Oldest
    <3> HIDE DEF c
    <3>3. c = i
      BY <1>2, <3>2, OldestUnique DEF Oldest
    <3> QED
      BY <3>1, <3>3
  <2> QED
    BY <2>2, <2>3
<1> QED
  BY <1>1, <1>2

LEMMA RecoveredValueNext == TypeOK' /\ OldInFile' => RecoveredIsOldest'
BY RecoveredValue, PTL

-----------------------------------------------------------------------------
(* Steps that settle nothing.                                              *)

\* What such a step leaves as it is.
PendingSame ==
  /\ Pending' = Pending
  /\ \A i \in DOMAIN records :
       /\ i \in DOMAIN records' /\ records'[i] = records[i]
       /\ IsUpdate(i)' <=> IsUpdate(i)
       /\ Settled(i)' <=> Settled(i)
  /\ \A b : Unsettled(b)' = Unsettled(b)
  /\ \A b, i : Oldest(b, i)' <=> Oldest(b, i)

LEMMA PendingSameIf ==
  ASSUME Pending' = Pending,
         \A i \in DOMAIN records :
           /\ i \in DOMAIN records' /\ records'[i] = records[i]
           /\ Settled(i)' <=> Settled(i)
  PROVE  PendingSame
<1>1. \A i \in DOMAIN records : IsUpdate(i)' <=> IsUpdate(i)
  BY DEF IsUpdate
<1>2. ASSUME NEW b PROVE Unsettled(b)' = Unsettled(b)
  <2>1. Unsettled(b)' = {i \in Pending' : records'[i].block = b}
    BY DEF Unsettled, Pending
  <2>2. \A i \in Pending : records'[i].block = records[i].block
    BY DEF Pending
  <2> QED
    BY <2>1, <2>2, UnsettledIsPending
<1>3. \A b, i : Oldest(b, i)' <=> Oldest(b, i)
  BY <1>2 DEF Oldest
<1> QED
  BY <1>1, <1>2, <1>3 DEF PendingSame

LEMMA SameLog ==
  ASSUME UNCHANGED log
  PROVE  PendingSame
<1>1. \A i : IsUpdate(i)' <=> IsUpdate(i)
  BY DEF log, IsUpdate
<1>2. \A i : Settled(i)' <=> Settled(i)
  BY <1>1 DEF log, Settled
<1>3. Pending' = Pending
  BY <1>1, <1>2 DEF log, Pending
<1> QED
  BY <1>2, <1>3, PendingSameIf DEF log

\* A save while no transaction has its mark in the log only.
LEMMA QuietSave ==
  ASSUME TypeOK, MarksInOrder, \A t \in Tx : pc[t] \notin Saving,
         records' = records, durable' \in {durable, Len(records)}
  PROVE  PendingSame
<1>1. \A i : IsUpdate(i)' <=> IsUpdate(i)
  BY DEF IsUpdate
<1>2. \A j \in DOMAIN records : j > durable => IsUpdate(j)
  BY DEF MarksInOrder
<1>3. ASSUME NEW i \in DOMAIN records PROVE Settled(i)' <=> Settled(i)
  <2>1. /\ durable \in Nat /\ Len(records) \in Nat /\ durable <= Len(records)
        /\ DOMAIN records = 1..Len(records) /\ i \in Nat /\ i >= 1
    BY LengthType
  <2>2. Settled(i) => Settled(i)'
    BY <2>1, <1>1 DEF Settled
  <2>3. ASSUME NEW j \in i+1..durable', records[j].kind = "checkpoint" \/ ~IsUpdate(j)
        PROVE  j \in i+1..durable
    <3>1. j \in DOMAIN records /\ ~IsUpdate(j)
      BY <2>1, <2>3 DEF IsUpdate
    <3> QED
      BY <1>2, <2>1, <3>1
  <2>4. Settled(i)' => Settled(i)
    BY <1>1, <2>3 DEF Settled
  <2> QED
    BY <2>2, <2>4
<1>4. Pending' = Pending
  BY <1>1, <1>3 DEF Pending
<1> QED
  BY <1>3, <1>4, PendingSameIf

\* A mark in the log settles nothing until it is on disk.
LEMMA QuietMark ==
  ASSUME TypeOK, NEW k \in {"commit", "rollback", "checkpoint"}, NEW t \in Tx,
         records' = Append(records, Mark(k, t)), durable' = durable
  PROVE  PendingSame
<1>1. /\ durable \in Nat /\ Len(records) \in Nat /\ durable <= Len(records)
      /\ DOMAIN records = 1..Len(records)
      /\ records \in Seq(LogRecord)
  BY LengthType DEF TypeOK
<1>n. PICK n \in Nat : n = Len(records) + 1
  BY <1>1
<1>2. Mark(k, t) \in LogRecord /\ Mark(k, t).kind # "update"
  BY DEF Mark, LogRecord
<1>3. /\ DOMAIN records' = 1..n
      /\ \A i \in DOMAIN records : records'[i] = records[i]
      /\ records'[n] = Mark(k, t)
  BY <1>1, <1>2, <1>n
<1>4. ~ IsUpdate(n)'
  BY <1>2, <1>3 DEF IsUpdate
<1>5. \A i \in DOMAIN records : IsUpdate(i)' <=> IsUpdate(i)
  BY <1>3 DEF IsUpdate
<1>6. ASSUME NEW i \in DOMAIN records PROVE Settled(i)' <=> Settled(i)
  <2>1. \A j \in i+1..durable : j \in DOMAIN records
    BY <1>1
  <2> QED
    BY <1>3, <1>5, <2>1 DEF Settled
<1>7. Pending' = Pending
  <2>1. \A i \in DOMAIN records' : i \in DOMAIN records \/ i = n
    BY <1>1, <1>3, <1>n
  <2>2. DOMAIN records \subseteq DOMAIN records'
    BY <1>1, <1>3, <1>n
  <2> QED
    BY <1>4, <1>5, <1>6, <2>1, <2>2 DEF Pending
<1> QED
  BY <1>1, <1>3, <1>6, <1>7, PendingSameIf

-----------------------------------------------------------------------------
\* A block whose unsettled changes stay, and whose file too if it has none, is
\* recovered as before.
LEMMA RecoveredSame ==
  ASSUME TypeOK, OldInFile, TypeOK', OldInFile', PendingSame, NEW b \in Block,
         Unsettled(b) = {} => disk'[b] = disk[b]
  PROVE  Recovered'[b] = Recovered[b]
<1>1. RecoveredIsOldest /\ RecoveredIsOldest'
  BY RecoveredValue, RecoveredValueNext
<1>2. CASE Unsettled(b) = {}
  <2>1. Unsettled(b)' = {}
    BY <1>2 DEF PendingSame
  <2> QED
    BY <1>1, <1>2, <2>1 DEF RecoveredIsOldest
<1>3. CASE Unsettled(b) # {}
  <2>1. PICK i \in Unsettled(b) : Oldest(b, i)
    BY <1>3, OldestExists
  <2>2. Recovered[b] = records[i].old
    BY <1>1, <2>1 DEF RecoveredIsOldest
  <2>3. i \in Unsettled(b)' /\ Oldest(b, i)'
    BY <2>1 DEF PendingSame
  <2>4. Recovered'[b] = records'[i].old
    BY <1>1, <2>3 DEF RecoveredIsOldest
  <2>5. records'[i] = records[i]
    BY <2>1 DEF PendingSame, Unsettled
  <2> QED
    BY <2>2, <2>4, <2>5
<1> QED
  BY <1>2, <1>3

\* The same of what a rollback or recovery has left, when no page that it has
\* written changes.
LEMMA UndoesSame ==
  ASSUME TypeOK, PendingSame, Recovering' <=> Recovering, Recovered' = Recovered,
         durable \in Nat, durable' \in Nat, durable <= durable',
         \A i \in DOMAIN records' : i \in DOMAIN records \/ ~ IsUpdate(i)',
         NEW t \in Tx, todo'[t] = todo[t], UndoesInOrder(t),
         \A i \in ToUndo(t) : page'[records[i].block] = page[records[i].block]
  PROVE  UndoesInOrder(t)'
<1>1. \A i \in Pending : i \in DOMAIN records /\ i \in Nat /\ records'[i] = records[i]
  BY PendingType DEF PendingSame
<1>2. ToUndo(t)' = ToUndo(t)
  BY <1>1 DEF ToUndo, PendingSame
<1>3. ToUndo(t) \subseteq Pending /\ todo[t] \subseteq Pending
  BY DEF ToUndo, UndoesInOrder
<1>4. ASSUME NEW i \in todo'[t], NEW k \in DOMAIN records', IsUpdate(k)',
             records'[k].block = records'[i].block
      PROVE  k <= durable'
  <2>1. k \in DOMAIN records /\ IsUpdate(k) /\ records'[k] = records[k]
    BY <1>4 DEF PendingSame
  <2>2. i \in todo[t] /\ records'[i] = records[i]
    BY <1>1, <1>3
  <2>3. k <= durable /\ k \in Nat
    BY <1>4, <2>1, <2>2, LengthType DEF UndoesInOrder
  <2> QED
    BY <2>3
<1>5. ASSUME NEW i \in ToUndo(t)
      PROVE  \/ \E j \in todo'[t] : records'[j].block = records'[i].block
             \/ page'[records'[i].block] = Recovered'[records'[i].block]
  BY <1>1, <1>3 DEF UndoesInOrder
<1> QED
  BY <1>2, <1>4, <1>5 DEF UndoesInOrder

LEMMA SettledBeforeSame ==
  ASSUME TypeOK, SettledBefore, PendingSame, Recovering' <=> Recovering,
         durable \in Nat, durable' \in Nat, durable <= durable',
         \A i \in DOMAIN records' : i \in DOMAIN records \/ ~ IsUpdate(i)',
         \A u \in Tx : pc'[u] \notin {"release", "done"} => pc[u] \notin {"release", "done"}
  PROVE  SettledBefore'
<1> SUFFICES ASSUME ~Recovering', NEW i \in DOMAIN records', IsUpdate(i)', Settled(i)',
                    pc'[records'[i].tx] \notin {"release", "done"}
             PROVE  \E j \in i+1..durable' : records'[j].kind = "checkpoint"
  BY DEF SettledBefore
<1>1. i \in DOMAIN records /\ IsUpdate(i) /\ records'[i] = records[i] /\ Settled(i)
  BY DEF PendingSame
<1>2. records[i].tx \in Tx
  BY <1>1, RecordType
<1>3. PICK j \in i+1..durable : records[j].kind = "checkpoint"
  BY <1>1, <1>2 DEF SettledBefore
<1>4. j \in DOMAIN records /\ j \in i+1..durable'
  BY <1>1, LengthType
<1> QED
  BY <1>3, <1>4 DEF PendingSame

\* A step that settles nothing and changes no page.
LEMMA Quiet ==
  ASSUME IInv, TypeOK', PendingSame, Recovering' <=> Recovering,
         UNCHANGED <<disk, pool>>, durable <= durable',
         \A i \in DOMAIN records' : i \in DOMAIN records \/ ~ IsUpdate(i)',
         \A u \in Tx : pc'[u] \notin {"release", "done"} => pc[u] \notin {"release", "done"}
  PROVE  /\ PagesClean' /\ LogCovers' /\ OldInFile' /\ SettledBefore' /\ MissingOnlyTemp'
         /\ Recovered' = Recovered
         /\ \A t \in Tx : todo'[t] = todo[t] /\ UndoesInOrder(t) => UndoesInOrder(t)'
<1>1. /\ TypeOK /\ durable \in Nat /\ durable' \in Nat /\ Len(records) \in Nat
      /\ DOMAIN records = 1..Len(records)
  BY LengthType DEF IInv, TypeOK
<1>2. PagesClean'
  BY DEF IInv, PagesClean, PendingSame, pool
<1>3. LogCovers'
  <2> SUFFICES ASSUME NEW i \in DOMAIN records', IsUpdate(i)'
               PROVE  i <= durable' \/ i <= lsn'[records'[i].block]
    BY DEF LogCovers
  <2>1. i \in DOMAIN records /\ IsUpdate(i) /\ records'[i] = records[i]
    BY DEF PendingSame
  <2>2. i <= durable \/ i <= lsn[records[i].block]
    BY <2>1 DEF IInv, LogCovers
  <2> QED
    BY <1>1, <2>1, <2>2 DEF pool
<1>4. OldInFile'
  <2> SUFFICES ASSUME NEW b \in Block, NEW i \in Unsettled(b)', Oldest(b, i)', i > durable'
               PROVE  disk'[b] = records'[i].old
    BY DEF OldInFile
  <2>1. i \in Unsettled(b) /\ Oldest(b, i)
    BY DEF PendingSame
  <2>2. i \in DOMAIN records /\ records'[i] = records[i]
    BY <2>1 DEF PendingSame, Unsettled
  <2>3. i > durable
    BY <1>1, <2>2
  <2> QED
    BY <2>1, <2>2, <2>3 DEF IInv, OldInFile
<1>5. SettledBefore'
  BY <1>1, SettledBeforeSame DEF IInv
<1>6. MissingOnlyTemp'
  BY DEF IInv, MissingOnlyTemp, PendingSame, Pending, pool
<1>7. Recovered' = Recovered
  <2>1. \A b \in Block : Recovered'[b] = Recovered[b]
    BY <1>1, <1>4, RecoveredSame DEF IInv
  <2> QED
    BY <2>1 DEF Recovered
<1>8. ASSUME NEW t \in Tx, todo'[t] = todo[t], UndoesInOrder(t)
      PROVE  UndoesInOrder(t)'
  BY <1>1, <1>7, <1>8, UndoesSame DEF pool
<1> QED
  BY <1>2, <1>3, <1>4, <1>5, <1>6, <1>7, <1>8

-----------------------------------------------------------------------------
(* Locks.                                                                  *)

LEMMA LockStep ==
  ASSUME IInv, NEW t \in Tx, NEW b \in Block, LockShared(t, b) \/ LockExclusive(t, b)
  PROVE  IInv' /\ Recovered' = Recovered
<1>1. UNCHANGED <<disk, pool, log, pc, todo>> /\ UNCHANGED <<page, dirty, lsn, records, durable>>
  BY DEF LockShared, LockExclusive, pool, log
<1>2. /\ PendingSame /\ (Recovering' <=> Recovering)
      /\ durable <= durable' /\ \A i \in DOMAIN records' : i \in DOMAIN records
  BY <1>1, SameLog, LengthType DEF Recovering, IInv
<1>3. PICK m \in {"shared", "exclusive"} :
        /\ held' = [held EXCEPT ![t][b] = m]
        /\ held[t][b] # "exclusive"
        /\ \A u \in Tx : u # t => held[u][b] # "exclusive" /\ (m = "exclusive" => held[u][b] = "none")
  BY DEF LockShared, LockExclusive, Locks!TakeShared, Locks!Upgrade
<1>4. /\ held \in [Tx -> [Block -> {"none", "shared", "exclusive"}]]
      /\ held' \in [Tx -> [Block -> {"none", "shared", "exclusive"}]]
      /\ \A u \in Tx, c \in Block : held'[u][c] = IF u = t /\ c = b THEN m ELSE held[u][c]
  BY <1>3 DEF IInv, TypeOK, Locks!Held, Locks!Mode
<1>5. Active(t)
  BY DEF LockShared, LockExclusive
<1>6. TypeOK'
  BY <1>1, <1>4 DEF IInv, TypeOK, Locks!Held, Locks!Mode
<1>7. OpenerFirst'
  BY <1>1, <1>4, <1>5 DEF IInv, OpenerFirst, Active
<1>8. MarksInOrder' /\ FlushedBefore' /\ DownIsClean'
  BY <1>1 DEF IInv, MarksInOrder, FlushedBefore, DownIsClean, IsUpdate
<1>9. Locks!Exclusion'
  BY <1>3, <1>4 DEF IInv, Locks!Exclusion
<1>10. DirtyLocked'
  BY <1>1, <1>3, <1>4 DEF IInv, DirtyLocked, TypeOK
<1>11. PendingLocked'
  <2>1. \A i \in Pending : records[i].tx \in Tx /\ records[i].block \in Block
    BY PendingType DEF IInv
  <2> QED
    BY <1>1, <1>2, <1>3, <1>4, <2>1 DEF IInv, PendingLocked, PendingSame
<1>12. /\ PagesClean' /\ LogCovers' /\ OldInFile' /\ SettledBefore' /\ MissingOnlyTemp'
       /\ Recovered' = Recovered
       /\ \A u \in Tx : todo'[u] = todo[u] /\ UndoesInOrder(u) => UndoesInOrder(u)'
  BY <1>1, <1>2, <1>6, Quiet
<1>13. UndoInOrder'
  BY <1>1, <1>12 DEF IInv, UndoInOrder
<1> QED
  BY <1>6, <1>7, <1>8, <1>9, <1>10, <1>11, <1>12, <1>13 DEF IInv

LEMMA ReleaseStep ==
  ASSUME IInv, NEW t \in Tx, NEW b \in Block, Release(t, b)
  PROVE  IInv' /\ Recovered' = Recovered
<1>1. /\ UNCHANGED <<disk, pool, log, pc, todo>>
      /\ UNCHANGED <<page, dirty, lsn, records, durable>>
      /\ pc[t] = "release"
  BY DEF Release, pool, log
<1>2. /\ PendingSame /\ (Recovering' <=> Recovering)
      /\ durable <= durable' /\ \A i \in DOMAIN records' : i \in DOMAIN records
  BY <1>1, SameLog, LengthType DEF Recovering, IInv
<1>3. /\ held \in [Tx -> [Block -> {"none", "shared", "exclusive"}]]
      /\ held' \in [Tx -> [Block -> {"none", "shared", "exclusive"}]]
      /\ \A u \in Tx, c \in Block : held'[u][c] = IF u = t /\ c = b THEN "none" ELSE held[u][c]
  BY DEF Release, Locks!Drop, IInv, TypeOK, Locks!Held, Locks!Mode
<1>4. TypeOK'
  BY <1>1, <1>3 DEF IInv, TypeOK, Locks!Held, Locks!Mode
<1>5. OpenerFirst'
  BY <1>1, <1>3 DEF IInv, OpenerFirst
<1>6. MarksInOrder' /\ FlushedBefore' /\ DownIsClean'
  BY <1>1 DEF IInv, MarksInOrder, FlushedBefore, DownIsClean, IsUpdate
<1>7. Locks!Exclusion'
  BY <1>3 DEF IInv, Locks!Exclusion
<1>8. DirtyLocked'
  <2>1. dirty[b] # t
    BY <1>1 DEF IInv, FlushedBefore
  <2> QED
    BY <1>1, <1>3, <2>1 DEF IInv, DirtyLocked, TypeOK
<1>9. PendingLocked'
  <2>1. \A i \in Pending : records[i].tx \in Tx /\ records[i].block \in Block
    BY PendingType DEF IInv
  <2> QED
    BY <1>1, <1>2, <1>3, <2>1 DEF IInv, PendingLocked, PendingSame
<1>10. /\ PagesClean' /\ LogCovers' /\ OldInFile' /\ SettledBefore' /\ MissingOnlyTemp'
       /\ Recovered' = Recovered
       /\ \A u \in Tx : todo'[u] = todo[u] /\ UndoesInOrder(u) => UndoesInOrder(u)'
  BY <1>1, <1>2, <1>4, Quiet
<1>11. UndoInOrder'
  BY <1>1, <1>10 DEF IInv, UndoInOrder
<1> QED
  BY <1>4, <1>5, <1>6, <1>7, <1>8, <1>9, <1>10, <1>11 DEF IInv

-----------------------------------------------------------------------------
(* Steps from one label to the next.                                       *)

LEMMA GotoKeepsRecovering ==
  ASSUME TypeOK, NEW t \in Tx, NEW l, Goto(t, l), l \notin {"down", "panicked"},
         pc[t] \notin {"down", "panicked"}, l \in Recovery <=> pc[t] \in Recovery
  PROVE  Recovering' <=> Recovering
<1>1. Opener \in Tx /\ \A u \in Tx : pc'[u] = IF u = t THEN l ELSE pc[u]
  BY TransactionsAssumption DEF TypeOK, Goto
<1>2. CASE t = Opener
  BY <1>1, <1>2 DEF Recovering, Recovery
<1>3. CASE t # Opener
  BY <1>1, <1>3 DEF Recovering
<1> QED
  BY <1>2, <1>3

\* A step of t alone to label l that changes no page, no lock and no record.
LEMMA GotoStep ==
  ASSUME IInv, NEW t \in Tx, NEW l \in Pc \ (Saving \cup {"down", "panicked"}),
         Goto(t, l), UNCHANGED <<disk, pool, log, held>>,
         pc[t] \notin Saving \cup {"down", "panicked", "done"},
         pc[t] = "release" <=> l \in {"release", "done"},
         t = Opener \/ pc[Opener] = "done",
         l = "done" => \A b \in Block : held[t][b] = "none",
         l \in Recovery <=> pc[t] \in Recovery,
         l \in Marking \cup {"release", "done"} => \A b \in Block : dirty[b] # t,
         todo' \in [Tx -> SUBSET DOMAIN records],
         \A u \in Tx : u # t => todo'[u] = todo[u],
         l \notin Undoing => todo'[t] = {},
         l \in Recovery \cup RollingBack => todo'[t] = todo[t] /\ pc[t] \in Recovery \cup RollingBack
  PROVE  IInv' /\ Recovered' = Recovered
<1>1. UNCHANGED <<page, dirty, lsn, records, durable>>
  BY DEF pool, log
<1>2. \A u \in Tx : pc'[u] = IF u = t THEN l ELSE pc[u]
  BY DEF Goto, IInv, TypeOK
<1>3. PendingSame
  BY SameLog
<1>4. Recovering' <=> Recovering
  BY GotoKeepsRecovering DEF IInv
<1>5. TypeOK'
  BY <1>1 DEF IInv, TypeOK, Goto, Locks!Held
<1>6. OpenerFirst'
  BY <1>1, <1>2, TransactionsAssumption DEF IInv, OpenerFirst, Recovery
<1>7. MarksInOrder'
  BY <1>1, <1>2 DEF IInv, MarksInOrder, IsUpdate
<1>8. FlushedBefore'
  BY <1>1, <1>2 DEF IInv, FlushedBefore
<1>9. DownIsClean'
  BY <1>1, <1>2, TransactionsAssumption DEF IInv, DownIsClean
<1>10. Locks!Exclusion' /\ DirtyLocked'
  BY <1>1 DEF IInv, Locks!Exclusion, DirtyLocked
<1>11. PendingLocked'
  <2>1. \A i \in Pending : records[i].tx \in Tx
    BY PendingType DEF IInv
  <2>2. \A i \in Pending : ~Recovering => pc'[records[i].tx] \notin {"release", "done"}
    BY <1>2, <2>1 DEF IInv, PendingLocked
  <2> QED
    BY <1>1, <1>3, <1>4, <2>2 DEF IInv, PendingLocked, PendingSame
<1>12. /\ durable <= durable' /\ \A i \in DOMAIN records' : i \in DOMAIN records
       /\ \A u \in Tx : pc'[u] \notin {"release", "done"} => pc[u] \notin {"release", "done"}
  BY <1>1, <1>2, LengthType DEF IInv
<1>13. /\ PagesClean' /\ LogCovers' /\ OldInFile' /\ SettledBefore' /\ MissingOnlyTemp'
       /\ Recovered' = Recovered
       /\ \A u \in Tx : todo'[u] = todo[u] /\ UndoesInOrder(u) => UndoesInOrder(u)'
  BY <1>1, <1>3, <1>4, <1>5, <1>12, Quiet
<1>14. UndoInOrder'
  <2> SUFFICES ASSUME NEW u \in Tx
               PROVE  /\ pc'[u] \notin Undoing \cup {"panicked"} => todo'[u] = {}
                      /\ pc'[u] \in Recovery \cup RollingBack => UndoesInOrder(u)'
    BY DEF UndoInOrder
  <2>1. CASE u = t
    BY <1>2, <1>13, <2>1 DEF IInv, UndoInOrder
  <2>2. CASE u # t
    BY <1>2, <1>13, <2>2 DEF IInv, UndoInOrder
  <2> QED
    BY <2>1, <2>2
<1> QED
  BY <1>5, <1>6, <1>7, <1>8, <1>9, <1>10, <1>11, <1>13, <1>14 DEF IInv

\* Who is not active is the opener, or comes after it.
LEMMA AfterOpener ==
  ASSUME IInv, NEW t \in Tx, pc[t] # "active"
  PROVE  t = Opener \/ pc[Opener] = "done"
BY DEF IInv, OpenerFirst

LEMMA CommitStep ==
  ASSUME IInv, NEW t \in Tx, Commit(t)
  PROVE  IInv' /\ Recovered' = Recovered
<1>1. /\ pc[t] = "active" /\ (t = Opener \/ pc[Opener] = "done")
      /\ Goto(t, "commit_flush") /\ UNCHANGED <<disk, pool, log, held>> /\ todo' = todo
  BY DEF Commit, Active
<1>2. "commit_flush" \in Pc \ (Saving \cup {"down", "panicked"})
  BY DEF Pc, Flushing, Saving
<1>3. todo \in [Tx -> SUBSET DOMAIN records] /\ todo[t] = {}
  BY <1>1 DEF IInv, TypeOK, UndoInOrder, Undoing
<1> QED
  BY <1>1, <1>2, <1>3, GotoStep DEF Saving, Marking, Undoing, Recovery, RollingBack

LEMMA FlushedStep ==
  ASSUME IInv, NEW t \in Tx, Flushed(t)
  PROVE  IInv' /\ Recovered' = Recovered
<1>1. /\ pc[t] \in Flushing /\ \A b \in Block : dirty[b] # t
      /\ Goto(t, After(pc[t])) /\ UNCHANGED <<disk, pool, log, held>> /\ todo' = todo
  BY DEF Flushed
<1>2. t = Opener \/ pc[Opener] = "done"
  BY <1>1, AfterOpener DEF Flushing
<1>3. todo \in [Tx -> SUBSET DOMAIN records] /\ todo[t] = {}
  BY <1>1 DEF IInv, TypeOK, UndoInOrder, Undoing, Flushing
<1>4. PICK l \in {"commit_log", "rollback_log", "recover_log"} :
        /\ l = After(pc[t])
        /\ l \in Recovery <=> pc[t] \in Recovery
        /\ l \in RollingBack <=> pc[t] \in RollingBack
  BY <1>1 DEF After, Flushing, Recovery, RollingBack
<1>5. l \in Pc \ (Saving \cup {"down", "panicked"})
  BY DEF Pc, Marking, Saving
<1> QED
  BY <1>1, <1>2, <1>3, <1>4, <1>5, GotoStep DEF Saving, Marking, Undoing, Flushing

LEMMA FinishStep ==
  ASSUME IInv, NEW t \in Tx, Finish(t)
  PROVE  IInv' /\ Recovered' = Recovered
<1>1. /\ pc[t] = "release" /\ \A b \in Block : held[t][b] = "none"
      /\ Goto(t, "done") /\ UNCHANGED <<disk, pool, log, held>> /\ todo' = todo
  BY DEF Finish
<1>2. t = Opener \/ pc[Opener] = "done"
  BY <1>1, AfterOpener
<1>3. todo \in [Tx -> SUBSET DOMAIN records] /\ todo[t] = {}
  BY <1>1 DEF IInv, TypeOK, UndoInOrder, Undoing
<1>4. "done" \in Pc \ (Saving \cup {"down", "panicked"})
  BY DEF Pc, Saving
<1>5. \A b \in Block : dirty[b] # t
  BY <1>1 DEF IInv, FlushedBefore
<1> QED
  BY <1>1, <1>2, <1>3, <1>4, <1>5, GotoStep DEF Saving, Undoing, Recovery, RollingBack

LEMMA UndoFailsStep ==
  ASSUME IInv, NEW t \in Tx, UndoFails(t)
  PROVE  IInv' /\ Recovered' = Recovered
<1>1. /\ pc[t] = "rollback_undo" /\ todo' = [todo EXCEPT ![t] = {}]
      /\ Goto(t, "active") /\ UNCHANGED <<disk, pool, log, held>>
  BY DEF UndoFails
<1>2. t = Opener \/ pc[Opener] = "done"
  BY <1>1, AfterOpener
<1>3. /\ todo' \in [Tx -> SUBSET DOMAIN records] /\ todo'[t] = {}
      /\ \A u \in Tx : u # t => todo'[u] = todo[u]
  BY <1>1 DEF IInv, TypeOK
<1>4. "active" \in Pc \ (Saving \cup {"down", "panicked"})
  BY DEF Pc, Saving
<1> QED
  BY <1>1, <1>2, <1>3, <1>4, GotoStep DEF Saving, Undoing, Recovery, RollingBack, Marking

LEMMA UndoneStep ==
  ASSUME IInv, NEW t \in Tx, Undone(t)
  PROVE  IInv' /\ Recovered' = Recovered
<1>1. /\ pc[t] \in Undoing /\ todo[t] = {}
      /\ Goto(t, After(pc[t])) /\ UNCHANGED <<disk, pool, log, held>> /\ todo' = todo
  BY DEF Undone
<1>2. t = Opener \/ pc[Opener] = "done"
  BY <1>1, AfterOpener DEF Undoing
<1>3. todo \in [Tx -> SUBSET DOMAIN records]
  BY DEF IInv, TypeOK
<1>4. PICK l \in {"rollback_flush", "recover_flush"} :
        /\ l = After(pc[t])
        /\ l \in Recovery <=> pc[t] \in Recovery
        /\ pc[t] \in Recovery \cup RollingBack
  BY <1>1 DEF After, Undoing, Recovery, RollingBack
<1>5. l \in Pc \ (Saving \cup {"down", "panicked"})
  BY DEF Pc, Flushing, Saving
<1> QED
  BY <1>1, <1>2, <1>3, <1>4, <1>5, GotoStep DEF Saving, Marking, Undoing

-----------------------------------------------------------------------------
(* Steps that only save the log or add a mark to it.                       *)

LEMMA SaveFullBlockStep ==
  ASSUME IInv, SaveFullBlock
  PROVE  IInv' /\ Recovered' = Recovered
<1>1. /\ UNCHANGED <<disk, pool, held, pc, todo>>
      /\ UNCHANGED <<page, dirty, lsn>> /\ records' = records /\ durable' = Len(records)
      /\ \A t \in Tx : pc[t] \notin Saving
  BY DEF SaveFullBlock, Log!Save, pool
<1>2. /\ durable \in Nat /\ Len(records) \in Nat /\ durable <= Len(records)
      /\ DOMAIN records = 1..Len(records)
  BY LengthType DEF IInv
<1>3. PendingSame /\ (Recovering' <=> Recovering)
  BY <1>1, QuietSave DEF Recovering, IInv
<1>4. TypeOK'
  BY <1>1, <1>2 DEF IInv, TypeOK, Locks!Held
<1>5. OpenerFirst' /\ Locks!Exclusion' /\ DirtyLocked' /\ FlushedBefore' /\ DownIsClean'
  BY <1>1, <1>2 DEF IInv, OpenerFirst, Locks!Exclusion, DirtyLocked, FlushedBefore, DownIsClean
<1>6. MarksInOrder'
  BY <1>1, <1>2 DEF MarksInOrder
<1>7. PendingLocked'
  BY <1>1, <1>3 DEF IInv, PendingLocked, PendingSame
<1>8. /\ PagesClean' /\ LogCovers' /\ OldInFile' /\ SettledBefore' /\ MissingOnlyTemp'
      /\ Recovered' = Recovered
      /\ \A u \in Tx : todo'[u] = todo[u] /\ UndoesInOrder(u) => UndoesInOrder(u)'
  BY <1>1, <1>2, <1>3, <1>4, Quiet
<1>9. UndoInOrder'
  BY <1>1, <1>8 DEF IInv, UndoInOrder
<1> QED
  BY <1>4, <1>5, <1>6, <1>7, <1>8, <1>9 DEF IInv

LEMMA AppendMarkStep ==
  ASSUME IInv, NEW t \in Tx, AppendMark(t)
  PROVE  IInv' /\ Recovered' = Recovered
<1>1. /\ UNCHANGED <<disk, pool, held, todo>> /\ UNCHANGED <<page, dirty, lsn>>
      /\ durable' = durable /\ pc[t] \in Marking
      /\ \A u \in Tx : u # t => pc[u] \notin Saving
      /\ Goto(t, After(pc[t]))
  BY DEF AppendMark, Log!AppendRecord, pool, LogFree
<1>2. PICK l \in Saving :
        /\ l = After(pc[t])
        /\ records' = Append(records, Mark(MarkOf(l), t))
        /\ l \in Recovery <=> pc[t] \in Recovery
        /\ l \in RollingBack <=> pc[t] \in RollingBack
  BY <1>1 DEF AppendMark, Log!AppendRecord, After, Marking, Saving, Recovery, RollingBack, MarkOf
<1>3. PICK k \in {"commit", "rollback", "checkpoint"} : k = MarkOf(l)
  BY DEF Saving, MarkOf
<1>4. \A u \in Tx : pc'[u] = IF u = t THEN l ELSE pc[u]
  BY <1>1, <1>2 DEF Goto, IInv, TypeOK
<1>5. /\ durable \in Nat /\ Len(records) \in Nat /\ durable <= Len(records)
      /\ DOMAIN records = 1..Len(records) /\ records \in Seq(LogRecord)
  BY LengthType DEF IInv, TypeOK
<1>6. PICK n \in Nat : n = Len(records) + 1
  BY <1>5
<1>7. Mark(k, t) \in LogRecord /\ Mark(k, t).kind # "update"
  BY DEF Mark, LogRecord
<1>8. /\ records' \in Seq(LogRecord) /\ Len(records') = n /\ DOMAIN records' = 1..n
      /\ \A i \in DOMAIN records : records'[i] = records[i] /\ i # n
      /\ records'[n] = Mark(k, t)
  BY <1>2, <1>3, <1>5, <1>6, <1>7
<1>9. PendingSame
  BY <1>1, <1>2, <1>3, QuietMark DEF IInv
<1>10. /\ t = Opener \/ pc[Opener] = "done"
       /\ Opener \in Tx
  BY <1>1, AfterOpener, TransactionsAssumption DEF Marking
<1>11. Recovering' <=> Recovering
  BY <1>1, <1>2, <1>4, <1>10 DEF Recovering, Recovery, Marking, Saving
<1>12. TypeOK'
  <2>1. pc' \in [Tx -> Pc]
    BY <1>1, <1>2 DEF IInv, TypeOK, Goto, Pc
  <2>2. lsn' \in [Block -> 0..Len(records')] /\ durable' \in 0..Len(records')
    BY <1>1, <1>5, <1>6, <1>8 DEF IInv, TypeOK
  <2>3. todo' \in [Tx -> SUBSET DOMAIN records']
    BY <1>1, <1>5, <1>6, <1>8 DEF IInv, TypeOK
  <2> QED
    BY <1>1, <1>8, <2>1, <2>2, <2>3 DEF IInv, TypeOK, Locks!Held
<1>13. OpenerFirst'
  <2>1. ASSUME NEW u \in Tx, pc'[u] \in Recovery \cup {"down"} PROVE u = Opener
    <3>1. pc[u] \in Recovery \cup {"down"}
      BY <1>2, <1>4, <2>1 DEF Saving
    <3> QED
      BY <3>1 DEF IInv, OpenerFirst
  <2>2. ASSUME pc'[Opener] # "done"
        PROVE  t = Opener /\ pc[Opener] # "done"
    BY <1>1, <1>4, <1>10, <2>2 DEF Marking
  <2> QED
    BY <1>1, <1>4, <2>1, <2>2 DEF IInv, OpenerFirst
<1>14. MarksInOrder'
  <2>1. \A u \in Tx : pc'[u] \in Saving <=> u = t
    BY <1>1, <1>2, <1>4
  <2>2. pc'[t] = l
    BY <1>4
  <2>3. ASSUME NEW j \in DOMAIN records', j > durable', ~IsUpdate(j)'
        PROVE  j = n
    <3> SUFFICES ASSUME j # n PROVE FALSE
      OBVIOUS
    <3>1. j \in DOMAIN records
      BY <1>5, <1>6, <1>8
    <3>2. ~IsUpdate(j) /\ j > durable
      BY <1>1, <1>8, <2>3, <3>1 DEF IsUpdate
    <3>3. \E u \in Tx : pc[u] \in Saving
      BY <3>1, <3>2 DEF IInv, MarksInOrder
    <3> QED
      BY <1>1, <3>3 DEF Marking, Saving
  <2>4. durable' < Len(records')
    BY <1>1, <1>5, <1>6, <1>8
  <2> QED
    BY <1>3, <1>8, <2>1, <2>2, <2>3, <2>4 DEF MarksInOrder
<1>15. Locks!Exclusion' /\ DirtyLocked' /\ FlushedBefore'
  BY <1>1, <1>2, <1>4 DEF IInv, Locks!Exclusion, DirtyLocked, FlushedBefore
<1>16. DownIsClean'
  BY <1>1, <1>2, <1>4, <1>10 DEF DownIsClean, Saving
<1>17. PendingLocked'
  <2>1. \A i \in Pending : records[i].tx \in Tx /\ i \in DOMAIN records
    BY PendingType DEF IInv
  <2>2. \A i \in Pending : ~Recovering => pc'[records[i].tx] \notin {"release", "done"}
    BY <1>2, <1>4, <2>1 DEF IInv, PendingLocked, Saving
  <2> QED
    BY <1>1, <1>9, <1>11, <2>1, <2>2 DEF IInv, PendingLocked, PendingSame
<1>18. /\ \A i \in DOMAIN records' : i \in DOMAIN records \/ ~ IsUpdate(i)'
       /\ durable <= durable'
       /\ \A u \in Tx : pc'[u] \notin {"release", "done"} => pc[u] \notin {"release", "done"}
  <2>1. ~IsUpdate(n)'
    BY <1>7, <1>8 DEF IsUpdate
  <2>2. \A i \in DOMAIN records' : i \in DOMAIN records \/ i = n
    BY <1>5, <1>6, <1>8
  <2> QED
    BY <1>1, <1>4, <1>5, <2>1, <2>2 DEF Marking
<1>19. /\ PagesClean' /\ LogCovers' /\ OldInFile' /\ SettledBefore' /\ MissingOnlyTemp'
       /\ Recovered' = Recovered
       /\ \A u \in Tx : todo'[u] = todo[u] /\ UndoesInOrder(u) => UndoesInOrder(u)'
  BY <1>1, <1>9, <1>11, <1>12, <1>18, Quiet
<1>20. UndoInOrder'
  <2> SUFFICES ASSUME NEW u \in Tx
               PROVE  /\ pc'[u] \notin Undoing \cup {"panicked"} => todo'[u] = {}
                      /\ pc'[u] \in Recovery \cup RollingBack => UndoesInOrder(u)'
    BY DEF UndoInOrder
  <2>1. pc[u] \notin Undoing \cup {"panicked"} <=> pc'[u] \notin Undoing \cup {"panicked"}
    BY <1>1, <1>2, <1>4 DEF Undoing, Marking, Saving
  <2>2. pc'[u] \in Recovery \cup RollingBack => pc[u] \in Recovery \cup RollingBack
    BY <1>2, <1>4
  <2> QED
    BY <1>1, <1>19, <2>1, <2>2 DEF IInv, UndoInOrder
<1> QED
  BY <1>12, <1>13, <1>14, <1>15, <1>16, <1>17, <1>19, <1>20 DEF IInv

\* The records that do_rollback collects are the changes of the transaction
\* that are not settled, none of a namesake of an earlier opening.
LEMMA MyUpdatesArePending ==
  ASSUME IInv, ~Recovering, NEW t \in Tx, pc[t] \notin {"release", "done"},
         \A u \in Tx : pc[u] \notin Saving
  PROVE  MyUpdates(t) = {i \in Pending : records[i].tx = t}
<1>1. /\ durable \in Nat /\ Len(records) \in Nat /\ durable <= Len(records)
      /\ DOMAIN records = 1..Len(records)
  BY LengthType DEF IInv
<1>2. ASSUME NEW i \in DOMAIN records, IsUpdate(i), records[i].tx = t, ~Fenced(i, Len(records))
      PROVE  ~Settled(i)
  <2> SUFFICES ASSUME Settled(i) PROVE FALSE
    OBVIOUS
  <2>1. PICK j \in i+1..durable : records[j].kind = "checkpoint"
    BY <1>2 DEF IInv, SettledBefore
  <2>2. j \in i+1..Len(records)
    BY <1>1
  <2> QED
    BY <1>2, <2>1, <2>2 DEF Fenced
<1>3. ASSUME NEW i \in Pending
      PROVE  ~Fenced(i, Len(records))
  <2> SUFFICES ASSUME NEW j \in i+1..Len(records), records[j].kind = "checkpoint"
               PROVE  FALSE
    BY DEF Fenced
  <2>1. i \in Nat /\ i >= 1 /\ ~Settled(i)
    BY <1>1 DEF Pending
  <2>2. j \in DOMAIN records /\ ~IsUpdate(j)
    BY <1>1, <2>1 DEF IsUpdate
  <2>3. ~(j > durable)
    BY <2>2 DEF IInv, MarksInOrder
  <2>4. j \in i+1..durable
    BY <1>1, <2>1, <2>3
  <2> QED
    BY <2>1, <2>4 DEF Settled
<1> QED
  BY <1>2, <1>3 DEF MyUpdates, Pending

LEMMA RollbackStep ==
  ASSUME IInv, NEW t \in Tx, Rollback(t)
  PROVE  IInv' /\ Recovered' = Recovered
<1>1. /\ UNCHANGED <<disk, pool, held>> /\ UNCHANGED <<page, dirty, lsn>>
      /\ records' = records /\ durable' = Len(records)
      /\ pc[t] = "active" /\ (t = Opener \/ pc[Opener] = "done")
      /\ \A u \in Tx : u # t => pc[u] \notin Saving
      /\ Goto(t, "rollback_undo") /\ todo' = [todo EXCEPT ![t] = MyUpdates(t)]
  BY DEF Rollback, Log!Save, pool, LogFree, Active
<1>2. /\ durable \in Nat /\ Len(records) \in Nat /\ durable <= Len(records)
      /\ DOMAIN records = 1..Len(records) /\ Opener \in Tx
  BY LengthType, TransactionsAssumption DEF IInv
<1>3. \A u \in Tx : pc[u] \notin Saving
  BY <1>1 DEF Saving
<1>4. \A u \in Tx : pc'[u] = IF u = t THEN "rollback_undo" ELSE pc[u]
  BY <1>1 DEF Goto, IInv, TypeOK
<1>5. ~Recovering /\ ~Recovering'
  BY <1>1, <1>2, <1>4 DEF Recovering
<1>6. PendingSame
  BY <1>1, <1>3, QuietSave DEF IInv
<1>7. MyUpdates(t) = {i \in Pending : records[i].tx = t}
  BY <1>1, <1>3, <1>5, MyUpdatesArePending
<1>8. \A u \in Tx : todo'[u] = IF u = t THEN {i \in Pending : records[i].tx = t} ELSE todo[u]
  BY <1>1, <1>7 DEF IInv, TypeOK
<1>9. TypeOK'
  <2>1. {i \in Pending : records[i].tx = t} \subseteq DOMAIN records
    BY DEF Pending
  <2>2. todo' \in [Tx -> SUBSET DOMAIN records']
    BY <1>1, <1>7, <2>1 DEF IInv, TypeOK
  <2>3. pc' \in [Tx -> Pc]
    BY <1>1 DEF IInv, TypeOK, Goto, Pc, Undoing
  <2> QED
    BY <1>1, <1>2, <2>2, <2>3 DEF IInv, TypeOK, Locks!Held
<1>10. OpenerFirst'
  <2>1. \A u \in Tx : pc'[u] \in Recovery \cup {"down"} => pc[u] \in Recovery \cup {"down"}
    BY <1>4 DEF Recovery
  <2>2. pc'[Opener] # "done" => t = Opener /\ pc[Opener] # "done"
    BY <1>1, <1>2, <1>4
  <2> QED
    BY <1>1, <1>4, <2>1, <2>2 DEF IInv, OpenerFirst
<1>11. MarksInOrder'
  BY <1>1, <1>2, <1>3, <1>4 DEF MarksInOrder, Saving
<1>12. Locks!Exclusion' /\ DirtyLocked' /\ FlushedBefore' /\ DownIsClean'
  BY <1>1, <1>2, <1>4 DEF IInv, Locks!Exclusion, DirtyLocked, FlushedBefore, DownIsClean, Marking, Saving
<1>13. PendingLocked'
  <2>1. \A i \in Pending : records[i].tx \in Tx
    BY PendingType DEF IInv
  <2>2. \A i \in Pending : pc'[records[i].tx] \notin {"release", "done"}
    BY <1>4, <1>5, <2>1 DEF IInv, PendingLocked
  <2> QED
    BY <1>1, <1>5, <1>6, <2>2 DEF IInv, PendingLocked, PendingSame
<1>14. /\ durable <= durable' /\ \A i \in DOMAIN records' : i \in DOMAIN records
       /\ \A u \in Tx : pc'[u] \notin {"release", "done"} => pc[u] \notin {"release", "done"}
  BY <1>1, <1>2, <1>4
<1>15. /\ PagesClean' /\ LogCovers' /\ OldInFile' /\ SettledBefore' /\ MissingOnlyTemp'
       /\ Recovered' = Recovered
       /\ \A u \in Tx : todo'[u] = todo[u] /\ UndoesInOrder(u) => UndoesInOrder(u)'
  BY <1>1, <1>5, <1>6, <1>9, <1>14, Quiet
<1>16. UndoesInOrder(t)'
  <2>1. ToUndo(t)' = {i \in Pending : records[i].tx = t}
    BY <1>1, <1>5, <1>6 DEF ToUndo, PendingSame
  <2>2. ToUndo(t)' = todo'[t]
    BY <1>8, <2>1
  <2>3. \A k \in DOMAIN records' : k <= durable'
    BY <1>1, <1>2
  <2> QED
    BY <2>2, <2>3 DEF UndoesInOrder
<1>17. UndoInOrder'
  <2> SUFFICES ASSUME NEW u \in Tx
               PROVE  /\ pc'[u] \notin Undoing \cup {"panicked"} => todo'[u] = {}
                      /\ pc'[u] \in Recovery \cup RollingBack => UndoesInOrder(u)'
    BY DEF UndoInOrder
  <2>1. CASE u = t
    BY <1>4, <1>16, <2>1 DEF Undoing
  <2>2. CASE u # t
    BY <1>4, <1>8, <1>15, <2>2 DEF IInv, UndoInOrder
  <2> QED
    BY <2>1, <2>2
<1> QED
  BY <1>9, <1>10, <1>11, <1>12, <1>13, <1>15, <1>17 DEF IInv

-----------------------------------------------------------------------------
(* Pages getting to their files.                                           *)

\* The flush of a modified buffer puts every record of its block on disk
\* first, and leaves what recovery would find as it was.
LEMMA FlushPageStep ==
  ASSUME IInv, NEW b \in Block, dirty[b] # None, \A t \in Tx : pc[t] \notin Saving,
         FlushPage(b), UNCHANGED <<held, pc, todo>>
  PROVE  /\ IInv' /\ Recovered' = Recovered
         /\ \A i \in DOMAIN records : IsUpdate(i) /\ records[i].block = b => i <= durable'
<1>1. /\ UNCHANGED <<held, pc, todo, page>> /\ records' = records
      /\ durable' = IF lsn[b] >= durable THEN Len(records) ELSE durable
  BY DEF FlushPage, FlushLog, Log!Save, log
<1>2. /\ durable \in Nat /\ Len(records) \in Nat /\ durable <= Len(records)
      /\ DOMAIN records = 1..Len(records) /\ lsn[b] \in 0..Len(records)
  BY LengthType DEF IInv, TypeOK
<1>3. durable' \in Nat /\ durable <= durable' /\ lsn[b] <= durable' /\ durable' <= Len(records)
  BY <1>1, <1>2
<1>4. /\ \A c \in Block : disk'[c] = IF c = b THEN page[b] ELSE disk[c]
      /\ \A c \in Block : dirty'[c] = IF c = b THEN None ELSE dirty[c]
      /\ \A c \in Block : lsn'[c] = IF c = b THEN 0 ELSE lsn[c]
  BY DEF FlushPage, IInv, TypeOK
<1>5. PendingSame /\ (Recovering' <=> Recovering)
  BY <1>1, <1>3, QuietSave DEF Recovering, IInv
<1>6. TypeOK'
  <2>1. disk' \in [Block -> Value \cup {Missing}] /\ dirty' \in [Block -> Tx \cup {None}]
    BY DEF FlushPage, IInv, TypeOK
  <2>2. lsn' \in [Block -> 0..Len(records')]
    BY <1>1, <1>2 DEF FlushPage, IInv, TypeOK
  <2>3. durable' \in 0..Len(records')
    BY <1>1, <1>2, <1>3
  <2> QED
    BY <1>1, <2>1, <2>2, <2>3 DEF IInv, TypeOK, Locks!Held
<1>7. OpenerFirst' /\ Locks!Exclusion' /\ PendingLocked'
  BY <1>1, <1>5 DEF IInv, OpenerFirst, Locks!Exclusion, PendingLocked, PendingSame
<1>8. MarksInOrder'
  <2>1. \A j \in DOMAIN records : j > durable => IsUpdate(j)
    BY DEF IInv, MarksInOrder
  <2>2. \A j \in DOMAIN records : j > durable' => j > durable
    BY <1>2, <1>3
  <2>3. \A j \in DOMAIN records : IsUpdate(j)' <=> IsUpdate(j)
    BY <1>1 DEF IsUpdate
  <2> QED
    BY <1>1, <2>1, <2>2, <2>3 DEF MarksInOrder
<1>9. DirtyLocked' /\ FlushedBefore'
  BY <1>1, <1>4, TransactionsAssumption DEF IInv, DirtyLocked, FlushedBefore
<1>10. PagesClean'
  BY <1>1, <1>4, <1>5 DEF IInv, PagesClean, PendingSame
<1>11. \A i \in DOMAIN records : IsUpdate(i) /\ records[i].block = b => i <= durable'
  <2> TAKE i \in DOMAIN records
  <2>1. IsUpdate(i) /\ records[i].block = b => i <= durable \/ i <= lsn[b]
    BY DEF IInv, LogCovers
  <2> QED
    BY <1>2, <1>3, <2>1
<1>12. LogCovers'
  <2> SUFFICES ASSUME NEW i \in DOMAIN records, IsUpdate(i)
               PROVE  i <= durable' \/ i <= lsn'[records[i].block]
    BY <1>1, <1>5 DEF LogCovers, PendingSame
  <2>1. i <= durable \/ i <= lsn[records[i].block]
    BY DEF IInv, LogCovers
  <2>2. records[i].block \in Block /\ i \in Nat
    BY RecordType DEF IInv
  <2>3. CASE records[i].block = b
    BY <1>11, <2>3
  <2>4. CASE records[i].block # b
    BY <1>2, <1>3, <1>4, <2>1, <2>2, <2>4
  <2> QED
    BY <2>3, <2>4
<1>13. OldInFile'
  <2> SUFFICES ASSUME NEW c \in Block, NEW i \in Unsettled(c)', Oldest(c, i)', i > durable'
               PROVE  disk'[c] = records'[i].old
    BY DEF OldInFile
  <2>1. i \in Unsettled(c) /\ Oldest(c, i) /\ i \in DOMAIN records
    BY <1>5 DEF PendingSame, Unsettled
  <2>2. c # b
    BY <1>2, <1>3, <1>11, <2>1 DEF Unsettled
  <2>3. i > durable
    BY <1>2, <1>3, <2>1
  <2> QED
    BY <1>1, <1>4, <2>1, <2>2, <2>3 DEF IInv, OldInFile
<1>14. SettledBefore'
  BY <1>1, <1>2, <1>3, <1>5, SettledBeforeSame DEF IInv
<1>15. MissingOnlyTemp'
  BY <1>1, <1>4, <1>5 DEF IInv, MissingOnlyTemp, PendingSame, Pending
<1>16. DownIsClean'
  BY <1>1 DEF IInv, DownIsClean
<1>17. Recovered' = Recovered
  <2>1. Unsettled(b) # {}
    BY DEF IInv, PagesClean
  <2>2. \A c \in Block : Unsettled(c) = {} => disk'[c] = disk[c]
    BY <1>4, <2>1
  <2>3. \A c \in Block : Recovered'[c] = Recovered[c]
    BY <1>5, <1>6, <1>13, <2>2, RecoveredSame DEF IInv
  <2> QED
    BY <2>3 DEF Recovered
<1>18. UndoInOrder'
  <2>1. \A t \in Tx : UndoesInOrder(t) => UndoesInOrder(t)'
    BY <1>1, <1>2, <1>3, <1>5, <1>17, UndoesSame DEF IInv
  <2> QED
    BY <1>1, <2>1 DEF IInv, UndoInOrder
<1> QED
  BY <1>6, <1>7, <1>8, <1>9, <1>10, <1>11, <1>12, <1>13, <1>14, <1>15, <1>16, <1>17, <1>18 DEF IInv

LEMMA EvictStep ==
  ASSUME IInv, NEW b \in Block, Evict(b)
  PROVE  IInv' /\ Recovered' = Recovered
BY FlushPageStep DEF Evict

LEMMA FlushAllStep ==
  ASSUME IInv, NEW t \in Tx, NEW b \in Block, FlushAll(t, b)
  PROVE  IInv' /\ Recovered' = Recovered
<1>1. \A u \in Tx : pc[u] \notin Saving
  BY DEF FlushAll, LogFree, Flushing, Saving
<1>2. dirty[b] # None
  BY TransactionsAssumption DEF FlushAll
<1> QED
  BY <1>1, <1>2, FlushPageStep DEF FlushAll

-----------------------------------------------------------------------------
(* A change.                                                               *)

\* Its record is one more unsettled update, of its block alone.
LEMMA SetGrowsPending ==
  ASSUME TypeOK, NEW t \in Tx, NEW b \in Block, NEW v \in Value, Set(t, b, v),
         NEW n \in Nat, n = Len(records) + 1
  PROVE  /\ records' \in Seq(LogRecord) /\ DOMAIN records' = 1..n /\ Len(records') = n
         /\ \A i \in DOMAIN records :
              /\ i < n /\ records'[i] = records[i]
              /\ IsUpdate(i)' <=> IsUpdate(i)
              /\ Settled(i)' <=> Settled(i)
         /\ records'[n] = Update(t, b, page[b]) /\ IsUpdate(n)' /\ ~ Settled(n)'
         /\ Pending' = Pending \cup {n}
         /\ \A c : Unsettled(c)' = IF c = b THEN Unsettled(b) \cup {n} ELSE Unsettled(c)
<1>1. /\ durable \in Nat /\ Len(records) \in Nat /\ durable <= Len(records)
      /\ DOMAIN records = 1..Len(records) /\ records \in Seq(LogRecord)
  BY LengthType DEF TypeOK
<1>2. records' = Append(records, Update(t, b, page[b])) /\ durable' = durable
  BY DEF Set, Log!AppendRecord
<1>3. page[b] \in Value
  BY DEF Set, TypeOK
<1>4. /\ Update(t, b, page[b]) \in LogRecord
      /\ Update(t, b, page[b]).kind = "update"
      /\ Update(t, b, page[b]).block = b
  BY <1>3 DEF Update, LogRecord
<1>5. /\ records' \in Seq(LogRecord) /\ DOMAIN records' = 1..n /\ Len(records') = n
      /\ \A i \in DOMAIN records : i < n /\ records'[i] = records[i]
      /\ records'[n] = Update(t, b, page[b])
  BY <1>1, <1>2, <1>4
<1>6. IsUpdate(n)' /\ \A i \in DOMAIN records : IsUpdate(i)' <=> IsUpdate(i)
  BY <1>4, <1>5 DEF IsUpdate
<1>7. ASSUME NEW i \in DOMAIN records PROVE Settled(i)' <=> Settled(i)
  <2>1. \A j \in i+1..durable : j \in DOMAIN records
    BY <1>1
  <2> QED
    BY <1>2, <1>5, <1>6, <2>1 DEF Settled
<1>8. ~ Settled(n)'
  <2>1. n+1..durable = {}
    BY <1>1
  <2> QED
    BY <1>2, <2>1 DEF Settled
<1>9. DOMAIN records' = DOMAIN records \cup {n}
  BY <1>1, <1>5
<1>10. Pending' = Pending \cup {n}
  BY <1>6, <1>7, <1>8, <1>9 DEF Pending
<1>11. \A c : Unsettled(c)' = IF c = b THEN Unsettled(b) \cup {n} ELSE Unsettled(c)
  <2> TAKE c
  <2>1. Unsettled(c)' = {i \in Pending \cup {n} : records'[i].block = c}
    BY <1>10 DEF Unsettled, Pending
  <2>2. \A i \in Pending : records'[i] = records[i]
    BY <1>5 DEF Pending
  <2>3. records'[n].block = b
    BY <1>4, <1>5
  <2> QED
    BY <2>1, <2>2, <2>3, UnsettledIsPending
<1> QED
  BY <1>5, <1>6, <1>7, <1>8, <1>10, <1>11

LEMMA SetStep ==
  ASSUME IInv, NEW t \in Tx, NEW b \in Block, NEW v \in Value, Set(t, b, v)
  PROVE  IInv' /\ Recovered' = Recovered
<1>1. /\ UNCHANGED <<disk, held, pc, todo>> /\ durable' = durable
      /\ pc[t] = "active" /\ (t = Opener \/ pc[Opener] = "done")
      /\ held[t][b] = "exclusive" /\ page[b] # Missing
      /\ \A u \in Tx : u # t => pc[u] \notin Saving
      /\ page' = [page EXCEPT ![b] = v] /\ dirty' = [dirty EXCEPT ![b] = t]
  BY DEF Set, Log!AppendRecord, LogFree, Active
<1>2. /\ durable \in Nat /\ Len(records) \in Nat /\ durable <= Len(records)
      /\ DOMAIN records = 1..Len(records) /\ Opener \in Tx /\ TypeOK
  BY LengthType, TransactionsAssumption DEF IInv
<1>3. PICK n \in Nat : n = Len(records) + 1
  BY <1>2
<1>4. /\ records' \in Seq(LogRecord) /\ DOMAIN records' = 1..n /\ Len(records') = n
      /\ \A i \in DOMAIN records :
           /\ i < n /\ records'[i] = records[i]
           /\ IsUpdate(i)' <=> IsUpdate(i)
           /\ Settled(i)' <=> Settled(i)
      /\ records'[n] = Update(t, b, page[b]) /\ IsUpdate(n)' /\ ~ Settled(n)'
      /\ Pending' = Pending \cup {n}
      /\ \A c : Unsettled(c)' = IF c = b THEN Unsettled(b) \cup {n} ELSE Unsettled(c)
  BY <1>2, <1>3, SetGrowsPending
<1>5. records'[n].tx = t /\ records'[n].block = b /\ records'[n].old = page[b]
  BY <1>4 DEF Update
<1>6. DOMAIN records' = DOMAIN records \cup {n}
  BY <1>2, <1>3, <1>4
<1>7. \A u \in Tx : pc[u] \notin Saving
  BY <1>1 DEF Saving
<1>8. ~Recovering /\ ~Recovering'
  BY <1>1, <1>2 DEF Recovering
<1>9. lsn' = [lsn EXCEPT ![b] = n]
  BY <1>3 DEF Set
<1>10. /\ \A c \in Block : page'[c] = IF c = b THEN v ELSE page[c]
       /\ \A c \in Block : dirty'[c] = IF c = b THEN t ELSE dirty[c]
       /\ \A c \in Block : lsn'[c] = IF c = b THEN n ELSE lsn[c]
  BY <1>1, <1>2, <1>9 DEF TypeOK
<1>11. TypeOK'
  <2>1. page' \in [Block -> Value \cup {Missing}] /\ dirty' \in [Block -> Tx \cup {None}]
    BY <1>1, <1>2 DEF TypeOK
  <2>2. n \in 0..n /\ \A k \in 0..Len(records) : k \in 0..n
    BY <1>2, <1>3
  <2>3. lsn' \in [Block -> 0..n]
    BY <1>2, <1>9, <2>2 DEF TypeOK
  <2>4. durable' \in 0..n
    BY <1>1, <1>2, <1>3
  <2>5. todo' \in [Tx -> SUBSET DOMAIN records']
    BY <1>1, <1>2, <1>6 DEF TypeOK
  <2> QED
    BY <1>1, <1>2, <1>4, <2>1, <2>3, <2>4, <2>5 DEF TypeOK, Locks!Held
<1>12. OpenerFirst' /\ Locks!Exclusion' /\ DownIsClean'
  BY <1>1, <1>8 DEF IInv, OpenerFirst, Locks!Exclusion, DownIsClean, Recovering
<1>13. MarksInOrder'
  <2>1. \A j \in DOMAIN records' : j > durable => IsUpdate(j)'
    BY <1>4, <1>6, <1>7 DEF IInv, MarksInOrder
  <2> QED
    BY <1>1, <1>7, <2>1 DEF MarksInOrder
<1>14. DirtyLocked' /\ FlushedBefore'
  BY <1>1, <1>10 DEF IInv, DirtyLocked, FlushedBefore, Marking, Saving
<1>15. \A i \in Pending : i \in DOMAIN records /\ records[i].tx \in Tx /\ records[i].block \in Block
  BY <1>2, PendingType
<1>16. PendingLocked'
  BY <1>1, <1>4, <1>5, <1>8, <1>15 DEF IInv, PendingLocked
<1>17. PagesClean'
  BY <1>1, <1>4, <1>10, TransactionsAssumption DEF IInv, PagesClean
<1>18. LogCovers'
  <2> SUFFICES ASSUME NEW i \in DOMAIN records', IsUpdate(i)'
               PROVE  i <= durable \/ i <= lsn'[records'[i].block]
    BY <1>1 DEF LogCovers
  <2>1. CASE i = n
    BY <1>3, <1>5, <1>10, <2>1
  <2>2. CASE i \in DOMAIN records
    <3>1. i <= durable \/ i <= lsn[records[i].block]
      BY <1>4, <2>2 DEF IInv, LogCovers
    <3>2. records[i].block \in Block /\ i \in Nat /\ i <= n /\ records'[i] = records[i]
      BY <1>2, <1>3, <1>4, <2>2, RecordType
    <3> QED
      BY <1>10, <3>1, <3>2
  <2> QED
    BY <1>6, <2>1, <2>2
<1>19. \A c \in Block : \A i \in Unsettled(c) : i < n /\ i \in Nat
  BY <1>2, <1>4 DEF Unsettled
<1>20. \A c \in Block : \A i : Unsettled(c) # {} =>
         (Oldest(c, i)' <=> i \in Unsettled(c) /\ Oldest(c, i))
  <2> SUFFICES ASSUME NEW c \in Block, NEW i, NEW k \in Unsettled(c)
               PROVE  Oldest(c, i)' <=> i \in Unsettled(c) /\ Oldest(c, i)
    OBVIOUS
  <2>1. CASE c # b
    BY <1>4, <2>1 DEF Oldest
  <2>2. CASE c = b
    <3>1. Oldest(b, i)' => i # n
      BY <1>3, <1>4, <1>19, <2>2 DEF Oldest
    <3>2. i \in Unsettled(b) => i <= n /\ i < n
      BY <1>19
    <3> QED
      BY <1>4, <2>2, <3>1, <3>2 DEF Oldest
  <2> QED
    BY <2>1, <2>2
<1>21. Unsettled(b) = {} => page[b] = disk[b] /\ Unsettled(b)' = {n}
  BY <1>4 DEF IInv, PagesClean
<1>22. \A c \in Block : c # b => Unsettled(c)' = Unsettled(c)
  BY <1>4
<1>23. OldInFile'
  <2> SUFFICES ASSUME NEW c \in Block, NEW i \in Unsettled(c)', Oldest(c, i)', i > durable
               PROVE  disk[c] = records'[i].old
    BY <1>1 DEF OldInFile
  <2>1. CASE Unsettled(c) = {}
    <3>1. c = b
      BY <1>22, <2>1
    <3> QED
      BY <1>5, <1>21, <2>1, <3>1
  <2>2. CASE Unsettled(c) # {}
    <3>1. i \in Unsettled(c) /\ Oldest(c, i)
      BY <1>20, <2>2
    <3>2. records'[i] = records[i]
      BY <1>4, <3>1 DEF Unsettled
    <3> QED
      BY <3>1, <3>2 DEF IInv, OldInFile
  <2> QED
    BY <2>1, <2>2
<1>24. SettledBefore'
  <2> SUFFICES ASSUME NEW i \in DOMAIN records', IsUpdate(i)', Settled(i)',
                      pc[records'[i].tx] \notin {"release", "done"}
               PROVE  \E j \in i+1..durable : records'[j].kind = "checkpoint"
    BY <1>1 DEF SettledBefore
  <2>1. i \in DOMAIN records
    BY <1>4, <1>6
  <2>2. PICK j \in i+1..durable : records[j].kind = "checkpoint"
    BY <1>4, <1>8, <2>1 DEF IInv, SettledBefore
  <2>3. j \in DOMAIN records
    BY <1>2, <2>1
  <2> QED
    BY <1>4, <2>2, <2>3
<1>25. MissingOnlyTemp'
  <2>1. v # Missing
    BY TransactionsAssumption
  <2> QED
    BY <1>1, <1>4, <1>5, <1>8, <1>10, <1>15, <2>1 DEF IInv, MissingOnlyTemp
<1>26. Recovered' = Recovered
  <2>1. RecoveredIsOldest /\ RecoveredIsOldest'
    BY <1>2, <1>11, <1>23, RecoveredValue, RecoveredValueNext DEF IInv
  <2> SUFFICES ASSUME NEW c \in Block PROVE Recovered'[c] = Recovered[c]
    BY DEF Recovered
  <2>2. CASE Unsettled(c) = {} /\ c # b
    BY <1>1, <1>22, <2>1, <2>2 DEF RecoveredIsOldest
  <2>3. CASE Unsettled(c) = {} /\ c = b
    <3>1. n \in Unsettled(b)' /\ Oldest(b, n)'
      BY <1>21, <2>3 DEF Oldest
    <3>2. Recovered'[b] = page[b]
      BY <1>5, <2>1, <3>1 DEF RecoveredIsOldest
    <3> QED
      BY <1>21, <2>1, <2>3, <3>2 DEF RecoveredIsOldest
  <2>4. CASE Unsettled(c) # {}
    <3>1. PICK i \in Unsettled(c) : Oldest(c, i)
      BY <1>2, <2>4, OldestExists
    <3>2. i \in Unsettled(c)' /\ Oldest(c, i)'
      BY <1>4, <1>20, <2>4, <3>1
    <3>3. records'[i] = records[i]
      BY <1>4, <3>1 DEF Unsettled
    <3> QED
      BY <2>1, <3>1, <3>2, <3>3 DEF RecoveredIsOldest
  <2> QED
    BY <2>2, <2>3, <2>4
<1>27. UndoInOrder'
  <2> SUFFICES ASSUME NEW u \in Tx, pc[u] \in Recovery \cup RollingBack
               PROVE  UndoesInOrder(u)'
    BY <1>1 DEF IInv, UndoInOrder
  <2>1. u # t
    BY <1>1 DEF Recovery, RollingBack
  <2>2. UndoesInOrder(u)
    BY DEF IInv, UndoInOrder
  <2>3. ToUndo(u)' = ToUndo(u) /\ ToUndo(u) \subseteq Pending
    <3>1. \A i \in Pending : records'[i] = records[i]
      BY <1>4, <1>15
    <3> QED
      BY <1>4, <1>5, <1>8, <2>1, <3>1 DEF ToUndo
  <2>4. todo[u] \subseteq ToUndo(u)
    BY <2>2 DEF UndoesInOrder
  <2>5. \A i \in ToUndo(u) : /\ records'[i] = records[i]
                             /\ records[i].block \in Block /\ records[i].block # b
    <3> TAKE i \in ToUndo(u)
    <3>1. held[u][records[i].block] = "exclusive"
      BY <1>8 DEF ToUndo, IInv, PendingLocked
    <3>2. records[i].block # b
      BY <1>1, <2>1, <3>1 DEF IInv, Locks!Exclusion
    <3> QED
      BY <1>4, <1>15, <2>3, <3>2
  <2>6. ASSUME NEW i \in todo[u], NEW k \in DOMAIN records', IsUpdate(k)',
               records'[k].block = records'[i].block
        PROVE  k <= durable
    <3>1. k # n
      BY <1>5, <2>4, <2>5, <2>6
    <3>2. k \in DOMAIN records /\ IsUpdate(k) /\ records[k].block = records[i].block
      BY <1>4, <1>6, <2>4, <2>5, <2>6, <3>1
    <3> QED
      BY <2>2, <3>2 DEF UndoesInOrder
  <2>7. ASSUME NEW i \in ToUndo(u)
        PROVE  \/ \E j \in todo[u] : records'[j].block = records'[i].block
               \/ page'[records'[i].block] = Recovered'[records'[i].block]
    BY <1>10, <1>26, <2>2, <2>4, <2>5 DEF UndoesInOrder
  <2> QED
    BY <1>1, <2>2, <2>3, <2>6, <2>7 DEF UndoesInOrder
<1> QED
  BY <1>11, <1>12, <1>13, <1>14, <1>16, <1>17, <1>18, <1>23, <1>24, <1>25, <1>26, <1>27 DEF IInv

-----------------------------------------------------------------------------
(* Undoing an update.                                                      *)

\* What an undo puts back and whom it meets.  The transaction has its block
\* to itself.
LEMMA UndoTarget ==
  ASSUME IInv, NEW t \in Tx, pc[t] \in Undoing, todo[t] # {}, NEW i, i = Max(todo[t])
  PROVE  /\ i \in todo[t] /\ i \in Pending /\ \A j \in todo[t] : j \in Nat /\ j <= i
         /\ i \in DOMAIN records /\ i \in Nat /\ UndoesInOrder(t)
         /\ records[i].block \in Block /\ records[i].old \in Value
         /\ \A u \in Tx : u # t => held[u][records[i].block] = "none"
         /\ Recovering => t = Opener /\ pc[t] = "recover_undo"
         /\ ~Recovering => pc[t] = "rollback_undo"
         /\ \A j \in Pending : records[j].block = records[i].block => j \in ToUndo(t)
<1>1. /\ TypeOK /\ Len(records) \in Nat /\ DOMAIN records = 1..Len(records) /\ Opener \in Tx
  BY LengthType, TransactionsAssumption DEF IInv
<1>2. todo[t] \in SUBSET (1..Len(records))
  BY <1>1 DEF TypeOK
<1>3. i \in todo[t] /\ \A j \in todo[t] : j \in Nat /\ j <= i
  <2>1. PICK n \in Nat : n = Len(records)
    BY <1>1
  <2>2. PICK S \in SUBSET (0..n) : S = todo[t]
    BY <1>2, <2>1
  <2>3. i \in S /\ \A j \in S : j <= i
    BY <2>2, MaxProperty
  <2> QED
    BY <2>2, <2>3
<1>4. UndoesInOrder(t)
  BY DEF IInv, UndoInOrder, Undoing, Recovery, RollingBack
<1>5. i \in ToUndo(t) /\ i \in Pending
  BY <1>3, <1>4 DEF UndoesInOrder, ToUndo
<1>6. t = Opener \/ pc[Opener] = "done"
  BY AfterOpener DEF Undoing
<1>7. /\ Recovering => t = Opener /\ pc[t] = "recover_undo"
      /\ ~Recovering => pc[t] = "rollback_undo"
  <2>1. CASE t = Opener
    BY <2>1 DEF Recovering, Undoing
  <2>2. CASE t # Opener
    BY <1>6, <2>2 DEF IInv, OpenerFirst, Recovering, Recovery, Undoing
  <2> QED
    BY <2>1, <2>2
<1>8. \A j \in Pending : /\ records[j].tx \in Tx /\ records[j].block \in Block
                         /\ records[j].old \in Value /\ j \in DOMAIN records /\ j \in Nat
  BY <1>1, PendingType
<1>9. \A u \in Tx : u # t => held[u][records[i].block] = "none"
  <2>1. CASE Recovering
    BY <1>5, <1>7, <1>8, <2>1 DEF IInv, OpenerFirst
  <2>2. CASE ~Recovering
    BY <1>5, <1>8, <2>2 DEF IInv, PendingLocked, ToUndo, Locks!Exclusion
  <2> QED
    BY <2>1, <2>2
<1>10. \A j \in Pending : records[j].block = records[i].block => j \in ToUndo(t)
  BY <1>8, <1>9 DEF IInv, PendingLocked, ToUndo
<1> QED
  BY <1>3, <1>4, <1>5, <1>7, <1>8, <1>9, <1>10

\* Recovery meets a block that is gone.
LEMMA PanicStep ==
  ASSUME IInv, NEW t \in Tx, pc[t] = "recover_undo", Goto(t, "panicked"),
         UNCHANGED <<disk, pool, log, held, todo>>
  PROVE  IInv' /\ Recovered' = Recovered
<1>1. UNCHANGED <<page, dirty, lsn, records, durable>>
  BY DEF pool, log
<1>2. \A u \in Tx : pc'[u] = IF u = t THEN "panicked" ELSE pc[u]
  BY DEF Goto, IInv, TypeOK
<1>3. t = Opener /\ Recovering /\ Recovering'
  BY <1>2 DEF IInv, OpenerFirst, Recovery, Recovering
<1>4. PendingSame
  BY SameLog
<1>5. TypeOK'
  BY <1>1 DEF IInv, TypeOK, Goto, Locks!Held, Pc
<1>6. OpenerFirst' /\ MarksInOrder' /\ FlushedBefore' /\ DownIsClean'
  BY <1>1, <1>2, <1>3
     DEF IInv, OpenerFirst, MarksInOrder, FlushedBefore, DownIsClean, IsUpdate,
         Recovery, Saving, Marking
<1>7. Locks!Exclusion' /\ DirtyLocked' /\ PendingLocked'
  BY <1>1, <1>3 DEF IInv, Locks!Exclusion, DirtyLocked, PendingLocked
<1>8. /\ durable <= durable' /\ \A i \in DOMAIN records' : i \in DOMAIN records
      /\ \A u \in Tx : pc'[u] \notin {"release", "done"} => pc[u] \notin {"release", "done"}
  BY <1>1, <1>2, LengthType DEF IInv
<1>9. /\ PagesClean' /\ LogCovers' /\ OldInFile' /\ SettledBefore' /\ MissingOnlyTemp'
      /\ Recovered' = Recovered
      /\ \A u \in Tx : todo'[u] = todo[u] /\ UndoesInOrder(u) => UndoesInOrder(u)'
  BY <1>3, <1>4, <1>5, <1>8, Quiet
<1>10. UndoInOrder'
  BY <1>1, <1>2, <1>9 DEF IInv, UndoInOrder, Recovery, RollingBack, Undoing
<1> QED
  BY <1>5, <1>6, <1>7, <1>9, <1>10 DEF IInv

LEMMA PutBackStep ==
  ASSUME IInv, NEW t \in Tx, pc[t] \in Undoing, todo[t] # {},
         NEW i, i = Max(todo[t]), NEW b, b = records[i].block,
         page' = [page EXCEPT ![b] = records[i].old],
         dirty' = [dirty EXCEPT ![b] = t],
         lsn' = [lsn EXCEPT ![b] = 0],
         held' = [held EXCEPT ![t][b] = "exclusive"],
         todo' = [todo EXCEPT ![t] = @ \ {i}],
         UNCHANGED <<disk, log, pc>>
  PROVE  IInv' /\ Recovered' = Recovered
<1>1. /\ i \in todo[t] /\ i \in Pending /\ \A j \in todo[t] : j \in Nat /\ j <= i
      /\ i \in DOMAIN records /\ i \in Nat /\ UndoesInOrder(t)
      /\ b \in Block /\ records[i].old \in Value
      /\ \A u \in Tx : u # t => held[u][b] = "none"
      /\ Recovering => t = Opener /\ pc[t] = "recover_undo"
      /\ ~Recovering => pc[t] = "rollback_undo"
      /\ \A j \in Pending : records[j].block = b => j \in ToUndo(t)
  BY UndoTarget
<1>2. /\ durable \in Nat /\ Len(records) \in Nat /\ durable <= Len(records)
      /\ DOMAIN records = 1..Len(records) /\ Opener \in Tx /\ TypeOK
      /\ UNCHANGED <<records, durable>>
  BY LengthType, TransactionsAssumption DEF IInv, log
<1>3. PendingSame /\ (Recovering' <=> Recovering)
  BY SameLog DEF Recovering
<1>4. /\ \A c \in Block : page'[c] = IF c = b THEN records[i].old ELSE page[c]
      /\ \A c \in Block : dirty'[c] = IF c = b THEN t ELSE dirty[c]
      /\ \A c \in Block : lsn'[c] = IF c = b THEN 0 ELSE lsn[c]
      /\ \A u \in Tx : todo'[u] = IF u = t THEN todo[t] \ {i} ELSE todo[u]
  BY <1>2 DEF TypeOK
<1>5. /\ held' \in [Tx -> [Block -> {"none", "shared", "exclusive"}]]
      /\ \A u \in Tx, c \in Block : held'[u][c] = IF u = t /\ c = b THEN "exclusive" ELSE held[u][c]
  BY <1>1, <1>2 DEF TypeOK, Locks!Held, Locks!Mode
<1>6. TypeOK'
  <2>1. page' \in [Block -> Value \cup {Missing}] /\ dirty' \in [Block -> Tx \cup {None}]
    BY <1>1, <1>2 DEF TypeOK
  <2>2. lsn' \in [Block -> 0..Len(records)]
    <3>1. 0 \in 0..Len(records)
      BY <1>2
    <3> QED
      BY <1>2, <3>1 DEF TypeOK
  <2>3. todo' \in [Tx -> SUBSET DOMAIN records']
    BY <1>2 DEF TypeOK
  <2> QED
    BY <1>2, <1>5, <2>1, <2>2, <2>3 DEF TypeOK, Locks!Held, Locks!Mode
<1>7. pc[Opener] # "done" => t = Opener
  BY AfterOpener DEF Undoing
<1>8. OpenerFirst'
  BY <1>5, <1>7 DEF IInv, OpenerFirst
<1>9. MarksInOrder'
  BY <1>2 DEF IInv, MarksInOrder, IsUpdate
<1>10. Locks!Exclusion' /\ DirtyLocked'
  BY <1>1, <1>2, <1>4, <1>5 DEF IInv, Locks!Exclusion, DirtyLocked, TypeOK
<1>11. PendingLocked'
  <2>1. \A j \in Pending : records[j].tx \in Tx /\ records[j].block \in Block
    BY <1>2, PendingType
  <2> QED
    BY <1>2, <1>3, <1>5, <2>1 DEF IInv, PendingLocked, PendingSame
<1>12. i \in Unsettled(b)
  BY <1>1, UnsettledIsPending
<1>13. PagesClean'
  BY <1>3, <1>4, <1>12, TransactionsAssumption DEF IInv, PagesClean, PendingSame
<1>14. \A k \in DOMAIN records : IsUpdate(k) /\ records[k].block = b => k <= durable
  BY <1>1 DEF UndoesInOrder
<1>15. LogCovers'
  <2> SUFFICES ASSUME NEW k \in DOMAIN records, IsUpdate(k)
               PROVE  k <= durable \/ k <= lsn'[records[k].block]
    BY <1>2, <1>3 DEF LogCovers, PendingSame
  <2>1. k <= durable \/ k <= lsn[records[k].block]
    BY DEF IInv, LogCovers
  <2>2. records[k].block \in Block
    BY <1>2, RecordType
  <2> QED
    BY <1>4, <1>14, <2>1, <2>2
<1>16. FlushedBefore'
  BY <1>4 DEF IInv, FlushedBefore, Marking, Saving, Undoing
<1>17. OldInFile'
  BY <1>2, <1>3 DEF IInv, OldInFile, PendingSame, Unsettled
<1>18. SettledBefore'
  BY <1>2, <1>3, SettledBeforeSame DEF IInv
<1>19. MissingOnlyTemp'
  <2>1. records[i].old # Missing
    BY <1>1, TransactionsAssumption
  <2>2. \A j \in Pending : records[j].block \in Block
    BY <1>2, PendingType
  <2> QED
    BY <1>2, <1>3, <1>4, <2>1, <2>2 DEF IInv, MissingOnlyTemp, PendingSame
<1>20. DownIsClean'
  BY <1>7 DEF DownIsClean, Undoing
<1>21. Recovered' = Recovered
  <2>1. \A c \in Block : Recovered'[c] = Recovered[c]
    BY <1>2, <1>3, <1>6, <1>17, RecoveredSame DEF IInv
  <2> QED
    BY <2>1 DEF Recovered
<1>22. ASSUME NEW u \in Tx, u # t, pc[u] \in Recovery \cup RollingBack
       PROVE  UndoesInOrder(u)'
  <2>1. UndoesInOrder(u)
    BY <1>22 DEF IInv, UndoInOrder
  <2>2. ~Recovering
    BY <1>1, <1>22 DEF IInv, OpenerFirst, Recovery, RollingBack
  <2>3. \A j \in ToUndo(u) : records[j].block \in Block /\ records[j].block # b
    BY <1>1, <1>2, <1>22, <2>2, PendingType DEF ToUndo, IInv, PendingLocked
  <2> QED
    BY <1>2, <1>3, <1>4, <1>21, <1>22, <2>1, <2>3, UndoesSame
<1>23. UndoesInOrder(t)'
  <2>1. ToUndo(t)' = ToUndo(t) /\ ToUndo(t) \subseteq Pending
    BY <1>2, <1>3 DEF ToUndo, PendingSame
  <2>2. todo'[t] = todo[t] \ {i}
    BY <1>4
  <2>3. ASSUME NEW j \in todo'[t], NEW k \in ToUndo(t), k < j PROVE k \in todo'[t]
    <3>1. k \in todo[t] /\ j <= i /\ j \in Nat
      BY <1>1, <2>2, <2>3 DEF UndoesInOrder
    <3>2. k \in Nat
      BY <1>1, <3>1
    <3> QED
      BY <1>1, <2>2, <2>3, <3>1, <3>2
  <2>4. ASSUME NEW k \in ToUndo(t), \A j \in todo'[t] : records[j].block # records[k].block
        PROVE  page'[records[k].block] = Recovered[records[k].block]
    <3>0. records[k].block \in Block
      BY <1>2, <2>1, PendingType
    <3>1. CASE records[k].block = b
      <4>1. \A m \in Unsettled(b) : i <= m
        <5> SUFFICES ASSUME NEW m \in Unsettled(b), ~(i <= m) PROVE FALSE
          OBVIOUS
        <5>1. m \in Pending /\ records[m].block = b
          BY UnsettledIsPending
        <5>2. m \in Nat /\ m < i
          BY <1>1, <1>2, <5>1, PendingType
        <5>3. m \in todo[t]
          BY <1>1, <5>1, <5>2 DEF UndoesInOrder
        <5> QED
          BY <2>2, <2>4, <3>1, <5>1, <5>2, <5>3
      <4>2. Oldest(b, i)
        BY <1>12, <4>1 DEF Oldest
      <4>3. RecoveredIsOldest
        BY <1>2, RecoveredValue DEF IInv
      <4> QED
        BY <1>1, <1>4, <1>12, <3>1, <4>2, <4>3 DEF RecoveredIsOldest
    <3>2. CASE records[k].block # b
      <4>1. \A j \in todo[t] : records[j].block # records[k].block
        BY <2>2, <2>4, <3>2
      <4>2. page[records[k].block] = Recovered[records[k].block]
        BY <1>1, <4>1 DEF UndoesInOrder
      <4> QED
        BY <1>4, <3>0, <3>2, <4>2
    <3> QED
      BY <3>1, <3>2
  <2>5. todo'[t] \subseteq ToUndo(t)
    BY <1>1, <2>2 DEF UndoesInOrder
  <2>6. ASSUME NEW j \in todo'[t], NEW k \in DOMAIN records, IsUpdate(k),
               records[k].block = records[j].block
        PROVE  k <= durable
    BY <1>1, <2>2, <2>6 DEF UndoesInOrder
  <2>7. \A k \in DOMAIN records : IsUpdate(k)' <=> IsUpdate(k)
    BY <1>3 DEF PendingSame
  <2> QED
    BY <1>2, <1>21, <2>1, <2>3, <2>4, <2>5, <2>6, <2>7 DEF UndoesInOrder
<1>24. UndoInOrder'
  BY <1>4, <1>22, <1>23 DEF IInv, UndoInOrder, Undoing
<1> QED
  BY <1>6, <1>8, <1>9, <1>10, <1>11, <1>13, <1>15, <1>16, <1>17, <1>18, <1>19, <1>20,
     <1>21, <1>24 DEF IInv

LEMMA UndoStep ==
  ASSUME IInv, NEW t \in Tx, Undo(t)
  PROVE  IInv' /\ Recovered' = Recovered
<1>1. /\ pc[t] \in Undoing /\ todo[t] # {} /\ UNCHANGED <<disk, log>>
  BY DEF Undo
<1>2. PICK i : i = Max(todo[t])
  OBVIOUS
<1>3. PICK b : b = records[i].block
  OBVIOUS
<1>4. CASE page[b] = Missing
  <2>1. Goto(t, "panicked") /\ UNCHANGED <<pool, held, todo>>
    BY <1>2, <1>3, <1>4 DEF Undo
  <2>2. pc[t] = "recover_undo"
    BY <1>1, <1>2, <1>3, <1>4, UndoTarget DEF IInv, MissingOnlyTemp, Undoing
  <2> QED
    BY <1>1, <2>1, <2>2, PanicStep
<1>5. CASE page[b] # Missing
  <2>1. /\ page' = [page EXCEPT ![b] = records[i].old]
        /\ dirty' = [dirty EXCEPT ![b] = t]
        /\ lsn' = [lsn EXCEPT ![b] = 0]
        /\ held' = [held EXCEPT ![t][b] = "exclusive"]
        /\ todo' = [todo EXCEPT ![t] = @ \ {i}]
        /\ UNCHANGED pc
    BY <1>2, <1>3, <1>5 DEF Undo
  <2> QED
    BY <1>1, <1>2, <1>3, <2>1, PutBackStep
<1> QED
  BY <1>4, <1>5

-----------------------------------------------------------------------------
(* A mark getting to disk.                                                 *)

\* It settles the updates of its transaction, or all of them.
LEMMA MarkSettles ==
  ASSUME IInv, NEW t \in Tx, SaveMark(t)
  PROVE  /\ \A i \in DOMAIN records :
              /\ IsUpdate(i)' <=> IsUpdate(i)
              /\ IsUpdate(i) =>
                   (Settled(i)' <=> Settled(i) \/ pc[t] = "recover_save" \/ records[i].tx = t)
         /\ Pending' = {i \in Pending : pc[t] # "recover_save" /\ records[i].tx # t}
         /\ \A b : Unsettled(b)' =
                     {i \in Unsettled(b) : pc[t] # "recover_save" /\ records[i].tx # t}
<1>1. pc[t] \in Saving /\ records' = records /\ durable' = Len(records)
  BY DEF SaveMark, Log!Save
<1>2. /\ durable \in Nat /\ Len(records) \in Nat /\ durable <= Len(records)
      /\ DOMAIN records = 1..Len(records)
  BY LengthType DEF IInv
<1>3. PICK n \in Nat : n = Len(records)
  BY <1>2
<1>4. PICK k \in {"commit", "rollback", "checkpoint"} :
        k = MarkOf(pc[t]) /\ (k = "checkpoint" <=> pc[t] = "recover_save")
  BY <1>1 DEF Saving, MarkOf
<1>5. durable < n /\ records[n].kind = k /\ records[n].tx = t
  <2>1. durable < Len(records) /\ records[Len(records)] = Mark(MarkOf(pc[t]), t)
    BY <1>1 DEF IInv, MarksInOrder
  <2>2. records[n] = Mark(k, t)
    BY <1>3, <1>4, <2>1
  <2>3. Mark(k, t).kind = k /\ Mark(k, t).tx = t
    BY DEF Mark
  <2> QED
    BY <1>3, <2>1, <2>2, <2>3
<1>6. \A j \in DOMAIN records : j > durable /\ ~IsUpdate(j) => j = n
  BY <1>3 DEF IInv, MarksInOrder
<1>7. ~IsUpdate(n)
  BY <1>5 DEF IsUpdate
<1>8. \A i : IsUpdate(i)' <=> IsUpdate(i)
  BY <1>1 DEF IsUpdate
<1>9. ASSUME NEW i \in DOMAIN records, IsUpdate(i)
      PROVE  Settled(i)' <=> Settled(i) \/ pc[t] = "recover_save" \/ records[i].tx = t
  <2>1. i \in Nat /\ i >= 1 /\ n \in i+1..n
    BY <1>2, <1>3, <1>7, <1>9
  <2>2. ASSUME NEW j \in i+1..n, records[j].kind = "checkpoint" \/ (~IsUpdate(j) /\ records[j].tx = records[i].tx)
        PROVE  Settled(i) \/ pc[t] = "recover_save" \/ records[i].tx = t
    <3>1. j \in DOMAIN records /\ ~IsUpdate(j)
      BY <1>2, <1>3, <2>1, <2>2 DEF IsUpdate
    <3>2. CASE j > durable
      BY <1>4, <1>5, <1>6, <2>2, <3>1, <3>2
    <3>3. CASE ~(j > durable)
      <4>1. j \in i+1..durable
        BY <1>2, <2>1, <3>3
      <4> QED
        BY <2>2, <4>1 DEF Settled
    <3> QED
      BY <3>2, <3>3
  <2>3. Settled(i)' => Settled(i) \/ pc[t] = "recover_save" \/ records[i].tx = t
    BY <1>1, <1>3, <1>8, <2>2 DEF Settled
  <2>4. Settled(i) => Settled(i)'
    <3>1. \A j \in i+1..durable : j \in i+1..n
      BY <1>2, <1>3, <2>1
    <3> QED
      BY <1>1, <1>3, <1>8, <3>1 DEF Settled
  <2>5. pc[t] = "recover_save" \/ records[i].tx = t => Settled(i)'
    BY <1>1, <1>3, <1>4, <1>5, <1>7, <1>8, <2>1 DEF Settled
  <2> QED
    BY <2>3, <2>4, <2>5
<1>10. Pending' = {i \in Pending : pc[t] # "recover_save" /\ records[i].tx # t}
  BY <1>1, <1>8, <1>9 DEF Pending
<1>11. \A b : Unsettled(b)' =
                {i \in Unsettled(b) : pc[t] # "recover_save" /\ records[i].tx # t}
  BY <1>1, <1>8, <1>9 DEF Unsettled
<1> QED
  BY <1>8, <1>9, <1>10, <1>11

\* What the transaction changed is in the files by then, and all that was
\* changed after recovery.
LEMMA MarkedIsClean ==
  ASSUME IInv, NEW t \in Tx, pc[t] \in Saving, NEW b \in Block,
         pc[t] = "recover_save" \/ \E i \in Unsettled(b) : records[i].tx = t
  PROVE  dirty[b] = None /\ page[b] = disk[b]
<1>1. Opener \in Tx /\ TypeOK
  BY TransactionsAssumption DEF IInv
<1>2. dirty[b] # t
  BY DEF IInv, FlushedBefore
<1>3. dirty[b] # None => held[dirty[b]][b] = "exclusive" /\ dirty[b] \in Tx
  BY <1>1 DEF IInv, DirtyLocked, TypeOK
<1>4. CASE pc[t] = "recover_save"
  <2>1. t = Opener
    BY <1>4 DEF IInv, OpenerFirst, Recovery
  <2> QED
    BY <1>2, <1>3, <1>4, <2>1 DEF IInv, OpenerFirst, PagesClean
<1>5. CASE pc[t] # "recover_save"
  <2>1. PICK i \in Pending : records[i].block = b /\ records[i].tx = t
    BY <1>5, UnsettledIsPending
  <2>2. t = Opener \/ pc[Opener] = "done"
    BY AfterOpener DEF Saving
  <2>3. ~Recovering
    BY <1>5, <2>2 DEF Recovering, Saving
  <2>4. held[t][b] = "exclusive"
    BY <2>1, <2>3 DEF IInv, PendingLocked
  <2> QED
    BY <1>2, <1>3, <2>4 DEF IInv, Locks!Exclusion, PagesClean
<1> QED
  BY <1>4, <1>5

\* The unsettled changes of a block are of one transaction.
LEMMA OneOwner ==
  ASSUME IInv, ~Recovering, NEW b \in Block, NEW i \in Unsettled(b), NEW j \in Unsettled(b)
  PROVE  records[i].tx = records[j].tx /\ records[i].tx \in Tx /\ held[records[i].tx][b] = "exclusive"
<1>1. i \in Pending /\ j \in Pending /\ records[i].block = b /\ records[j].block = b
  BY UnsettledIsPending
<1>2. records[i].tx \in Tx /\ records[j].tx \in Tx
  BY <1>1, PendingType DEF IInv
<1> QED
  BY <1>1, <1>2 DEF IInv, PendingLocked, Locks!Exclusion

\* Committed values are the ones in the pages; all the others are as they were,
\* a rollback having put back the old ones and recovery too.
LEMMA SaveMarkStep ==
  ASSUME IInv, NEW t \in Tx, SaveMark(t)
  PROVE  /\ IInv' /\ ~Recovering'
         /\ \A b \in Block :
              /\ (pc[t] = "recover_save" \/ \E i \in Unsettled(b) : records[i].tx = t)
                   => Recovered'[b] = page[b]
              /\ (pc[t] # "commit_save" \/ \A i \in Unsettled(b) : records[i].tx # t)
                   => Recovered'[b] = Recovered[b]
<1>1. /\ pc[t] \in Saving /\ UNCHANGED <<disk, held, todo, page, dirty, lsn>>
      /\ records' = records /\ durable' = Len(records) /\ Goto(t, After(pc[t]))
  BY DEF SaveMark, Log!Save, pool
<1>2. /\ durable \in Nat /\ Len(records) \in Nat /\ durable <= Len(records)
      /\ DOMAIN records = 1..Len(records) /\ Opener \in Tx /\ TypeOK
  BY LengthType, TransactionsAssumption DEF IInv
<1>3. PICK l \in {"release", "commit_flush"} :
        /\ l = After(pc[t])
        /\ l = "commit_flush" <=> pc[t] = "recover_save"
        /\ pc[t] = "recover_save" => t = Opener
  BY <1>1 DEF After, Saving, IInv, OpenerFirst, Recovery
<1>4. \A u \in Tx : pc'[u] = IF u = t THEN l ELSE pc[u]
  BY <1>1, <1>2, <1>3 DEF Goto, TypeOK
<1>5. t = Opener \/ pc[Opener] = "done"
  BY <1>1, AfterOpener DEF Saving
<1>6. ~Recovering' /\ (Recovering <=> pc[t] = "recover_save")
  BY <1>1, <1>2, <1>3, <1>4, <1>5 DEF Recovering, Saving
<1>7. /\ \A i \in DOMAIN records :
           /\ IsUpdate(i)' <=> IsUpdate(i)
           /\ IsUpdate(i) =>
                (Settled(i)' <=> Settled(i) \/ pc[t] = "recover_save" \/ records[i].tx = t)
      /\ Pending' = {i \in Pending : pc[t] # "recover_save" /\ records[i].tx # t}
      /\ \A b : Unsettled(b)' =
                  {i \in Unsettled(b) : pc[t] # "recover_save" /\ records[i].tx # t}
  BY MarkSettles
<1>8. TypeOK'
  <2>1. pc' \in [Tx -> Pc]
    BY <1>1, <1>2, <1>3 DEF TypeOK, Goto, Pc, Flushing
  <2> QED
    BY <1>1, <1>2, <2>1 DEF TypeOK, Locks!Held
<1>9. OpenerFirst'
  <2>1. \A u \in Tx : pc'[u] \in Recovery \cup {"down"} => pc[u] \in Recovery \cup {"down"}
    BY <1>3, <1>4 DEF Recovery
  <2>2. pc'[Opener] # "done" => t = Opener /\ pc[Opener] # "done"
    BY <1>1, <1>2, <1>4, <1>5 DEF Saving
  <2> QED
    BY <1>1, <1>4, <2>1, <2>2 DEF IInv, OpenerFirst
<1>10. MarksInOrder'
  <2>1. \A u \in Tx : pc'[u] \notin Saving
    BY <1>1, <1>4 DEF IInv, MarksInOrder, Saving
  <2> QED
    BY <1>1, <1>2, <2>1 DEF MarksInOrder
<1>11. Locks!Exclusion' /\ DirtyLocked' /\ FlushedBefore'
  BY <1>1, <1>4 DEF IInv, Locks!Exclusion, DirtyLocked, FlushedBefore
<1>12. \A i \in Pending : i \in DOMAIN records /\ records[i].tx \in Tx /\ records[i].block \in Block
  BY <1>2, PendingType
<1>13. PendingLocked'
  BY <1>1, <1>4, <1>6, <1>7, <1>12 DEF IInv, PendingLocked
<1>14. \A b \in Block : (pc[t] = "recover_save" \/ \E i \in Unsettled(b) : records[i].tx = t)
                          => dirty[b] = None /\ page[b] = disk[b]
  BY <1>1, MarkedIsClean
<1>15. \A b \in Block : ~(pc[t] = "recover_save" \/ \E i \in Unsettled(b) : records[i].tx = t)
                          => Unsettled(b)' = Unsettled(b)
  BY <1>7
<1>16. PagesClean'
  BY <1>1, <1>14, <1>15 DEF IInv, PagesClean
<1>17. LogCovers'
  BY <1>1, <1>2 DEF LogCovers
<1>18. OldInFile'
  BY <1>1, <1>2 DEF OldInFile, Unsettled
<1>19. SettledBefore'
  <2> SUFFICES ASSUME NEW i \in DOMAIN records, IsUpdate(i), Settled(i)',
                      pc'[records[i].tx] \notin {"release", "done"}
               PROVE  \E j \in i+1..Len(records) : records[j].kind = "checkpoint"
    BY <1>1, <1>7 DEF SettledBefore
  <2>1. CASE pc[t] = "recover_save"
    <3>1. records[Len(records)].kind = "checkpoint" /\ durable < Len(records)
      <4>1. records[Len(records)] = Mark(MarkOf(pc[t]), t) /\ durable < Len(records)
        BY <1>1 DEF IInv, MarksInOrder
      <4>2. MarkOf(pc[t]) = "checkpoint"
        BY <2>1 DEF MarkOf
      <4> QED
        BY <4>1, <4>2 DEF Mark
    <3>2. i # Len(records)
      BY <3>1 DEF IsUpdate
    <3> QED
      BY <1>2, <3>1, <3>2
  <2>2. CASE pc[t] # "recover_save"
    <3>1. records[i].tx \in Tx
      BY <1>2, RecordType
    <3>2. records[i].tx # t /\ Settled(i)
      BY <1>3, <1>4, <1>7, <2>2, <3>1
    <3>3. PICK j \in i+1..durable : records[j].kind = "checkpoint"
      BY <1>4, <1>6, <2>2, <3>1, <3>2 DEF IInv, SettledBefore
    <3> QED
      BY <1>2, <3>3
  <2> QED
    BY <2>1, <2>2
<1>20. MissingOnlyTemp'
  <2>1. pc[t] # "recover_save" => \A i \in Pending : page[records[i].block] # Missing
    BY <1>6 DEF IInv, MissingOnlyTemp
  <2>2. \A b \in Block \ TempBlock : disk[b] # Missing /\ page[b] # Missing
    BY DEF IInv, MissingOnlyTemp
  <2> QED
    BY <1>1, <1>7, <2>1, <2>2 DEF MissingOnlyTemp
<1>21. DownIsClean'
  BY <1>6 DEF DownIsClean, Recovering
<1>22. RecoveredIsOldest /\ RecoveredIsOldest'
  BY <1>2, <1>8, <1>18, RecoveredValue, RecoveredValueNext DEF IInv
<1>23. ASSUME NEW b \in Block
       PROVE  /\ (pc[t] = "recover_save" \/ \E i \in Unsettled(b) : records[i].tx = t)
                   => Unsettled(b)' = {} /\ Recovered'[b] = page[b]
              /\ ~(pc[t] = "recover_save" \/ \E i \in Unsettled(b) : records[i].tx = t)
                   => Recovered'[b] = Recovered[b]
  <2>1. CASE pc[t] = "recover_save" \/ \E i \in Unsettled(b) : records[i].tx = t
    <3>1. Unsettled(b)' = {}
      BY <1>6, <1>7, <2>1, OneOwner
    <3>2. Recovered'[b] = disk[b]
      BY <1>1, <1>22, <3>1 DEF RecoveredIsOldest
    <3> QED
      BY <1>14, <2>1, <3>1, <3>2
  <2>2. CASE ~(pc[t] = "recover_save" \/ \E i \in Unsettled(b) : records[i].tx = t)
    <3>1. Unsettled(b)' = Unsettled(b)
      BY <1>15, <2>2
    <3>2. CASE Unsettled(b) = {}
      BY <1>1, <1>22, <2>2, <3>1, <3>2 DEF RecoveredIsOldest
    <3>3. CASE Unsettled(b) # {}
      <4>1. PICK i \in Unsettled(b) : Oldest(b, i)
        BY <1>2, <3>3, OldestExists
      <4>2. i \in Unsettled(b)' /\ Oldest(b, i)'
        BY <3>1, <4>1 DEF Oldest
      <4> QED
        BY <1>1, <1>22, <2>2, <4>1, <4>2 DEF RecoveredIsOldest
    <3> QED
      BY <3>2, <3>3
  <2> QED
    BY <2>1, <2>2
<1>24. ASSUME NEW b \in Block,
              pc[t] = "recover_save"
                \/ (pc[t] = "rollback_save" /\ \E i \in Unsettled(b) : records[i].tx = t)
       PROVE  page[b] = Recovered[b]
  <2>1. UndoesInOrder(t) /\ todo[t] = {}
    BY <1>24 DEF IInv, UndoInOrder, Recovery, RollingBack, Undoing
  <2>2. CASE Unsettled(b) = {}
    BY <1>14, <1>22, <1>24, <2>2 DEF RecoveredIsOldest
  <2>3. ASSUME NEW i \in Unsettled(b), pc[t] = "recover_save" \/ records[i].tx = t
        PROVE  page[b] = Recovered[b]
    <3>1. i \in Pending /\ records[i].block = b
      BY UnsettledIsPending
    <3>2. i \in ToUndo(t)
      BY <1>6, <2>3, <3>1 DEF ToUndo
    <3> QED
      BY <2>1, <3>1, <3>2 DEF UndoesInOrder
  <2> QED
    BY <1>24, <2>2, <2>3
<1>25. UndoInOrder'
  <2> SUFFICES ASSUME NEW u \in Tx
               PROVE  /\ pc'[u] \notin Undoing \cup {"panicked"} => todo'[u] = {}
                      /\ pc'[u] \in Recovery \cup RollingBack => UndoesInOrder(u)'
    BY DEF UndoInOrder
  <2>1. CASE u = t
    BY <1>1, <1>4, <2>1 DEF IInv, UndoInOrder, Undoing, Saving, Recovery, RollingBack
  <2>2. ASSUME u # t, pc[u] \in Recovery \cup RollingBack
        PROVE  UndoesInOrder(u)'
    <3>1. UndoesInOrder(u)
      BY <2>2 DEF IInv, UndoInOrder
    <3>2. pc[t] # "recover_save"
      BY <1>3, <2>2 DEF IInv, OpenerFirst, Recovery, RollingBack
    <3>3. ToUndo(u)' = ToUndo(u) /\ ToUndo(u) \subseteq Pending
      BY <1>1, <1>6, <1>7, <2>2, <3>2 DEF ToUndo
    <3>4. ASSUME NEW i \in todo[u], NEW k \in DOMAIN records, IsUpdate(k),
                 records[k].block = records[i].block
          PROVE  k <= Len(records)
      BY <1>2
    <3>5. ASSUME NEW i \in ToUndo(u)
          PROVE  \/ \E j \in todo[u] : records[j].block = records[i].block
                 \/ page[records[i].block] = Recovered'[records[i].block]
      <4>1. PICK b \in Block : b = records[i].block
        BY <1>12, <3>3
      <4>2. i \in Unsettled(b) /\ records[i].tx = u
        BY <1>6, <3>2, <3>3, <4>1, UnsettledIsPending DEF ToUndo
      <4>3. Recovered'[b] = Recovered[b]
        BY <1>6, <1>23, <2>2, <3>2, <4>2, OneOwner
      <4> QED
        BY <3>1, <4>1, <4>3 DEF UndoesInOrder
    <3> QED
      BY <1>1, <1>7, <3>1, <3>3, <3>4, <3>5 DEF UndoesInOrder
  <2> QED
    BY <1>1, <1>4, <2>1, <2>2 DEF IInv, UndoInOrder
<1>26. IInv'
  BY <1>8, <1>9, <1>10, <1>11, <1>13, <1>16, <1>17, <1>18, <1>19, <1>20, <1>21, <1>25 DEF IInv
<1>27. ASSUME NEW b \in Block,
              pc[t] # "commit_save" \/ \A i \in Unsettled(b) : records[i].tx # t
       PROVE  Recovered'[b] = Recovered[b]
  BY <1>1, <1>23, <1>24, <1>27 DEF Saving
<1> QED
  BY <1>6, <1>23, <1>26, <1>27

-----------------------------------------------------------------------------
(* Crash and restart.                                                      *)

\* A crash takes the end of the log, and with it the changes whose old values
\* are still in the files.
LEMMA CrashStep ==
  ASSUME IInv, Crash
  PROVE  IInv' /\ Recovering' /\ Recovered' = Recovered
<1>1. /\ UNCHANGED disk /\ page' = disk
      /\ durable' = durable /\ records' = SubSeq(records, 1, durable)
      /\ \A b \in Block : dirty'[b] = None /\ lsn'[b] = 0
      /\ \A u \in Tx, b \in Block : held'[u][b] = "none"
      /\ \A u \in Tx : pc'[u] = IF u = Opener THEN "down" ELSE "active"
      /\ \A u \in Tx : todo'[u] = {}
  BY DEF Crash, Log!Crash
<1>2. /\ durable \in Nat /\ Len(records) \in Nat /\ durable <= Len(records)
      /\ DOMAIN records = 1..Len(records) /\ records \in Seq(LogRecord)
      /\ Opener \in Tx /\ TypeOK
  BY LengthType, TransactionsAssumption DEF IInv, TypeOK
<1>3. PICK m \in Nat : m = durable
  BY <1>2
<1>4. /\ records' \in Seq(LogRecord) /\ Len(records') = m /\ DOMAIN records' = 1..m
      /\ \A i \in 1..m : i \in DOMAIN records /\ records'[i] = records[i]
  BY <1>1, <1>2, <1>3
<1>5. Recovering'
  BY <1>1, <1>2 DEF Recovering
<1>6. \A i \in 1..m : IsUpdate(i)' <=> IsUpdate(i)
  BY <1>4 DEF IsUpdate
<1>7. ASSUME NEW i \in 1..m PROVE Settled(i)' <=> Settled(i)
  <2>1. \A j \in i+1..m : j \in 1..m
    OBVIOUS
  <2> QED
    BY <1>1, <1>3, <1>4, <1>6, <2>1 DEF Settled
<1>8. \A b : Unsettled(b)' = {i \in Unsettled(b) : i <= m}
  <2> TAKE b
  <2>1. \A i \in DOMAIN records : i \in 1..m <=> i <= m
    BY <1>2, <1>3
  <2> QED
    BY <1>4, <1>6, <1>7, <2>1 DEF Unsettled
<1>9. TypeOK'
  <2>1. lsn' \in [Block -> 0..Len(records')] /\ durable' \in 0..Len(records')
    BY <1>1, <1>3, <1>4 DEF Crash
  <2>2. held' \in Locks!Held
    BY DEF Crash, Locks!Held, Locks!Mode
  <2>3. pc' \in [Tx -> Pc] /\ todo' \in [Tx -> SUBSET DOMAIN records']
    BY DEF Crash, Pc
  <2>4. page' \in [Block -> Value \cup {Missing}] /\ dirty' \in [Block -> Tx \cup {None}]
    BY <1>2 DEF Crash, TypeOK
  <2> QED
    BY <1>1, <1>2, <1>4, <2>1, <2>2, <2>3, <2>4 DEF TypeOK
<1>10. OpenerFirst'
  BY <1>1, <1>2 DEF OpenerFirst, Recovery
<1>11. MarksInOrder'
  BY <1>1, <1>3, <1>4 DEF MarksInOrder, Saving
<1>12. Locks!Exclusion' /\ DirtyLocked' /\ PendingLocked' /\ PagesClean' /\ FlushedBefore'
  BY <1>1, <1>5, TransactionsAssumption
     DEF Locks!Exclusion, DirtyLocked, PendingLocked, PagesClean, FlushedBefore
<1>13. LogCovers'
  BY <1>1, <1>3, <1>4 DEF LogCovers
<1>14. OldInFile'
  BY <1>1, <1>3, <1>4 DEF OldInFile, Unsettled
<1>15. SettledBefore' /\ UndoInOrder' /\ DownIsClean'
  BY <1>1, <1>3, <1>4, <1>5 DEF SettledBefore, UndoInOrder, DownIsClean, Recovery, RollingBack
<1>16. MissingOnlyTemp'
  BY <1>1, <1>5 DEF IInv, MissingOnlyTemp
<1>17. Recovered' = Recovered
  <2> SUFFICES ASSUME NEW b \in Block PROVE Recovered'[b] = Recovered[b]
    BY DEF Recovered
  <2>1. RecoveredIsOldest /\ RecoveredIsOldest'
    BY <1>2, <1>9, <1>14, RecoveredValue, RecoveredValueNext DEF IInv
  <2>2. \A i \in Unsettled(b) : i \in Nat
    BY <1>2 DEF Unsettled
  <2>3. CASE Unsettled(b)' = {}
    <3>1. \A i \in Unsettled(b) : i > durable
      BY <1>3, <1>8, <2>2, <2>3
    <3>2. Recovered[b] = disk[b]
      BY <3>1 DEF Recovered
    <3> QED
      BY <1>1, <2>1, <2>3, <3>2 DEF RecoveredIsOldest
  <2>4. CASE Unsettled(b)' # {}
    <3>1. PICK k \in Unsettled(b) : k <= m
      BY <1>8, <2>4
    <3>2. PICK i \in Unsettled(b) : Oldest(b, i)
      BY <1>2, <3>1, OldestExists
    <3>3. i <= m
      BY <2>2, <3>1, <3>2 DEF Oldest
    <3>4. i \in Unsettled(b)' /\ Oldest(b, i)'
      BY <1>8, <3>2, <3>3 DEF Oldest
    <3>5. records'[i] = records[i]
      BY <1>2, <1>4, <3>2, <3>3 DEF Unsettled
    <3> QED
      BY <2>1, <3>2, <3>4, <3>5 DEF RecoveredIsOldest
  <2> QED
    BY <2>3, <2>4
<1> QED
  BY <1>5, <1>9, <1>10, <1>11, <1>12, <1>13, <1>14, <1>15, <1>16, <1>17 DEF IInv

\* What do_recover collects is what no record on disk has settled.
LEMMA ToRecoverIsPending ==
  ASSUME TypeOK, durable = Len(records)
  PROVE  ToRecover = Pending
<1>1. DOMAIN records = 1..Len(records) /\ Len(records) \in Nat
  BY LengthType
<1>2. ASSUME NEW i \in DOMAIN records
      PROVE  Settled(i) <=> Fenced(i, Len(records)) \/ Finished(i, Len(records))
  <2>1. ASSUME NEW j \in i+1..Len(records)
        PROVE  /\ records[j].kind \in {"commit", "rollback"} => ~IsUpdate(j)
               /\ ~IsUpdate(j) => records[j].kind \in {"commit", "rollback", "checkpoint"}
    <3>1. j \in DOMAIN records
      BY <1>1
    <3>2. records[j] \in LogRecord
      BY <3>1, RecordType
    <3> QED
      BY <3>2 DEF IsUpdate, LogRecord
  <2> QED
    BY <2>1 DEF Settled, Fenced, Finished
<1> QED
  BY <1>2 DEF ToRecover, Pending

LEMMA RestartStep ==
  ASSUME IInv, Restart
  PROVE  /\ IInv' /\ Recovering /\ Recovering'
         /\ \A b \in Block \ TempBlock : Recovered'[b] = Recovered[b]
<1>1. /\ pc[Opener] = "down" /\ page' = disk' /\ UNCHANGED <<dirty, lsn, log, held>>
      /\ UNCHANGED <<records, durable>>
      /\ \A b \in Block : disk'[b] = IF b \in TempBlock THEN Missing ELSE disk[b]
      /\ Goto(Opener, "recover_undo") /\ todo' = [todo EXCEPT ![Opener] = ToRecover]
  BY DEF Restart, log
<1>2. /\ durable \in Nat /\ DOMAIN records = 1..Len(records) /\ Opener \in Tx /\ TypeOK
      /\ durable = Len(records) /\ \A b \in Block : dirty[b] = None
  BY <1>1, LengthType, TransactionsAssumption DEF IInv, DownIsClean
<1>3. ToRecover = Pending /\ Pending \subseteq DOMAIN records
  BY <1>2, ToRecoverIsPending DEF Pending
<1>4. /\ \A u \in Tx : pc'[u] = IF u = Opener THEN "recover_undo" ELSE pc[u]
      /\ \A u \in Tx : todo'[u] = IF u = Opener THEN Pending ELSE todo[u]
  BY <1>1, <1>2, <1>3 DEF Goto, TypeOK
<1>5. \A u \in Tx : u # Opener => pc[u] = "active" /\ todo[u] = {}
  BY <1>1 DEF IInv, OpenerFirst, UndoInOrder, Undoing
<1>6. Recovering /\ Recovering'
  BY <1>1, <1>2, <1>4 DEF Recovering
<1>7. PendingSame
  BY <1>1, SameLog
<1>8. TypeOK'
  <2>1. disk' \in [Block -> Value \cup {Missing}]
    BY <1>2 DEF Restart, TypeOK
  <2>2. pc' \in [Tx -> Pc] /\ todo' \in [Tx -> SUBSET DOMAIN records']
    BY <1>1, <1>2, <1>3 DEF Goto, TypeOK, Pc, Undoing
  <2> QED
    BY <1>1, <1>2, <2>1, <2>2 DEF TypeOK, Locks!Held
<1>9. OpenerFirst'
  BY <1>1, <1>4, <1>5 DEF IInv, OpenerFirst, Recovery
<1>10. MarksInOrder'
  BY <1>1, <1>2, <1>4, <1>5 DEF MarksInOrder, Saving
<1>11. Locks!Exclusion' /\ DirtyLocked' /\ PendingLocked' /\ PagesClean' /\ FlushedBefore'
  BY <1>1, <1>2, <1>6, TransactionsAssumption
     DEF IInv, Locks!Exclusion, DirtyLocked, PendingLocked, PagesClean, FlushedBefore
<1>12. LogCovers' /\ SettledBefore' /\ DownIsClean'
  BY <1>1, <1>2, <1>4, <1>6 DEF LogCovers, SettledBefore, DownIsClean
<1>13. OldInFile'
  BY <1>1, <1>2 DEF OldInFile, Unsettled
<1>14. MissingOnlyTemp'
  BY <1>1, <1>6 DEF IInv, MissingOnlyTemp
<1>15. UndoesInOrder(Opener)'
  <2>1. ToUndo(Opener)' = Pending
    BY <1>6, <1>7 DEF ToUndo, PendingSame
  <2>2. \A k \in DOMAIN records' : k <= durable'
    BY <1>1, <1>2
  <2>3. todo'[Opener] = Pending
    BY <1>2, <1>4
  <2> QED
    BY <2>1, <2>2, <2>3 DEF UndoesInOrder
<1>16. UndoInOrder'
  BY <1>4, <1>5, <1>15 DEF UndoInOrder, Undoing, Recovery, RollingBack
<1>17. ASSUME NEW b \in Block \ TempBlock PROVE Recovered'[b] = Recovered[b]
  BY <1>1, <1>7, <1>8, <1>13, RecoveredSame DEF IInv
<1> QED
  BY <1>6, <1>8, <1>9, <1>10, <1>11, <1>12, <1>13, <1>14, <1>16, <1>17 DEF IInv

-----------------------------------------------------------------------------
(* The invariant.                                                          *)

LEMMA InitIInv == Init => IInv
<1> SUFFICES ASSUME Init PROVE IInv
  OBVIOUS
<1>1. PICK v \in Value : disk = [b \in Block |-> v]
  BY DEF Init
<1>2. /\ page = disk /\ records = <<>> /\ durable = 0
      /\ dirty = [b \in Block |-> None] /\ lsn = [b \in Block |-> 0]
      /\ held = [t \in Tx |-> [b \in Block |-> "none"]]
      /\ pc = [t \in Tx |-> "active"] /\ todo = [t \in Tx |-> {}]
  BY DEF Init, Log!Init, Locks!Init
<1>3. DOMAIN records = {} /\ Len(records) = 0 /\ records \in Seq(LogRecord)
  BY <1>2
<1>4. Opener \in Tx /\ v # Missing
  BY TransactionsAssumption
<1>5. TypeOK
  BY <1>1, <1>2, <1>3 DEF TypeOK, Locks!Held, Locks!Mode, Pc
<1>6. ~Recovering /\ Pending = {} /\ \A b : Unsettled(b) = {}
  BY <1>2, <1>3, <1>4 DEF Recovering, Pending, Unsettled
<1>7. OpenerFirst /\ MarksInOrder /\ DownIsClean
  BY <1>2, <1>3, <1>4 DEF OpenerFirst, MarksInOrder, DownIsClean, Recovery, Saving
<1>8. Locks!Exclusion /\ DirtyLocked /\ PendingLocked /\ FlushedBefore
  BY <1>2, <1>6 DEF Locks!Exclusion, DirtyLocked, PendingLocked, FlushedBefore, Marking, Saving
<1>9. PagesClean /\ LogCovers /\ OldInFile /\ SettledBefore
  BY <1>2, <1>3, <1>6 DEF PagesClean, LogCovers, OldInFile, SettledBefore
<1>10. UndoInOrder /\ MissingOnlyTemp
  BY <1>1, <1>2, <1>4, <1>6 DEF UndoInOrder, MissingOnlyTemp, Recovery, RollingBack
<1> QED
  BY <1>5, <1>7, <1>8, <1>9, <1>10 DEF IInv

LEMMA StutterIInv ==
  ASSUME IInv, UNCHANGED vars
  PROVE  IInv' /\ Recovered' = Recovered
<1>1. UNCHANGED <<disk, page, dirty, lsn, records, durable, held, pc, todo>>
  BY DEF vars, pool, log
<1>2. TypeOK' /\ OpenerFirst' /\ Locks!Exclusion' /\ DirtyLocked' /\ FlushedBefore' /\ DownIsClean'
  BY <1>1 DEF IInv, TypeOK, OpenerFirst, Locks!Exclusion, DirtyLocked, FlushedBefore, DownIsClean
<1>3. PendingSame /\ (Recovering' <=> Recovering)
  BY <1>1, SameLog DEF log, Recovering
<1>4. MarksInOrder' /\ PendingLocked'
  BY <1>1, <1>3 DEF IInv, MarksInOrder, PendingLocked, PendingSame
<1>5. durable <= durable'
  BY <1>1, LengthType DEF IInv
<1>6. /\ PagesClean' /\ LogCovers' /\ OldInFile' /\ SettledBefore' /\ MissingOnlyTemp'
      /\ Recovered' = Recovered
      /\ \A u \in Tx : todo'[u] = todo[u] /\ UndoesInOrder(u) => UndoesInOrder(u)'
  BY <1>1, <1>2, <1>3, <1>5, Quiet DEF pool
<1>7. UndoInOrder'
  BY <1>1, <1>6 DEF IInv, UndoInOrder
<1> QED
  BY <1>2, <1>4, <1>6, <1>7 DEF IInv

-----------------------------------------------------------------------------
\* The inductive invariant holds whatever the sizes and the bounds are.
THEOREM Invariance == Spec => []IInv
<1>1. IInv /\ [Next]_vars => IInv'
  <2> SUFFICES ASSUME IInv, [Next]_vars PROVE IInv'
    OBVIOUS
  <2>1. ASSUME NEW t \in Tx, NEW b \in Block, LockShared(t, b) \/ LockExclusive(t, b) PROVE IInv'
    BY <2>1, LockStep
  <2>2. ASSUME NEW t \in Tx, NEW b \in Block, NEW v \in Value, Set(t, b, v) PROVE IInv'
    BY <2>2, SetStep
  <2>3. ASSUME NEW b \in Block, Evict(b) PROVE IInv'
    BY <2>3, EvictStep
  <2>4. ASSUME SaveFullBlock PROVE IInv'
    BY <2>4, SaveFullBlockStep
  <2>5. ASSUME NEW t \in Tx, Commit(t) PROVE IInv'
    BY <2>5, CommitStep
  <2>6. ASSUME NEW t \in Tx, NEW b \in Block, FlushAll(t, b) PROVE IInv'
    BY <2>6, FlushAllStep
  <2>7. ASSUME NEW t \in Tx, Flushed(t) PROVE IInv'
    BY <2>7, FlushedStep
  <2>8. ASSUME NEW t \in Tx, AppendMark(t) PROVE IInv'
    BY <2>8, AppendMarkStep
  <2>9. ASSUME NEW t \in Tx, SaveMark(t) PROVE IInv'
    BY <2>9, SaveMarkStep
  <2>10. ASSUME NEW t \in Tx, NEW b \in Block, Release(t, b) PROVE IInv'
    BY <2>10, ReleaseStep
  <2>11. ASSUME NEW t \in Tx, Finish(t) PROVE IInv'
    BY <2>11, FinishStep
  <2>12. ASSUME NEW t \in Tx, Rollback(t) PROVE IInv'
    BY <2>12, RollbackStep
  <2>13. ASSUME NEW t \in Tx, Undo(t) PROVE IInv'
    BY <2>13, UndoStep
  <2>14. ASSUME NEW t \in Tx, UndoFails(t) PROVE IInv'
    BY <2>14, UndoFailsStep
  <2>15. ASSUME NEW t \in Tx, Undone(t) PROVE IInv'
    BY <2>15, UndoneStep
  <2>16. ASSUME Crash PROVE IInv'
    BY <2>16, CrashStep
  <2>17. ASSUME Restart PROVE IInv'
    BY <2>17, RestartStep
  <2>18. ASSUME UNCHANGED vars PROVE IInv'
    BY <2>18, StutterIInv
  <2> QED
    BY <2>1, <2>2, <2>3, <2>4, <2>5, <2>6, <2>7, <2>8, <2>9, <2>10, <2>11, <2>12, <2>13,
       <2>14, <2>15, <2>16, <2>17, <2>18 DEF Next
<1> QED
  BY <1>1, InitIInv, PTL DEF Spec

\* The types of the state: no record, lock or label is ever out of place.
THEOREM TypeCorrect == Spec => []TypeOK
BY Invariance, PTL DEF IInv

-----------------------------------------------------------------------------
(* Owners and locks.                                                       *)

LEMMA OwnerValue ==
  ASSUME IInv, NEW b \in Block
  PROVE  /\ Recovering \/ Unsettled(b) = {} => Owner[b] = None
         /\ ~Recovering => \A i \in Unsettled(b) :
              /\ Owner[b] = records[i].tx
              /\ Owner[b] \in Tx /\ held[Owner[b]][b] = "exclusive"
<1>1. Recovering \/ Unsettled(b) = {} => Owner[b] = None
  BY DEF Owner
<1>2. ASSUME ~Recovering, NEW i \in Unsettled(b)
      PROVE  /\ Owner[b] = records[i].tx
             /\ Owner[b] \in Tx /\ held[Owner[b]][b] = "exclusive"
  <2>1. Owner[b] = CHOOSE t \in Tx : \E j \in Unsettled(b) : records[j].tx = t
    BY <1>2 DEF Owner
  <2>2. \E t \in Tx : \E j \in Unsettled(b) : records[j].tx = t
    BY <1>2, OneOwner
  <2>3. PICK j \in Unsettled(b) : records[j].tx = Owner[b]
    BY <2>1, <2>2
  <2> QED
    BY <1>2, <2>3, OneOwner
<1> QED
  BY <1>1, <1>2

\* What OwnerValue says of the state after a step.
OwnerIsLast ==
  \A b \in Block : ~Recovering => \A i \in Unsettled(b) : Owner[b] = records[i].tx

LEMMA OwnerNext == IInv' => OwnerIsLast'
<1>1. IInv => OwnerIsLast
  BY OwnerValue DEF OwnerIsLast
<1> QED
  BY <1>1, PTL

LEMMA LocksOutlast == IInv => LocksOutlastChanges
<1> SUFFICES ASSUME IInv, NEW b \in Block
             PROVE  /\ dirty[b] # None => held[dirty[b]][b] = "exclusive"
                    /\ Owner[b] # None => held[Owner[b]][b] = "exclusive"
  BY DEF LocksOutlastChanges
<1>1. dirty[b] # None => held[dirty[b]][b] = "exclusive"
  BY DEF IInv, DirtyLocked
<1>2. Owner[b] # None => held[Owner[b]][b] = "exclusive"
  BY OwnerValue
<1> QED
  BY <1>1, <1>2

\* Two-phase locking as release does it: whoever changed a page that is not
\* on disk, or made a change that is not settled, has the exclusive lock.
THEOREM LocksCorrect == Spec => []LocksOutlastChanges
BY Invariance, LocksOutlast, PTL

-----------------------------------------------------------------------------
(* The write-ahead rule.                                                   *)

LEMMA FlushesAhead ==
  ASSUME IInv, NEW c \in Block, dirty[c] # None, \A t \in Tx : pc[t] \notin Saving,
         FlushPage(c), UNCHANGED <<held, pc, todo>>,
         NEW b \in Block, disk'[b] # disk[b], NEW i \in DOMAIN records,
         IsUpdate(i), records[i].block = b
  PROVE  i <= durable'
<1>1. b = c
  BY DEF FlushPage, IInv, TypeOK
<1> QED
  BY <1>1, FlushPageStep

\* Nothing gets to a file of which recovery would not know the old value:
\* the records of a block are on disk before its page.
THEOREM WriteAheadHolds == Spec => WriteAhead
<1> DEFINE Ahead == \A b \in Block : disk'[b] \notin {disk[b], Missing} =>
                      \A i \in DOMAIN records :
                        IsUpdate(i) /\ records[i].block = b => i <= durable'
<1>1. ASSUME IInv, [Next]_vars PROVE [Ahead]_vars
  <2> SUFFICES ASSUME Next PROVE Ahead
    BY <1>1
  <2> SUFFICES ASSUME NEW b \in Block, disk'[b] \notin {disk[b], Missing},
                      NEW i \in DOMAIN records, IsUpdate(i), records[i].block = b
               PROVE  i <= durable'
    OBVIOUS
  <2>1. ASSUME disk' = disk PROVE FALSE
    BY <2>1
  <2>2. CASE \E c \in Block : Evict(c)
    BY <1>1, <2>2, FlushesAhead DEF Evict
  <2>3. CASE \E t \in Tx, c \in Block : FlushAll(t, c)
    <3>1. PICK t \in Tx, c \in Block : FlushAll(t, c)
      BY <2>3
    <3>2. dirty[c] # None /\ \A u \in Tx : pc[u] \notin Saving
      BY <3>1, TransactionsAssumption DEF FlushAll, LogFree, Flushing, Saving
    <3> QED
      BY <1>1, <3>1, <3>2, FlushesAhead DEF FlushAll
  <2>4. CASE Restart
    BY <2>4 DEF Restart
  <2>5. ASSUME NEW t \in Tx, NEW c \in Block,
               \/ LockShared(t, c) \/ LockExclusive(t, c) \/ Commit(t) \/ Flushed(t)
               \/ AppendMark(t) \/ SaveMark(t) \/ Release(t, c) \/ Finish(t)
               \/ Rollback(t) \/ UndoFails(t) \/ Undone(t) \/ Undo(t)
               \/ \E v \in Value : Set(t, c, v)
        PROVE  disk' = disk
    BY <2>5 DEF LockShared, LockExclusive, Commit, Flushed, AppendMark, SaveMark,
                Release, Finish, Rollback, UndoFails, Undone, Undo, Set
  <2>6. SaveFullBlock \/ Crash => disk' = disk
    BY DEF SaveFullBlock, Crash
  <2> QED
    BY <1>1, <2>1, <2>2, <2>3, <2>4, <2>5, <2>6 DEF Next
<1>2. Spec => [][Ahead]_vars
  BY <1>1, Invariance, PTL DEF Spec
<1> QED
  BY <1>2 DEF WriteAhead

-----------------------------------------------------------------------------
(* Recovery and temporary files.                                           *)

\* Without temporary files recovery finds every block that the log names, so
\* deleting those files is the one thing that can stop a database from opening.
THEOREM OnlyTempFilesAreMissed ==
  ASSUME TempBlock = {}
  PROVE  Spec => []RecoveryFindsItsBlocks
<1>1. Init => RecoveryFindsItsBlocks
  BY DEF Init, RecoveryFindsItsBlocks
<1>2. ASSUME IInv, RecoveryFindsItsBlocks, [Next]_vars PROVE RecoveryFindsItsBlocks'
  <2>1. ASSUME NEW t \in Tx, Undo(t) PROVE pc' = pc
    <3>1. PICK i : i = Max(todo[t])
      OBVIOUS
    <3>2. records[i].block \in Block
      BY <1>2, <2>1, <3>1, UndoTarget DEF Undo
    <3>3. page[records[i].block] # Missing
      BY <1>2, <3>2 DEF IInv, MissingOnlyTemp
    <3> QED
      BY <2>1, <3>1, <3>3 DEF Undo
  <2>2. ASSUME NEW t \in Tx, NEW l, Goto(t, l), l # "panicked"
        PROVE  RecoveryFindsItsBlocks'
    BY <1>2, <2>2 DEF RecoveryFindsItsBlocks, Goto, IInv, TypeOK
  <2>3. ASSUME NEW t \in Tx, pc[t] \in Flushing \cup Marking \cup Saving \cup Undoing
        PROVE  After(pc[t]) # "panicked"
    BY <2>3 DEF After, Flushing, Marking, Saving, Undoing
  <2>4. ASSUME NEW t \in Tx, \/ Commit(t) \/ Finish(t) \/ Rollback(t) \/ UndoFails(t)
                            \/ Flushed(t) \/ AppendMark(t) \/ SaveMark(t) \/ Undone(t)
        PROVE  RecoveryFindsItsBlocks'
    BY <2>2, <2>3, <2>4
       DEF Commit, Finish, Rollback, UndoFails, Flushed, AppendMark, SaveMark, Undone
  <2>5. ASSUME NEW t \in Tx, NEW b \in Block,
               \/ LockShared(t, b) \/ LockExclusive(t, b) \/ Release(t, b)
               \/ FlushAll(t, b) \/ Evict(b) \/ \E v \in Value : Set(t, b, v)
        PROVE  pc' = pc
    BY <2>5 DEF LockShared, LockExclusive, Release, FlushAll, Evict, Set
  <2>6. SaveFullBlock \/ UNCHANGED vars => pc' = pc
    BY DEF SaveFullBlock, vars
  <2>7. CASE Crash
    BY <2>7 DEF Crash, RecoveryFindsItsBlocks
  <2>8. CASE Restart
    BY <2>2, <2>8, TransactionsAssumption DEF Restart
  <2>9. pc' = pc => RecoveryFindsItsBlocks'
    BY <1>2 DEF RecoveryFindsItsBlocks
  <2> QED
    BY <1>2, <2>1, <2>4, <2>5, <2>6, <2>7, <2>8, <2>9, TransactionsAssumption DEF Next
<1> QED
  BY <1>1, <1>2, Invariance, PTL DEF Spec

-----------------------------------------------------------------------------
(* Transactions implement an atomic store.                                 *)

abstract == <<Store, Work, Owners>>

LEMMA OwnerSameAt ==
  ASSUME IInv, IInv', Recovering' <=> Recovering, NEW b \in Block,
         Unsettled(b)' = Unsettled(b), \A i \in Unsettled(b) : records'[i] = records[i]
  PROVE  Owner'[b] = Owner[b]
<1>1. CASE Recovering \/ Unsettled(b) = {}
  <2>1. Owner[b] = None
    BY <1>1, OwnerValue
  <2>2. Owner'[b] = None
    BY <1>1 DEF Owner
  <2> QED
    BY <2>1, <2>2
<1>2. CASE ~(Recovering \/ Unsettled(b) = {})
  <2>1. PICK i \in Unsettled(b) : TRUE
    BY <1>2
  <2>2. Owner[b] = records[i].tx
    BY <1>2, OwnerValue
  <2>3. Owner'[b] = records'[i].tx
    BY <1>2, <2>1, OwnerNext DEF OwnerIsLast
  <2> QED
    BY <2>1, <2>2, <2>3
<1> QED
  BY <1>1, <1>2

LEMMA OwnersSame ==
  ASSUME IInv, IInv', PendingSame, Recovering' <=> Recovering
  PROVE  Owners' = Owners
<1>1. ASSUME NEW b \in Block PROVE Owner'[b] = Owner[b]
  <2>1. Unsettled(b)' = Unsettled(b) /\ \A i \in Unsettled(b) : records'[i] = records[i]
    BY DEF PendingSame, Unsettled
  <2> QED
    BY <2>1, OwnerSameAt
<1> QED
  BY <1>1 DEF Owners, Kept

\* A step that settles nothing, changes no page and leaves what recovery would
\* find has no effect on the store.
LEMMA NoEffect ==
  ASSUME IInv, IInv', PendingSame, Recovering' <=> Recovering, Recovered' = Recovered,
         page' = page
  PROVE  UNCHANGED abstract
<1>1. Store' = Store /\ Work' = Work
  BY DEF Store, Work, Kept
<1> QED
  BY <1>1, OwnersSame DEF abstract

\* Neither has a step of recovery.
LEMMA RecoveryHasNoEffect ==
  ASSUME IInv, IInv', Recovering, Recovering', \A b \in Kept : Recovered'[b] = Recovered[b]
  PROVE  UNCHANGED abstract
<1>1. Store' = Store /\ Work' = Work
  BY DEF Store, Work
<1>2. Owners' = Owners
  BY DEF Owners, Owner, Kept
<1> QED
  BY <1>1, <1>2 DEF abstract

\* A change is a write by the owner of its block.
LEMMA SetWrites ==
  ASSUME IInv, IInv', NEW t \in Tx, NEW b \in Block, NEW v \in Value, Set(t, b, v)
  PROVE  Promised!Next \/ UNCHANGED abstract
<1>1. TypeOK /\ Len(records) \in Nat /\ Opener \in Tx
  BY LengthType, TransactionsAssumption DEF IInv
<1>2. PICK n \in Nat : n = Len(records) + 1
  BY <1>1
<1>3. /\ \A i \in DOMAIN records : records'[i] = records[i]
      /\ records'[n] = Update(t, b, page[b])
      /\ \A c : Unsettled(c)' = IF c = b THEN Unsettled(b) \cup {n} ELSE Unsettled(c)
  BY <1>1, <1>2, SetGrowsPending
<1>4. ~Recovering /\ ~Recovering'
  BY <1>1 DEF Set, Active, Recovering
<1>5. held[t][b] = "exclusive" /\ \A c \in Block : page'[c] = IF c = b THEN v ELSE page[c]
  BY <1>1 DEF Set, TypeOK
<1>6. Recovered' = Recovered
  BY SetStep
<1>7. Owner[b] \in {None, t}
  BY <1>4, <1>5, OwnerValue DEF IInv, Locks!Exclusion
<1>8. \A c \in Block : Owner'[c] = IF c = b THEN t ELSE Owner[c]
  <2>1. Owner'[b] = t
    BY <1>3, <1>4, OwnerNext DEF OwnerIsLast, Update
  <2>2. ASSUME NEW c \in Block, c # b PROVE Owner'[c] = Owner[c]
    BY <1>3, <1>4, <2>2, OwnerSameAt DEF Unsettled
  <2> QED
    BY <2>1, <2>2
<1>9. Store' = Store
  BY <1>6 DEF Store
<1>10. CASE b \in Kept
  <2>1. Work' = [Work EXCEPT ![b] = v]
    BY <1>4, <1>5 DEF Work, Kept
  <2>2. Owners' = [Owners EXCEPT ![b] = t]
    BY <1>8 DEF Owners, Kept
  <2>3. Owners[b] \in {None, t}
    BY <1>7, <1>10 DEF Owners
  <2>4. Promised!Write(t, b, v)
    BY <1>9, <2>1, <2>2, <2>3 DEF Promised!Write
  <2> QED
    BY <1>10, <2>4 DEF Promised!Next
<1>11. CASE b \notin Kept
  BY <1>4, <1>5, <1>8, <1>9, <1>11 DEF abstract, Work, Owners, Kept
<1> QED
  BY <1>10, <1>11

\* So is the undo of one by a rollback, with the old value.
LEMMA UndoWrites ==
  ASSUME IInv, IInv', NEW t \in Tx, Undo(t)
  PROVE  Promised!Next \/ UNCHANGED abstract
<1>1. /\ pc[t] \in Undoing /\ todo[t] # {} /\ UNCHANGED log
  BY DEF Undo
<1>2. PICK i : i = Max(todo[t])
  OBVIOUS
<1>3. PICK b : b = records[i].block
  OBVIOUS
<1>4. /\ i \in Pending /\ b \in Block /\ records[i].old \in Value
      /\ i \in ToUndo(t) /\ Opener \in Tx
      /\ Recovering => t = Opener /\ pc[t] = "recover_undo"
  BY <1>1, <1>2, <1>3, UndoTarget, TransactionsAssumption
<1>5. PendingSame /\ Recovered' = Recovered
  BY <1>1, SameLog, UndoStep
<1>6. CASE Recovering
  <2>1. Recovering'
    BY <1>4, <1>6, TransactionsAssumption DEF Undo, Goto, Recovering, IInv, TypeOK
  <2> QED
    BY <1>5, <1>6, <2>1, RecoveryHasNoEffect
<1>7. CASE ~Recovering
  <2>1. page[b] # Missing
    BY <1>3, <1>4, <1>7 DEF IInv, MissingOnlyTemp
  <2>2. pc' = pc /\ page' = [page EXCEPT ![b] = records[i].old]
    BY <1>2, <1>3, <2>1 DEF Undo
  <2>3. ~Recovering'
    BY <1>7, <2>2 DEF Recovering
  <2>4. \A c \in Block : page'[c] = IF c = b THEN records[i].old ELSE page[c]
    BY <2>2 DEF IInv, TypeOK
  <2>5. Store' = Store /\ Owners' = Owners
    BY <1>5, <1>7, <2>3, OwnersSame DEF Store
  <2>6. Owner[b] = t
    <3>1. i \in Unsettled(b) /\ records[i].tx = t
      BY <1>3, <1>4, <1>7, UnsettledIsPending DEF ToUndo
    <3> QED
      BY <1>4, <1>7, <3>1, OwnerValue
  <2>7. CASE b \in Kept
    <3>1. Owners[b] = t /\ Owners' = [Owners EXCEPT ![b] = t]
      BY <2>5, <2>6, <2>7 DEF Owners
    <3>2. Work' = [Work EXCEPT ![b] = records[i].old]
      BY <1>7, <2>3, <2>4 DEF Work, Kept
    <3>3. Promised!Write(t, b, records[i].old)
      BY <2>5, <3>1, <3>2 DEF Promised!Write
    <3> QED
      BY <1>4, <2>7, <3>3 DEF Promised!Next
  <2>8. CASE b \notin Kept
    <3>1. Work' = Work
      BY <1>7, <2>3, <2>4, <2>8 DEF Work, Kept
    <3> QED
      BY <2>5, <3>1 DEF abstract
  <2> QED
    BY <2>7, <2>8
<1> QED
  BY <1>6, <1>7

\* A commit, a rollback and a recovery take effect when their marks are on disk.
LEMMA SaveMarkEnds ==
  ASSUME IInv, IInv', NEW t \in Tx, SaveMark(t)
  PROVE  Promised!Next \/ UNCHANGED abstract
<1>1. pc[t] \in Saving /\ page' = page /\ records' = records
  BY DEF SaveMark, Log!Save, pool
<1>2. /\ ~Recovering'
      /\ \A b \in Block :
           /\ (pc[t] = "recover_save" \/ \E i \in Unsettled(b) : records[i].tx = t)
                => Recovered'[b] = page[b]
           /\ (pc[t] # "commit_save" \/ \A i \in Unsettled(b) : records[i].tx # t)
                => Recovered'[b] = Recovered[b]
  BY SaveMarkStep
<1>3. \A b : Unsettled(b)' =
               {i \in Unsettled(b) : pc[t] # "recover_save" /\ records[i].tx # t}
  BY MarkSettles
<1>4. Recovering <=> pc[t] = "recover_save"
  <2>1. t = Opener \/ pc[Opener] = "done"
    BY <1>1, AfterOpener DEF Saving
  <2>2. pc[t] = "recover_save" => t = Opener
    BY DEF IInv, OpenerFirst, Recovery
  <2> QED
    BY <1>1, <2>1, <2>2 DEF Recovering, Saving
<1>5. CASE pc[t] = "recover_save"
  <2>1. Store' = Store
    BY <1>2, <1>5 DEF Store, Kept
  <2>2. Work' = Work
    BY <1>1, <1>2, <1>4, <1>5 DEF Work, Kept
  <2>3. Owners' = Owners
    BY <1>3, <1>4, <1>5 DEF Owners, Owner, Kept
  <2> QED
    BY <2>1, <2>2, <2>3 DEF abstract
<1>6. CASE pc[t] # "recover_save"
  <2>1. ~Recovering
    BY <1>4, <1>6
  <2>2. ASSUME NEW b \in Block
        PROVE  /\ Owner[b] = t <=> \E i \in Unsettled(b) : records[i].tx = t
               /\ Owner[b] = t => \A i \in Unsettled(b) : records[i].tx = t
    BY <2>1, OwnerValue, TransactionsAssumption
  <2>3. ASSUME NEW b \in Block
        PROVE  Owner'[b] = IF Owner[b] = t THEN None ELSE Owner[b]
    <3>1. CASE Owner[b] = t
      <4>1. Unsettled(b)' = {}
        BY <1>3, <2>2, <3>1
      <4> QED
        BY <3>1, <4>1 DEF Owner
    <3>2. CASE Owner[b] # t
      <4>1. Unsettled(b)' = Unsettled(b)
        BY <1>3, <1>6, <2>2, <3>2
      <4> QED
        BY <1>1, <1>2, <2>1, <3>2, <4>1, OwnerSameAt
    <3> QED
      BY <3>1, <3>2
  <2>4. Owners' = Promised!Disowned(t)
    BY <2>3 DEF Owners, Promised!Disowned, Kept
  <2>5. Work' = Work /\ Work = [b \in Kept |-> page[b]]
    BY <1>1, <1>2, <2>1 DEF Work
  <2>6. CASE pc[t] = "commit_save"
    <3>1. Store' = [b \in Kept |-> IF Owners[b] = t THEN Work[b] ELSE Store[b]]
      BY <1>2, <2>2, <2>5 DEF Store, Owners, Kept
    <3>2. Promised!Commit(t)
      BY <2>4, <2>5, <3>1 DEF Promised!Commit
    <3> QED
      BY <3>2 DEF Promised!Next
  <2>7. CASE pc[t] = "rollback_save"
    <3>1. Store' = Store
      BY <1>2, <2>7 DEF Store, Kept
    <3>2. \A b \in Kept : Owners[b] = t => Work[b] = Store[b]
      BY <1>2, <2>2, <2>5, <2>7 DEF Store, Owners, Kept
    <3>3. Work' = [b \in Kept |-> IF Owners[b] = t THEN Store[b] ELSE Work[b]]
      BY <2>5, <3>2
    <3>4. Promised!Abort(t)
      BY <2>4, <3>1, <3>3 DEF Promised!Abort
    <3> QED
      BY <3>4 DEF Promised!Next
  <2> QED
    BY <1>1, <1>6, <2>6, <2>7 DEF Saving
<1> QED
  BY <1>5, <1>6

LEMMA CrashForgets ==
  ASSUME IInv, IInv', Crash
  PROVE  Promised!Next \/ UNCHANGED abstract
<1>1. Recovering' /\ Recovered' = Recovered
  BY CrashStep
<1>2. CASE Recovering
  BY <1>1, <1>2, RecoveryHasNoEffect
<1>3. CASE ~Recovering
  <2>1. Store' = Store /\ Work' = Store
    BY <1>1 DEF Store, Work
  <2>2. Owners' = [b \in Kept |-> None]
    BY <1>1 DEF Owners, Owner, Kept
  <2>3. Promised!Crash
    BY <2>1, <2>2 DEF Promised!Crash
  <2> QED
    BY <2>3 DEF Promised!Next
<1> QED
  BY <1>2, <1>3

\* Locks, labels, the log and the flushing of pages are out of sight.
LEMMA LabelsHaveNoEffect ==
  ASSUME IInv, IInv', NEW t \in Tx,
         \/ Commit(t) \/ Flushed(t) \/ AppendMark(t) \/ Finish(t)
         \/ Rollback(t) \/ UndoFails(t) \/ Undone(t)
  PROVE  UNCHANGED abstract
<1>1. page' = page
  BY DEF Commit, Flushed, AppendMark, Finish, Rollback, UndoFails, Undone, pool
<1>2. Recovered' = Recovered
  BY CommitStep, FlushedStep, AppendMarkStep, FinishStep, RollbackStep, UndoFailsStep, UndoneStep
<1>3. PendingSame
  <2>1. CASE AppendMark(t)
    <3>1. PICK k \in {"commit", "rollback", "checkpoint"} :
            records' = Append(records, Mark(k, t)) /\ durable' = durable
      BY <2>1 DEF AppendMark, Log!AppendRecord, Marking
    <3> QED
      BY <3>1, QuietMark DEF IInv
  <2>2. CASE Rollback(t)
    <3>1. \A u \in Tx : pc[u] \notin Saving
      BY <2>2 DEF Rollback, Active, LogFree, Saving
    <3> QED
      BY <2>2, <3>1, QuietSave DEF IInv, Rollback, Log!Save
  <2>3. CASE ~AppendMark(t) /\ ~Rollback(t)
    BY <2>3, SameLog DEF Commit, Flushed, Finish, UndoFails, Undone
  <2> QED
    BY <2>1, <2>2, <2>3
<1>4. PICK l : /\ Goto(t, l) /\ l \notin {"down", "panicked"}
               /\ pc[t] \notin {"down", "panicked"}
               /\ l \in Recovery <=> pc[t] \in Recovery
  <2>1. CASE Commit(t) \/ Finish(t) \/ Rollback(t) \/ UndoFails(t)
    BY <2>1 DEF Commit, Active, Finish, Rollback, UndoFails, Recovery
  <2>2. CASE Flushed(t) \/ AppendMark(t) \/ Undone(t)
    <3>1. pc[t] \in Flushing \cup Marking \cup Undoing /\ Goto(t, After(pc[t]))
      BY <2>2 DEF Flushed, AppendMark, Undone
    <3> QED
      BY <3>1 DEF After, Flushing, Marking, Undoing, Recovery
  <2> QED
    BY <2>1, <2>2
<1>5. Recovering' <=> Recovering
  BY <1>4, GotoKeepsRecovering DEF IInv
<1> QED
  BY <1>1, <1>2, <1>3, <1>5, NoEffect

LEMMA OthersHaveNoEffect ==
  ASSUME IInv, IInv',
         \/ \E t \in Tx, b \in Block :
              LockShared(t, b) \/ LockExclusive(t, b) \/ Release(t, b) \/ FlushAll(t, b)
         \/ \E b \in Block : Evict(b)
         \/ SaveFullBlock \/ UNCHANGED vars
  PROVE  UNCHANGED abstract
<1> DEFINE Locking == \E t \in Tx, b \in Block :
                        LockShared(t, b) \/ LockExclusive(t, b) \/ Release(t, b)
           Writing == (\E t \in Tx, b \in Block : FlushAll(t, b)) \/ \E b \in Block : Evict(b)
<1>1. page' = page /\ (Recovering' <=> Recovering)
  BY DEF LockShared, LockExclusive, Release, FlushAll, Evict, FlushPage, SaveFullBlock,
         vars, pool, Recovering
<1>2. Recovered' = Recovered
  BY LockStep, ReleaseStep, FlushAllStep, EvictStep, SaveFullBlockStep, StutterIInv
<1>3. PendingSame
  <2>1. CASE Locking \/ UNCHANGED vars
    BY <2>1, SameLog DEF LockShared, LockExclusive, Release, vars
  <2>2. CASE Writing \/ SaveFullBlock
    <3>1. \A u \in Tx : pc[u] \notin Saving
      BY <2>2 DEF FlushAll, Evict, SaveFullBlock, LogFree, Flushing, Saving
    <3>2. records' = records /\ durable' \in {durable, Len(records)}
      BY <2>2 DEF FlushAll, Evict, SaveFullBlock, FlushPage, FlushLog, Log!Save, log
    <3> QED
      BY <3>1, <3>2, QuietSave DEF IInv
  <2> QED
    BY <2>1, <2>2
<1> QED
  BY <1>1, <1>2, <1>3, NoEffect

\* Transactions are atomic, isolated and durable in every behaviour: with locks,
\* buffers and the log out of sight, and crashes at any point, what a commit
\* changed appears all at once and nothing else ever does.
THEOREM Refinement == Spec => ImplementsAtomicStore
<1>1. Init => Promised!Init
  <2> SUFFICES ASSUME Init PROVE Promised!Init
    OBVIOUS
  <2>1. IInv
    BY InitIInv
  <2>2. PICK v \in Value : disk = [b \in Block |-> v] /\ page = disk
    BY DEF Init
  <2>3. ~Recovering /\ \A b \in Block : Unsettled(b) = {}
    BY TransactionsAssumption DEF Init, Log!Init, Recovering, Unsettled
  <2>4. Store = [b \in Kept |-> v] /\ Work = [b \in Kept |-> v]
    BY <2>2, <2>3 DEF Store, Work, Recovered, Kept
  <2>5. Owners = [b \in Kept |-> None]
    BY <2>3 DEF Owners, Owner, Kept
  <2> QED
    BY <2>4, <2>5 DEF Promised!Init
<1>2. ASSUME IInv, IInv', [Next]_vars
      PROVE  Promised!Next \/ UNCHANGED abstract
  <2>1. ASSUME NEW t \in Tx, NEW b \in Block,
               LockShared(t, b) \/ LockExclusive(t, b) \/ Release(t, b) \/ FlushAll(t, b)
        PROVE  UNCHANGED abstract
    BY <1>2, <2>1, OthersHaveNoEffect
  <2>2. ASSUME NEW b \in Block, Evict(b) PROVE UNCHANGED abstract
    BY <1>2, <2>2, OthersHaveNoEffect
  <2>3. ASSUME SaveFullBlock \/ UNCHANGED vars PROVE UNCHANGED abstract
    BY <1>2, <2>3, OthersHaveNoEffect
  <2>4. ASSUME NEW t \in Tx,
               \/ Commit(t) \/ Flushed(t) \/ AppendMark(t) \/ Finish(t)
               \/ Rollback(t) \/ UndoFails(t) \/ Undone(t)
        PROVE  UNCHANGED abstract
    BY <1>2, <2>4, LabelsHaveNoEffect
  <2>5. ASSUME NEW t \in Tx, NEW b \in Block, NEW v \in Value, Set(t, b, v)
        PROVE  Promised!Next \/ UNCHANGED abstract
    BY <1>2, <2>5, SetWrites
  <2>6. ASSUME NEW t \in Tx, Undo(t) PROVE Promised!Next \/ UNCHANGED abstract
    BY <1>2, <2>6, UndoWrites
  <2>7. ASSUME NEW t \in Tx, SaveMark(t) PROVE Promised!Next \/ UNCHANGED abstract
    BY <1>2, <2>7, SaveMarkEnds
  <2>8. ASSUME Crash PROVE Promised!Next \/ UNCHANGED abstract
    BY <1>2, <2>8, CrashForgets
  <2>9. ASSUME Restart PROVE UNCHANGED abstract
    BY <1>2, <2>9, RestartStep, RecoveryHasNoEffect DEF Kept
  <2> QED
    BY <1>2, <2>1, <2>2, <2>3, <2>4, <2>5, <2>6, <2>7, <2>8, <2>9 DEF Next
<1>3. [][Promised!Next]_abstract <=> [][Promised!Next]_(<<Store, Work, Owners>>)
  BY PTL DEF abstract
<1>4. Spec => [][Promised!Next]_abstract
  BY <1>2, Invariance, PTL DEF Spec
<1> QED
  BY <1>1, <1>3, <1>4, PTL DEF Spec, ImplementsAtomicStore, Promised!Spec, Promised!vars
=============================================================================
