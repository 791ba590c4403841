---------------------------- MODULE Transactions ----------------------------
(***************************************************************************)
(* The transactions of src/src/tx/transaction.rs, and the opening of a     *)
(* database in src/src/db.rs: how locks, buffers and the log are put       *)
(* together into commit, rollback and recovery, with a crash at any point. *)
(*                                                                         *)
(* The parts appear as the interfaces other modules show them to have: the *)
(* lock manager as BlockLocks (LockTable implements it), the log manager   *)
(* as DurableLog (LogManager implements it), the buffer pool as a page per *)
(* block that equals the file unless it is modified (BufferManager's       *)
(* NothingLost and OneCopy).  A block holds one value; the offset within   *)
(* it and the kind of SetI32 or SetString record are left out.             *)
(*                                                                         *)
(* Transaction ids come from a counter that starts again with the process, *)
(* so a crash makes every id free again.  The first one, Opener, belongs   *)
(* to SimpleDB::new, which commits before any other transaction begins.    *)
(***************************************************************************)
EXTENDS Naturals, Sequences, FiniteSets, FiniteSetsExt

CONSTANTS
  Tx,           \* the ids that one run of the process gives out
  Opener,       \* the id of the transaction of SimpleDB::new
  Block,        \* blocks of the files
  TempBlock,    \* those of files named temp_..., which FileManager::new deletes
  Value,        \* what a block may contain
  None,         \* no transaction, no block, no value
  Missing,      \* the contents of a block whose file was deleted
  MaxUpdates,   \* bound on the update records in the log, for TLC
  MaxRecords    \* bound on its records of all kinds, for TLC

ASSUME TransactionsAssumption ==
  /\ IsFiniteSet(Tx) /\ Opener \in Tx
  /\ TempBlock \subseteq Block
  /\ None \notin Tx \cup Block \cup Value
  /\ Missing \notin Value
  /\ MaxUpdates \in Nat /\ MaxRecords \in Nat

VARIABLES
  disk,       \* the blocks in their files
  page,       \* the contents of a block as the pool shows it
  dirty,      \* Buffer.modifying_transaction_id of the block's buffer, or None
  lsn,        \* Buffer.log_sequence_number, as a position in records; 0 unlogged
  records,    \* the log
  durable,    \* how much of it is on disk
  held,       \* the locks
  pc,         \* where each transaction is
  todo        \* the records a rollback or recovery has yet to undo

pool == <<page, dirty, lsn>>
log == <<records, durable>>
vars == <<disk, pool, log, held, pc, todo>>

LogRecord ==
  [kind : {"update"}, tx : Tx, block : Block, old : Value]
    \cup [kind : {"commit", "rollback", "checkpoint"}, tx : Tx]

Locks == INSTANCE BlockLocks
Log == INSTANCE DurableLog WITH Record <- LogRecord

Update(t, b, v) == [kind |-> "update", tx |-> t, block |-> b, old |-> v]
Mark(k, t) == [kind |-> k, tx |-> t]

Flushing == {"commit_flush", "rollback_flush", "recover_flush"}
Marking == {"commit_log", "rollback_log", "recover_log"}
Saving == {"commit_save", "rollback_save", "recover_save"}
Undoing == {"rollback_undo", "recover_undo"}
Pc == {"active", "release", "done", "down", "panicked"}
        \cup Flushing \cup Marking \cup Saving \cup Undoing

Init ==
  /\ \E v \in Value : disk = [b \in Block |-> v]
  /\ page = disk
  /\ dirty = [b \in Block |-> None]
  /\ lsn = [b \in Block |-> 0]
  /\ Log!Init
  /\ Locks!Init
  /\ pc = [t \in Tx |-> "active"]
  /\ todo = [t \in Tx |-> {}]

\* new_transaction comes after SimpleDB::new has returned.
Active(t) == pc[t] = "active" /\ (t = Opener \/ pc[Opener] = "done")

\* flush_all keeps the buffers to itself; commit, rollback and recover append
\* and flush their last record under one guard of the log.
BuffersFree(t) == \A u \in Tx \ {t} : pc[u] \notin Flushing
LogFree(t) == \A u \in Tx \ {t} : pc[u] \notin Saving

IsUpdate(i) == records[i].kind = "update"

\* The bounds on the log.
RoomForUpdate ==
  Len(records) < MaxRecords /\ Cardinality({i \in DOMAIN records : IsUpdate(i)}) < MaxUpdates
RoomForMark == Len(records) < MaxRecords

Goto(t, l) == pc' = [pc EXCEPT ![t] = l]

-----------------------------------------------------------------------------
(* Reading and writing.                                                    *)

\* The lock of get_i32 or get_string, and the first one of set_i32 and
\* set_string.
LockShared(t, b) ==
  /\ Active(t)
  /\ Locks!TakeShared(t, b)
  /\ UNCHANGED <<disk, pool, log, pc, todo>>

LockExclusive(t, b) ==
  /\ Active(t)
  /\ Locks!Upgrade(t, b)
  /\ UNCHANGED <<disk, pool, log, pc, todo>>

SetAhead(t, b, v) ==
  /\ Active(t) /\ BuffersFree(t) /\ LogFree(t)
  /\ held[t][b] = "exclusive"
  /\ page[b] # Missing
  /\ RoomForUpdate
  /\ Log!AppendRecord(Update(t, b, page[b]))
  /\ page' = [page EXCEPT ![b] = v]
  /\ dirty' = [dirty EXCEPT ![b] = t]
  /\ lsn' = [lsn EXCEPT ![b] = Len(records) + 2]
  /\ UNCHANGED <<disk, held, pc, todo>>

\* set_i32 and set_string with is_log_needed, once the lock is granted: a
\* record with the old value, then the page, then set_modified.
Set(t, b, v) ==
  /\ Active(t) /\ BuffersFree(t) /\ LogFree(t)
  /\ held[t][b] = "exclusive"
  /\ page[b] # Missing
  /\ RoomForUpdate
  /\ Log!AppendRecord(Update(t, b, page[b]))
  /\ page' = [page EXCEPT ![b] = v]
  /\ dirty' = [dirty EXCEPT ![b] = t]
  /\ lsn' = [lsn EXCEPT ![b] = Len(records) + 1]
  /\ UNCHANGED <<disk, held, pc, todo>>

FlushNoLog(n) == UNCHANGED log

\* LogManager::flush.
FlushLog(n) == IF n >= durable THEN Log!Save ELSE UNCHANGED log

\* Buffer::flush: the log as far as the last change, then the page.
FlushPage(b) ==
  /\ FlushLog(lsn[b])
  /\ disk' = [disk EXCEPT ![b] = page[b]]
  /\ dirty' = [dirty EXCEPT ![b] = None]
  /\ lsn' = [lsn EXCEPT ![b] = 0]
  /\ UNCHANGED page

\* The pool takes the buffer of a modified block for another block.
Evict(b) ==
  /\ \A t \in Tx : pc[t] \notin Flushing \cup Saving
  /\ dirty[b] # None
  /\ FlushPage(b)
  /\ UNCHANGED <<records, held, pc, todo>>

\* append_record saves a full block of the log before it starts another.
SaveFullBlock ==
  /\ \A t \in Tx : pc[t] \notin Saving
  /\ Log!Save
  /\ UNCHANGED <<disk, pool, held, pc, todo>>

-----------------------------------------------------------------------------
(* Commit.                                                                 *)

Commit(t) ==
  /\ Active(t) /\ BuffersFree(t)
  /\ Goto(t, "commit_flush")
  /\ UNCHANGED <<disk, pool, log, held, todo>>

\* BufferManager::flush_all writes the buffers that the transaction modified,
\* one at a time.
FlushAll(t, b) ==
  /\ pc[t] \in Flushing /\ LogFree(t)
  /\ dirty[b] = t
  /\ FlushPage(b)
  /\ UNCHANGED <<held, pc, todo>>

\* The label after each label, in commit, rollback and recover.  Once it has
\* recovered a database that exists, SimpleDB::new reads and commits.
After(l) ==
  CASE l = "commit_flush" -> "commit_log"
    [] l = "commit_log" -> "commit_save"
    [] l = "commit_save" -> "release"
    [] l = "rollback_undo" -> "rollback_flush"
    [] l = "rollback_flush" -> "rollback_log"
    [] l = "rollback_log" -> "rollback_save"
    [] l = "rollback_save" -> "release"
    [] l = "recover_undo" -> "recover_flush"
    [] l = "recover_flush" -> "recover_log"
    [] l = "recover_log" -> "recover_save"
    [] l = "recover_save" -> "commit_flush"

Flushed(t) ==
  /\ pc[t] \in Flushing
  /\ \A b \in Block : dirty[b] # t
  /\ Goto(t, After(pc[t]))
  /\ UNCHANGED <<disk, pool, log, held, todo>>

\* Commit, Rollback or Checkpoint goes to the log ...
AppendMark(t) ==
  /\ pc[t] \in Marking /\ LogFree(t)
  /\ RoomForMark
  /\ Log!AppendRecord(Mark(CASE pc[t] = "commit_log" -> "commit"
                             [] pc[t] = "rollback_log" -> "rollback"
                             [] pc[t] = "recover_log" -> "checkpoint", t))
  /\ Goto(t, After(pc[t]))
  /\ UNCHANGED <<disk, pool, held, todo>>

SaveMarkNot(t) ==
  /\ pc[t] \in Saving
  /\ Goto(t, After(pc[t]))
  /\ UNCHANGED <<disk, pool, log, held, todo>>

\* ... and is flushed.
SaveMark(t) ==
  /\ pc[t] \in Saving
  /\ Log!Save
  /\ Goto(t, After(pc[t]))
  /\ UNCHANGED <<disk, pool, held, todo>>

\* ConcurrencyManager::release gives the locks back one by one.
Release(t, b) ==
  /\ pc[t] = "release"
  /\ Locks!Drop(t, b)
  /\ UNCHANGED <<disk, pool, log, pc, todo>>

Finish(t) ==
  /\ pc[t] = "release"
  /\ \A b \in Block : held[t][b] = "none"
  /\ Goto(t, "done")
  /\ UNCHANGED <<disk, pool, log, held, todo>>

-----------------------------------------------------------------------------
(* Rollback.                                                               *)

\* A backward scan of the first n records stops at the last checkpoint.
Fenced(i, n) == \E j \in i+1..n : records[j].kind = "checkpoint"

\* Mutant: also those of a namesake before the last opening.
MyUpdatesOfEveryRun(t) == {i \in DOMAIN records : IsUpdate(i) /\ records[i].tx = t}

MyUpdates(t) ==
  {i \in DOMAIN records : IsUpdate(i) /\ records[i].tx = t /\ ~Fenced(i, Len(records))}

\* do_rollback: get_backward_iter flushes the log, and the records of the
\* transaction are collected as far back as the last checkpoint.
Rollback(t) ==
  /\ Active(t) /\ LogFree(t)
  /\ Log!Save
  /\ todo' = [todo EXCEPT ![t] = MyUpdates(t)]
  /\ Goto(t, "rollback_undo")
  /\ UNCHANGED <<disk, pool, held>>

\* undo_update, on the most recent record that is left: pin, set_i32 or
\* set_string with the old value and no record, unpin.  Pinning a block that
\* its file does not have panics in Page::read_from_file.
Undo(t) ==
  /\ pc[t] \in Undoing /\ BuffersFree(t)
  /\ todo[t] # {}
  /\ LET i == Max(todo[t])
         b == records[i].block
     IN IF page[b] = Missing
        THEN Goto(t, "panicked") /\ UNCHANGED <<pool, held, todo>>
        ELSE /\ page' = [page EXCEPT ![b] = records[i].old]
             /\ dirty' = [dirty EXCEPT ![b] = t]
             /\ lsn' = [lsn EXCEPT ![b] = 0]
             /\ held' = [held EXCEPT ![t][b] = "exclusive"]
             /\ todo' = [todo EXCEPT ![t] = @ \ {i}]
             /\ UNCHANGED pc
  /\ UNCHANGED <<disk, log>>

\* The pin of undo_update finds no buffer: rollback returns BufferAbortError
\* with some changes undone and every lock kept.
UndoFails(t) ==
  /\ pc[t] = "rollback_undo"
  /\ todo[t] # {}
  /\ todo' = [todo EXCEPT ![t] = {}]
  /\ Goto(t, "active")
  /\ UNCHANGED <<disk, pool, log, held>>

Undone(t) ==
  /\ pc[t] \in Undoing /\ BuffersFree(t)
  /\ todo[t] = {}
  /\ Goto(t, After(pc[t]))
  /\ UNCHANGED <<disk, pool, log, held, todo>>

-----------------------------------------------------------------------------
(* Crash and recovery.                                                     *)

Crash ==
  /\ pc[Opener] # "down"
  /\ Log!Crash
  /\ page' = disk
  /\ dirty' = [b \in Block |-> None]
  /\ lsn' = [b \in Block |-> 0]
  /\ held' = [t \in Tx |-> [b \in Block |-> "none"]]
  /\ pc' = [t \in Tx |-> IF t = Opener THEN "down" ELSE "active"]
  /\ todo' = [t \in Tx |-> {}]
  /\ UNCHANGED disk

\* finished_transactions, when the backward scan gets to record i.
Finished(i, n) ==
  \E j \in i+1..n :
    records[j].kind \in {"commit", "rollback"} /\ records[j].tx = records[i].tx

\* The updates that do_recover collects.
ToRecover ==
  {i \in DOMAIN records :
     /\ IsUpdate(i)
     /\ ~Fenced(i, Len(records))
     /\ ~Finished(i, Len(records))}

\* SimpleDB::new on a directory that exists: FileManager::new deletes the
\* temporary files, and the first transaction calls recover.
Restart ==
  /\ pc[Opener] = "down"
  /\ disk' = [b \in Block |-> IF b \in TempBlock THEN Missing ELSE disk[b]]
  /\ page' = disk'
  /\ todo' = [todo EXCEPT ![Opener] = ToRecover]
  /\ Goto(Opener, "recover_undo")
  /\ UNCHANGED <<dirty, lsn, log, held>>

-----------------------------------------------------------------------------
Next ==
  \/ \E t \in Tx, b \in Block : LockShared(t, b)
  \/ \E t \in Tx, b \in Block : LockExclusive(t, b)
  \/ \E t \in Tx, b \in Block, v \in Value : Set(t, b, v)
  \/ \E b \in Block : Evict(b)
  \/ SaveFullBlock
  \/ \E t \in Tx : Commit(t)
  \/ \E t \in Tx, b \in Block : FlushAll(t, b)
  \/ \E t \in Tx : Flushed(t)
  \/ \E t \in Tx : AppendMark(t)
  \/ \E t \in Tx : SaveMark(t)
  \/ \E t \in Tx, b \in Block : Release(t, b)
  \/ \E t \in Tx : Finish(t)
  \/ \E t \in Tx : Rollback(t)
  \/ \E t \in Tx : Undo(t)
  \/ \E t \in Tx : UndoFails(t)
  \/ \E t \in Tx : Undone(t)
  \/ Crash
  \/ Restart

Spec == Init /\ [][Next]_vars

-----------------------------------------------------------------------------
Recovering ==
  pc[Opener] \in {"down", "panicked", "recover_undo", "recover_flush",
                  "recover_log", "recover_save"}

TypeOK ==
  /\ disk \in [Block -> Value \cup {Missing}]
  /\ page \in [Block -> Value \cup {Missing}]
  /\ dirty \in [Block -> Tx \cup {None}]
  /\ lsn \in [Block -> 0..Len(records)]
  /\ records \in Seq(LogRecord)
  /\ durable \in 0..Len(records)
  /\ held \in Locks!Held
  /\ pc \in [Tx -> Pc]
  /\ todo \in [Tx -> SUBSET DOMAIN records]

\* What each block has to contain after a crash now and a recovery: the value
\* before the first change that nothing on disk has settled, neither a commit
\* nor a rollback nor a checkpoint, and what is in the file if there is none.
Settled(i) ==
  \E j \in i+1..durable :
    records[j].kind = "checkpoint" \/ (~IsUpdate(j) /\ records[j].tx = records[i].tx)

Unsettled(b) ==
  {i \in DOMAIN records : IsUpdate(i) /\ records[i].block = b /\ ~Settled(i)}

Recovered ==
  [b \in Block |->
     IF \A i \in Unsettled(b) : i > durable
     THEN disk[b]
     ELSE records[CHOOSE i \in Unsettled(b) : \A j \in Unsettled(b) : i <= j].old]

\* The transaction that made the unsettled changes of a block.
Owner ==
  [b \in Block |->
     IF Recovering \/ Unsettled(b) = {}
     THEN None
     ELSE CHOOSE t \in Tx : \E i \in Unsettled(b) : records[i].tx = t]

\* The store that a client sees, without the temporary files: those do not
\* outlast the process.
Kept == Block \ TempBlock
Store == [b \in Kept |-> Recovered[b]]
Work == [b \in Kept |-> IF Recovering THEN Recovered[b] ELSE page[b]]
Owners == [b \in Kept |-> Owner[b]]

\* Every transaction is atomic, isolated and durable: seen through what a
\* crash would leave, its changes take effect at the moment when its commit
\* record is on disk, all of them, and a rollback, a failed rollback or a
\* crash at any point, also within commit, rollback or recovery, undoes them.
Promised == INSTANCE AtomicStore
              WITH Block <- Kept, store <- Store, work <- Work, owner <- Owners

ImplementsAtomicStore == Promised!Spec

\* The write-ahead rule: a page gets to its file only after every record of
\* its block has got to the log file, so nothing is on disk that recovery
\* could not undo.  The undo of a rollback has no record and flushes none.
WriteAhead ==
  [][\A b \in Block : disk'[b] \notin {disk[b], Missing} =>
       \A i \in DOMAIN records :
         IsUpdate(i) /\ records[i].block = b => i <= durable']_vars

\* Locks outlast changes: whoever modified a page that is not on disk yet, or
\* made a change that is not settled, still has the exclusive lock.  No other
\* transaction reads it, and none writes over it.
LocksOutlastChanges ==
  \A b \in Block :
    /\ dirty[b] # None => held[dirty[b]][b] = "exclusive"
    /\ Owner[b] # None => held[Owner[b]][b] = "exclusive"

\* The unwrap of read_exact (src/src/page.rs:64) says that a block which is
\* read is there; recovery reads the blocks that the log names.
RecoveryFindsItsBlocks == \A t \in Tx : pc[t] # "panicked"
=============================================================================
