----------------------------- MODULE LogManager -----------------------------
(***************************************************************************)
(* The write-ahead log of src/src/log/manager.rs: LogManager, its log file *)
(* and its backward iterator.                                              *)
(*                                                                         *)
(* The manager is behind one Arc<Mutex<LogManager>>, so calls do not       *)
(* overlap; but a call that starts a new block writes to the file three    *)
(* times, and the process may die between any two of the writes, or any of *)
(* them may fail.  A write of one block is taken as atomic: when it fails, *)
(* nothing is written.  So a failing flush, and a failing first write of   *)
(* append_record, change nothing and are no action.  A record is a member  *)
(* of a set with a size; offsets count from 1 word, the boundary's.        *)
(***************************************************************************)
EXTENDS Naturals, Sequences, SequencesExt

CONSTANTS
  Record,      \* the contents of log records
  Size,        \* the words get_required_size finds for each
  BlockSize,   \* words in a block
  None,        \* no record
  MaxBlocks    \* bound on the log file, for TLC

BoundarySize == 1

ASSUME LogManagerAssumption ==
  /\ Size \in [Record -> Nat \ {0}]
  /\ BlockSize \in Nat /\ BlockSize > BoundarySize
  /\ MaxBlocks \in Nat \ {0}
  /\ None \notin Record

VARIABLES
  disk,            \* the blocks of the log file
  log_page,        \* LogManager.log_page
  current_block,   \* LogManager.current_block, counted from 1
  latest,          \* latest_log_sequence_number
  last_saved,      \* last_saved_log_sequence_number
  pc,              \* where the process is
  appending,       \* the record of the append_record call under way, or None
  opened           \* history: records in the file when new() opened it

memory == <<log_page, current_block, latest, last_saved, opened>>
vars == <<disk, memory, pc, appending>>

\* A block or page: its boundary word, and the records found when reading on
\* from the boundary, the most recent first.
Page == [boundary : 0..BlockSize, recs : Seq(Record)]
Zeros == [boundary |-> 0, recs |-> <<>>]
Empty == [boundary |-> BlockSize, recs |-> <<>>]

Pc == {"down", "create", "idle", "append_block", "write_new"}

fits_over_boundary(page, r) == page.boundary >= Size[r]

fits_strictly(page, r) == page.boundary > Size[r] + BoundarySize

fits(page, r) == page.boundary >= Size[r] + BoundarySize

place_last(page, r) ==
  [boundary |-> page.boundary - Size[r], recs |-> page.recs \o <<r>>]

place(page, r) ==
  [boundary |-> page.boundary - Size[r], recs |-> <<r>> \o page.recs]

\* All the records of some blocks, the most recent first: what the iterator
\* yields when it can read each of them (Readable, below).
Backward(blocks) ==
  LET from[n \in 0..Len(blocks)] ==
        IF n = 0 THEN <<>> ELSE blocks[n].recs \o from[n - 1]
  IN  from[Len(blocks)]

Init ==
  /\ disk = <<>>
  /\ log_page = Zeros
  /\ current_block = 0
  /\ latest = 0 /\ last_saved = 0
  /\ pc = "down"
  /\ appending = None
  /\ opened = 0

-----------------------------------------------------------------------------
(* LogManager::new.                                                        *)

\* The file has blocks: its last one becomes the page.
OpenExisting ==
  /\ pc = "down" /\ disk # <<>>
  /\ log_page' = Last(disk)
  /\ current_block' = Len(disk)
  /\ latest' = 0 /\ last_saved' = 0
  /\ opened' = Len(Backward(disk))
  /\ pc' = "idle"
  /\ UNCHANGED <<disk, appending>>

\* The file is new: append_block adds a block of zeros...
OpenNew ==
  /\ pc = "down" /\ disk = <<>>
  /\ disk' = <<Zeros>>
  /\ pc' = "create"
  /\ UNCHANGED <<memory, appending>>

\* ... and the next write gives it a boundary.  When it fails, new() does, and
\* leaves the block of zeros: the same as Crash here.
WriteFirst ==
  /\ pc = "create"
  /\ disk' = <<Empty>>
  /\ log_page' = Empty
  /\ current_block' = 1
  /\ latest' = 0 /\ last_saved' = 0
  /\ opened' = 0
  /\ pc' = "idle"
  /\ UNCHANGED appending

-----------------------------------------------------------------------------
(* append_record.                                                          *)

\* The record fits in the page.
AppendFitting(r) ==
  /\ pc = "idle"
  /\ fits(log_page, r)
  /\ log_page' = place(log_page, r)
  /\ latest' = latest + 1
  /\ UNCHANGED <<disk, current_block, last_saved, pc, appending, opened>>

AppendFullUnsaved(r) ==
  /\ pc = "idle"
  /\ ~fits(log_page, r)
  /\ Len(disk) < MaxBlocks
  /\ last_saved' = latest
  /\ appending' = r
  /\ pc' = "append_block"
  /\ UNCHANGED <<disk, log_page, current_block, latest, opened>>

\* It does not: save the page in its block.
AppendFull(r) ==
  /\ pc = "idle"
  /\ ~fits(log_page, r)
  /\ Len(disk) < MaxBlocks
  /\ disk' = [disk EXCEPT ![current_block] = log_page]
  /\ last_saved' = latest
  /\ appending' = r
  /\ pc' = "append_block"
  /\ UNCHANGED <<log_page, current_block, latest, opened>>

\* FileManager::append_block extends the file with zeros; only then is the
\* boundary of the page reset.
AppendBlock ==
  /\ pc = "append_block"
  /\ disk' = Append(disk, Zeros)
  /\ log_page' = Empty
  /\ pc' = "write_new"
  /\ UNCHANGED <<current_block, latest, last_saved, appending, opened>>

\* append_block fails: append_record returns the error.
AppendBlockFails ==
  /\ pc = "append_block"
  /\ pc' = "idle"
  /\ appending' = None
  /\ UNCHANGED <<disk, memory>>

WriteNewPastEnd ==
  /\ pc = "write_new"
  /\ disk' = [disk EXCEPT ![Len(disk)] = log_page]
  /\ current_block' = Len(disk) + 1
  /\ appending' = None
  /\ pc' = "idle"
  /\ UNCHANGED <<log_page, latest, last_saved, opened>>

\* The new block is written and becomes the current one.  The record goes in
\* it, unless it is larger than a block: then append_record fails.
WriteNew ==
  /\ pc = "write_new"
  /\ disk' = [disk EXCEPT ![Len(disk)] = log_page]
  /\ current_block' = Len(disk)
  /\ IF fits(log_page, appending)
     THEN log_page' = place(log_page, appending) /\ latest' = latest + 1
     ELSE UNCHANGED <<log_page, latest>>
  /\ appending' = None
  /\ pc' = "idle"
  /\ UNCHANGED <<last_saved, opened>>

\* The write fails: append_record returns the error, with the block of zeros
\* in the file, the page emptied, and the old block still the current one.
\* The next flush writes the emptied page over the records of that block.
WriteNewFails ==
  /\ pc = "write_new"
  /\ appending' = None
  /\ pc' = "idle"
  /\ UNCHANGED <<disk, memory>>

-----------------------------------------------------------------------------
\* flush, for a log sequence number n that append_record returned, or 0 of an
\* unlogged change; and do_flush.  A smaller n than last_saved does nothing.
Flush(n) ==
  /\ pc = "idle"
  /\ n >= last_saved
  /\ disk' = [disk EXCEPT ![current_block] = log_page]
  /\ last_saved' = latest
  /\ UNCHANGED <<log_page, current_block, latest, pc, appending, opened>>

\* get_backward_iter flushes, and then reads without writing.
GetBackwardIter ==
  /\ pc = "idle"
  /\ disk' = [disk EXCEPT ![current_block] = log_page]
  /\ last_saved' = latest
  /\ UNCHANGED <<log_page, current_block, latest, pc, appending, opened>>

\* The process dies; memory is lost.
Crash ==
  /\ pc # "down"
  /\ log_page' = Zeros
  /\ current_block' = 0
  /\ latest' = 0 /\ last_saved' = 0
  /\ opened' = 0
  /\ appending' = None
  /\ pc' = "down"
  /\ UNCHANGED disk

Next ==
  \/ OpenExisting
  \/ OpenNew
  \/ WriteFirst
  \/ \E r \in Record : AppendFitting(r)
  \/ \E r \in Record : AppendFull(r)
  \/ AppendBlock
  \/ AppendBlockFails
  \/ WriteNew
  \/ WriteNewFails
  \/ \E n \in 0..latest : Flush(n)
  \/ GetBackwardIter
  \/ Crash

Spec == Init /\ [][Next]_vars

-----------------------------------------------------------------------------
Running == pc \in {"idle", "append_block"}

\* The blocks as they would be if the page were written now.
Written == IF Running THEN [disk EXCEPT ![current_block] = log_page] ELSE disk

TypeOK ==
  /\ disk \in Seq(Page)
  /\ log_page \in Page
  /\ current_block \in 0..Len(disk)
  /\ latest \in Nat /\ last_saved \in 0..latest
  /\ pc \in Pc
  /\ appending \in Record \cup {None}
  /\ opened \in Nat

\* The sum of the sizes of records.
SizeOf(recs) ==
  LET last[n \in 0..Len(recs)] ==
        IF n = 0 THEN 0 ELSE Size[recs[Len(recs) - n + 1]] + last[n - 1]
  IN  last[Len(recs)]

\* The boundary of every page and block, one of zeros apart, is where its most
\* recent record begins: the records from there on fill the block to its end
\* and none lies over the boundary word.  append_record tests the room for a
\* record against two different pages, with a write that can fail in between.
BlockLayout(b) ==
  \/ b = Zeros
  \/ b.boundary >= BoundarySize /\ b.boundary + SizeOf(b.recs) = BlockSize

LayoutHolds ==
  /\ BlockLayout(log_page)
  /\ \A i \in DOMAIN disk : BlockLayout(disk[i])

\* BackwardLogIterator::next reads every block it enters from its boundary,
\* and recovery begins at the last of the file.  It panics on a block of zeros,
\* and on an empty one that is not the last; only a log with neither is read.
Settled == IF pc \in {"create", "write_new"} THEN Front(disk) ELSE Written

Readable ==
  \A i \in DOMAIN Settled :
    /\ Settled[i].boundary # 0
    /\ i < Len(Settled) => Settled[i].recs # <<>>

\* While the log is one that recovery can read, last_saved_log_sequence_number
\* never runs ahead of the file: the records up to it are on disk, so the
\* flush that skips the write for a smaller number breaks no promise, also
\* when append_record saved the page on its own.
SavedIsDurable ==
  Running /\ Readable =>
    /\ Len(Backward(disk)) >= opened + last_saved
    /\ Len(Backward(Written)) = opened + latest

\* What makes the log unreadable is that the second of the two writes that
\* add a block is never done, the process dying or the write failing before
\* it, or a second record too large for any block; no order of appends,
\* flushes, failed extensions and restarts does it otherwise.
DamageNeedsCause ==
  [][Readable /\ ~Readable' =>
       \/ pc \in {"create", "write_new"} /\ pc' # pc /\ UNCHANGED disk
       \/ appending # None /\ Size[appending] + BoundarySize > BlockSize]_vars

\* As long as recovery can read the log, the manager does what DurableLog
\* promises: records are only added at the end, a save covers every one of
\* them, and a crash at any point, also inside append_record, costs only
\* records that were not saved.  A log that it cannot read stays so, and
\* nothing is promised of it: append_record may even overwrite saved records.
Promised == INSTANCE DurableLog
              WITH records <- Reverse(Backward(Written)),
                   durable <- Len(Backward(disk))

ImplementsDurableLog ==
  /\ Promised!Init
  /\ [][Readable' => Readable /\ [Promised!Next]_(Promised!vars)]_vars
=============================================================================
