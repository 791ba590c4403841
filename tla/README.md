# simpledb-rs in TLA+

SimpleDB is a small relational database in Rust: blocks in files, a write-ahead
log, a buffer pool, two-phase locking, undo recovery, records, B-trees, a
planner with sorting and grouping, and a driver for use in the process or over
the network. This directory holds TLA+ modules that model it, TLC
configurations that check them on small instances, and proofs checked by TLAPS.

Paths below are relative to the repository's `src/` unless they say otherwise.

## The system

Everything of one opened database hangs on a `SimpleDB` (`db.rs`): a
`FileManager`, a `LogManager`, a `BufferManager` and a `LockTable`, each behind
an `Arc<Mutex<_>>`, shared by the threads that use its transactions. A
`Transaction` owns a `ConcurrencyManager` (its private list of locks), a map
from pinned blocks to buffer indices and the list of its pins. Everything above
(record pages, scans, indexes, planner, driver) reads and writes through a
transaction.

| Component | State it keeps | Operations | Hard behaviour | What makes it correct |
|---|---|---|---|---|
| Lock manager, `tx/concurrency.rs` | the table (block → shared count or exclusive), a private list per transaction | lock_shared, lock_exclusive (upgrade), release | two mutexes and a condition variable; a waiter keeps the outer mutex; time limit of 10 ms; release one lock at a time | many readers or one writer; table and lists agree; no `unreachable!`; every call ends |
| Log manager, `log/manager.rs` | the log file, one block in memory, the latest and the last saved LSN | append_record, flush, get_backward_iter | blocks filled from the right; a new block takes two writes; crash or error between them; LSNs restart | saved records survive, in order; nothing but an unsaved suffix is lost; blocks stay readable |
| Buffer pool, `buffer.rs` | buffers (block, page, pins, modifier, LSN), a count of available ones | pin, unpin, set_modified, flush_all | waiting for a buffer with the pool locked; eviction of a modified page; indices kept outside | one buffer per block; no change lost; counts agree with the pins of transactions; a kept index stays valid |
| Transactions, `tx/transaction.rs`; opening, `db.rs` | the above, and ids from a counter | set and get with locks and log records, commit, rollback, recover | order of page, record and lock; crash anywhere, also in recovery; ids come back; undo fails half-way | atomic, isolated, durable; write-ahead; locks outlast changes |
| Files and pages, `file.rs`, `page.rs` | open files, one lock per file | read, write, append_block, deletion of `temp_` files | short file, partial extension | a block that is read is there |
| Records, `record/`, `scan/table_scan.rs` | a page and a slot | insert, delete, set, next, previous | unlogged formatting beside logged flags; unformatted appended blocks; reused slots | a scan visits every record once, in both directions; inserts never overwrite |
| B-tree, `index/btree/` | directory and leaf blocks | insert, delete, lookup | splits, overflow chains, stale slots, minimum keys | the index is the multiset of what was inserted and not deleted |
| Scans, `scan/`, `index/scan/` | positions in their inputs | before_first, next, previous, after_last | empty inputs, changes of direction | the rows visited are those of the relation |
| Sorting, grouping, merge join, `materialization/` | runs in temporary tables, saved positions | open, next, save and restore position | ties, empty runs, nulls | a sorted permutation; each group once; each matching pair once |
| Multi-buffer product, `multibuffer/` | chunks of a file, pinned | as a scan | share of buffers computed from a count that changes | each pair once |
| Metadata, `metadata/` | catalog tables, cached statistics | create_table, create_index, get_layout, get_stat_info | statistics stale for 100 calls; crash in the first opening | what was created is found |
| Planner, `planner/`, `plan/` | none | execute_update with index maintenance, query plans | index and table change together | indexes agree with their table |
| Expressions, predicates, `parser/` | none | evaluation | nulls, 32 bits | three-valued comparison |
| Embedded driver, `driver/embedded.rs` | a current transaction per connection | execute_query, execute_update, close, commit, rollback | commits hidden in close and update; result sets outlive their transaction; failed updates | a statement sees and ends its own transaction |
| Network driver, `driver/network/`, `server.rs` | dictionaries of connections, statements, result sets | remote calls | ids reused; objects shared by clients | a call reaches the object it was given |

How they interact: `Transaction::set_i32` takes an exclusive lock, then the pool,
then the log, and all the rest nests in that order. `Buffer::flush` calls
`LogManager::flush` before `FileManager::write`; this is the write-ahead rule.
`SimpleDB::new` opens the log, runs recovery in the first transaction if the
directory existed, sets up the metadata and commits.

`PROJECT.json` lists every component with its status, every hazard with its
line and the properties for it, and maps every definition to its source lines.

## Modules

| Module | Models | State ↔ code |
|---|---|---|
| `BlockLocks` | what the lock manager promises | `held[t][b]`: none, shared or exclusive |
| `LockTable` | `tx/concurrency.rs` | `locks` ↔ `LockTable.locks`; `my_locks` ↔ each `ConcurrencyManager.my_locks`; `mutex` ↔ the `Arc<Mutex<LockTable>>`; `pc`, `block`, `writing` ↔ where a call of a thread is, for which block, and whether it is `lock_exclusive`; `unlocked` ↔ how far the loop of `release` is |
| `LockTableProofs` | theorems about `LockTable` | |
| `DurableLog` | what the log manager promises | a sequence of records and how many are on disk |
| `LogManager` | `log/manager.rs` | `disk` ↔ the file; `log_page`, `current_block`, `latest`, `last_saved` ↔ the fields; `pc` ↔ the writes between which a crash may come |
| `LogManagerProofs` | theorems about `LogManager` | |
| `BufferManager` | `buffer.rs` with `Transaction::pin`, `unpin`, `unpin_all` | `buffers`, `num_availables` ↔ the fields; `map`, `pinned` ↔ `block_to_buffer_map`, `pinned_blocks`; `mutex` ↔ the `Arc<Mutex<BufferManager>>` |
| `BufferManagerProofs` | theorems about `BufferManager` | |
| `AtomicStore` | what transactions promise | the committed contents, the working contents, who changed what |
| `Transactions` | `tx/transaction.rs`, `db.rs`, composing `BlockLocks` and `DurableLog` | `disk`, `page`, `dirty`, `lsn` ↔ files and buffers; `records`, `durable` ↔ the log; `held` ↔ locks; `pc` ↔ the step of commit, rollback or recover; `todo` ↔ the records collected for undo |
| `TransactionsProofs` | theorems about `Transactions` | |
| `RowStore` | what table scans promise | the committed rows, and each transaction's own rows |
| `TableScans` | `scan/table_scan.rs`, `record/record_page.rs`, over `BlockLocks` | `file` ↔ blocks of slots with their flags; `at`, `pc` ↔ where a scan is, and in which loop; `undo` ↔ the old values in the log |
| `TableScansProofs` | theorems about `TableScans` | |
| `BTree` | `index/btree/` | `root`, `leaf` ↔ the blocks of the directory and of the leaf file, with all their slots; `contents` ↔ the rows that the planner has told the index of |
| `BTreeProofs` | theorems about `BTree` | |
| `Scans` | the scans of `scan/`, `index/scan/`, `materialization/` and `multibuffer/`, and `parser/expression.rs`, `parser/predicate.rs` | no state: a scan is a record with its inputs and its position, and `next`, `previous`, `before_first`, `after_last` give the scan after the call and its answer |
| `Plans` | `plan/`, `index/plan/`, the query planners of `planner/` | no state: `open` gives the scan of a plan; `basic_plans` and `heuristic_plans` are all that a planner may make of a query |
| `Cursor` | what a result set promises | the rows and where the client is among them |
| `Queries` | a client with a query, composing `Plans` and `Scans` | `tables` ↔ the rows; `plan`, `scan` ↔ what `EmbeddedResultSet` has; `found` ↔ its last answer; the rest is history |
| `Updates` | `planner/index_update_planner.rs`, `metadata/`, `SimpleDB::new` | `directory` ↔ whether it exists; `db`, `stored` ↔ catalog, slots, index entries and which index files are formatted, as the transaction sees them and as committed; `blocks` ↔ the index files that have a block, which no rollback takes back; `process` ↔ whether the database is open; `created`, `updates` are history and bound |
| `UpdatesProofs` | theorems about `Updates` | |
| `Driver` | `driver/embedded.rs`, `driver/network/` | `dict`, `poisoned` ↔ the dictionaries and their mutexes; `connection` ↔ each `EmbeddedConnectionImpl`; `result_set` ↔ each `EmbeddedResultSet`; `call` ↔ the second section of a remote call; `handles` ↔ the ids that clients have |
| `DriverProofs` | theorems about `Driver` | |
| `MC...` | instances for TLC | constants and symmetry |

`Transactions` stands on the interfaces that the lower modules are shown to
have: `LockTable` implements `BlockLocks` (proved), `LogManager` implements
`DurableLog` (proved), and a block's page in `Transactions` is the one buffer
of `BufferManager`, justified by `OneCopy` and `NothingLost` (proved).
`Transactions` in its turn implements `AtomicStore` (proved), which is why `Updates`
and `Driver` may take a transaction as a whole; `Updates` takes an index as the set of
entries that `BTree` keeps, and `Scans` takes a table as the rows that a pass of
`TableScans` gives. `Queries` is shown to implement `Cursor`.

### Abstractions

- A thread's step between two points where others can see or stop it is one
  action: the mutexes held make it so. `Wait`, `Wake` and `GiveUp` split the waits
  on condition variables; a time limit may fire at any moment while waiting.
- A write of a block is atomic, and durable when it returns. The code calls no
  `fsync`; a crash is that of the process, not of the machine.
- In `LogManager` a record is its size. In `Transactions` a block holds one value,
  so the offset in it is left out; two offsets in a block would only split what is
  already done with one lock, one buffer and one LSN.
- `Transactions` lets the log save a full block whenever no transaction is between
  its last record and the flush of it (`SaveFullBlock`), since where blocks end is
  `LogManager`'s business.
- Unlogged writes happen in undo, which is modelled, and in the formatting of a
  record page, which writes zeros to a new block of zeros. The pages of an index are
  formatted with logged writes, and not with zeros only; see `Updates`.
- `Transactions` takes the log as one that recovery can read (`Readable` in
  `LogManager`). What makes it unreadable is said by `DamageNeedsCause`, and what then
  happens is listed below.
- In `TableScans` a call is a loop whose turns each need one lock, so a turn is a
  step, and an error of the lock ends the call where it is. A row has one field, of
  which null is a value. A transaction has one scan; buffers are those of
  `BufferManager`. `append_block` gives zeros, which read as empty slots, so that
  `format` changes nothing.
- In `BTree` a call is one step, since it locks the blocks it touches until its
  transaction ends. A page keeps the values of slots without a record, because the
  code compares them. A rid is the number of a row. A directory of several levels
  is not there to be modelled: its making always panics (finding 2). The
  code that reads other levels is unreachable and is left out. `BTree` begins where
  the transaction that first opened the index has committed, with both files
  formatted; a first opening that is undone is in `Updates`.
- In `Scans` a table is the sequence of its rows and a row a function of its
  fields; locks, buffers and their errors are left out. A panic gives the scan
  `Panicked`, which stays. An integer is small, up to `MaxI32`, and wraps as
  release builds do; strings, which are compared like integers, are left out. An
  `IS NULL` is an equation with the null constant, as the code has it.
- In `Plans` the numbers by which a planner chooses are left open: what it may
  choose is a set of plans, and the properties are about each.
- In `Queries` the tables do not change while a plan is open, since the client has
  their locks. `strayed` marks what no scan answers for: a plan with an empty left
  side, a `next` after a FALSE if there is a product or a chunk, a merge join rewound
  in the middle. `AnswersAreExact` excepts the first alone.
- In `Updates` a statement is a sequence of changes, of which any first part is made
  when it fails, and perhaps a part of the next (`partly`); the transactions come one
  after the other. The new value of an `UPDATE` is an expression of the row, that is,
  any function of a given set. The first statement that changes through an index opens
  it, which appends a block to its leaf file and to its directory file and formats
  these. A rollback or a crash takes the formatting back and leaves the blocks; a
  search in such a directory kills the process. `told` remembers which
  fields have been set since their index was created, because `CREATE INDEX` does not
  look at the rows there are; `torn` marks what a client sees that goes on after a
  failed statement without a rollback, or with a leaf that was not formatted. Statements
  name tables of the user only (`UpdatesAssumption`): that one could insert into `tblcat` itself is left out.
- In `Driver` the time for which one dictionary is locked is a step. A statement is
  its connection. An update writes two records. A dictionary that is poisoned fails
  every later call, which changes nothing. Each connection has a directory of its
  own, since nothing in the code makes two work together on one.

## Runs

| Run | Instance | Shows |
|---|---|---|
| `locks` | 3 transactions, 2 blocks | `TableMatchesHolders`, `NoPanic`, `WaitIsFutile`, refinement of `BlockLocks`, liveness `MutexComesBack` and `SomeCallEnds` |
| `log` | 3 blocks, records that fill a third, a half, all of a block, and more than one | appends, flushes, crashes between any two writes, an extension and a write of a new block that fail: `LayoutHolds`, `DamageNeedsCause`, and as long as the log can be read `SavedIsDurable` and the refinement of `DurableLog` |
| `buffers` | 2 transactions, 2 buffers, 3 blocks, 2 pins each | counts, indices, one copy, no change lost, liveness of the pool's mutex |
| `transactions` | the opener and 2 more, 2 blocks, 2 updates, 6 records | commits, rollbacks, crashes anywhere, in recovery too, ids used again: `LocksOutlastChanges`, `WriteAhead`, refinement of `AtomicStore` |
| `temp_files` | one block is temporary | a counterexample, below |
| `records` | 2 transactions, 2 blocks of 2 slots, 2 rows | `PassIsExact`: scans in either direction see each row once, without phantoms; refinement of `RowStore` |
| `btree` | 5 keys, 5 rows, leaves that split at 3 records, a root that is full at 4 entries | pages ordered and within their directory entry, each leaf owned once, chains of one key, exact lookups until a chain is beheaded or a blank slot misleads a call |
| `btree_root` | 4 keys, none the smallest, 6 rows | a counterexample, below |
| `queries` | 14 queries of one to three tables, up to 4 rows in all (3 where one table has two fields), so that in a join of three tables one may have two, 3 values of which one is null, blocks of one row, 2 or 4 buffers, an index on one field | `AnswersAreExact`: whatever the plan, its rows are those of the query, as often and in the order asked for; refinement of `Cursor` |
| `queries_empty` | one join, 2 rows | a counterexample, below |
| `updates` | a table of 2 fields, 4 indexes that may be created, 2 slots, 2 values, 5 expressions, 5 statements | `IndexesAgree` with their table through statements that fail between two changes or within one, rollbacks and crashes, also of the first opening of an index; `CatalogsAgree`, the crash in the first opening included |
| `driver` | 2 clients with a connection and a statement each, 3 result sets, an update, one panic, and no connection begins a transaction once one has begun its second (`MaxTx`) | `HandlesReachTheirObjects`, `UpdatesAreWholeOrAnnounced`, `LeftLocksAreLateReads` |

Why the bounds are enough. A lock conflict needs two transactions and an upgrade
conflict two readers; the third is the one who cannot get in. Two blocks give a
release that is half done. The four sizes in the log meet each branch of
`append_record`, and three blocks allow a backward scan over a full, a damaged and
a current block. Two buffers for three blocks force eviction and waiting. Two
updates by two transactions on two blocks meet all orders of write, eviction,
commit and rollback, and six records let a crash meet recovery and a later
transaction meet the records of its namesake. Two slots in two blocks put a row before,
at and behind a scan, within a block and over its end; two rows let one be deleted
and its slot reused while the other transaction reads. Five rows in the B-tree
make a leaf overflow twice, put a key before one that overflows, and fill the root; the
key that blank slots have is in the middle of the five, as 0 is among integers.
Four rows make two equal ones on either side of a join, and with blocks of one row
more chunks and more runs than one; the fourteen queries use each kind of plan and
each aggregate. Five statements create the table and two indexes and leave two to
fill and free a slot. Three result sets let an id be given out again while
another is in use, and one panic is what poisons a dictionary in the middle of a call.

The bounds are named: `MaxUpdates`, `MaxRecords`, `MaxBlocks`, `MaxPins`, `MaxRows`,
`MaxLeaves`, `MaxSlots`, `MaxConnections`, `MaxStatements`, `MaxResultSets`, `MaxTx`
and `MaxPoisoned`. `MaxI32` is not one but the width of an integer.

Symmetry (`MCTransactions`, `MCDriver`) permutes the transactions other than the
opener, or the clients, and is used only where no liveness property is checked.
Deadlock checking is on but where a bound stops the system.

### Fairness

`LockTable` and `BufferManager` have a `FairSpec`. Each transaction's steps within
a call are weakly fair: a thread that can run does. Giving up is fair because
the code's clock makes it so: `wait_timeout` returns after its limit and the call
ends in `LockGiveUpError`; in the pool the loop ends when `PIN_TIME_LIMIT` has
passed, however often the thread was woken before, hence strong fairness there.
No fairness is assumed for a client to make calls or to release.

## Findings

1. **A temporary table in the log makes a database that cannot be opened**
   (`temp_files`). Files `temp_*` are deleted before recovery, whose undo then
   reads a block that is gone: `file.read_exact(&mut self.byte_buffer).unwrap()`
   (`page.rs:64`) panics, at every opening.
2. **The directory cannot grow a second level** (`btree_root`). `make_new_root`
   empties the root and then looks for a place in it as if it had a first entry
   (`btree_directory.rs:73`): the assertion that `btree_page.rs:58` explains fails,
   or `Slot::index` panics (`record_page.rs:44`).
3. **A product with an empty left side has rows** (`queries_empty`). `before_first`
   drops the answer of the left scan (`product_scan.rs:23`) and `next` asks the right
   side alone. The basic planner puts the smallest table on the left, so that a join
   with an empty table answers that there is a row, and reading a field of it panics.
   The repository's README says "`SELECT`: Retrieve data from one or more tables."

### Also met, without a run

In the log, the pool and the records:

- A failed write of a new block of the log (`log/manager.rs:78`) leaves a block of zeros
  at the end of the file, the page emptied and the old block as the current one. The
  next flush writes the emptied page over the records of the old block, which are
  saved, though `log/manager.rs:15` has them in the last one.
- A crash between the two writes by which `append_record` adds a block leaves a block of
  zeros too, which `log/manager.rs:17` does not foresee. The backward iterator panics
  on it (`log/manager.rs:150`), and with it the recovery of every later opening. The
  same holds after the failed write, and after a record larger than a block once
  another block follows the empty one. `SavedIsDurable` and `ImplementsDurableLog`
  therefore promise only what holds while the log is `Readable`; `DamageNeedsCause` says
  that these three are the only ways in which it ceases to be.
- `reset_block` unpins the old block before it pins the new one
  (`record_page.rs:81`); when the pin fails, the drop of the page unpins once more
  and panics with the mutex of the pool in hand.
- A row in a reused slot keeps the old contents of the fields that are not set
  (`record_page.rs:193`). `IndexesAgree` shows that no index has an entry for these.

In the B-tree:

- `try_overflow` compares slot 0 with the searched key (`btree_leaf.rs:135`). When
  the record that the leaf kept is deleted, slot 0 has another key, and the chain
  is not found any more.
- `find_child_block_slot` compares the searched key with the slot after the one it has
  found (`btree_directory.rs:134`), also if that slot has no entry yet. `format` has
  written 0 there, for the key and for the block: an insertion of 0 into an index whose
  directory has negative keys only goes to leaf block 0 and out of the order, and is not
  found once the directory has a greater entry. `LookupsCorrect` proves that this and the
  deletion above (`misled`, `beheaded`) are the only ways to a wrong lookup.
- An insertion or lookup of the smallest key itself (the empty string, `i32::MIN`)
  panics: the directory's first entry has that key, and `find_slot_before` then
  returns `Slot::Start`. `SearchPanics` models it, and the properties are about the
  calls that return.

- The two files of an index are formatted when they have no block
  (`btree_index.rs:36`, `55`), with logged writes. When the transaction that first opens
  an index is rolled back or lost in a crash, the formatting is undone and the blocks
  stay, and nothing formats them again: every later search finds a directory without
  its first entry and panics with the mutex of the planner in hand. When the opening
  failed between the two files, the directory is formatted the next time and the leaf
  is not; its flag, 0 instead of -1, makes it overflow to itself.

In the scans and plans:

- An index join over an empty left side panics when it is made; a `next` after a FALSE
  from a product or a multi-buffer product begins the right side again.
- A merge join that is rewound keeps its join value (`merge_join_scan.rs:46`) and may
  give the first rows wrongly. No SQL statement makes one.
- Two aggregates over one field both read the value of the first, and aggregates
  without GROUP BY are left out of the plan.
- While a multi-buffer product changes chunks it has the old and the new one pinned.

In the planner and the catalog:

- `CREATE INDEX` does not enter the rows there are, and does not look whether the
  table, the field or the name exist: two indexes of one name share a file, and the
  second on a field replaces the first.
- A statement about a table that does not exist panics with the mutexes of the
  planner and of the catalog in hand.
- A crash in the first opening leaves a directory that later openings take for a
  database and panic about (`db.rs:52`). `CatalogsAgree` shows that no later crash
  does it.

In the drivers:

- The close of a result set commits, and with it unpins the other result sets of the
  connection, though `network/statement.rs:19` says "Each embedded statement can have
  multiple result sets." A late read of one of these may take a lock that nothing gives
  back. If it needs a page it panics then; behind its last row, `next` takes the lock of
  the file's end and answers that there is no row, so that nobody learns of it, and
  later appends to that file time out. `LeftLocksAreLateReads` shows that nothing else
  leaves a lock.
- An update that fails keeps its changes, and the next commit makes them permanent.
  `UpdatesAreWholeOrAnnounced` shows that over the network a poisoned dictionary stops
  all clients before they could go on.

## Proofs

`LockTableProofs` proves, for any set of transactions and any set of blocks (the
transactions finite, since the table counts them):

- `TypeCorrect`: `Spec => []TypeOK`
- `TableCorrect`: `Spec => []TableMatchesHolders`
- `NeverPanics`: `Spec => []NoPanic`
- `WaitsAreFutile`: `Spec => []WaitIsFutile`
- `Refinement`: `Spec => ImplementsBlockLocks`

All follow from `Invariance`, `Spec => []IInv`. None of the properties is
inductive alone. The count in the table equals the number of private entries only
if one counts, on the one hand, a lock that the table has granted and that
`my_locks.insert` has not entered yet (`granted_shared`, `granted_exclusive`), and
leaves out, on the other, what the loop of `release` has unlocked and not yet
forgotten: `Holds` is that lock. `IInv` says what the place in a call (`pc`, `block`)
implies for the private list (`CallConsistent`), so that `EnterShared` and
`EnterExclusive` change nothing that is held; and that no two calls are inside the table at once is what
keeps one grant from invalidating the guard of another (`MutexConsistent`). `NoPanic`
needs that an exclusive request comes from a transaction counted as a reader.
The counting itself rests on lemmas about the cardinality of the set of holders when
one member is added or removed.

The refinement maps a lock to `Holds`, which has it from the grant to the
unlock, and shows that each grant or unlock is one step of `BlockLocks` and every
other step a stutter.

`BufferManagerProofs` proves, for any finite set of buffers and of transactions and
any sets of blocks and values:

- `TypeCorrect`: `Spec => []TypeOK`
- `AvailablesCorrect`: `Spec => []AvailablesCounted`
- `PinsCorrect`: `Spec => []PinsCounted`
- `IndexCorrect`: `Spec => []IndexIsFresh`
- `OneCopyCorrect`: `Spec => []OneCopy`
- `NothingLostCorrect`: `Spec => []NothingLost`
- `WaitCorrect`: `Spec => []WaitIsFutile`

All follow from its `Invariance`. The properties need each other. That a kept index is
fresh when another transaction takes a buffer needs that the buffer, having no pins, has
a block in nobody's list (`UnpinnedIsFree`, from `PinsCounted`); that the pins are still
counted when a buffer changes its block needs that the new block was in nobody's list
either (from `IndexIsFresh`, since it was in no buffer); both need `OneCopy`. `CopiesHold`
says of each buffer, and of each block in no buffer, what `NothingLost` says of a read, and
`MutexConsistent` says that whoever is inside `pin` holds the mutex. The sum of the pins is
the number of pairs of a transaction and one of its pins (`Total`), so the lemmas about
sums (`TotalOfOneMore`, `TotalWithout`) are about cardinalities.

`LogManagerProofs` proves, for any set of records with any sizes, any size of blocks and
logs of any length:

- `TypeCorrect`: `Spec => []TypeOK`
- `LayoutCorrect`: `Spec => []LayoutHolds`
- `SavedCorrect`: `Spec => []SavedIsDurable`
- `DamageNeedsCauseHolds`: `Spec => DamageNeedsCause`
- `Refinement`: `Spec => ImplementsDurableLog`

All follow from its `Invariance`. `PageAtEnd` says that the page is that of the last block
of the file, with its new records in front of those the block has: so a write of it
loses nothing, and a crash takes a suffix. The exception is a write that failed, after
which the last block is one of zeros that no step fills, since a page of another block
is only ever written over that one; so the log stays unreadable, and what the code
then does to its records breaks no promise. `Growing` says what holds between the writes
that add a block: the old block is as the page was, the new one is zeros, and the record
of the call did not fit the old one, which is why the old block has records, unless the
record fits no block. `Backward`, `SizeOf` and `Reverse` are read once, in lemmas
(`BackwardAppend`, `SizeOfInFront`, `ReverseInFront`, `ReverseOfOlder`); a function
defined by recursion has a value because a solution exists and two solutions agree
(`RecursionExists`, `SameRecursion`; the other modules of proofs that count or recur
have the same lemmas). The lemmas `PlaceEffect`,
`SaveEffect`, `NewBlockEffect` and so on say of each action what it does to the records of
the log and to those on disk; the refinement and `SavedIsDurable` follow from them.

`TransactionsProofs` proves, for any finite set of transactions, any sets of blocks and
values, and logs of any length:

- `TypeCorrect`: `Spec => []TypeOK`
- `LocksCorrect`: `Spec => []LocksOutlastChanges`
- `WriteAheadHolds`: `Spec => WriteAhead`
- `Refinement`: `Spec => ImplementsAtomicStore`
- `OnlyTempFilesAreMissed`: `TempBlock = {}` implies `Spec => []RecoveryFindsItsBlocks`

All follow from its `Invariance`. The idea is `Recovered`, the contents of each block
that a crash now and a recovery would leave, and `Pending`, the updates that nothing on
disk has settled; every step but the saving of a commit record leaves `Recovered` as it
is. What `IInv` needs for that:

- A clean page is as its file, and a dirty one has a pending update (`PagesClean`).
  The old value of a block whose first pending record is not on disk is still in its
  file (`OldInFile`), so that losing the record in a crash loses nothing; and the log
  number of a page covers the records that are not on disk (`LogCovers`), hence
  write-ahead.
- Pending updates of a block belong to the one that has its exclusive lock
  (`PendingLocked`, with the exclusion of `BlockLocks`), and are settled together. When a
  mark is on disk the pages of its transaction are (`FlushedBefore`).
- The part of the log that is not on disk has no mark except that of the transaction
  that is about to flush (`MarksInOrder`), so a save settles nothing by accident.
- What a rollback collects are its own pending updates and none of a namesake from
  before the last opening (`SettledBefore`); undoing from the last to the first, a block
  has its old value back when none of its updates is left (`UndoesInOrder`). An undo
  gives the page the log number 0, and is safe because the records are on disk already.
- The opener recovers alone (`OpenerFirst`), on clean pages (`DownIsClean`).

The refinement maps the committed contents to `Recovered`, the working contents to the
pages (to `Recovered` while the database is down or recovers), and the owner of a block
to the transaction of its pending updates. A write, and the undo of one in a rollback, is a
`Write`; the save of a commit record is a `Commit`, that of a rollback record an
`Abort`, and all else a stutter, recovery as a whole included. Blocks of temporary files
are outside the store, since an opening deletes them; the transactions that write them
are not. `TempBlock = {}` is the hypothesis of the last theorem only: with temporary
files it is false, which is finding 1.

`TableScansProofs` proves, for any finite set of transactions, any numbers of blocks and
slots and any contents of fields:

- `TypeCorrect`: `Spec => []TypeOK`
- `PassCorrect`: `Spec => []PassIsExact`
- `RowsCorrect`: `Spec => []RowsInPlace`
- `Refinement`: `Spec => ImplementsRowStore`

All follow from its `Invariance`. `LocksHold` and `Covered` say why a pass is not
disturbed: every block that it has gone through is locked, so a row behind it can only be
the transaction's own; going backward, the end of the file is locked from the start,
and going forward from the moment the pass is complete, so no block is added where the
pass will not come. `WayLocked` and `OthersPass` turn that into the fact that a step
of another transaction changes nothing behind the pass; the other lemmas treat one action
each, and take from `MinProperty` and `MaxProperty` that a search skips no row. What
a rollback puts back is locked exclusively as long as it may be put back.

For the refinement, `Contents` is what each slot contains and `Originals` what it would
contain if all open transactions rolled back; the committed rows are those of
`Originals`, and the rows of a transaction those of the slots in its `undo`. `Undoing`
derives from the locks that no slot is in the undo of two transactions. The mapping looks
up the slot of a row, which makes sense only if there is one: `RowsInPlace` says that no
row is in two slots, neither now nor after rollbacks, although a slot is used again while
the deletion of its old row may still be rolled back. With it, `Mapping` says which rows
the mapping shows, and `WithRow`, `WithoutRow` and `CommittedView` what a write, a
deletion and a commit make of them. A write is an `Insert`, `Set` or `Delete` of
`RowStore`, the ends of a transaction are its `Commit` and `Rollback`, and all else,
appending a block included, is a stutter.

`DriverProofs` proves, for any set of clients and any numbers of connections, statements,
result sets, updates, transactions and panics:

- `HandlesCorrect`: `Spec => []HandlesReachTheirObjects`
- `UpdatesCorrect`: `Spec => []UpdatesAreWholeOrAnnounced`
- `LocksCorrect`: `Spec => []LeftLocksAreLateReads`

All follow from its `Invariance`. For the ids, each object has one owner (`Owner`), and
the ids of a client lead only to objects it owns (`HandleHolds`); a free id is in nobody's
use, since a removed one was its owner's, who has let it go before the second section
removes it (`CallHolds`). Metadata are kept under the id of their result set, and may be
overwritten only by metadata of the same result set, because the one who asks still has
it. For commits and locks, changes that no commit has followed exist only after a failed
update, which has poisoned the statements; and a pinned scan is of the current
transaction of its connection, so that a lock for a transaction that is over is
taken only through an unpinned scan, whether that read panics or not
(`ConnectionHolds`, `LateRead`, `DataHolds`).
`FreeId` is the lemma that the search for a free id finds one.

`BTreeProofs` proves, for any set of keys, any sizes of leaves and of the directory that
hold two records, and any numbers of rows and leaves:

- `TypeCorrect`: `Spec => []TypeOK`
- `LeavesCorrect`: `Spec => []EachLeafOnce`
- `OrderCorrect`: `Spec => []OrderHolds`
- `ChainsCorrect`: `Spec => []ChainsHoldOneKey`
- `LookupsCorrect`: `Spec => []ExactUntilBeheaded`

All follow from its `Invariance`. `OneOwner` is `EachLeafOnce` without cardinalities. The
rest of `IInv` is about the states that are `Sane`. `Ordered` has a witness, `head`, the
block with which the chain of each block begins: a block with a directory entry is its
own head, a flag leads to a block with the same head, all keys of a chain are within
the entry of its head, and a block that is overflowed to has a single key, the first of
its head, in slot 0 even if it has no record left, since `try_overflow` looks there. Such a
block overflows only to blocks before it in the file, so chains end. `Exact` says that the
leaves have the records of the indexed rows and no others, none twice. Each insertion
gets a lemma about the order it leaves (`OrderOfFitting`, `OrderOfOverflow`,
`OrderOfSplit`, `OrderOfBefore`) and a deletion one (`ChangeOfDeleted`, where not being
beheaded is used); `EntersAfter` and the lemmas on it say how a new entry divides the keys
of an old one, which needs that the insertion was not misled. These rest on what the
operations do to slots (`InsertedSlots`, `DeletedSlots`, `LeftSlots`, `RightSlots`), with
what they leave behind the last record. A lookup finds all records of its key because
no set with the head, and with the flags of its members, lacks a block of the chain
(`WholeChain`): the greatest block it lacked would be overflowed to by a greater one. Since
`Sane` is false after a panic, a beheading or a misled call, nothing is claimed of order
and lookups from then on; types hold always, owners until a panic.

`UpdatesProofs` proves, for any tables, indexes and values, and any number of slots and
of statements:

- `IndexesCorrect`: `Spec => []IndexesAgree`
- `CatalogsCorrect`: `Spec => []CatalogsAgree`

Both follow from its `Invariance`, which says of what is stored and of what is seen
that it is a database whose rows (`RowsGood`) and catalog (`CatalogAgrees`) are in
order, unless it is torn. `IndexesAgree` is not inductive for three reasons. An
index that is made begins right only if its file is empty, so no entry may be in a
file of which no index has the name (`NoStrayEntries`). A slot that is taken again must
have nothing told of it from its old row, so what is told is told of slots in use
(`TellsRows`), and the deletion has to take the entries away before that is forgotten.
And an index that is no longer in use, or whose file is another's too, may have
anything: `IndexesExact` is about the indexes that serve (`Serves`, the last for their
field, alone with their name), and a `CREATE INDEX` can only end that of an old index.

A statement is a sequence of changes, and in the middle of one the indexes do not agree.
So the proof does not go change by change: `DoneConcat` and `DoneFlatten` cut a
statement into the changes for one row or one field, and `FieldInserted`,
`FieldModified` and `RowDeleted` say that each of these leaves an order behind that it
found. `RowDeleted` needs that the indexes are gone through in an order that has all of
them (`OrderHasAll`). `ThroughSlots` is the loop over the slots: what is done for a slot
leaves the others as they were, so that the old values, which the model reads from
the database before the statement, are those that the code reads in its turn. That
`FieldModified` erases the old value is what the mutant of `modify` violates.

The opening of an index changes nothing that the properties are about
(`AppliedOpen`, `ModifyKeepsRows`), and a database that uses a leaf that was not formatted
is torn (`TornKeepsOrder`); a directory that was not formatted ends the process.

For the catalog, `CreateTableAgrees` says that a table whose layout was empty is added
with its fields, once each, and that the layout of no other table changes; and that the
first opening, once committed, leaves the catalog complete for good is carried by
`CatalogComplete` of what is stored and of what is seen. `Word` stands for the strings: the
names of the catalog's own tables are listed in it, since the provers do not know that
a string that is written out is in `STRING`.

Only model-checked: liveness, which the provers cannot treat; and `AnswersAreExact` with
the refinement of `Cursor`. `Scans`, `Plans` and `Queries` are about trees of scans and
declare recursive operators, and what such an operator computes for every input is an
induction over data: no theorem is stated about them.

## Not modelled

- `parser/grammar.rs` (20249 lines) and `proto/simpledb.rs` (2528 lines) are generated: a
  pure function from text to statements, and message types. With the tests, which are
  in the source files, they are the largest part of the repository.
- `client.rs` and `create_student_db.rs` are input, output and layout; `errors.rs`,
  `config.rs` and `lib.rs` have no behaviour.
- Cost estimates, `StatManager` and reduction factors only choose between plans, and
  `Plans` leaves that choice open. `best_root` is used by nothing.
- `BasicUpdatePlanner`, which `SimpleDB` does not use, does what `IndexUpdatePlanner` does
  without the indexes. `HeuristicQueryPlanner` and `MergeJoinPlan` are not used by
  `SimpleDB` either and are modelled.
- The client side of the network driver forwards a call and waits for its answer; the
  getters of metadata read a schema.
- Two connections to one directory: each opens a `SimpleDB` of its own, with its own
  locks and buffers, and recovers a database in use. No line promises that this works.
- The byte layout of pages and records, and the cache of open files.
