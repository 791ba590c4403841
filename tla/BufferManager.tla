--------------------------- MODULE BufferManager ---------------------------
(***************************************************************************)
(* The buffer pool of src/src/buffer.rs, and the calls that Transaction    *)
(* (src/src/tx/transaction.rs) makes of it with its own list of pins.      *)
(*                                                                         *)
(* The pool is one Arc<Mutex<BufferManager>>.  Transaction::pin keeps the  *)
(* guard of that mutex for the whole of BufferManager::pin, also while it  *)
(* waits on the pool's condition variable (which releases the inner mutex  *)
(* over the buffers alone).  A thread runs one transaction.                *)
(*                                                                         *)
(* The log that a buffer flushes first is in module Transactions.          *)
(***************************************************************************)
EXTENDS Naturals, FiniteSets, FiniteSetsExt

CONSTANTS
  Tx,        \* transactions, each on a thread of its own
  Block,     \* blocks of the files
  Value,     \* what a block may contain
  Buffer,    \* 1..num_buffers
  None,      \* no thread, no block, no buffer
  MaxPins    \* bound on the pins of one transaction, for TLC

ASSUME BufferManagerAssumption ==
  /\ Buffer \subseteq Nat /\ IsFiniteSet(Buffer) /\ IsFiniteSet(Tx)
  /\ None \notin Tx \cup Block \cup Buffer
  /\ Value # {}
  /\ MaxPins \in Nat

VARIABLES
  buffers,          \* BufferManager.buffers
  num_availables,   \* BufferManager.num_availables
  mutex,            \* the thread that holds Arc<Mutex<BufferManager>>, or None
  map,              \* Transaction.block_to_buffer_map
  pinned,           \* Transaction.pinned_blocks, as a count for each block
  disk,             \* the blocks in their files
  pc,               \* where each thread is
  block,            \* the block of the pin call a thread is in, or None
  latest            \* history: the value last written to each block

vars == <<buffers, num_availables, mutex, map, pinned, disk, pc, block, latest>>

BufferRecord ==
  [block : Block \cup {None}, pins : Nat, modifying : Tx \cup {None}, page : Value]

Init ==
  /\ disk \in [Block -> Value]
  /\ \E v \in Value :
       buffers = [i \in Buffer |-> [block |-> None, pins |-> 0, modifying |-> None, page |-> v]]
  /\ num_availables = Cardinality(Buffer)
  /\ mutex = None
  /\ map = [t \in Tx |-> [b \in Block |-> None]]
  /\ pinned = [t \in Tx |-> [b \in Block |-> 0]]
  /\ pc = [t \in Tx |-> "idle"]
  /\ block = [t \in Tx |-> None]
  /\ latest = disk

is_pinned_twice(i) == buffers[i].pins > 1

is_pinned(i) == buffers[i].pins > 0

SumOver(f, S) == MapThenSumSet(LAMBDA x : f[x], S)

ExistingPinned(b) == {i \in Buffer : buffers[i].block = b /\ is_pinned(i)}

\* find_existing_buffer and choose_unpinned_buffer take the first that fits.
Existing(b) == {i \in Buffer : buffers[i].block = b}
Unpinned == {i \in Buffer : ~is_pinned(i)}

\* Buffer::flush writes the page if a transaction has modified it.
flushed(i) ==
  IF buffers[i].modifying = None \/ buffers[i].block = None
  THEN disk
  ELSE [disk EXCEPT ![buffers[i].block] = buffers[i].page]

-----------------------------------------------------------------------------
\* Transaction::pin gets the outer mutex and calls BufferManager::pin.
CallPin(t, b) ==
  /\ pc[t] = "idle"
  /\ mutex = None
  /\ SumOver(pinned[t], Block) < MaxPins
  /\ mutex' = t
  /\ pc' = [pc EXCEPT ![t] = "pin"]
  /\ block' = [block EXCEPT ![t] = b]
  /\ UNCHANGED <<buffers, num_availables, map, pinned, disk, latest>>

PinnedCounting(t, i) ==
  /\ map' = [map EXCEPT ![t][block[t]] = i]
  /\ pinned' = [pinned EXCEPT ![t][block[t]] = @ + 1]
  /\ num_availables' = num_availables - 1
  /\ mutex' = None
  /\ pc' = [pc EXCEPT ![t] = "idle"]
  /\ block' = [block EXCEPT ![t] = None]
  /\ UNCHANGED latest

\* Transaction::pin once it has a buffer: it remembers where the block is.
Pinned(t, i) ==
  /\ map' = [map EXCEPT ![t][block[t]] = i]
  /\ pinned' = [pinned EXCEPT ![t][block[t]] = @ + 1]
  /\ num_availables' = IF is_pinned(i) THEN num_availables ELSE num_availables - 1
  /\ mutex' = None
  /\ pc' = [pc EXCEPT ![t] = "idle"]
  /\ block' = [block EXCEPT ![t] = None]
  /\ UNCHANGED latest

\* try_to_pin finds the block in the pool.
PinExisting(t) ==
  /\ pc[t] = "pin"
  /\ Existing(block[t]) # {}
  /\ LET i == Min(Existing(block[t])) IN
       /\ buffers' = [buffers EXCEPT ![i].pins = @ + 1]
       /\ Pinned(t, i)
  /\ UNCHANGED disk

assigned_unflushed(i, b) ==
  /\ buffers' = [buffers EXCEPT ![i] = [block |-> b, pins |-> 1, modifying |-> None,
                                        page |-> disk[b]]]
  /\ UNCHANGED disk

\* Buffer::assign_to_block writes the old page if need be, and reads the new.
assigned(i, b) ==
  /\ buffers' = [buffers EXCEPT ![i] = [block |-> b, pins |-> 1, modifying |-> None,
                                        page |-> disk[b]]]
  /\ disk' = flushed(i)

\* try_to_pin takes the first buffer that nobody has pinned.
PinUnpinned(t) ==
  /\ pc[t] = "pin"
  /\ Existing(block[t]) = {}
  /\ Unpinned # {}
  /\ LET i == Min(Unpinned) IN assigned(i, block[t]) /\ Pinned(t, i)

WaitReleasing(t) ==
  /\ pc[t] = "pin"
  /\ Existing(block[t]) = {} /\ Unpinned = {}
  /\ mutex' = None
  /\ pc' = [pc EXCEPT ![t] = "wait"]
  /\ UNCHANGED <<buffers, num_availables, map, pinned, disk, block, latest>>

\* try_to_pin finds none: wait, with the outer mutex held.
Wait(t) ==
  /\ pc[t] = "pin"
  /\ Existing(block[t]) = {} /\ Unpinned = {}
  /\ pc' = [pc EXCEPT ![t] = "wait"]
  /\ UNCHANGED <<buffers, num_availables, mutex, map, pinned, disk, block, latest>>

\* notify_all or a spurious wake-up before PIN_TIME_LIMIT: try again.
Wake(t) ==
  /\ pc[t] = "wait"
  /\ pc' = [pc EXCEPT ![t] = "pin"]
  /\ UNCHANGED <<buffers, num_availables, mutex, map, pinned, disk, block, latest>>

GiveUpLeaking(t) ==
  /\ pc[t] = "wait"
  /\ pc' = [pc EXCEPT ![t] = "idle"]
  /\ block' = [block EXCEPT ![t] = None]
  /\ UNCHANGED <<buffers, num_availables, mutex, map, pinned, disk, latest>>

\* The time limit has passed: BufferAbortError.
GiveUp(t) ==
  /\ pc[t] = "wait"
  /\ mutex' = None
  /\ pc' = [pc EXCEPT ![t] = "idle"]
  /\ block' = [block EXCEPT ![t] = None]
  /\ UNCHANGED <<buffers, num_availables, map, pinned, disk, latest>>

-----------------------------------------------------------------------------
UnpinCounting(t, b) ==
  /\ pc[t] = "idle"
  /\ mutex = None
  /\ pinned[t][b] > 0
  /\ buffers' = [buffers EXCEPT ![map[t][b]].pins = @ - 1]
  /\ num_availables' = num_availables + 1
  /\ pinned' = [pinned EXCEPT ![t][b] = @ - 1]
  /\ map' = IF pinned[t][b] = 1 THEN [map EXCEPT ![t][b] = None] ELSE map
  /\ UNCHANGED <<mutex, disk, pc, block, latest>>

UnpinForgetting(t, b) ==
  /\ pc[t] = "idle"
  /\ mutex = None
  /\ pinned[t][b] > 0
  /\ buffers' = [buffers EXCEPT ![map[t][b]].pins = 0]
  /\ num_availables' = num_availables + 1
  /\ pinned' = [pinned EXCEPT ![t][b] = @ - 1]
  /\ map' = IF pinned[t][b] = 1 THEN [map EXCEPT ![t][b] = None] ELSE map
  /\ UNCHANGED <<mutex, disk, pc, block, latest>>

\* Transaction::unpin, of a block that the transaction has pinned.
Unpin(t, b) ==
  /\ pc[t] = "idle"
  /\ mutex = None
  /\ pinned[t][b] > 0
  /\ LET i == map[t][b] IN
       /\ buffers' = [buffers EXCEPT ![i].pins = @ - 1]
       /\ num_availables' = IF buffers[i].pins = 1 THEN num_availables + 1
                                                   ELSE num_availables
  /\ pinned' = [pinned EXCEPT ![t][b] = @ - 1]
  /\ map' = IF pinned[t][b] = 1 THEN [map EXCEPT ![t][b] = None] ELSE map
  /\ UNCHANGED <<mutex, disk, pc, block, latest>>

\* The pins of a transaction on the block of a buffer.
PinsOn(t, i) == IF buffers[i].block = None THEN 0 ELSE pinned[t][buffers[i].block]

\* Transaction::unpin_all, at the end of commit and rollback: every pin of the
\* transaction is dropped, one after the other under one guard.
UnpinAll(t) ==
  /\ pc[t] = "idle"
  /\ mutex = None
  /\ \E b \in Block : pinned[t][b] > 0
  /\ LET mine == {i \in Buffer : PinsOn(t, i) > 0} IN
       /\ buffers' = [i \in Buffer |->
                        IF i \in mine
                        THEN [buffers[i] EXCEPT !.pins = @ - PinsOn(t, i)]
                        ELSE buffers[i]]
       /\ num_availables' = num_availables
            + Cardinality({i \in mine : buffers[i].pins = PinsOn(t, i)})
  /\ pinned' = [pinned EXCEPT ![t] = [b \in Block |-> 0]]
  /\ map' = [map EXCEPT ![t] = [b \in Block |-> None]]
  /\ UNCHANGED <<mutex, disk, pc, block, latest>>

\* Transaction::set_i32 or set_string: the page changes and set_modified marks
\* the buffer.  The exclusive lock keeps a second transaction out until the
\* first has flushed its change.
Write(t, b, v) ==
  /\ pc[t] = "idle"
  /\ mutex = None
  /\ pinned[t][b] > 0
  /\ buffers[map[t][b]].modifying \in {None, t}
  /\ buffers' = [buffers EXCEPT ![map[t][b]].modifying = t, ![map[t][b]].page = v]
  /\ latest' = [latest EXCEPT ![b] = v]
  /\ UNCHANGED <<num_availables, mutex, map, pinned, disk, pc, block>>

\* BufferManager::flush_all, called by commit, rollback and recover.
FlushAll(t) ==
  /\ pc[t] = "idle"
  /\ mutex = None
  /\ LET dirty == {i \in Buffer : buffers[i].modifying = t} IN
       /\ disk' = [b \in Block |->
                     IF \E i \in dirty : buffers[i].block = b
                     THEN buffers[CHOOSE i \in dirty : buffers[i].block = b].page
                     ELSE disk[b]]
       /\ buffers' = [i \in Buffer |->
                        IF i \in dirty THEN [buffers[i] EXCEPT !.modifying = None]
                                       ELSE buffers[i]]
  /\ UNCHANGED <<num_availables, mutex, map, pinned, pc, block, latest>>

-----------------------------------------------------------------------------
Call(t) ==
  \/ \E b \in Block : CallPin(t, b)
  \/ \E b \in Block : Unpin(t, b)
  \/ UnpinAll(t)
  \/ \E b \in Block, v \in Value : Write(t, b, v)
  \/ FlushAll(t)

\* What a thread inside pin does next.
Run(t) == PinExisting(t) \/ PinUnpinned(t) \/ Wait(t)

Next == \E t \in Tx : Call(t) \/ Run(t) \/ Wake(t) \/ GiveUp(t)

Spec == Init /\ [][Next]_vars

\* A runnable thread is scheduled.  Wake-ups need no fairness; a thread cannot
\* wake and wait for ever because the time limit ends the loop.
Fairness == \A t \in Tx : WF_vars(Run(t)) /\ SF_vars(GiveUp(t))

FairSpec == Spec /\ Fairness

-----------------------------------------------------------------------------
TypeOK ==
  /\ buffers \in [Buffer -> BufferRecord]
  /\ num_availables \in Nat
  /\ mutex \in Tx \cup {None}
  /\ map \in [Tx -> [Block -> Buffer \cup {None}]]
  /\ pinned \in [Tx -> [Block -> Nat]]
  /\ disk \in [Block -> Value]
  /\ pc \in [Tx -> {"idle", "pin", "wait"}]
  /\ block \in [Tx -> Block \cup {None}]
  /\ latest \in [Block -> Value]

\* num_availables, counted down and up in three places, is the number of
\* buffers that nobody has pinned.
AvailablesCounted == num_availables = Cardinality(Unpinned)

\* The sum of f, told by counting: n of t for each t and each n up to f[t].
PinSet(f) == UNION {{t} \X (1..f[t]) : t \in Tx}
Total(f) == Cardinality(PinSet(f))

\* The pins of a buffer are those of the transactions on its block, so no
\* unpin takes num_pins below zero and no buffer that somebody uses is given
\* to another block.
PinsCounted ==
  \A i \in Buffer : buffers[i].pins = Total([t \in Tx |-> PinsOn(t, i)])

\* The index a transaction keeps for a block it has pinned still names the
\* buffer of that block, although the pool may have moved every other block
\* in the meantime: get_i32, set_i32 and unpin use it without looking again.
IndexIsFresh ==
  \A t \in Tx, b \in Block :
    IF pinned[t][b] > 0
    THEN map[t][b] \in Buffer /\ buffers[map[t][b]].block = b
    ELSE map[t][b] = None

\* A block is in one buffer at most, so two transactions never see two copies.
OneCopy ==
  \A i, j \in Buffer :
    buffers[i].block = buffers[j].block => i = j \/ buffers[i].block = None

\* A reader of a block gets what was last written to it, from the pool or
\* from the file, however the block came and went: no eviction loses a change.
Contents(b) ==
  IF Existing(b) = {} THEN disk[b] ELSE buffers[Min(Existing(b))].page

NothingLost ==
  /\ \A b \in Block : Contents(b) = latest[b]
  /\ \A i \in Buffer :
       buffers[i].block # None /\ buffers[i].modifying = None
         => buffers[i].page = disk[buffers[i].block]

\* A transaction that waits for a buffer waits in vain: no other can unpin
\* while the waiter holds the outer mutex, so it always ends in
\* BufferAbortError after the whole of PIN_TIME_LIMIT.
WaitIsFutile ==
  \A t \in Tx : pc[t] = "wait" => Unpinned = {} /\ Existing(block[t]) = {}

\* When every thread wants a buffer and none is left, the pool does not hang:
\* whoever holds its mutex lets go of it.
MutexComesBack == \A t \in Tx : (mutex = t) ~> (mutex # t)
=============================================================================
