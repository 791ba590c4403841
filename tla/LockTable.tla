------------------------------ MODULE LockTable ------------------------------
(***************************************************************************)
(* The lock manager of src/src/tx/concurrency.rs.  One LockTable is shared *)
(* as Arc<Mutex<LockTable>>; each transaction has a ConcurrencyManager     *)
(* that calls it.  A thread runs one transaction.                          *)
(*                                                                         *)
(* A call of the table is a temporary of                                   *)
(*     self.lock_table.lock().unwrap().lock_shared(block)?                 *)
(* so the guard of the outer mutex lives until the call returns, also      *)
(* while the call waits on the table's condition variable (which releases  *)
(* the inner mutex alone).  "mutex" is that outer mutex; the inner one is  *)
(* reached through it and is never contended.                              *)
(***************************************************************************)
EXTENDS Naturals, FiniteSets

CONSTANTS
  Tx,       \* transactions, each on a thread of its own
  Block,    \* blocks they lock
  None      \* no thread, no block

ASSUME LockTableAssumption ==
  /\ IsFiniteSet(Tx)
  /\ None \notin Tx
  /\ None \notin Block

VARIABLES
  locks,      \* LockTable.locks: the entry of each block
  mutex,      \* the thread that holds Arc<Mutex<LockTable>>, or None
  my_locks,   \* ConcurrencyManager.my_locks of each transaction
  pc,         \* where each thread is
  block,      \* the block of the lock call a thread is in, or None
  writing,    \* whether that call is ConcurrencyManager::lock_exclusive
  unlocked    \* blocks that release() has unlocked and not yet forgotten

vars == <<locks, mutex, my_locks, pc, block, writing, unlocked>>

Mode == {"none", "shared", "exclusive"}

\* An entry of the HashMap: absent, Lock::Shared(num) or Lock::Exclusive.
Lock == [kind : Mode, num : Nat]
Vacant == [kind |-> "none", num |-> 0]
Exclusive == [kind |-> "exclusive", num |-> 0]
Shared(n) == [kind |-> "shared", num |-> n]

Waiting == {"wait_shared", "wait_exclusive"}
Locking == {"lock_shared", "lock_exclusive"}
Granted == {"granted_shared", "granted_exclusive"}
Pc == {"idle", "release", "panicked"} \cup Locking \cup Waiting \cup Granted

has_exclusive_lock(b) == locks[b].kind = "exclusive"

has_many_shared_locks(b) == locks[b].kind = "shared" /\ locks[b].num > 2

has_multiple_shared_locks(b) == locks[b].kind = "shared" /\ locks[b].num > 1

Init ==
  /\ locks = [b \in Block |-> Vacant]
  /\ mutex = None
  /\ my_locks = [t \in Tx |-> [b \in Block |-> "none"]]
  /\ pc = [t \in Tx |-> "idle"]
  /\ block = [t \in Tx |-> None]
  /\ writing = [t \in Tx |-> FALSE]
  /\ unlocked = [t \in Tx |-> {}]

\* A lock call returns: the thread is outside the manager again.
Return(t) ==
  /\ pc' = [pc EXCEPT ![t] = "idle"]
  /\ block' = [block EXCEPT ![t] = None]
  /\ writing' = [writing EXCEPT ![t] = FALSE]

-----------------------------------------------------------------------------
(* The calls a transaction makes of its ConcurrencyManager.                *)

\* lock_shared: a block in my_locks is answered at once and changes nothing;
\* any other goes to the table.
CallShared(t, b) ==
  /\ pc[t] = "idle"
  /\ my_locks[t][b] = "none"
  /\ pc' = [pc EXCEPT ![t] = "lock_shared"]
  /\ block' = [block EXCEPT ![t] = b]
  /\ writing' = [writing EXCEPT ![t] = FALSE]
  /\ UNCHANGED <<locks, mutex, my_locks, unlocked>>

CallExclusiveUnread(t, b) ==
  /\ pc[t] = "idle"
  /\ my_locks[t][b] # "exclusive"
  /\ pc' = [pc EXCEPT ![t] = "lock_exclusive"]
  /\ block' = [block EXCEPT ![t] = b]
  /\ writing' = [writing EXCEPT ![t] = TRUE]
  /\ UNCHANGED <<locks, mutex, my_locks, unlocked>>

\* lock_exclusive: its call of self.lock_shared goes to the table unless the
\* block is in my_locks already.
CallExclusive(t, b) ==
  /\ pc[t] = "idle"
  /\ my_locks[t][b] # "exclusive"
  /\ pc' = [pc EXCEPT ![t] = IF my_locks[t][b] = "none" THEN "lock_shared"
                                                        ELSE "lock_exclusive"]
  /\ block' = [block EXCEPT ![t] = b]
  /\ writing' = [writing EXCEPT ![t] = TRUE]
  /\ UNCHANGED <<locks, mutex, my_locks, unlocked>>

\* release, called by commit and rollback.
CallRelease(t) ==
  /\ pc[t] = "idle"
  /\ \E b \in Block : my_locks[t][b] # "none"
  /\ pc' = [pc EXCEPT ![t] = "release"]
  /\ UNCHANGED <<locks, mutex, my_locks, block, writing, unlocked>>

-----------------------------------------------------------------------------
(* The bodies of LockTable::lock_shared and lock_exclusive.  The loop test *)
(* runs when the thread gets the outer mutex and again after each wake-up, *)
(* with the mutex still held.                                              *)

Conflict(t) ==
  \/ pc[t] = "lock_shared" /\ has_exclusive_lock(block[t])
  \/ pc[t] = "lock_exclusive" /\ has_multiple_shared_locks(block[t])

WaitUnguarded(t) ==
  /\ pc[t] \in Locking
  /\ mutex \in {None, t}
  /\ Conflict(t)
  /\ mutex' = None
  /\ pc' = [pc EXCEPT ![t] = IF @ = "lock_shared" THEN "wait_shared"
                                                  ELSE "wait_exclusive"]
  /\ UNCHANGED <<locks, my_locks, block, writing, unlocked>>

\* The loop finds a conflict: wait on the condition variable, outer mutex held.
Wait(t) ==
  /\ pc[t] \in Locking
  /\ mutex \in {None, t}
  /\ Conflict(t)
  /\ mutex' = t
  /\ pc' = [pc EXCEPT ![t] = IF @ = "lock_shared" THEN "wait_shared"
                                                  ELSE "wait_exclusive"]
  /\ UNCHANGED <<locks, my_locks, block, writing, unlocked>>

\* notify_all or a spurious wake-up: the loop test runs again.
Wake(t) ==
  /\ pc[t] \in Waiting
  /\ pc' = [pc EXCEPT ![t] = IF @ = "wait_shared" THEN "lock_shared"
                                                  ELSE "lock_exclusive"]
  /\ UNCHANGED <<locks, mutex, my_locks, block, writing, unlocked>>

GiveUpKeepingMutex(t) ==
  /\ mutex = t
  /\ pc[t] \in Waiting \cup Locking
  /\ Return(t)
  /\ UNCHANGED <<locks, mutex, my_locks, unlocked>>

\* LockGiveUpError: the wait timed out, or the loop found lock_maxtime elapsed.
\* lock_exclusive keeps the shared lock it took on the way.
GiveUp(t) ==
  /\ mutex = t
  /\ pc[t] \in Waiting \cup Locking
  /\ mutex' = None
  /\ Return(t)
  /\ UNCHANGED <<locks, my_locks, unlocked>>

\* The rest of LockTable::lock_shared.  The outer mutex is given up before the
\* caller goes on.
GrantShared(t) ==
  /\ pc[t] = "lock_shared"
  /\ mutex \in {None, t}
  /\ ~Conflict(t)
  /\ locks' = [locks EXCEPT ![block[t]] = Shared(@.num + 1)]
  /\ mutex' = None
  /\ pc' = [pc EXCEPT ![t] = "granted_shared"]
  /\ UNCHANGED <<my_locks, block, writing, unlocked>>

\* my_locks.insert in ConcurrencyManager::lock_shared, which then returns, to
\* lock_exclusive if that has called it.
EnterShared(t) ==
  /\ pc[t] = "granted_shared"
  /\ my_locks' = [my_locks EXCEPT ![t][block[t]] = "shared"]
  /\ IF writing[t]
     THEN /\ pc' = [pc EXCEPT ![t] = "lock_exclusive"]
          /\ UNCHANGED <<block, writing>>
     ELSE Return(t)
  /\ UNCHANGED <<locks, mutex, unlocked>>

\* The rest of LockTable::lock_exclusive.  Its match has no arm for an entry
\* that is exclusive: unreachable!().
GrantExclusive(t) ==
  /\ pc[t] = "lock_exclusive"
  /\ mutex \in {None, t}
  /\ ~Conflict(t)
  /\ IF has_exclusive_lock(block[t])
     THEN /\ pc' = [pc EXCEPT ![t] = "panicked"]
          /\ mutex' = t
          /\ UNCHANGED locks
     ELSE /\ locks' = [locks EXCEPT ![block[t]] = Exclusive]
          /\ mutex' = None
          /\ pc' = [pc EXCEPT ![t] = "granted_exclusive"]
  /\ UNCHANGED <<my_locks, block, writing, unlocked>>

\* my_locks.insert in ConcurrencyManager::lock_exclusive.
EnterExclusive(t) ==
  /\ pc[t] = "granted_exclusive"
  /\ my_locks' = [my_locks EXCEPT ![t][block[t]] = "exclusive"]
  /\ Return(t)
  /\ UNCHANGED <<locks, mutex, unlocked>>

UnlockCounting(t, b) ==
  /\ pc[t] = "release"
  /\ mutex = None
  /\ my_locks[t][b] # "none" /\ b \notin unlocked[t]
  /\ locks' = [locks EXCEPT ![b] = IF @.num = 1 THEN Vacant ELSE Shared(@.num - 1)]
  /\ unlocked' = [unlocked EXCEPT ![t] = @ \cup {b}]
  /\ UNCHANGED <<mutex, my_locks, pc, block, writing>>

UnlockWhole(t, b) ==
  /\ pc[t] = "release"
  /\ mutex = None
  /\ my_locks[t][b] # "none" /\ b \notin unlocked[t]
  /\ locks' = [locks EXCEPT ![b] = Vacant]
  /\ unlocked' = [unlocked EXCEPT ![t] = @ \cup {b}]
  /\ UNCHANGED <<mutex, my_locks, pc, block, writing>>

\* One turn of release's loop over my_locks.keys(): LockTable::unlock, under
\* the outer mutex.  The keys come in no particular order.
Unlock(t, b) ==
  /\ pc[t] = "release"
  /\ mutex = None
  /\ my_locks[t][b] # "none" /\ b \notin unlocked[t]
  /\ locks' = [locks EXCEPT ![b] = IF @.kind = "shared" /\ @.num # 1
                                   THEN Shared(@.num - 1)
                                   ELSE Vacant]
  /\ unlocked' = [unlocked EXCEPT ![t] = @ \cup {b}]
  /\ UNCHANGED <<mutex, my_locks, pc, block, writing>>

\* my_locks.clear(), once every key has been unlocked.
Clear(t) ==
  /\ pc[t] = "release"
  /\ \A b \in Block : my_locks[t][b] # "none" => b \in unlocked[t]
  /\ my_locks' = [my_locks EXCEPT ![t] = [b \in Block |-> "none"]]
  /\ unlocked' = [unlocked EXCEPT ![t] = {}]
  /\ pc' = [pc EXCEPT ![t] = "idle"]
  /\ UNCHANGED <<locks, mutex, block, writing>>

-----------------------------------------------------------------------------
Call(t) ==
  \/ \E b \in Block : CallShared(t, b)
  \/ \E b \in Block : CallExclusive(t, b)
  \/ CallRelease(t)

\* What a thread inside a call does next.
Run(t) ==
  \/ Wait(t)
  \/ GrantShared(t) \/ EnterShared(t)
  \/ GrantExclusive(t) \/ EnterExclusive(t)
  \/ \E b \in Block : Unlock(t, b)
  \/ Clear(t)

Next == \E t \in Tx : Call(t) \/ Run(t) \/ Wake(t) \/ GiveUp(t)

Spec == Init /\ [][Next]_vars

\* A runnable thread is scheduled, and wait_timeout returns.
Fairness == \A t \in Tx : WF_vars(Run(t)) /\ WF_vars(GiveUp(t))

FairSpec == Spec /\ Fairness

-----------------------------------------------------------------------------
\* The lock a transaction has: one that the table has granted and my_locks does
\* not tell of yet, or what my_locks says, less what the loop of release has
\* unlocked already.
Holds(t, b) ==
  CASE pc[t] = "granted_shared" /\ b = block[t] -> "shared"
    [] pc[t] = "granted_exclusive" /\ b = block[t] -> "exclusive"
    [] OTHER -> IF b \in unlocked[t] THEN "none" ELSE my_locks[t][b]

Holders(b) == {t \in Tx : Holds(t, b) # "none"}

TypeOK ==
  /\ locks \in [Block -> Lock]
  /\ mutex \in Tx \cup {None}
  /\ my_locks \in [Tx -> [Block -> Mode]]
  /\ pc \in [Tx -> Pc]
  /\ block \in [Tx -> Block \cup {None}]
  /\ writing \in [Tx -> BOOLEAN]
  /\ unlocked \in [Tx -> SUBSET Block]

\* The shared table and the private my_locks of all the transactions describe
\* the same locks, at every point of every call: Lock::Shared(n) counts its
\* holders, Lock::Exclusive has one, no entry has none.  Each side is updated
\* by different code (insert and unlock in the table, insert and clear in the
\* managers) with the mutexes free in between, and a lost count would let a
\* writer in among readers, or lock a block for ever.
EntryMatches(b) ==
  \/ /\ locks[b] = Vacant
     /\ Holders(b) = {}
  \/ /\ locks[b] = Exclusive
     /\ \E t \in Tx : Holders(b) = {t} /\ Holds(t, b) = "exclusive"
  \/ /\ locks[b].kind = "shared"
     /\ locks[b].num > 0
     /\ locks[b].num = Cardinality(Holders(b))
     /\ \A t \in Holders(b) : Holds(t, b) = "shared"

TableMatchesHolders == \A b \in Block : EntryMatches(b)

\* unreachable!() in lock_exclusive is never run: "when there is only one
\* shared lock, the shared lock belongs to that transaction" (the comment on
\* LockTable), because a thread gets there with its own shared lock only.
NoPanic == \A t \in Tx : pc[t] # "panicked"

\* A transaction that has to wait waits in vain: nobody can unlock while the
\* waiter holds the outer mutex, so what it waits for never goes away and every
\* wait of lock_shared and lock_exclusive ends in LockGiveUpError, whatever
\* notify_all was meant for.
WaitIsFutile ==
  \A t \in Tx :
    /\ pc[t] = "wait_shared" => has_exclusive_lock(block[t])
    /\ pc[t] = "wait_exclusive" => has_multiple_shared_locks(block[t])

\* The detailed lock manager does what BlockLocks promises: a step of the
\* table is a grant, an upgrade or a drop that BlockLocks allows, or changes
\* no lock.
Promised == INSTANCE BlockLocks
              WITH held <- [t \in Tx |-> [b \in Block |-> Holds(t, b)]]

ImplementsBlockLocks == Promised!Spec

\* The table is never lost: a thread that holds the outer mutex, waiting or
\* not, gives it back; and when every thread is inside a call some call ends,
\* whatever each of them has locked.
MutexComesBack ==
  \A t \in Tx : (mutex = t) ~> (mutex # t)

SomeCallEnds ==
  (\A t \in Tx : pc[t] # "idle") ~> (\E t \in Tx : pc[t] = "idle")
=============================================================================
