----------------------------- MODULE AtomicStore -----------------------------
(***************************************************************************)
(* What the transactions of src/src/tx/transaction.rs promise, with the    *)
(* locks, the log, the pool and recovery out of sight: a transaction's     *)
(* changes are seen by itself alone until it commits, they become the      *)
(* contents of the store all at once, and an abort or a crash leaves no    *)
(* trace of them.                                                          *)
(***************************************************************************)
CONSTANTS Tx, Block, Value, None

VARIABLES
  store,    \* the committed contents of each block
  work,     \* the contents that a transaction with a lock sees
  owner     \* the transaction whose uncommitted change work shows, or None

vars == <<store, work, owner>>

Init ==
  /\ store \in [Block -> Value]
  /\ work = store
  /\ owner = [b \in Block |-> None]

Write(t, b, v) ==
  /\ owner[b] \in {None, t}
  /\ work' = [work EXCEPT ![b] = v]
  /\ owner' = [owner EXCEPT ![b] = t]
  /\ UNCHANGED store

Disowned(t) == [b \in Block |-> IF owner[b] = t THEN None ELSE owner[b]]

Commit(t) ==
  /\ store' = [b \in Block |-> IF owner[b] = t THEN work[b] ELSE store[b]]
  /\ owner' = Disowned(t)
  /\ UNCHANGED work

Abort(t) ==
  /\ work' = [b \in Block |-> IF owner[b] = t THEN store[b] ELSE work[b]]
  /\ owner' = Disowned(t)
  /\ UNCHANGED store

Crash ==
  /\ work' = store
  /\ owner' = [b \in Block |-> None]
  /\ UNCHANGED store

Next ==
  \/ \E t \in Tx : Commit(t) \/ Abort(t)
  \/ Crash
  \/ \E t \in Tx, b \in Block, v \in Value : Write(t, b, v)

Spec == Init /\ [][Next]_vars
=============================================================================
