----------------------------- MODULE BlockLocks -----------------------------
(***************************************************************************)
(* What the lock manager of src/src/tx/concurrency.rs promises to a        *)
(* transaction: many readers or one writer per block, a writer always      *)
(* being a reader first, and locks given back one block at a time.         *)
(***************************************************************************)
CONSTANTS Tx, Block

VARIABLE held    \* held[t][b]: the lock transaction t has on block b

Mode == {"none", "shared", "exclusive"}

Held == [Tx -> [Block -> Mode]]

Init == held = [t \in Tx |-> [b \in Block |-> "none"]]

\* A shared lock is compatible with every lock that is not exclusive.
TakeShared(t, b) ==
  /\ held[t][b] = "none"
  /\ \A u \in Tx : held[u][b] # "exclusive"
  /\ held' = [held EXCEPT ![t][b] = "shared"]

\* An exclusive lock is granted to the only reader of the block.
Upgrade(t, b) ==
  /\ held[t][b] = "shared"
  /\ \A u \in Tx \ {t} : held[u][b] = "none"
  /\ held' = [held EXCEPT ![t][b] = "exclusive"]

Drop(t, b) ==
  /\ held[t][b] # "none"
  /\ held' = [held EXCEPT ![t][b] = "none"]

Next == \E t \in Tx, b \in Block : TakeShared(t, b) \/ Upgrade(t, b) \/ Drop(t, b)

Spec == Init /\ [][Next]_held

-----------------------------------------------------------------------------
\* Nobody holds a block in any mode while another transaction writes it:
\* the isolation Transaction::set_i32 and set_string rely on.
Exclusion ==
  \A t, u \in Tx, b \in Block :
    held[t][b] = "exclusive" /\ t # u => held[u][b] = "none"
=============================================================================
