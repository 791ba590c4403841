--------------------------- MODULE LockTableProofs ---------------------------
(***************************************************************************)
(* Proofs about LockTable, for any number of transactions and blocks.      *)
(***************************************************************************)
EXTENDS LockTable, FiniteSetTheorems, TLAPS

\* Where a thread may be, given what its transaction has: a call that takes a
\* shared lock has none yet, a call that upgrades has one, and only release
\* has unlocked blocks behind it.
CallConsistent(t) ==
  /\ pc[t] \in {"lock_shared", "wait_shared", "granted_shared"} =>
       block[t] \in Block /\ my_locks[t][block[t]] = "none"
  /\ pc[t] \in {"lock_exclusive", "wait_exclusive", "granted_exclusive"} =>
       block[t] \in Block /\ my_locks[t][block[t]] = "shared"
  /\ unlocked[t] # {} => pc[t] = "release"

\* Who holds the outer mutex, and what is true while it is held.
MutexConsistent(t) ==
  /\ pc[t] \in Waiting => mutex = t
  /\ mutex = t => pc[t] \in Waiting \cup Locking
  /\ mutex = t => \/ /\ pc[t] \in {"lock_shared", "wait_shared"}
                     /\ has_exclusive_lock(block[t])
                  \/ /\ pc[t] \in {"lock_exclusive", "wait_exclusive"}
                     /\ has_multiple_shared_locks(block[t])

\* The inductive invariant.
IInv ==
  /\ TypeOK
  /\ \A t \in Tx : CallConsistent(t)
  /\ \A t \in Tx : MutexConsistent(t)
  /\ TableMatchesHolders
  /\ NoPanic

-----------------------------------------------------------------------------
LEMMA InitIInv == Init => IInv
<1> SUFFICES ASSUME Init PROVE IInv
  OBVIOUS
<1>1. TypeOK
  BY DEF Init, TypeOK, Lock, Vacant, Mode, Pc
<1>2. \A t \in Tx : CallConsistent(t) /\ MutexConsistent(t)
  BY LockTableAssumption DEF Init, CallConsistent, MutexConsistent, Waiting
<1>3. TableMatchesHolders
  BY DEF Init, TableMatchesHolders, EntryMatches, Holders, Holds
<1>4. NoPanic
  BY DEF Init, NoPanic
<1> QED
  BY <1>1, <1>2, <1>3, <1>4 DEF IInv

\* The entries a step puts in the table.
LEMMA LockValues ==
  /\ Vacant \in Lock /\ Exclusive \in Lock
  /\ \A n \in Nat : Shared(n) \in Lock
BY DEF Vacant, Exclusive, Shared, Lock, Mode

\* Every step keeps the types; that a count never goes below zero takes more
\* than the types.
LEMMA TypeStep == TypeOK /\ TableMatchesHolders /\ [Next]_vars => TypeOK'
<1> SUFFICES ASSUME TypeOK, TableMatchesHolders, [Next]_vars PROVE TypeOK'
  OBVIOUS
<1> USE DEF TypeOK, Pc, Waiting, Locking, Granted, Mode, Lock
<1>1. ASSUME NEW t \in Tx, Call(t) PROVE TypeOK'
  <2>1. ASSUME NEW b \in Block, CallShared(t, b) PROVE TypeOK'
    BY <2>1 DEF CallShared
  <2>2. ASSUME NEW b \in Block, CallExclusive(t, b) PROVE TypeOK'
    BY <2>2 DEF CallExclusive
  <2>3. ASSUME CallRelease(t) PROVE TypeOK'
    BY <2>3 DEF CallRelease
  <2> QED
    BY <1>1, <2>1, <2>2, <2>3 DEF Call
<1>2. ASSUME NEW t \in Tx, Wait(t) PROVE TypeOK'
  BY <1>2 DEF Wait
<1>3. ASSUME NEW t \in Tx, GrantShared(t) PROVE TypeOK'
  <2>1. locks' \in [Block -> Lock]
    <3>1. \A b \in Block : Shared(locks[b].num + 1) \in Lock
      BY DEF Shared
    <3> HIDE DEF Lock
    <3> QED
      BY <1>3, <3>1 DEF GrantShared
  <2> QED
    BY <1>3, <2>1 DEF GrantShared
<1>4. ASSUME NEW t \in Tx, GrantExclusive(t) PROVE TypeOK'
  <2>1. CASE has_exclusive_lock(block[t])
    BY <1>4, <2>1 DEF GrantExclusive
  <2>2. CASE ~has_exclusive_lock(block[t])
    <3>1. locks' = [locks EXCEPT ![block[t]] = Exclusive]
      BY <1>4, <2>2 DEF GrantExclusive
    <3>2. locks' \in [Block -> Lock]
      <4> HIDE DEF Lock
      <4> QED
        BY <3>1, LockValues
    <3> QED
      BY <1>4, <2>2, <3>2 DEF GrantExclusive
  <2> QED
    BY <2>1, <2>2
<1>5. ASSUME NEW t \in Tx, NEW b \in Block, Unlock(t, b) PROVE TypeOK'
  <2>1. (IF locks[b].kind = "shared" /\ locks[b].num # 1
         THEN Shared(locks[b].num - 1) ELSE Vacant) \in Lock
    <3>1. locks[b].num \in Nat
      OBVIOUS
    <3>2. locks[b].kind = "shared" => locks[b].num > 0
      BY DEF TableMatchesHolders, EntryMatches, Vacant, Exclusive
    <3>3. CASE locks[b].kind = "shared"
      BY <3>1, <3>2, <3>3, locks[b].num - 1 \in Nat, LockValues
    <3>4. CASE locks[b].kind # "shared"
      BY <3>4, LockValues
    <3> QED
      BY <3>3, <3>4
  <2> QED
    BY <1>5, <2>1 DEF Unlock
<1>6. ASSUME NEW t \in Tx, Clear(t) PROVE TypeOK'
  BY <1>6 DEF Clear
<1>7. ASSUME NEW t \in Tx, Wake(t) PROVE TypeOK'
  BY <1>7 DEF Wake
<1>8. ASSUME NEW t \in Tx, GiveUp(t) PROVE TypeOK'
  BY <1>8 DEF GiveUp, Return
<1>9. ASSUME NEW t \in Tx, EnterShared(t) PROVE TypeOK'
  <2>1. my_locks' \in [Tx -> [Block -> Mode]]
    BY <1>9 DEF EnterShared
  <2>2. CASE writing[t]
    BY <1>9, <2>1, <2>2 DEF EnterShared
  <2>3. CASE ~writing[t]
    BY <1>9, <2>1, <2>3 DEF EnterShared, Return
  <2> QED
    BY <2>2, <2>3
<1>10. ASSUME NEW t \in Tx, EnterExclusive(t) PROVE TypeOK'
  <2>1. my_locks' \in [Tx -> [Block -> Mode]]
    BY <1>10 DEF EnterExclusive
  <2> QED
    BY <1>10, <2>1 DEF EnterExclusive, Return
<1>11. CASE UNCHANGED vars
  BY <1>11 DEF vars
<1> QED
  BY <1>1, <1>2, <1>3, <1>4, <1>5, <1>6, <1>7, <1>8, <1>9, <1>10, <1>11 DEF Next, Run

-----------------------------------------------------------------------------
\* A call stays consistent with what its transaction has.
LEMMA CallStep ==
  TypeOK /\ (\A t \in Tx : CallConsistent(t)) /\ [Next]_vars
    => (\A t \in Tx : CallConsistent(t))'
<1> SUFFICES ASSUME TypeOK, \A t \in Tx : CallConsistent(t), [Next]_vars,
                    NEW u \in Tx
             PROVE  CallConsistent(u)'
  OBVIOUS
<1> USE DEF TypeOK, Pc, Waiting, Locking, Granted, CallConsistent
<1>1. ASSUME NEW t \in Tx, NEW b \in Block, CallShared(t, b)
      PROVE  CallConsistent(u)'
  BY <1>1 DEF CallShared
<1>2. ASSUME NEW t \in Tx, NEW b \in Block, CallExclusive(t, b)
      PROVE  CallConsistent(u)'
  BY <1>2 DEF CallExclusive, Mode
<1>3. ASSUME NEW t \in Tx, CallRelease(t) PROVE CallConsistent(u)'
  BY <1>3 DEF CallRelease
<1>4. ASSUME NEW t \in Tx, Wait(t) PROVE CallConsistent(u)'
  BY <1>4 DEF Wait
<1>5. ASSUME NEW t \in Tx, GrantShared(t) PROVE CallConsistent(u)'
  BY <1>5 DEF GrantShared
<1>6. ASSUME NEW t \in Tx, GrantExclusive(t) PROVE CallConsistent(u)'
  <2>1. CASE has_exclusive_lock(block[t])
    BY <1>6, <2>1 DEF GrantExclusive
  <2>2. CASE ~has_exclusive_lock(block[t])
    BY <1>6, <2>2 DEF GrantExclusive
  <2> QED
    BY <2>1, <2>2
<1>7. ASSUME NEW t \in Tx, NEW b \in Block, Unlock(t, b)
      PROVE  CallConsistent(u)'
  BY <1>7 DEF Unlock
<1>8. ASSUME NEW t \in Tx, Clear(t) PROVE CallConsistent(u)'
  BY <1>8 DEF Clear
<1>9. ASSUME NEW t \in Tx, Wake(t) PROVE CallConsistent(u)'
  BY <1>9 DEF Wake
<1>10. ASSUME NEW t \in Tx, GiveUp(t) PROVE CallConsistent(u)'
  BY <1>10 DEF GiveUp, Return
<1>11. ASSUME NEW t \in Tx, EnterShared(t) PROVE CallConsistent(u)'
  <2>1. CASE writing[t]
    BY <1>11, <2>1 DEF EnterShared
  <2>2. CASE ~writing[t]
    BY <1>11, <2>2 DEF EnterShared, Return
  <2> QED
    BY <2>1, <2>2
<1>12. ASSUME NEW t \in Tx, EnterExclusive(t) PROVE CallConsistent(u)'
  BY <1>12 DEF EnterExclusive, Return
<1>13. CASE UNCHANGED vars
  BY <1>13 DEF vars
<1> QED
  BY <1>1, <1>2, <1>3, <1>4, <1>5, <1>6, <1>7, <1>8, <1>9, <1>10, <1>11, <1>12, <1>13
     DEF Next, Call, Run

\* Whoever holds the outer mutex waits for something that stays true: a step
\* of another thread that changes the table needs the mutex.
LEMMA MutexStep ==
  TypeOK /\ (\A t \in Tx : CallConsistent(t)) /\ (\A t \in Tx : MutexConsistent(t))
    /\ NoPanic' /\ [Next]_vars
    => (\A t \in Tx : MutexConsistent(t))'
<1> SUFFICES ASSUME TypeOK, \A t \in Tx : CallConsistent(t),
                    \A t \in Tx : MutexConsistent(t), NoPanic', [Next]_vars,
                    NEW u \in Tx
             PROVE  MutexConsistent(u)'
  OBVIOUS
<1> USE LockTableAssumption
    DEF TypeOK, Pc, Waiting, Locking, Granted, MutexConsistent, has_exclusive_lock,
        has_multiple_shared_locks
<1>1. ASSUME NEW t \in Tx, NEW b \in Block, CallShared(t, b)
      PROVE  MutexConsistent(u)'
  BY <1>1 DEF CallShared
<1>2. ASSUME NEW t \in Tx, NEW b \in Block, CallExclusive(t, b)
      PROVE  MutexConsistent(u)'
  BY <1>2 DEF CallExclusive
<1>3. ASSUME NEW t \in Tx, CallRelease(t) PROVE MutexConsistent(u)'
  BY <1>3 DEF CallRelease
<1>4. ASSUME NEW t \in Tx, Wait(t) PROVE MutexConsistent(u)'
  BY <1>4 DEF Wait, Conflict
<1>5. ASSUME NEW t \in Tx, GrantShared(t) PROVE MutexConsistent(u)'
  BY <1>5 DEF GrantShared, Conflict
<1>6. ASSUME NEW t \in Tx, GrantExclusive(t) PROVE MutexConsistent(u)'
  <2>1. ~has_exclusive_lock(block[t])
    BY <1>6 DEF GrantExclusive, NoPanic
  <2> QED
    BY <1>6, <2>1 DEF GrantExclusive, Conflict
<1>7. ASSUME NEW t \in Tx, NEW b \in Block, Unlock(t, b)
      PROVE  MutexConsistent(u)'
  BY <1>7 DEF Unlock
<1>8. ASSUME NEW t \in Tx, Clear(t) PROVE MutexConsistent(u)'
  BY <1>8 DEF Clear
<1>9. ASSUME NEW t \in Tx, Wake(t) PROVE MutexConsistent(u)'
  BY <1>9 DEF Wake
<1>10. ASSUME NEW t \in Tx, GiveUp(t) PROVE MutexConsistent(u)'
  BY <1>10 DEF GiveUp, Return
<1>11. ASSUME NEW t \in Tx, EnterShared(t) PROVE MutexConsistent(u)'
  <2>1. CASE writing[t]
    BY <1>11, <2>1 DEF EnterShared
  <2>2. CASE ~writing[t]
    BY <1>11, <2>2 DEF EnterShared, Return
  <2> QED
    BY <2>1, <2>2
<1>12. ASSUME NEW t \in Tx, EnterExclusive(t) PROVE MutexConsistent(u)'
  BY <1>12 DEF EnterExclusive, Return
<1>13. CASE UNCHANGED vars
  BY <1>13 DEF vars
<1> QED
  BY <1>1, <1>2, <1>3, <1>4, <1>5, <1>6, <1>7, <1>8, <1>9, <1>10, <1>11, <1>12, <1>13
     DEF Next, Call, Run

-----------------------------------------------------------------------------
\* A block whose entry and whose holders do not change keeps matching.
LEMMA SameEntry ==
  ASSUME NEW b \in Block, EntryMatches(b), locks'[b] = locks[b],
         \A t \in Tx : Holds(t, b)' = Holds(t, b)
  PROVE  EntryMatches(b)'
<1>1. Holders(b)' = Holders(b)
  BY DEF Holders
<1> QED
  BY <1>1 DEF EntryMatches, Holders

\* The lock of one transaction on one block changes, and no other.
Becomes(t, c, m) ==
  /\ Holds(t, c)' = m
  /\ \A u \in Tx, b \in Block : u # t \/ b # c => Holds(u, b)' = Holds(u, b)

HoldsStay == \A u \in Tx, b \in Block : Holds(u, b)' = Holds(u, b)

LEMMA OthersHold ==
  ASSUME NEW u \in Tx, pc'[u] = pc[u], block'[u] = block[u],
         my_locks'[u] = my_locks[u], unlocked'[u] = unlocked[u]
  PROVE  \A b \in Block : Holds(u, b)' = Holds(u, b)
BY DEF Holds

\* Outside the gap between a grant and my_locks, the locks are those of my_locks.
LEMMA OutsideHold ==
  ASSUME NEW u \in Tx, pc[u] \notin Granted, NEW b \in Block
  PROVE  Holds(u, b) = IF b \in unlocked[u] THEN "none" ELSE my_locks[u][b]
BY DEF Holds, Granted

LEMMA OutsideHoldNext ==
  ASSUME NEW u \in Tx, pc'[u] \notin Granted, NEW b \in Block
  PROVE  Holds(u, b)' = IF b \in unlocked'[u] THEN "none" ELSE my_locks'[u][b]
BY DEF Holds, Granted

LEMMA CallingHolds ==
  ASSUME TypeOK, NEW t \in Tx, Call(t) \/ Wait(t) \/ Wake(t) \/ GiveUp(t),
         t = mutex => pc[t] \notin Granted
  PROVE  HoldsStay
<1>1. my_locks' = my_locks /\ unlocked' = unlocked
  BY DEF Call, CallShared, CallExclusive, CallRelease, Wait, Wake, GiveUp
<1>2. ASSUME NEW u \in Tx \ {t}
      PROVE  pc'[u] = pc[u] /\ block'[u] = block[u]
  BY DEF TypeOK, Call, CallShared, CallExclusive, CallRelease, Wait, Wake, GiveUp, Return
<1>3. pc[t] \notin Granted /\ pc'[t] \notin Granted
  BY DEF TypeOK, Call, CallShared, CallExclusive, CallRelease, Wait, Wake, GiveUp,
         Return, Granted, Waiting, Locking
<1>4. ASSUME NEW u \in Tx, NEW b \in Block
      PROVE  Holds(u, b)' = Holds(u, b)
  <2>1. CASE u = t
    BY <1>1, <1>3, <2>1, OutsideHold, OutsideHoldNext
  <2>2. CASE u # t
    BY <1>1, <1>2, <2>2, OthersHold
  <2> QED
    BY <2>1, <2>2
<1> QED
  BY <1>4 DEF HoldsStay

\* What the table grants counts at once, what my_locks is told changes nothing.
LEMMA GrantSharedHolds ==
  ASSUME TypeOK, NEW t \in Tx, CallConsistent(t), GrantShared(t)
  PROVE  block[t] \in Block /\ Holds(t, block[t]) = "none" /\ Becomes(t, block[t], "shared")
<1>1. PICK c \in Block : c = block[t] /\ my_locks[t][c] = "none" /\ unlocked[t] = {}
  BY DEF CallConsistent, GrantShared
<1>2. /\ pc[t] = "lock_shared" /\ pc' = [pc EXCEPT ![t] = "granted_shared"]
      /\ UNCHANGED <<my_locks, block, unlocked>>
  BY DEF GrantShared
<1>3. Holds(t, c) = "none"
  BY <1>1, <1>2 DEF Holds
<1>4. pc'[t] = "granted_shared" /\ \A u \in Tx \ {t} : pc'[u] = pc[u]
  BY <1>2 DEF TypeOK
<1>5. \A b \in Block : Holds(t, b)' = IF b = c THEN "shared" ELSE Holds(t, b)
  BY <1>1, <1>2, <1>4 DEF Holds
<1>6. \A u \in Tx \ {t}, b \in Block : Holds(u, b)' = Holds(u, b)
  BY <1>2, <1>4, OthersHold
<1>7. ASSUME NEW u \in Tx, NEW b \in Block, u # t \/ b # c
      PROVE  Holds(u, b)' = Holds(u, b)
  BY <1>5, <1>6, <1>7
<1>8. Becomes(t, c, "shared")
  BY <1>1, <1>5, <1>7 DEF Becomes
<1> QED
  BY <1>1, <1>3, <1>8

LEMMA GrantExclusiveHolds ==
  ASSUME TypeOK, NEW t \in Tx, CallConsistent(t), GrantExclusive(t),
         ~has_exclusive_lock(block[t])
  PROVE  block[t] \in Block /\ Becomes(t, block[t], "exclusive")
<1>1. PICK c \in Block : c = block[t]
  BY DEF CallConsistent, GrantExclusive
<1>2. /\ pc[t] = "lock_exclusive" /\ pc' = [pc EXCEPT ![t] = "granted_exclusive"]
      /\ UNCHANGED <<my_locks, block, unlocked>>
  BY DEF GrantExclusive
<1>3. pc'[t] = "granted_exclusive" /\ \A u \in Tx \ {t} : pc'[u] = pc[u]
  BY <1>2 DEF TypeOK
<1>4. \A b \in Block : Holds(t, b)' = IF b = c THEN "exclusive" ELSE Holds(t, b)
  BY <1>1, <1>2, <1>3 DEF Holds
<1>5. \A u \in Tx \ {t}, b \in Block : Holds(u, b)' = Holds(u, b)
  BY <1>2, <1>3, OthersHold
<1>6. ASSUME NEW u \in Tx, NEW b \in Block, u # t \/ b # c
      PROVE  Holds(u, b)' = Holds(u, b)
  BY <1>4, <1>5, <1>6
<1>7. Becomes(t, c, "exclusive")
  BY <1>1, <1>4, <1>6 DEF Becomes
<1> QED
  BY <1>1, <1>7

LEMMA EnterHolds ==
  ASSUME TypeOK, NEW t \in Tx, CallConsistent(t), EnterShared(t) \/ EnterExclusive(t)
  PROVE  HoldsStay
<1>1. PICK m \in {"shared", "exclusive"} :
        /\ my_locks' = [my_locks EXCEPT ![t][block[t]] = m]
        /\ pc[t] = IF m = "shared" THEN "granted_shared" ELSE "granted_exclusive"
  BY DEF EnterShared, EnterExclusive
<1>2. PICK c \in Block : c = block[t] /\ unlocked[t] = {} /\ unlocked' = unlocked
  BY <1>1 DEF CallConsistent, EnterShared, EnterExclusive
<1>3. pc'[t] \notin Granted
  BY DEF TypeOK, EnterShared, EnterExclusive, Return, Granted
<1>4. ASSUME NEW u \in Tx \ {t}
      PROVE  pc'[u] = pc[u] /\ block'[u] = block[u]
  BY DEF TypeOK, EnterShared, EnterExclusive, Return
<1>5. ASSUME NEW b \in Block PROVE Holds(t, b)' = Holds(t, b)
  <2>1. Holds(t, b) = IF b = c THEN m ELSE my_locks[t][b]
    BY <1>1, <1>2 DEF Holds
  <2>2. my_locks'[t][b] = IF b = c THEN m ELSE my_locks[t][b]
    BY <1>1, <1>2 DEF TypeOK
  <2>3. Holds(t, b)' = my_locks'[t][b]
    BY <1>2, <1>3, OutsideHoldNext
  <2> QED
    BY <2>1, <2>2, <2>3
<1>6. ASSUME NEW u \in Tx \ {t}, NEW b \in Block PROVE Holds(u, b)' = Holds(u, b)
  <2>1. my_locks'[u] = my_locks[u]
    BY <1>1, <1>2 DEF TypeOK
  <2> QED
    BY <1>2, <1>4, <2>1, OthersHold
<1> QED
  BY <1>5, <1>6 DEF HoldsStay

LEMMA UnlockHolds ==
  ASSUME TypeOK, NEW t \in Tx, NEW c \in Block, Unlock(t, c)
  PROVE  Holds(t, c) # "none" /\ Becomes(t, c, "none")
<1>1. /\ pc[t] \notin Granted /\ UNCHANGED <<pc, block, my_locks>>
      /\ unlocked' = [unlocked EXCEPT ![t] = @ \cup {c}]
      /\ my_locks[t][c] # "none" /\ c \notin unlocked[t]
  BY DEF Unlock, Granted
<1>2. unlocked'[t] = unlocked[t] \cup {c} /\ \A u \in Tx \ {t} : unlocked'[u] = unlocked[u]
  BY <1>1 DEF TypeOK
<1>3. Holds(t, c) # "none" /\ Holds(t, c)' = "none"
  BY <1>1, <1>2, OutsideHold, OutsideHoldNext
<1>4. ASSUME NEW b \in Block, b # c PROVE Holds(t, b)' = Holds(t, b)
  BY <1>1, <1>2, <1>4, OutsideHold, OutsideHoldNext
<1>5. \A u \in Tx \ {t}, b \in Block : Holds(u, b)' = Holds(u, b)
  BY <1>1, <1>2, OthersHold
<1> QED
  BY <1>3, <1>4, <1>5 DEF Becomes

LEMMA ClearHolds ==
  ASSUME TypeOK, NEW t \in Tx, Clear(t)
  PROVE  HoldsStay
<1>1. /\ pc[t] \notin Granted /\ pc'[t] \notin Granted
      /\ \A b \in Block : my_locks[t][b] = "none" \/ b \in unlocked[t]
      /\ \A b \in Block : my_locks'[t][b] = "none"
  BY DEF Clear, Granted, TypeOK
<1>2. ASSUME NEW u \in Tx \ {t}
      PROVE  /\ pc'[u] = pc[u] /\ block'[u] = block[u]
             /\ my_locks'[u] = my_locks[u] /\ unlocked'[u] = unlocked[u]
  BY DEF Clear, TypeOK
<1>3. ASSUME NEW b \in Block PROVE Holds(t, b)' = Holds(t, b)
  BY <1>1, OutsideHold, OutsideHoldNext
<1> QED
  BY <1>2, <1>3, OthersHold DEF HoldsStay

\* The holders of a block are finitely many.
LEMMA HoldersFinite == ASSUME NEW b \in Block PROVE IsFiniteSet(Holders(b))
<1>1. Holders(b) \subseteq Tx
  BY DEF Holders
<1> QED
  BY <1>1, LockTableAssumption, FS_Subset

\* A new reader is counted.
LEMMA GrantSharedEntry ==
  ASSUME TypeOK, TableMatchesHolders, NEW t \in Tx, CallConsistent(t), GrantShared(t)
  PROVE  TableMatchesHolders'
<1>1. PICK c \in Block : c = block[t] /\ Holds(t, c) = "none" /\ Becomes(t, c, "shared")
  BY GrantSharedHolds
<1>2. ~has_exclusive_lock(c)
  BY <1>1 DEF GrantShared, Conflict
<1>3. locks' = [locks EXCEPT ![c] = Shared(@.num + 1)]
  BY <1>1 DEF GrantShared
<1>4. ASSUME NEW b \in Block, b # c PROVE EntryMatches(b)'
  <2>1. locks'[b] = locks[b]
    BY <1>1, <1>3, <1>4 DEF TypeOK
  <2>2. ASSUME NEW u \in Tx PROVE Holds(u, b)' = Holds(u, b)
    BY <1>1, <1>4 DEF Becomes
  <2> QED
    BY <2>1, <2>2, SameEntry DEF TableMatchesHolders
<1>5. EntryMatches(c)'
  <2>1. Holds(t, c) = "none" /\ Holds(t, c)' = "shared"
    BY <1>1 DEF Becomes
  <2>2. ASSUME NEW u \in Tx, u # t PROVE Holds(u, c)' = Holds(u, c)
    BY <1>1, <2>2 DEF Becomes
  <2>3. Holders(c)' = Holders(c) \cup {t} /\ t \notin Holders(c)
    BY <2>1, <2>2 DEF Holders
  <2>4. Cardinality(Holders(c)') = Cardinality(Holders(c)) + 1
    BY <1>1, <2>3, HoldersFinite, FS_AddElement
  <2>5. locks[c].num \in Nat /\ locks'[c] = Shared(locks[c].num + 1)
    BY <1>1, <1>3 DEF TypeOK, Lock
  <2>6. locks[c].num = Cardinality(Holders(c))
        /\ \A u \in Holders(c) : Holds(u, c) = "shared"
    <3>1. EntryMatches(c)
      BY <1>1 DEF TableMatchesHolders
    <3>2. CASE Holders(c) = {} /\ locks[c] = Vacant
      BY <3>2, FS_EmptySet DEF Vacant
    <3>3. CASE locks[c].kind = "shared"
      BY <3>1, <3>3 DEF EntryMatches, Vacant, Exclusive
    <3> QED
      BY <1>2, <3>1, <3>2, <3>3 DEF EntryMatches, Exclusive, has_exclusive_lock
  <2>7. locks'[c].kind = "shared" /\ locks'[c].num = locks[c].num + 1
    BY <2>5 DEF Shared
  <2>8. locks'[c].num > 0 /\ locks'[c].num = Cardinality(Holders(c)')
    BY <2>4, <2>5, <2>6, <2>7
  <2>9. \A u \in Holders(c)' : Holds(u, c)' = "shared"
    BY <2>1, <2>2, <2>3, <2>6 DEF Holders
  <2> QED
    BY <2>7, <2>8, <2>9 DEF EntryMatches
<1> QED
  BY <1>4, <1>5 DEF TableMatchesHolders

\* The upgrading thread is the one reader the entry counts.
LEMMA SoleReader ==
  ASSUME TypeOK, TableMatchesHolders, NEW t \in Tx, CallConsistent(t),
         pc[t] = "lock_exclusive", ~Conflict(t)
  PROVE  /\ block[t] \in Block
         /\ Holders(block[t]) = {t}
         /\ Holds(t, block[t]) = "shared"
         /\ ~has_exclusive_lock(block[t])
<1> DEFINE c == block[t]
<1>1. c \in Block /\ Holds(t, c) = "shared"
  <2>1. c \in Block /\ my_locks[t][c] = "shared" /\ unlocked[t] = {} /\ pc[t] \notin Granted
    BY DEF CallConsistent, Granted
  <2> QED
    BY <2>1, OutsideHold
<1>2. t \in Holders(c)
  BY <1>1 DEF Holders
<1>3. EntryMatches(c)
  BY <1>1 DEF TableMatchesHolders
<1>4. locks[c].kind = "shared" /\ locks[c].num = Cardinality(Holders(c))
      /\ locks[c].num > 0
  BY <1>1, <1>2, <1>3 DEF EntryMatches
<1>5. locks[c].num \in Nat
  BY <1>1 DEF TypeOK, Lock
<1>6. Cardinality(Holders(c)) = 1
  BY <1>4, <1>5 DEF Conflict, has_multiple_shared_locks
<1>7. PICK x : Holders(c) = {x}
  BY <1>1, <1>6, HoldersFinite, FS_Singleton
<1> QED
  BY <1>1, <1>2, <1>4, <1>7 DEF has_exclusive_lock

LEMMA GrantExclusiveEntry ==
  ASSUME TypeOK, TableMatchesHolders, NEW t \in Tx, CallConsistent(t),
         GrantExclusive(t)
  PROVE  TableMatchesHolders'
<1>0. PICK c \in Block : c = block[t]
  BY DEF CallConsistent, GrantExclusive
<1>1. /\ c \in Block /\ Holders(c) = {t} /\ Holds(t, c) = "shared"
      /\ ~has_exclusive_lock(c)
  BY <1>0, SoleReader DEF GrantExclusive
<1>2. locks' = [locks EXCEPT ![c] = Exclusive] /\ Becomes(t, c, "exclusive")
  BY <1>0, <1>1, GrantExclusiveHolds DEF GrantExclusive
<1>3. ASSUME NEW b \in Block, b # c PROVE EntryMatches(b)'
  <2>1. locks'[b] = locks[b]
    BY <1>1, <1>2, <1>3 DEF TypeOK
  <2>2. ASSUME NEW u \in Tx PROVE Holds(u, b)' = Holds(u, b)
    BY <1>2, <1>3 DEF Becomes
  <2> QED
    BY <2>1, <2>2, SameEntry DEF TableMatchesHolders
<1>4. EntryMatches(c)'
  <2>1. Holds(t, c)' = "exclusive"
    BY <1>2 DEF Becomes
  <2>2. ASSUME NEW u \in Tx, u # t PROVE Holds(u, c)' = "none"
    BY <1>1, <1>2, <2>2 DEF Becomes, Holders
  <2>3. Holders(c)' = {t}
    BY <2>1, <2>2 DEF Holders
  <2>4. locks'[c] = Exclusive
    BY <1>1, <1>2 DEF TypeOK
  <2> QED
    BY <2>1, <2>3, <2>4 DEF EntryMatches
<1> QED
  BY <1>3, <1>4 DEF TableMatchesHolders

LEMMA UnlockEntry ==
  ASSUME TypeOK, TableMatchesHolders, NEW t \in Tx, NEW c \in Block, Unlock(t, c)
  PROVE  TableMatchesHolders'
<1>1. /\ locks' = [locks EXCEPT ![c] = IF @.kind = "shared" /\ @.num # 1
                                       THEN Shared(@.num - 1) ELSE Vacant]
      /\ Holds(t, c) # "none" /\ Becomes(t, c, "none")
  BY UnlockHolds DEF Unlock
<1>2. ASSUME NEW b \in Block, b # c PROVE EntryMatches(b)'
  <2>1. locks'[b] = locks[b]
    BY <1>1, <1>2 DEF TypeOK
  <2>2. ASSUME NEW u \in Tx PROVE Holds(u, b)' = Holds(u, b)
    BY <1>1, <1>2 DEF Becomes
  <2> QED
    BY <2>1, <2>2, SameEntry DEF TableMatchesHolders
<1>3. EntryMatches(c)'
  <2>1. Holds(t, c)' = "none"
    BY <1>1 DEF Becomes
  <2>2. ASSUME NEW u \in Tx, u # t PROVE Holds(u, c)' = Holds(u, c)
    BY <1>1, <2>2 DEF Becomes
  <2>3. Holders(c)' = Holders(c) \ {t} /\ t \in Holders(c)
    BY <1>1, <2>1, <2>2 DEF Holders
  <2>4. EntryMatches(c)
    BY DEF TableMatchesHolders
  <2>5. CASE locks[c] = Exclusive
    <3>1. Holders(c)' = {}
      BY <2>3, <2>4, <2>5 DEF EntryMatches, Vacant, Exclusive
    <3>2. locks'[c] = Vacant
      BY <1>1, <2>5 DEF TypeOK, Exclusive
    <3> QED
      BY <3>1, <3>2 DEF EntryMatches
  <2>6. CASE locks[c] # Exclusive
    <3>1. /\ locks[c].kind = "shared" /\ locks[c].num = Cardinality(Holders(c))
          /\ locks[c].num > 0 /\ locks[c].num \in Nat
          /\ \A u \in Holders(c) : Holds(u, c) = "shared"
      BY <2>3, <2>4, <2>6 DEF EntryMatches, TypeOK, Lock
    <3>2. Cardinality(Holders(c)') = Cardinality(Holders(c)) - 1
          /\ IsFiniteSet(Holders(c)')
      BY <2>3, HoldersFinite, FS_RemoveElement
    <3>3. CASE locks[c].num = 1
      <4>1. locks'[c] = Vacant
        BY <1>1, <3>3 DEF TypeOK
      <4>2. Holders(c)' = {}
        BY <3>1, <3>2, <3>3, FS_EmptySet
      <4> QED
        BY <4>1, <4>2 DEF EntryMatches
    <3>4. CASE locks[c].num # 1
      <4>1. locks'[c] = Shared(locks[c].num - 1)
        BY <1>1, <3>1, <3>4 DEF TypeOK
      <4>2. locks'[c].kind = "shared" /\ locks'[c].num = locks[c].num - 1
        BY <4>1 DEF Shared
      <4>3. locks'[c].num > 0 /\ locks'[c].num = Cardinality(Holders(c)')
        BY <3>1, <3>2, <3>4, <4>2
      <4>4. \A u \in Holders(c)' : Holds(u, c)' = "shared"
        BY <2>2, <2>3, <3>1 DEF Holders
      <4> QED
        BY <4>2, <4>3, <4>4 DEF EntryMatches
    <3> QED
      BY <3>3, <3>4
  <2> QED
    BY <2>5, <2>6
<1> QED
  BY <1>2, <1>3 DEF TableMatchesHolders

\* A step that changes neither the table nor anybody's locks.
LEMMA SameTable ==
  ASSUME TableMatchesHolders, locks' = locks, HoldsStay
  PROVE  TableMatchesHolders'
<1> SUFFICES ASSUME NEW b \in Block PROVE EntryMatches(b)'
  BY DEF TableMatchesHolders
<1> QED
  BY SameEntry DEF TableMatchesHolders, HoldsStay

LEMMA TableStep ==
  TypeOK /\ (\A t \in Tx : CallConsistent(t)) /\ (\A t \in Tx : MutexConsistent(t))
    /\ TableMatchesHolders /\ NoPanic /\ [Next]_vars
    => TableMatchesHolders'
<1> SUFFICES ASSUME TypeOK, \A t \in Tx : CallConsistent(t),
                    \A t \in Tx : MutexConsistent(t), TableMatchesHolders, NoPanic,
                    [Next]_vars
             PROVE  TableMatchesHolders'
  OBVIOUS
<1>1. ASSUME NEW t \in Tx, Call(t) \/ Wait(t) \/ Wake(t) \/ GiveUp(t)
      PROVE  TableMatchesHolders'
  <2>1. locks' = locks
    BY <1>1 DEF Call, CallShared, CallExclusive, CallRelease, Wait, Wake, GiveUp
  <2>2. t = mutex => pc[t] \notin Granted
    BY DEF MutexConsistent, Granted
  <2> QED
    BY <1>1, <2>1, <2>2, CallingHolds, SameTable
<1>2. ASSUME NEW t \in Tx, GrantShared(t) PROVE TableMatchesHolders'
  BY <1>2, GrantSharedEntry
<1>3. ASSUME NEW t \in Tx, EnterShared(t) \/ EnterExclusive(t)
      PROVE  TableMatchesHolders'
  BY <1>3, EnterHolds, SameTable DEF EnterShared, EnterExclusive
<1>4. ASSUME NEW t \in Tx, GrantExclusive(t) PROVE TableMatchesHolders'
  BY <1>4, GrantExclusiveEntry
<1>5. ASSUME NEW t \in Tx, NEW b \in Block, Unlock(t, b) PROVE TableMatchesHolders'
  BY <1>5, UnlockEntry
<1>6. ASSUME NEW t \in Tx, Clear(t) PROVE TableMatchesHolders'
  BY <1>6, ClearHolds, SameTable DEF Clear
<1>7. CASE UNCHANGED vars
  <2>1. HoldsStay
    BY <1>7 DEF vars, HoldsStay, Holds
  <2> QED
    BY <1>7, <2>1, SameTable DEF vars
<1> QED
  BY <1>1, <1>2, <1>3, <1>4, <1>5, <1>6, <1>7 DEF Next, Run

\* unreachable!() stays unreachable.
LEMMA PanicStep ==
  TypeOK /\ (\A t \in Tx : CallConsistent(t)) /\ TableMatchesHolders /\ NoPanic
    /\ [Next]_vars
    => NoPanic'
<1> SUFFICES ASSUME TypeOK, \A t \in Tx : CallConsistent(t), TableMatchesHolders,
                    NoPanic, [Next]_vars, NEW u \in Tx
             PROVE  pc'[u] # "panicked"
  BY DEF NoPanic
<1>1. pc[u] # "panicked" /\ pc \in [Tx -> Pc]
  BY DEF NoPanic, TypeOK
<1>2. ASSUME NEW t \in Tx, GrantExclusive(t) PROVE pc'[u] # "panicked"
  <2>1. ~has_exclusive_lock(block[t])
    BY <1>2, SoleReader DEF GrantExclusive
  <2> QED
    BY <1>1, <1>2, <2>1 DEF GrantExclusive
<1>3. ASSUME NEW t \in Tx, Call(t) \/ Wait(t) \/ Wake(t) \/ GiveUp(t)
      PROVE  pc'[u] # "panicked"
  BY <1>1, <1>3
     DEF Call, CallShared, CallExclusive, CallRelease, Wait, Wake, GiveUp, Return
<1>4. ASSUME NEW t \in Tx, GrantShared(t) PROVE pc'[u] # "panicked"
  BY <1>1, <1>4 DEF GrantShared
<1>5. ASSUME NEW t \in Tx, NEW b \in Block, Unlock(t, b) PROVE pc'[u] # "panicked"
  BY <1>1, <1>5 DEF Unlock
<1>6. ASSUME NEW t \in Tx, Clear(t) PROVE pc'[u] # "panicked"
  BY <1>1, <1>6 DEF Clear
<1>7. ASSUME NEW t \in Tx, EnterShared(t) \/ EnterExclusive(t)
      PROVE  pc'[u] # "panicked"
  BY <1>1, <1>7 DEF EnterShared, EnterExclusive, Return
<1>8. CASE UNCHANGED vars
  BY <1>1, <1>8 DEF vars
<1> QED
  BY <1>2, <1>3, <1>4, <1>5, <1>6, <1>7, <1>8 DEF Next, Run

-----------------------------------------------------------------------------
\* The invariant is inductive.
THEOREM Invariance == Spec => []IInv
<1>1. IInv /\ [Next]_vars => IInv'
  <2> SUFFICES ASSUME IInv, [Next]_vars PROVE IInv'
    OBVIOUS
  <2>1. TypeOK'
    BY TypeStep DEF IInv
  <2>2. (\A t \in Tx : CallConsistent(t))'
    BY CallStep DEF IInv
  <2>3. TableMatchesHolders'
    BY TableStep DEF IInv
  <2>4. NoPanic'
    BY PanicStep DEF IInv
  <2>5. (\A t \in Tx : MutexConsistent(t))'
    BY <2>4, MutexStep DEF IInv
  <2> QED
    BY <2>1, <2>2, <2>3, <2>4, <2>5 DEF IInv
<1> QED
  BY InitIInv, <1>1, PTL DEF Spec

\* Type correctness of the lock manager.
THEOREM TypeCorrect == Spec => []TypeOK
<1>1. IInv => TypeOK
  BY DEF IInv
<1> QED
  BY <1>1, Invariance, PTL

\* The table counts exactly the locks the transactions believe they have.
THEOREM TableCorrect == Spec => []TableMatchesHolders
<1>1. IInv => TableMatchesHolders
  BY DEF IInv
<1> QED
  BY <1>1, Invariance, PTL

\* The unreachable!() of lock_exclusive is unreachable.
THEOREM NeverPanics == Spec => []NoPanic
<1>1. IInv => NoPanic
  BY DEF IInv
<1> QED
  BY <1>1, Invariance, PTL

\* A thread that waits for a lock waits in vain.
THEOREM WaitsAreFutile == Spec => []WaitIsFutile
<1>1. IInv => WaitIsFutile
  BY DEF IInv, WaitIsFutile, MutexConsistent, Waiting
<1> QED
  BY <1>1, Invariance, PTL

-----------------------------------------------------------------------------
(* The lock manager implements BlockLocks.                                 *)

\* What each transaction has, as BlockLocks sees it.
HeldNow == [t \in Tx |-> [b \in Block |-> Holds(t, b)]]

LEMMA HeldSame ==
  ASSUME HoldsStay
  PROVE  HeldNow' = HeldNow
BY DEF HeldNow, HoldsStay

\* One transaction's lock on one block changes.
LEMMA HeldChange ==
  ASSUME NEW t \in Tx, NEW c \in Block, NEW m, Becomes(t, c, m)
  PROVE  HeldNow' = [HeldNow EXCEPT ![t][c] = m]
<1>1. HeldNow[t] = [b \in Block |-> Holds(t, b)]
  BY DEF HeldNow
<1>2. [HeldNow EXCEPT ![t][c] = m]
        = [u \in Tx |-> [b \in Block |-> IF u = t /\ b = c THEN m ELSE Holds(u, b)]]
  BY <1>1 DEF HeldNow
<1>3. HeldNow'
        = [u \in Tx |-> [b \in Block |-> IF u = t /\ b = c THEN m ELSE Holds(u, b)]]
  BY DEF HeldNow, Becomes
<1> QED
  BY <1>2, <1>3

LEMMA GrantSharedTakes ==
  ASSUME IInv, NEW t \in Tx, GrantShared(t)
  PROVE  Promised!Next
<1>1. TypeOK /\ TableMatchesHolders /\ CallConsistent(t)
  BY DEF IInv
<1>2. PICK c \in Block : c = block[t] /\ Holds(t, c) = "none" /\ Becomes(t, c, "shared")
  BY <1>1, GrantSharedHolds
<1>3. HeldNow' = [HeldNow EXCEPT ![t][c] = "shared"]
  BY <1>2, HeldChange
<1>4. ASSUME NEW u \in Tx PROVE Holds(u, c) # "exclusive"
  <2>1. EntryMatches(c)
    BY <1>1 DEF TableMatchesHolders
  <2>2. locks[c] # Exclusive
    BY <1>2 DEF GrantShared, Conflict, has_exclusive_lock, Exclusive
  <2> QED
    BY <2>1, <2>2 DEF EntryMatches, Holders
<1>5. Promised!TakeShared(t, c)
  BY <1>2, <1>3, <1>4 DEF Promised!TakeShared, HeldNow
<1> QED
  BY <1>5 DEF Promised!Next

LEMMA GrantExclusiveUpgrades ==
  ASSUME IInv, NEW t \in Tx, GrantExclusive(t)
  PROVE  Promised!Next
<1>1. TypeOK /\ TableMatchesHolders /\ CallConsistent(t)
  BY DEF IInv
<1>2. PICK c \in Block : c = block[t]
  BY <1>1 DEF CallConsistent, GrantExclusive
<1>3. /\ Holders(c) = {t} /\ Holds(t, c) = "shared" /\ ~has_exclusive_lock(c)
  BY <1>1, <1>2, SoleReader DEF GrantExclusive
<1>4. Becomes(t, c, "exclusive")
  BY <1>1, <1>2, <1>3, GrantExclusiveHolds
<1>5. HeldNow' = [HeldNow EXCEPT ![t][c] = "exclusive"]
  BY <1>4, HeldChange
<1>6. \A u \in Tx \ {t} : Holds(u, c) = "none"
  BY <1>3 DEF Holders
<1>7. Promised!Upgrade(t, c)
  BY <1>3, <1>5, <1>6 DEF Promised!Upgrade, HeldNow
<1> QED
  BY <1>7 DEF Promised!Next

LEMMA UnlockDrops ==
  ASSUME IInv, NEW t \in Tx, NEW c \in Block, Unlock(t, c)
  PROVE  Promised!Next
<1>1. Holds(t, c) # "none" /\ Becomes(t, c, "none")
  BY UnlockHolds DEF IInv
<1>2. HeldNow' = [HeldNow EXCEPT ![t][c] = "none"]
  BY <1>1, HeldChange
<1>3. Promised!Drop(t, c)
  BY <1>1, <1>2 DEF Promised!Drop, HeldNow
<1> QED
  BY <1>3 DEF Promised!Next

\* Every behaviour of the lock manager is one of BlockLocks: readers share,
\* a writer is alone, and a lock is held from its grant to its release.
THEOREM Refinement == Spec => ImplementsBlockLocks
<1>1. Init => Promised!Init
  BY DEF Init, Promised!Init, Holds
<1>2. IInv /\ [Next]_vars => [Promised!Next]_(HeldNow)
  <2> SUFFICES ASSUME IInv, [Next]_vars
               PROVE  Promised!Next \/ HeldNow' = HeldNow
    OBVIOUS
  <2>1. ASSUME NEW t \in Tx, Call(t) \/ Wait(t) \/ Wake(t) \/ GiveUp(t)
        PROVE  HeldNow' = HeldNow
    <3>1. t = mutex => pc[t] \notin Granted
      BY DEF IInv, MutexConsistent, Granted
    <3> QED
      BY <2>1, <3>1, CallingHolds, HeldSame DEF IInv
  <2>2. ASSUME NEW t \in Tx, EnterShared(t) \/ EnterExclusive(t) \/ Clear(t)
        PROVE  HeldNow' = HeldNow
    BY <2>2, EnterHolds, ClearHolds, HeldSame DEF IInv
  <2>3. CASE UNCHANGED vars
    BY <2>3 DEF vars, HeldNow, Holds
  <2> QED
    BY <2>1, <2>2, <2>3, GrantSharedTakes, GrantExclusiveUpgrades, UnlockDrops
       DEF Next, Run
<1>3. [][Promised!Next]_(HeldNow) <=> [][Promised!Next]_([t \in Tx |-> [b \in Block |-> Holds(t, b)]])
  BY PTL DEF HeldNow
<1> QED
  BY <1>1, <1>2, <1>3, Invariance, PTL DEF Spec, ImplementsBlockLocks, Promised!Spec
=============================================================================
