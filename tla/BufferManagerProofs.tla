------------------------- MODULE BufferManagerProofs -------------------------
(***************************************************************************)
(* Proofs about BufferManager, for any number of transactions, blocks and  *)
(* buffers.                                                                *)
(***************************************************************************)
EXTENDS BufferManager, FiniteSetTheorems, TLAPS

\* The pins of the transactions on buffer i, as PinsCounted sums them.
PinsAt(i) == [t \in Tx |-> PinsOn(t, i)]

\* Whoever is inside pin holds the mutex of the pool and has a block in mind.
MutexConsistent ==
  \A t \in Tx : /\ mutex = t <=> pc[t] # "idle"
                /\ pc[t] # "idle" => block[t] \in Block

\* What NothingLost says of a block, by the one buffer that may have it.
CopiesHold ==
  /\ \A i \in Buffer : buffers[i].block # None =>
       /\ buffers[i].page = latest[buffers[i].block]
       /\ buffers[i].modifying = None => buffers[i].page = disk[buffers[i].block]
  /\ \A b \in Block : Existing(b) = {} => disk[b] = latest[b]

\* There are finitely many pins to count.
PinsFinite == \A i \in Buffer : IsFiniteSet(PinSet(PinsAt(i)))

\* The inductive invariant: what concerns the pool, and what concerns a call.
PoolInv ==
  OneCopy /\ IndexIsFresh /\ PinsFinite /\ PinsCounted /\ AvailablesCounted /\ CopiesHold

IInv == TypeOK /\ MutexConsistent /\ WaitIsFutile /\ PoolInv

-----------------------------------------------------------------------------
\* Min of a set of natural numbers is one of them.
LEMMA MinIsMember ==
  ASSUME NEW S, S \subseteq Nat, S # {}
  PROVE  Min(S) \in S
<1>1. IsWellFoundedOn(OpToRel(<, Nat), Nat)
  BY NatLessThanWellFounded
<1>2. PICK x \in S : \A y \in S : ~ (<<y, x>> \in OpToRel(<, Nat))
  BY <1>1, WFMin
<1>3. \A y \in S : x =< y
  <2> TAKE y \in S
  <2>1. <<y, x>> \in OpToRel(<, Nat) <=> y < x
    BY DEF OpToRel
  <2>2. x \in Nat /\ y \in Nat /\ ~ (y < x)
    BY <1>2, <2>1
  <2> QED
    BY <2>2
<1> QED
  BY <1>2, <1>3 DEF Min

-----------------------------------------------------------------------------
(* Sums by counting.                                                       *)

LEMMA InPinSet ==
  \A f, x : x \in PinSet(f) <=> \E t \in Tx : \E n \in 1..f[t] : x = <<t, n>>
BY DEF PinSet

\* Nothing is counted if everybody has zero.
LEMMA TotalOfZeros ==
  ASSUME NEW f \in [Tx -> Nat], \A t \in Tx : f[t] = 0
  PROVE  PinSet(f) = {} /\ IsFiniteSet(PinSet(f)) /\ Total(f) = 0
<1>1. PinSet(f) = {}
  <2> SUFFICES ASSUME NEW x \in PinSet(f) PROVE FALSE
    OBVIOUS
  <2>1. PICK t \in Tx : \E n \in 1..f[t] : x = <<t, n>>
    BY InPinSet
  <2> QED
    BY <2>1
<1> QED
  BY <1>1, FS_EmptySet DEF Total

\* One more for t is one more in the sum.
LEMMA TotalOfOneMore ==
  ASSUME NEW f \in [Tx -> Nat], NEW t \in Tx, IsFiniteSet(PinSet(f)),
         NEW g \in [Tx -> Nat], \A u \in Tx : g[u] = IF u = t THEN f[t] + 1 ELSE f[u]
  PROVE  IsFiniteSet(PinSet(g)) /\ Total(g) = Total(f) + 1
<1> DEFINE pin == <<t, f[t] + 1>>
<1>1. pin \notin PinSet(f)
  BY InPinSet
<1>2. PinSet(g) = PinSet(f) \cup {pin}
  <2>1. \A u \in Tx, n \in Nat : n \in 1..g[u] <=> n \in 1..f[u] \/ <<u, n>> = pin
    OBVIOUS
  <2>2. ASSUME NEW y PROVE y \in PinSet(g) <=> y \in PinSet(f) \cup {pin}
    <3>1. y \in PinSet(g) <=> \E u \in Tx : \E n \in 1..g[u] : y = <<u, n>>
      BY InPinSet
    <3>2. y \in PinSet(f) <=> \E u \in Tx : \E n \in 1..f[u] : y = <<u, n>>
      BY InPinSet
    <3> QED
      BY <2>1, <3>1, <3>2
  <2> QED
    BY <2>2
<1> HIDE DEF pin
<1>3. /\ IsFiniteSet(PinSet(f) \cup {pin})
      /\ Cardinality(PinSet(f) \cup {pin}) = Cardinality(PinSet(f)) + 1
  BY <1>1, FS_AddElement
<1> QED
  BY <1>2, <1>3 DEF Total

\* What one transaction has is a part of the sum, and goes with it.
LEMMA TotalWithout ==
  ASSUME NEW f \in [Tx -> Nat], NEW t \in Tx, IsFiniteSet(PinSet(f)),
         NEW g \in [Tx -> Nat], NEW k \in 0..f[t],
         \A u \in Tx : g[u] = IF u = t THEN k ELSE f[u]
  PROVE  /\ IsFiniteSet(PinSet(g))
         /\ Total(f) \in Nat /\ Total(g) \in Nat
         /\ Total(g) = Total(f) - (f[t] - k)
<1> DEFINE D == {t} \X (k+1..f[t])
<1>1. IsFiniteSet(D) /\ Cardinality(D) = f[t] - k
  <2>1. f[t] \in Nat /\ k \in Nat /\ k =< f[t]
    OBVIOUS
  <2> DEFINE m == k + 1
             n == f[t]
             I == m..n
  <2>2. m \in Int /\ n \in Int
    BY <2>1
  <2>3. IsFiniteSet(I) /\ Cardinality(I) = IF m > n THEN 0 ELSE n - m + 1
    <3> HIDE DEF m, n
    <3> QED
      BY <2>2, FS_Interval
  <2>4. Cardinality(I) = f[t] - k
    BY <2>1, <2>3
  <2>5. IsFiniteSet({t}) /\ Cardinality({t}) = 1
    BY FS_Singleton
  <2>6. IsFiniteSet({t} \X I) /\ Cardinality({t} \X I) = 1 * Cardinality(I)
    <3> HIDE DEF I
    <3> QED
      BY <2>3, <2>5, FS_Product
  <2> QED
    BY <2>1, <2>4, <2>6
<1>2. \A y : y \in D <=> \E n \in k+1..f[t] : y = <<t, n>>
  OBVIOUS
<1>3. PinSet(f) = PinSet(g) \cup D /\ PinSet(g) \cap D = {}
  <2>1. \A u \in Tx, n \in Nat :
          /\ n \in 1..f[u] <=> n \in 1..g[u] \/ (u = t /\ n \in k+1..f[t])
          /\ ~ (n \in 1..g[u] /\ u = t /\ n \in k+1..f[t])
    OBVIOUS
  <2>2. ASSUME NEW y
        PROVE  /\ y \in PinSet(f) <=> y \in PinSet(g) \/ y \in D
               /\ ~ (y \in PinSet(g) /\ y \in D)
    <3>1. y \in PinSet(g) <=> \E u \in Tx : \E n \in 1..g[u] : y = <<u, n>>
      BY InPinSet
    <3>2. y \in PinSet(f) <=> \E u \in Tx : \E n \in 1..f[u] : y = <<u, n>>
      BY InPinSet
    <3> HIDE DEF D
    <3> QED
      BY <1>2, <2>1, <3>1, <3>2
  <2> QED
    BY <2>2
<1>4. IsFiniteSet(PinSet(g))
  <2>1. PinSet(g) \in SUBSET PinSet(f)
    BY <1>3
  <2> QED
    BY <2>1, FS_Subset
<1> HIDE DEF D
<1>5. Total(f) = Total(g) + Cardinality(D) - Cardinality(PinSet(g) \cap D)
  BY <1>1, <1>3, <1>4, FS_Union DEF Total
<1>6. Cardinality(PinSet(g) \cap D) = 0
  BY <1>3, FS_EmptySet
<1>7. Total(f) \in Nat /\ Total(g) \in Nat
  BY <1>4, FS_CardinalityType DEF Total
<1> QED
  BY <1>1, <1>4, <1>5, <1>6, <1>7

-----------------------------------------------------------------------------
(* The pins of a buffer.                                                   *)

LEMMA PinsAtType ==
  ASSUME TypeOK, NEW i \in Buffer
  PROVE  PinsAt(i) \in [Tx -> Nat] /\ \A t \in Tx : PinsAt(i)[t] = PinsOn(t, i)
BY DEF TypeOK, BufferRecord, PinsAt, PinsOn

\* A buffer has at least the pins of each transaction on its block, and it
\* has none if no transaction has.
LEMMA PinsBounded ==
  ASSUME TypeOK, PinsFinite, PinsCounted, NEW i \in Buffer
  PROVE  /\ \A t \in Tx : PinsOn(t, i) \in Nat /\ PinsOn(t, i) =< buffers[i].pins
         /\ (\A t \in Tx : PinsOn(t, i) = 0) => buffers[i].pins = 0
<1> DEFINE f == PinsAt(i)
<1>1. f \in [Tx -> Nat] /\ \A t \in Tx : f[t] = PinsOn(t, i)
  BY PinsAtType
<1>2. IsFiniteSet(PinSet(f)) /\ buffers[i].pins = Total(f)
  BY DEF PinsFinite, PinsCounted, PinsAt
<1> HIDE DEF f
<1>3. ASSUME NEW t \in Tx PROVE PinsOn(t, i) \in Nat /\ PinsOn(t, i) =< buffers[i].pins
  <2> DEFINE g == [f EXCEPT ![t] = 0]
  <2>1. g \in [Tx -> Nat] /\ \A u \in Tx : g[u] = IF u = t THEN 0 ELSE f[u]
    BY <1>1
  <2> HIDE DEF g
  <2>2. f[t] \in Nat /\ 0 \in 0..f[t]
    BY <1>1
  <2>3. Total(f) \in Nat /\ Total(g) \in Nat /\ Total(g) = Total(f) - (f[t] - 0)
    BY <1>1, <1>2, <2>1, <2>2, TotalWithout
  <2> QED
    BY <1>1, <1>2, <2>2, <2>3
<1>4. (\A t \in Tx : PinsOn(t, i) = 0) => buffers[i].pins = 0
  BY <1>1, <1>2, TotalOfZeros
<1> QED
  BY <1>3, <1>4

\* A block that is pinned is in the buffer that the transaction remembers.
LEMMA PinnedIsThere ==
  ASSUME TypeOK, PoolInv, NEW t \in Tx, NEW b \in Block, pinned[t][b] > 0
  PROVE  /\ map[t][b] \in Buffer
         /\ buffers[map[t][b]].block = b
         /\ PinsOn(t, map[t][b]) = pinned[t][b]
         /\ buffers[map[t][b]].pins \in Nat
         /\ pinned[t][b] =< buffers[map[t][b]].pins
<1>1. map[t][b] \in Buffer /\ buffers[map[t][b]].block = b
  BY DEF PoolInv, IndexIsFresh
<1>2. PinsOn(t, map[t][b]) = pinned[t][b]
  BY <1>1, BufferManagerAssumption DEF PinsOn
<1>3. buffers[map[t][b]].pins \in Nat
  BY <1>1 DEF TypeOK, BufferRecord
<1> QED
  BY <1>1, <1>2, <1>3, PinsBounded DEF PoolInv

\* A buffer that nobody has pinned has a block that nobody has pinned.
LEMMA UnpinnedIsFree ==
  ASSUME TypeOK, PoolInv, NEW i \in Unpinned
  PROVE  \A t \in Tx : PinsOn(t, i) = 0
<1>1. i \in Buffer /\ buffers[i].pins \in Nat /\ ~ (buffers[i].pins > 0)
  BY DEF Unpinned, is_pinned, TypeOK, BufferRecord
<1>2. \A t \in Tx : PinsOn(t, i) \in Nat /\ PinsOn(t, i) =< buffers[i].pins
  BY <1>1, PinsBounded DEF PoolInv
<1> QED
  BY <1>1, <1>2

\* The sum for a buffer whose pins and whose block's pins do not change.
LEMMA SamePins ==
  ASSUME NEW i \in Buffer, buffers'[i].pins = buffers[i].pins,
         \A t \in Tx : PinsOn(t, i)' = PinsOn(t, i),
         IsFiniteSet(PinSet(PinsAt(i))),
         buffers[i].pins = Total(PinsAt(i))
  PROVE  /\ IsFiniteSet(PinSet(PinsAt(i)))'
         /\ (buffers[i].pins = Total(PinsAt(i)))'
<1>1. PinsAt(i)' = PinsAt(i)
  BY DEF PinsAt
<1> QED
  BY <1>1 DEF PinSet, Total

LEMMA UnpinnedFinite == IsFiniteSet(Unpinned) /\ Cardinality(Unpinned) \in Nat
<1>1. Unpinned \in SUBSET Buffer
  BY DEF Unpinned
<1> QED
  BY <1>1, FS_Subset, FS_CardinalityType, BufferManagerAssumption

-----------------------------------------------------------------------------
LEMMA InitIInv == Init => IInv
<1> SUFFICES ASSUME Init PROVE IInv
  OBVIOUS
<1> USE BufferManagerAssumption
<1>1. PICK v \in Value :
        buffers = [i \in Buffer |-> [block |-> None, pins |-> 0, modifying |-> None, page |-> v]]
  BY DEF Init
<1>2. TypeOK
  <2>1. Cardinality(Buffer) \in Nat
    BY FS_CardinalityType
  <2> QED
    BY <1>1, <2>1 DEF Init, TypeOK, BufferRecord
<1>3. MutexConsistent /\ WaitIsFutile
  BY DEF Init, MutexConsistent, WaitIsFutile
<1>4. OneCopy /\ IndexIsFresh
  BY <1>1 DEF Init, OneCopy, IndexIsFresh
<1>5. PinsFinite /\ PinsCounted
  <2> SUFFICES ASSUME NEW i \in Buffer
               PROVE  IsFiniteSet(PinSet(PinsAt(i))) /\ buffers[i].pins = Total(PinsAt(i))
    BY DEF PinsFinite, PinsCounted, PinsAt
  <2>1. PinsAt(i) \in [Tx -> Nat] /\ \A t \in Tx : PinsAt(i)[t] = 0
    BY <1>1 DEF PinsAt, PinsOn
  <2> QED
    BY <1>1, <2>1, TotalOfZeros
<1>6. AvailablesCounted
  <2>1. Unpinned = Buffer
    BY <1>1 DEF Unpinned, is_pinned
  <2> QED
    BY <2>1 DEF Init, AvailablesCounted
<1>7. CopiesHold
  BY <1>1 DEF Init, CopiesHold
<1> QED
  BY <1>2, <1>3, <1>4, <1>5, <1>6, <1>7 DEF IInv, PoolInv

LEMMA SameBlocks ==
  ASSUME OneCopy, \A i \in Buffer : buffers'[i].block = buffers[i].block
  PROVE  OneCopy'
BY DEF OneCopy

\* A step that leaves the blocks and the pins as they are.
LEMMA SameCounts ==
  ASSUME PinsFinite, PinsCounted, pinned' = pinned,
         \A i \in Buffer : /\ buffers'[i].pins = buffers[i].pins
                           /\ buffers'[i].block = buffers[i].block
  PROVE  PinsFinite' /\ PinsCounted' /\ Unpinned' = Unpinned
<1>1. Unpinned' = Unpinned
  BY DEF Unpinned, is_pinned
<1>2. PinsFinite' /\ PinsCounted'
  <2> SUFFICES ASSUME NEW i \in Buffer
               PROVE  IsFiniteSet(PinSet(PinsAt(i)))' /\ (buffers[i].pins = Total(PinsAt(i)))'
    BY DEF PinsFinite, PinsCounted, PinsAt
  <2>1. \A t \in Tx : PinsOn(t, i)' = PinsOn(t, i)
    BY DEF PinsOn
  <2>2. IsFiniteSet(PinSet(PinsAt(i))) /\ buffers[i].pins = Total(PinsAt(i))
    BY DEF PinsFinite, PinsCounted, PinsAt
  <2> QED
    BY <2>1, <2>2, SamePins
<1> QED
  BY <1>1, <1>2

\* A step that leaves the pool as it is.
LEMMA SamePool ==
  ASSUME PoolInv, UNCHANGED <<buffers, num_availables, map, pinned, disk, latest>>
  PROVE  PoolInv'
<1>1. OneCopy' /\ IndexIsFresh' /\ CopiesHold'
  BY DEF PoolInv, OneCopy, IndexIsFresh, CopiesHold, Existing
<1>2. PinsFinite' /\ PinsCounted' /\ Unpinned' = Unpinned
  BY SameCounts DEF PoolInv
<1> QED
  BY <1>1, <1>2 DEF PoolInv, AvailablesCounted

LEMMA UnpinnedFiniteNext == IsFiniteSet(Unpinned') /\ Cardinality(Unpinned') \in Nat
<1>1. Unpinned' \in SUBSET Buffer
  BY DEF Unpinned
<1> QED
  BY <1>1, FS_Subset, FS_CardinalityType, BufferManagerAssumption

-----------------------------------------------------------------------------
(* The calls that leave the pool as it is.                                 *)

\* A call by an idle thread that finds the mutex free finds nobody inside pin.
LEMMA QuietCall ==
  ASSUME MutexConsistent, mutex = None, UNCHANGED <<mutex, pc, block>>
  PROVE  MutexConsistent' /\ WaitIsFutile'
BY BufferManagerAssumption DEF MutexConsistent, WaitIsFutile

\* A thread that leaves pin lets go of the mutex, and was alone inside.
LEMMA LeavePin ==
  ASSUME TypeOK, MutexConsistent, NEW t \in Tx, pc[t] # "idle", mutex' = None,
         pc' = [pc EXCEPT ![t] = "idle"], block' = [block EXCEPT ![t] = None]
  PROVE  /\ mutex' \in Tx \cup {None}
         /\ pc' \in [Tx -> {"idle", "pin", "wait"}]
         /\ block' \in [Tx -> Block \cup {None}]
         /\ MutexConsistent' /\ WaitIsFutile'
<1>1. mutex = t
  BY DEF MutexConsistent
<1>2. \A u \in Tx : u # t => pc[u] = "idle"
  BY <1>1 DEF MutexConsistent
<1>3. \A u \in Tx : pc'[u] = "idle"
  BY <1>2 DEF TypeOK
<1> QED
  BY <1>3, BufferManagerAssumption DEF TypeOK, MutexConsistent, WaitIsFutile

LEMMA CallPinStep ==
  ASSUME IInv, NEW t \in Tx, NEW b \in Block, CallPin(t, b)
  PROVE  IInv'
<1>1. \A u \in Tx : pc[u] = "idle"
  BY BufferManagerAssumption DEF IInv, MutexConsistent, CallPin
<1>2. TypeOK'
  BY DEF IInv, TypeOK, CallPin
<1>3. MutexConsistent' /\ WaitIsFutile'
  BY <1>1 DEF IInv, TypeOK, CallPin, MutexConsistent, WaitIsFutile
<1>4. PoolInv'
  BY SamePool DEF IInv, CallPin
<1> QED
  BY <1>2, <1>3, <1>4 DEF IInv

LEMMA WaitStep ==
  ASSUME IInv, NEW t \in Tx, Wait(t)
  PROVE  IInv'
<1>1. mutex = t /\ \A u \in Tx : u # t => pc[u] = "idle"
  BY DEF IInv, MutexConsistent, Wait
<1>2. TypeOK'
  BY DEF IInv, TypeOK, Wait
<1>3. MutexConsistent' /\ WaitIsFutile'
  BY <1>1 DEF IInv, TypeOK, Wait, MutexConsistent, WaitIsFutile, Existing, Unpinned, is_pinned
<1>4. PoolInv'
  BY SamePool DEF IInv, Wait
<1> QED
  BY <1>2, <1>3, <1>4 DEF IInv

LEMMA WakeStep ==
  ASSUME IInv, NEW t \in Tx, Wake(t)
  PROVE  IInv'
<1>1. mutex = t /\ \A u \in Tx : u # t => pc[u] = "idle"
  BY DEF IInv, MutexConsistent, Wake
<1>2. TypeOK'
  BY DEF IInv, TypeOK, Wake
<1>3. MutexConsistent' /\ WaitIsFutile'
  BY <1>1 DEF IInv, TypeOK, Wake, MutexConsistent, WaitIsFutile
<1>4. PoolInv'
  BY SamePool DEF IInv, Wake
<1> QED
  BY <1>2, <1>3, <1>4 DEF IInv

LEMMA GiveUpStep ==
  ASSUME IInv, NEW t \in Tx, GiveUp(t)
  PROVE  IInv'
<1>1. /\ mutex' \in Tx \cup {None}
      /\ pc' \in [Tx -> {"idle", "pin", "wait"}]
      /\ block' \in [Tx -> Block \cup {None}]
      /\ MutexConsistent' /\ WaitIsFutile'
  BY LeavePin DEF IInv, GiveUp
<1>2. TypeOK'
  BY <1>1 DEF IInv, TypeOK, GiveUp
<1>3. PoolInv'
  BY SamePool DEF IInv, GiveUp
<1> QED
  BY <1>1, <1>2, <1>3 DEF IInv

-----------------------------------------------------------------------------
(* Pins.                                                                   *)

\* A transaction gets one more pin on the block of buffer i, which is counted
\* in the buffer; the block of the others is another, and they stay.
LEMMA OnePinMore ==
  ASSUME NEW i \in Buffer, NEW t \in Tx, TypeOK,
         IsFiniteSet(PinSet(PinsAt(i))), buffers[i].pins = Total(PinsAt(i)),
         \A u \in Tx : PinsOn(u, i)' = IF u = t THEN PinsOn(u, i) + 1 ELSE PinsOn(u, i),
         buffers'[i].pins = buffers[i].pins + 1
  PROVE  /\ IsFiniteSet(PinSet(PinsAt(i)))'
         /\ (buffers[i].pins = Total(PinsAt(i)))'
<1> DEFINE f == PinsAt(i)
           g == [u \in Tx |-> PinsOn(u, i)']
<1>1. f \in [Tx -> Nat] /\ \A u \in Tx : f[u] = PinsOn(u, i)
  BY PinsAtType
<1>2. PinsAt(i)' = g
  BY DEF PinsAt
<1>3. \A u \in Tx : g[u] = IF u = t THEN f[t] + 1 ELSE f[u]
  BY <1>1
<1>4. g \in [Tx -> Nat]
  BY <1>1, <1>3
<1> HIDE DEF f, g
<1>5. IsFiniteSet(PinSet(g)) /\ Total(g) = Total(f) + 1
  <2>1. IsFiniteSet(PinSet(f))
    BY DEF f
  <2> QED
    BY <2>1, <1>1, <1>3, <1>4, TotalOfOneMore
<1>6. buffers[i].pins = Total(f)
  BY DEF f
<1>7. PinSet(PinsAt(i))' = PinSet(g) /\ Total(PinsAt(i))' = Total(g)
  BY <1>2 DEF PinSet, Total
<1> QED
  BY <1>5, <1>6, <1>7

LEMMA PinExistingStep ==
  ASSUME IInv, NEW t \in Tx, PinExisting(t)
  PROVE  IInv'
<1>1. PICK b \in Block : b = block[t]
  BY DEF PinExisting, IInv, MutexConsistent
<1>2. PICK i \in Buffer : i = Min(Existing(b)) /\ buffers[i].block = b
  <2>1. Existing(b) \subseteq Nat /\ Existing(b) # {}
    BY <1>1, BufferManagerAssumption DEF PinExisting, Existing
  <2>2. Min(Existing(b)) \in Existing(b)
    BY <2>1, MinIsMember
  <2> QED
    BY <2>2 DEF Existing
<1>3. /\ pc[t] = "pin"
      /\ buffers' = [buffers EXCEPT ![i].pins = @ + 1]
      /\ map' = [map EXCEPT ![t][b] = i]
      /\ pinned' = [pinned EXCEPT ![t][b] = @ + 1]
      /\ num_availables' = IF is_pinned(i) THEN num_availables ELSE num_availables - 1
      /\ mutex' = None
      /\ pc' = [pc EXCEPT ![t] = "idle"]
      /\ block' = [block EXCEPT ![t] = None]
      /\ latest' = latest /\ disk' = disk
  BY <1>1, <1>2 DEF PinExisting, Pinned
<1> USE BufferManagerAssumption
<1>4. /\ TypeOK /\ PoolInv /\ MutexConsistent
  BY DEF IInv
<1>5. /\ \A j \in Buffer : j # i => buffers'[j] = buffers[j]
      /\ \A j \in Buffer : /\ buffers'[j].block = buffers[j].block
                           /\ buffers'[j].page = buffers[j].page
                           /\ buffers'[j].modifying = buffers[j].modifying
      /\ buffers[i].pins \in Nat /\ buffers'[i].pins = buffers[i].pins + 1
      /\ buffers' \in [Buffer -> BufferRecord]
  <2>1. buffers \in [Buffer -> BufferRecord] /\ buffers[i] \in BufferRecord
    BY <1>2, <1>4 DEF TypeOK
  <2>2. buffers[i].pins \in Nat
    BY <2>1 DEF BufferRecord
  <2>3. /\ buffers'[i] = [buffers[i] EXCEPT !.pins = @ + 1]
        /\ \A j \in Buffer : j # i => buffers'[j] = buffers[j]
    BY <1>2, <1>3, <2>1
  <2>4. /\ buffers'[i].block = buffers[i].block /\ buffers'[i].page = buffers[i].page
        /\ buffers'[i].modifying = buffers[i].modifying
        /\ buffers'[i].pins = buffers[i].pins + 1
        /\ buffers'[i] \in BufferRecord
    BY <2>1, <2>2, <2>3 DEF BufferRecord
  <2>5. buffers' \in [Buffer -> BufferRecord]
    BY <1>2, <1>3, <2>1, <2>3, <2>4
  <2> QED
    BY <2>2, <2>3, <2>4, <2>5
<1>6. \A u \in Tx, c \in Block :
        /\ pinned[u][c] \in Nat
        /\ pinned'[u][c] = IF u = t /\ c = b THEN pinned[u][c] + 1 ELSE pinned[u][c]
        /\ map'[u][c] = IF u = t /\ c = b THEN i ELSE map[u][c]
  BY <1>1, <1>3, <1>4 DEF TypeOK
<1>7. AvailablesCounted'
  <2>1. IsFiniteSet(Unpinned) /\ num_availables = Cardinality(Unpinned)
    BY <1>4, UnpinnedFinite DEF PoolInv, AvailablesCounted
  <2>2. CASE is_pinned(i)
    <3>1. ASSUME NEW j \in Buffer PROVE is_pinned(j)' <=> is_pinned(j)
      <4>1. CASE j = i
        <5>1. buffers[j].pins > 0
          BY <2>2, <4>1 DEF is_pinned
        <5>2. buffers'[j].pins > 0
          BY <1>5, <4>1
        <5> QED
          BY <5>1, <5>2 DEF is_pinned
      <4>2. CASE j # i
        BY <1>5, <4>2 DEF is_pinned
      <4> QED
        BY <4>1, <4>2
    <3>2. Unpinned' = Unpinned
      BY <3>1 DEF Unpinned
    <3> QED
      BY <1>3, <2>1, <2>2, <3>2 DEF AvailablesCounted
  <2>3. CASE ~ is_pinned(i)
    <3>0. ASSUME NEW j \in Buffer PROVE is_pinned(j)' <=> is_pinned(j) \/ j = i
      <4>1. CASE j = i
        <5>2. buffers'[j].pins > 0
          BY <1>5, <4>1
        <5> QED
          BY <5>2, <4>1 DEF is_pinned
      <4>2. CASE j # i
        BY <1>5, <4>2 DEF is_pinned
      <4> QED
        BY <4>1, <4>2
    <3>1. Unpinned' = Unpinned \ {i} /\ i \in Unpinned
      BY <1>2, <2>3, <3>0 DEF Unpinned
    <3>2. Cardinality(Unpinned \ {i}) = Cardinality(Unpinned) - 1
      BY <2>1, <3>1, FS_RemoveElement
    <3> QED
      BY <1>3, <2>1, <2>3, <3>1, <3>2 DEF AvailablesCounted
  <2> QED
    BY <2>2, <2>3
<1>8. PinsFinite' /\ PinsCounted'
  <2> SUFFICES ASSUME NEW j \in Buffer
               PROVE  IsFiniteSet(PinSet(PinsAt(j)))' /\ (buffers[j].pins = Total(PinsAt(j)))'
    BY DEF PinsFinite, PinsCounted, PinsAt
  <2>1. IsFiniteSet(PinSet(PinsAt(j))) /\ buffers[j].pins = Total(PinsAt(j))
    BY <1>4 DEF PoolInv, PinsFinite, PinsCounted, PinsAt
  <2>2. CASE j = i
    <3>1. \A u \in Tx : PinsOn(u, i)' = IF u = t THEN PinsOn(u, i) + 1 ELSE PinsOn(u, i)
      BY <1>1, <1>2, <1>5, <1>6 DEF PinsOn
    <3>2. IsFiniteSet(PinSet(PinsAt(i))) /\ buffers[i].pins = Total(PinsAt(i))
      BY <2>1, <2>2
    <3>3. IsFiniteSet(PinSet(PinsAt(i)))' /\ (buffers[i].pins = Total(PinsAt(i)))'
      BY <1>2, <1>4, <1>5, <3>1, <3>2, OnePinMore
    <3>4. PinsAt(j)' = PinsAt(i)' /\ buffers'[j].pins = buffers'[i].pins
      BY <2>2 DEF PinsAt, PinsOn
    <3>5. PinSet(PinsAt(j))' = PinSet(PinsAt(i))' /\ Total(PinsAt(j))' = Total(PinsAt(i))'
      BY <3>4 DEF PinSet, Total
    <3> QED
      BY <3>3, <3>4, <3>5
  <2>3. CASE j # i
    <3>1. buffers[j].block # b
      BY <1>1, <1>2, <1>4, <2>3 DEF PoolInv, OneCopy
    <3>2. \A u \in Tx : PinsOn(u, j)' = PinsOn(u, j)
      <4>1. buffers[j].block \in Block \cup {None} /\ buffers'[j].block = buffers[j].block
        BY <1>4, <1>5 DEF TypeOK, BufferRecord
      <4> QED
        BY <1>6, <3>1, <4>1 DEF PinsOn
    <3>3. buffers'[j].pins = buffers[j].pins
      BY <1>5, <2>3
    <3> QED
      BY <2>1, <3>2, <3>3, SamePins
  <2> QED
    BY <2>2, <2>3
<1>9. OneCopy'
  BY <1>4, <1>5, SameBlocks DEF PoolInv
<1>10. IndexIsFresh'
  <2> SUFFICES ASSUME NEW u \in Tx, NEW c \in Block
               PROVE  IF pinned'[u][c] > 0
                      THEN map'[u][c] \in Buffer /\ buffers'[map'[u][c]].block = c
                      ELSE map'[u][c] = None
    BY DEF IndexIsFresh
  <2>1. IF pinned[u][c] > 0
        THEN map[u][c] \in Buffer /\ buffers[map[u][c]].block = c
        ELSE map[u][c] = None
    BY <1>4 DEF PoolInv, IndexIsFresh
  <2>2. CASE u = t /\ c = b
    BY <1>2, <1>5, <1>6, <2>2
  <2>3. CASE ~ (u = t /\ c = b)
    BY <1>5, <1>6, <2>1, <2>3
  <2> QED
    BY <2>2, <2>3
<1>11. CopiesHold'
  BY <1>3, <1>4, <1>5 DEF PoolInv, CopiesHold, Existing
<1>12. /\ mutex' \in Tx \cup {None}
       /\ pc' \in [Tx -> {"idle", "pin", "wait"}]
       /\ block' \in [Tx -> Block \cup {None}]
       /\ MutexConsistent' /\ WaitIsFutile'
  BY <1>3, <1>4, LeavePin
<1>13. TypeOK'
  <2>1. num_availables' \in Nat
    BY <1>7, UnpinnedFiniteNext DEF AvailablesCounted
  <2>2. map' \in [Tx -> [Block -> Buffer \cup {None}]] /\ pinned' \in [Tx -> [Block -> Nat]]
    BY <1>1, <1>2, <1>3, <1>4 DEF TypeOK
  <2> QED
    BY <1>3, <1>4, <1>5, <1>12, <2>1, <2>2 DEF TypeOK
<1> QED
  BY <1>7, <1>8, <1>9, <1>10, <1>11, <1>12, <1>13 DEF IInv, PoolInv

-----------------------------------------------------------------------------
(* A buffer changes its block.                                             *)

LEMMA PinUnpinnedStep ==
  ASSUME IInv, NEW t \in Tx, PinUnpinned(t)
  PROVE  IInv'
<1>1. PICK b \in Block : b = block[t]
  BY DEF PinUnpinned, IInv, MutexConsistent
<1>2. PICK i \in Unpinned : i = Min(Unpinned)
  <2>1. Unpinned \subseteq Nat /\ Unpinned # {}
    BY BufferManagerAssumption DEF PinUnpinned, Unpinned
  <2> QED
    BY <2>1, MinIsMember
<1>3. /\ pc[t] = "pin" /\ Existing(b) = {}
      /\ buffers' = [buffers EXCEPT ![i] = [block |-> b, pins |-> 1, modifying |-> None,
                                            page |-> disk[b]]]
      /\ disk' = flushed(i)
      /\ map' = [map EXCEPT ![t][b] = i]
      /\ pinned' = [pinned EXCEPT ![t][b] = @ + 1]
      /\ num_availables' = IF is_pinned(i) THEN num_availables ELSE num_availables - 1
      /\ mutex' = None
      /\ pc' = [pc EXCEPT ![t] = "idle"]
      /\ block' = [block EXCEPT ![t] = None]
      /\ latest' = latest
  BY <1>1, <1>2 DEF PinUnpinned, Pinned, assigned
<1> USE BufferManagerAssumption
<1>4. /\ TypeOK /\ PoolInv /\ MutexConsistent
      /\ i \in Buffer /\ ~ is_pinned(i)
  BY <1>2 DEF IInv, Unpinned
<1>5. /\ \A j \in Buffer : j # i => buffers'[j] = buffers[j]
      /\ buffers'[i].block = b /\ buffers'[i].pins = 1
      /\ buffers'[i].modifying = None /\ buffers'[i].page = disk[b]
  BY <1>3, <1>4 DEF TypeOK
<1>6. /\ disk \in [Block -> Value] /\ disk[b] \in Value
      /\ \A j \in Buffer : /\ buffers[j] \in BufferRecord
                           /\ buffers[j].block \in Block \cup {None}
                           /\ buffers[j].modifying \in Tx \cup {None}
                           /\ buffers[j].page \in Value
                           /\ buffers[j].block # b
  BY <1>3, <1>4 DEF TypeOK, BufferRecord, Existing
<1>7. \A u \in Tx, c \in Block :
        /\ pinned[u][c] \in Nat
        /\ pinned'[u][c] = IF u = t /\ c = b THEN pinned[u][c] + 1 ELSE pinned[u][c]
        /\ map'[u][c] = IF u = t /\ c = b THEN i ELSE map[u][c]
  BY <1>3, <1>4 DEF TypeOK
\* Nobody has pinned the new block, nor the old one.
<1>8. \A u \in Tx : pinned[u][b] = 0
  <2> SUFFICES ASSUME NEW u \in Tx, pinned[u][b] > 0 PROVE FALSE
    BY <1>7
  <2>1. map[u][b] \in Buffer /\ buffers[map[u][b]].block = b
    BY <1>4, PinnedIsThere
  <2> QED
    BY <1>6, <2>1
<1>9. \A u \in Tx : PinsOn(u, i) = 0
  BY <1>2, <1>4, UnpinnedIsFree
<1>10. AvailablesCounted'
  <2>1. IsFiniteSet(Unpinned) /\ num_availables = Cardinality(Unpinned)
    BY <1>4, UnpinnedFinite DEF PoolInv, AvailablesCounted
  <2>2. ~ is_pinned(i) /\ is_pinned(i)'
    BY <1>4, <1>5 DEF is_pinned
  <2>3. \A j \in Buffer : j # i => (is_pinned(j)' <=> is_pinned(j))
    BY <1>5 DEF is_pinned
  <2>4. Unpinned' = Unpinned \ {i}
    BY <1>4, <2>2, <2>3 DEF Unpinned
  <2>5. Cardinality(Unpinned \ {i}) = Cardinality(Unpinned) - 1
    BY <1>2, <2>1, FS_RemoveElement
  <2> QED
    BY <1>3, <1>4, <2>1, <2>4, <2>5 DEF AvailablesCounted
<1>11. PinsFinite' /\ PinsCounted'
  <2> SUFFICES ASSUME NEW j \in Buffer
               PROVE  IsFiniteSet(PinSet(PinsAt(j)))' /\ (buffers[j].pins = Total(PinsAt(j)))'
    BY DEF PinsFinite, PinsCounted, PinsAt
  <2>1. CASE j = i
    <3> DEFINE z == [u \in Tx |-> 0]
               g == [u \in Tx |-> IF u = t THEN 1 ELSE 0]
    <3>1. z \in [Tx -> Nat] /\ \A u \in Tx : z[u] = 0
      OBVIOUS
    <3>2. g \in [Tx -> Nat] /\ \A u \in Tx : g[u] = IF u = t THEN z[t] + 1 ELSE z[u]
      OBVIOUS
    <3>3. PinsAt(j)' = g
      <4>1. \A u \in Tx : PinsOn(u, j)' = IF u = t THEN 1 ELSE 0
        BY <1>5, <1>7, <1>8, <2>1 DEF PinsOn
      <4> QED
        BY <4>1 DEF PinsAt
    <3> HIDE DEF z, g
    <3>4. IsFiniteSet(PinSet(z)) /\ Total(z) = 0
      BY <3>1, TotalOfZeros
    <3>5. IsFiniteSet(PinSet(g)) /\ Total(g) = Total(z) + 1
      BY <3>1, <3>2, <3>4, TotalOfOneMore
    <3>6. PinSet(PinsAt(j))' = PinSet(g) /\ Total(PinsAt(j))' = Total(g)
      BY <3>3 DEF PinSet, Total
    <3> QED
      BY <1>5, <2>1, <3>4, <3>5, <3>6
  <2>2. CASE j # i
    <3>1. \A u \in Tx : PinsOn(u, j)' = PinsOn(u, j)
      BY <1>5, <1>6, <1>7, <2>2 DEF PinsOn
    <3>2. IsFiniteSet(PinSet(PinsAt(j))) /\ buffers[j].pins = Total(PinsAt(j))
      BY <1>4 DEF PoolInv, PinsFinite, PinsCounted, PinsAt
    <3>3. buffers'[j].pins = buffers[j].pins
      BY <1>5, <2>2
    <3> QED
      BY <3>1, <3>2, <3>3, SamePins
  <2> QED
    BY <2>1, <2>2
<1>12. OneCopy'
  <2> SUFFICES ASSUME NEW j \in Buffer, NEW k \in Buffer,
                      buffers'[j].block = buffers'[k].block, j # k
               PROVE  buffers'[j].block = None
    BY DEF OneCopy
  <2>1. j # i /\ k # i
    BY <1>5, <1>6
  <2> QED
    BY <1>4, <1>5, <2>1 DEF PoolInv, OneCopy
<1>13. IndexIsFresh'
  <2> SUFFICES ASSUME NEW u \in Tx, NEW c \in Block
               PROVE  IF pinned'[u][c] > 0
                      THEN map'[u][c] \in Buffer /\ buffers'[map'[u][c]].block = c
                      ELSE map'[u][c] = None
    BY DEF IndexIsFresh
  <2>1. CASE u = t /\ c = b
    BY <1>4, <1>5, <1>7, <2>1
  <2>2. CASE ~ (u = t /\ c = b) /\ pinned[u][c] > 0
    <3>1. /\ map[u][c] \in Buffer /\ buffers[map[u][c]].block = c
          /\ PinsOn(u, map[u][c]) = pinned[u][c]
      BY <1>4, <2>2, PinnedIsThere
    <3>2. map[u][c] # i
      BY <1>9, <2>2, <3>1
    <3> QED
      BY <1>5, <1>7, <2>2, <3>1, <3>2
  <2>3. CASE ~ (u = t /\ c = b) /\ ~ (pinned[u][c] > 0)
    BY <1>4, <1>7, <2>3 DEF PoolInv, IndexIsFresh
  <2> QED
    BY <2>1, <2>2, <2>3
\* The old block goes to the file if it was changed, the new one comes from it.
<1>14. /\ \A c \in Block : c # buffers[i].block => disk'[c] = disk[c]
       /\ buffers[i].block # None => disk'[buffers[i].block] = latest[buffers[i].block]
       /\ disk' \in [Block -> Value]
  BY <1>3, <1>4, <1>6 DEF flushed, PoolInv, CopiesHold
<1>15. CopiesHold'
  <2>1. ASSUME NEW j \in Buffer, buffers'[j].block # None
        PROVE  /\ buffers'[j].page = latest'[buffers'[j].block]
               /\ buffers'[j].modifying = None => buffers'[j].page = disk'[buffers'[j].block]
    <3>1. CASE j = i
      <4>1. disk[b] = latest[b]
        BY <1>3, <1>4 DEF PoolInv, CopiesHold
      <4>2. disk'[b] = disk[b]
        BY <1>4, <1>6, <1>14
      <4> QED
        BY <1>3, <1>5, <3>1, <4>1, <4>2
    <3>2. CASE j # i
      <4>1. buffers'[j] = buffers[j]
        BY <1>5, <3>2
      <4>2. buffers[j].block \in Block /\ buffers[j].block # buffers[i].block
        BY <1>4, <1>6, <2>1, <3>2, <4>1 DEF PoolInv, OneCopy
      <4>3. disk'[buffers[j].block] = disk[buffers[j].block]
        BY <1>14, <4>2
      <4> QED
        BY <1>3, <1>4, <2>1, <4>1, <4>3 DEF PoolInv, CopiesHold
    <3> QED
      BY <3>1, <3>2
  <2>2. ASSUME NEW c \in Block, Existing(c)' = {} PROVE disk'[c] = latest'[c]
    <3>1. CASE c = buffers[i].block
      BY <1>3, <1>14, <3>1
    <3>2. CASE c # buffers[i].block
      <4>1. Existing(c) = {}
        BY <1>5, <2>2, <3>2 DEF Existing
      <4> QED
        BY <1>3, <1>4, <1>14, <3>2, <4>1 DEF PoolInv, CopiesHold
    <3> QED
      BY <3>1, <3>2
  <2> QED
    BY <2>1, <2>2 DEF CopiesHold
<1>16. /\ mutex' \in Tx \cup {None}
       /\ pc' \in [Tx -> {"idle", "pin", "wait"}]
       /\ block' \in [Tx -> Block \cup {None}]
       /\ MutexConsistent' /\ WaitIsFutile'
  BY <1>3, <1>4, LeavePin
<1>17. TypeOK'
  <2>1. num_availables' \in Nat
    BY <1>10, UnpinnedFiniteNext DEF AvailablesCounted
  <2>2. map' \in [Tx -> [Block -> Buffer \cup {None}]] /\ pinned' \in [Tx -> [Block -> Nat]]
    BY <1>3, <1>4 DEF TypeOK
  <2>3. buffers' \in [Buffer -> BufferRecord]
    <3>1. [block |-> b, pins |-> 1, modifying |-> None, page |-> disk[b]] \in BufferRecord
      BY <1>6 DEF BufferRecord
    <3> QED
      BY <1>3, <1>4, <3>1 DEF TypeOK
  <2> QED
    BY <1>3, <1>4, <1>14, <1>16, <2>1, <2>2, <2>3 DEF TypeOK
<1> QED
  BY <1>10, <1>11, <1>12, <1>13, <1>15, <1>16, <1>17 DEF IInv, PoolInv

-----------------------------------------------------------------------------
(* Unpins.                                                                 *)

\* A transaction keeps k of its pins on the block of buffer i, and the buffer
\* counts down by the others.
LEMMA PinsLess ==
  ASSUME NEW i \in Buffer, NEW t \in Tx, TypeOK, PinsFinite, PinsCounted,
         NEW k \in 0..PinsOn(t, i),
         \A u \in Tx : PinsOn(u, i)' = IF u = t THEN k ELSE PinsOn(u, i),
         buffers'[i].pins = buffers[i].pins - (PinsOn(t, i) - k)
  PROVE  /\ IsFiniteSet(PinSet(PinsAt(i)))'
         /\ (buffers[i].pins = Total(PinsAt(i)))'
<1> DEFINE f == PinsAt(i)
           g == [u \in Tx |-> PinsOn(u, i)']
<1>1. f \in [Tx -> Nat] /\ \A u \in Tx : f[u] = PinsOn(u, i)
  BY PinsAtType
<1>2. PinsAt(i)' = g
  BY DEF PinsAt
<1>3. \A u \in Tx : g[u] = IF u = t THEN k ELSE f[u]
  BY <1>1
<1>4. g \in [Tx -> Nat] /\ k \in 0..f[t]
  BY <1>1, <1>3
<1>5. IsFiniteSet(PinSet(f)) /\ buffers[i].pins = Total(f)
  BY DEF PinsFinite, PinsCounted, PinsAt
<1> HIDE DEF f, g
<1>6. IsFiniteSet(PinSet(g)) /\ Total(g) = Total(f) - (f[t] - k)
  BY <1>1, <1>3, <1>4, <1>5, TotalWithout
<1>7. PinSet(PinsAt(i))' = PinSet(g) /\ Total(PinsAt(i))' = Total(g)
  BY <1>2 DEF PinSet, Total
<1> QED
  BY <1>1, <1>5, <1>6, <1>7

LEMMA UnpinStep ==
  ASSUME IInv, NEW t \in Tx, NEW b \in Block, Unpin(t, b)
  PROVE  IInv'
<1> USE BufferManagerAssumption
<1>1. TypeOK /\ PoolInv /\ MutexConsistent /\ mutex = None /\ pinned[t][b] > 0
  BY DEF IInv, Unpin
<1>2. PICK i \in Buffer : i = map[t][b]
  BY <1>1, PinnedIsThere
<1>3. /\ buffers[i].block = b /\ PinsOn(t, i) = pinned[t][b]
      /\ buffers[i].pins \in Nat /\ pinned[t][b] =< buffers[i].pins
  BY <1>1, <1>2, PinnedIsThere
<1>4. /\ buffers' = [buffers EXCEPT ![i].pins = @ - 1]
      /\ num_availables' = IF buffers[i].pins = 1 THEN num_availables + 1
                                                  ELSE num_availables
      /\ pinned' = [pinned EXCEPT ![t][b] = @ - 1]
      /\ map' = IF pinned[t][b] = 1 THEN [map EXCEPT ![t][b] = None] ELSE map
      /\ UNCHANGED <<mutex, disk, pc, block, latest>>
  BY <1>2 DEF Unpin
<1>5. /\ \A j \in Buffer : j # i => buffers'[j] = buffers[j]
      /\ \A j \in Buffer : /\ buffers'[j].block = buffers[j].block
                           /\ buffers'[j].page = buffers[j].page
                           /\ buffers'[j].modifying = buffers[j].modifying
      /\ buffers'[i].pins = buffers[i].pins - 1
      /\ buffers' \in [Buffer -> BufferRecord]
  <2>1. buffers \in [Buffer -> BufferRecord] /\ buffers[i] \in BufferRecord
    BY <1>1 DEF TypeOK
  <2>2. /\ buffers'[i] = [buffers[i] EXCEPT !.pins = @ - 1]
        /\ \A j \in Buffer : j # i => buffers'[j] = buffers[j]
    BY <1>4, <2>1
  <2>3. buffers[i].pins - 1 \in Nat
    BY <1>1, <1>3 DEF TypeOK
  <2>4. /\ buffers'[i].block = buffers[i].block /\ buffers'[i].page = buffers[i].page
        /\ buffers'[i].modifying = buffers[i].modifying
        /\ buffers'[i].pins = buffers[i].pins - 1
        /\ buffers'[i] \in BufferRecord
    BY <2>1, <2>2, <2>3 DEF BufferRecord
  <2>5. buffers' \in [Buffer -> BufferRecord]
    BY <1>4, <2>1, <2>2, <2>4
  <2> QED
    BY <2>2, <2>4, <2>5
<1>6. \A u \in Tx, c \in Block :
        /\ pinned[u][c] \in Nat
        /\ pinned'[u][c] = IF u = t /\ c = b THEN pinned[u][c] - 1 ELSE pinned[u][c]
        /\ map'[u][c] = IF u = t /\ c = b /\ pinned[t][b] = 1 THEN None ELSE map[u][c]
  BY <1>1, <1>4 DEF TypeOK
<1>7. AvailablesCounted'
  <2>1. IsFiniteSet(Unpinned) /\ num_availables = Cardinality(Unpinned)
    BY <1>1, UnpinnedFinite DEF PoolInv, AvailablesCounted
  <2>2. is_pinned(i)
    BY <1>1, <1>3, <1>6 DEF is_pinned
  <2>3. \A j \in Buffer : j # i => (is_pinned(j)' <=> is_pinned(j))
    BY <1>5 DEF is_pinned
  <2>4. CASE buffers[i].pins = 1
    <3>1. ~ is_pinned(i)'
      BY <1>5, <2>4 DEF is_pinned
    <3>2. Unpinned' = Unpinned \cup {i} /\ i \notin Unpinned
      BY <2>2, <2>3, <3>1 DEF Unpinned
    <3>3. Cardinality(Unpinned \cup {i}) = Cardinality(Unpinned) + 1
      BY <2>1, <3>2, FS_AddElement
    <3> QED
      BY <1>4, <2>1, <2>4, <3>2, <3>3 DEF AvailablesCounted
  <2>5. CASE buffers[i].pins # 1
    <3>1. buffers'[i].pins > 0
      BY <1>1, <1>3, <1>5, <1>6, <2>5
    <3>2. is_pinned(i)'
      BY <3>1 DEF is_pinned
    <3>3. Unpinned' = Unpinned
      BY <2>2, <2>3, <3>2 DEF Unpinned
    <3> QED
      BY <1>4, <2>1, <2>5, <3>3 DEF AvailablesCounted
  <2> QED
    BY <2>4, <2>5
<1>8. PinsFinite' /\ PinsCounted'
  <2> SUFFICES ASSUME NEW j \in Buffer
               PROVE  IsFiniteSet(PinSet(PinsAt(j)))' /\ (buffers[j].pins = Total(PinsAt(j)))'
    BY DEF PinsFinite, PinsCounted, PinsAt
  <2>1. CASE j = i
    <3>1. \A u \in Tx : PinsOn(u, j)' = IF u = t THEN PinsOn(t, j) - 1 ELSE PinsOn(u, j)
      BY <1>3, <1>5, <1>6, <2>1 DEF PinsOn
    <3>2. PICK k \in 0..PinsOn(t, j) : k = PinsOn(t, j) - 1
      BY <1>1, <1>3, <1>6, <2>1
    <3>3. buffers'[j].pins = buffers[j].pins - (PinsOn(t, j) - k)
      BY <1>3, <1>5, <1>6, <2>1, <3>2
    <3>4. \A u \in Tx : PinsOn(u, j)' = IF u = t THEN k ELSE PinsOn(u, j)
      BY <3>1, <3>2
    <3> QED
      BY <1>1, <3>2, <3>3, <3>4, PinsLess DEF PoolInv
  <2>2. CASE j # i
    <3>1. buffers[j].block # b
      BY <1>1, <1>3, <2>2 DEF PoolInv, OneCopy
    <3>2. \A u \in Tx : PinsOn(u, j)' = PinsOn(u, j)
      <4>1. buffers[j].block \in Block \cup {None} /\ buffers'[j].block = buffers[j].block
        BY <1>1, <1>5 DEF TypeOK, BufferRecord
      <4> QED
        BY <1>6, <3>1, <4>1 DEF PinsOn
    <3>3. buffers'[j].pins = buffers[j].pins
      BY <1>5, <2>2
    <3>4. IsFiniteSet(PinSet(PinsAt(j))) /\ buffers[j].pins = Total(PinsAt(j))
      BY <1>1 DEF PoolInv, PinsFinite, PinsCounted, PinsAt
    <3> QED
      BY <3>2, <3>3, <3>4, SamePins
  <2> QED
    BY <2>1, <2>2
<1>9. OneCopy'
  BY <1>1, <1>5, SameBlocks DEF PoolInv
<1>10. IndexIsFresh'
  <2> SUFFICES ASSUME NEW u \in Tx, NEW c \in Block
               PROVE  IF pinned'[u][c] > 0
                      THEN map'[u][c] \in Buffer /\ buffers'[map'[u][c]].block = c
                      ELSE map'[u][c] = None
    BY DEF IndexIsFresh
  <2>1. IF pinned[u][c] > 0
        THEN map[u][c] \in Buffer /\ buffers[map[u][c]].block = c
        ELSE map[u][c] = None
    BY <1>1 DEF PoolInv, IndexIsFresh
  <2>2. CASE u = t /\ c = b
    <3>1. /\ pinned[t][b] \in Nat /\ pinned[t][b] > 0
          /\ pinned'[t][b] = pinned[t][b] - 1
          /\ map'[t][b] = IF pinned[t][b] = 1 THEN None ELSE map[t][b]
      BY <1>1, <1>6
    <3>2. CASE pinned[t][b] = 1
      BY <2>2, <3>1, <3>2
    <3>3. CASE pinned[t][b] # 1
      <4>1. map'[t][b] = i
        BY <1>2, <3>1, <3>3
      <4> QED
        BY <1>3, <1>5, <2>2, <3>1, <3>3, <4>1
    <3> QED
      BY <3>2, <3>3
  <2>3. CASE ~ (u = t /\ c = b)
    BY <1>5, <1>6, <2>1, <2>3
  <2> QED
    BY <2>2, <2>3
<1>11. CopiesHold'
  BY <1>1, <1>4, <1>5 DEF PoolInv, CopiesHold, Existing
<1>12. MutexConsistent' /\ WaitIsFutile'
  BY <1>1, <1>4, QuietCall
<1>13. TypeOK'
  <2>1. num_availables' \in Nat
    BY <1>7, UnpinnedFiniteNext DEF AvailablesCounted
  <2>2. pinned' \in [Tx -> [Block -> Nat]]
    BY <1>1, <1>4 DEF TypeOK
  <2>3. map' \in [Tx -> [Block -> Buffer \cup {None}]]
    BY <1>1, <1>4 DEF TypeOK
  <2> QED
    BY <1>1, <1>4, <1>5, <2>1, <2>2, <2>3 DEF TypeOK
<1> QED
  BY <1>7, <1>8, <1>9, <1>10, <1>11, <1>12, <1>13 DEF IInv, PoolInv

LEMMA UnpinAllStep ==
  ASSUME IInv, NEW t \in Tx, UnpinAll(t)
  PROVE  IInv'
<1> USE BufferManagerAssumption
<1> DEFINE mine == {i \in Buffer : PinsOn(t, i) > 0}
           freed == {i \in mine : buffers[i].pins = PinsOn(t, i)}
<1>1. TypeOK /\ PoolInv /\ MutexConsistent /\ mutex = None
  BY DEF IInv, UnpinAll
<1>2. /\ buffers' = [i \in Buffer |->
                       IF i \in mine THEN [buffers[i] EXCEPT !.pins = @ - PinsOn(t, i)]
                                     ELSE buffers[i]]
      /\ num_availables' = num_availables + Cardinality(freed)
      /\ pinned' = [pinned EXCEPT ![t] = [b \in Block |-> 0]]
      /\ map' = [map EXCEPT ![t] = [b \in Block |-> None]]
      /\ UNCHANGED <<mutex, disk, pc, block, latest>>
  BY DEF UnpinAll
<1>3. \A i \in Buffer : /\ PinsOn(t, i) \in Nat /\ buffers[i].pins \in Nat
                        /\ PinsOn(t, i) =< buffers[i].pins
                        /\ buffers[i] \in BufferRecord
  BY <1>1, PinsBounded DEF PoolInv, TypeOK, BufferRecord
<1>4. ASSUME NEW i \in Buffer
      PROVE  /\ buffers'[i].block = buffers[i].block
             /\ buffers'[i].page = buffers[i].page
             /\ buffers'[i].modifying = buffers[i].modifying
             /\ buffers'[i].pins = buffers[i].pins - PinsOn(t, i)
             /\ buffers'[i] \in BufferRecord
  <2>1. CASE i \in mine
    <3>1. buffers'[i] = [buffers[i] EXCEPT !.pins = @ - PinsOn(t, i)]
      BY <1>2, <2>1
    <3>2. PICK n \in Nat : n = buffers[i].pins - PinsOn(t, i)
      <4>1. /\ PinsOn(t, i) \in Nat /\ buffers[i].pins \in Nat
            /\ PinsOn(t, i) =< buffers[i].pins
        BY <1>3
      <4> QED
        BY <4>1
    <3>3. buffers'[i] = [buffers[i] EXCEPT !.pins = n]
      BY <3>1, <3>2
    <3>4. buffers[i] \in BufferRecord
      BY <1>3
    <3> HIDE DEF mine, freed
    <3> QED
      BY <3>2, <3>3, <3>4 DEF BufferRecord
  <2>2. CASE i \notin mine
    <3>1. buffers'[i] = buffers[i]
      BY <1>2, <2>2
    <3>2. PinsOn(t, i) = 0 /\ buffers[i].pins \in Nat /\ buffers[i] \in BufferRecord
      <4>1. PinsOn(t, i) \in Nat /\ buffers[i].pins \in Nat /\ buffers[i] \in BufferRecord
        BY <1>3
      <4>2. ~ (PinsOn(t, i) > 0)
        BY <2>2
      <4> QED
        BY <4>1, <4>2
    <3>3. buffers[i].pins - PinsOn(t, i) = buffers[i].pins
      BY <3>2
    <3> QED
      BY <3>1, <3>2, <3>3
  <2> QED
    BY <2>1, <2>2
<1>5. \A u \in Tx, c \in Block :
        /\ pinned[u][c] \in Nat
        /\ pinned'[u][c] = IF u = t THEN 0 ELSE pinned[u][c]
        /\ map'[u][c] = IF u = t THEN None ELSE map[u][c]
  BY <1>1, <1>2 DEF TypeOK
<1>6. AvailablesCounted'
  <2>1. IsFiniteSet(Unpinned) /\ num_availables = Cardinality(Unpinned)
    BY <1>1, UnpinnedFinite DEF PoolInv, AvailablesCounted
  <2>2. \A i \in Buffer : ~ is_pinned(i)' <=> ~ is_pinned(i) \/ i \in freed
    <3> SUFFICES ASSUME NEW i \in Buffer
                 PROVE  ~ is_pinned(i)' <=> ~ is_pinned(i) \/ i \in freed
      OBVIOUS
    <3>1. buffers'[i].pins = buffers[i].pins - PinsOn(t, i)
      BY <1>4
    <3>2. /\ PinsOn(t, i) \in Nat /\ buffers[i].pins \in Nat
          /\ PinsOn(t, i) =< buffers[i].pins
      BY <1>3
    <3>3. i \in freed <=> PinsOn(t, i) > 0 /\ buffers[i].pins = PinsOn(t, i)
      OBVIOUS
    <3> HIDE DEF freed, mine
    <3>4. ~ (buffers'[i].pins > 0) <=> ~ (buffers[i].pins > 0) \/ i \in freed
      BY <3>1, <3>2, <3>3
    <3> QED
      BY <3>4 DEF is_pinned
  <2>3. Unpinned' = Unpinned \cup freed
    BY <2>2 DEF Unpinned
  <2>4. Unpinned \cap freed = {}
    BY <1>3 DEF Unpinned, is_pinned
  <2>5. IsFiniteSet(freed)
    <3>1. freed \in SUBSET Buffer
      OBVIOUS
    <3> QED
      BY <3>1, FS_Subset
  <2> HIDE DEF freed, mine
  <2>6. /\ Cardinality(freed) \in Nat /\ Cardinality(Unpinned) \in Nat
        /\ Cardinality(Unpinned \cap freed) = 0
    BY <2>1, <2>4, <2>5, FS_CardinalityType, FS_EmptySet
  <2>7. Cardinality(Unpinned \cup freed)
          = Cardinality(Unpinned) + Cardinality(freed) - Cardinality(Unpinned \cap freed)
    BY <2>1, <2>5, FS_Union
  <2> QED
    BY <1>2, <2>1, <2>3, <2>6, <2>7 DEF AvailablesCounted
<1> HIDE DEF freed, mine
<1>7. PinsFinite' /\ PinsCounted'
  <2> SUFFICES ASSUME NEW j \in Buffer
               PROVE  IsFiniteSet(PinSet(PinsAt(j)))' /\ (buffers[j].pins = Total(PinsAt(j)))'
    BY DEF PinsFinite, PinsCounted, PinsAt
  <2>1. \A u \in Tx : PinsOn(u, j)' = IF u = t THEN 0 ELSE PinsOn(u, j)
    BY <1>3, <1>4, <1>5 DEF PinsOn, BufferRecord
  <2>2. 0 \in 0..PinsOn(t, j) /\ buffers'[j].pins = buffers[j].pins - (PinsOn(t, j) - 0)
    <3>1. PinsOn(t, j) \in Nat /\ buffers[j].pins \in Nat
      BY <1>3
    <3>2. buffers'[j].pins = buffers[j].pins - PinsOn(t, j)
      BY <1>4
    <3> QED
      BY <3>1, <3>2
  <2> QED
    BY <1>1, <2>1, <2>2, PinsLess DEF PoolInv
<1>8. OneCopy'
  BY <1>1, <1>4, SameBlocks DEF PoolInv
<1>9. IndexIsFresh'
  <2> SUFFICES ASSUME NEW u \in Tx, NEW c \in Block
               PROVE  IF pinned'[u][c] > 0
                      THEN map'[u][c] \in Buffer /\ buffers'[map'[u][c]].block = c
                      ELSE map'[u][c] = None
    BY DEF IndexIsFresh
  <2>1. IF pinned[u][c] > 0
        THEN map[u][c] \in Buffer /\ buffers[map[u][c]].block = c
        ELSE map[u][c] = None
    BY <1>1 DEF PoolInv, IndexIsFresh
  <2>2. CASE u = t
    BY <1>5, <2>2
  <2>3. CASE u # t
    BY <1>4, <1>5, <2>1, <2>3
  <2> QED
    BY <2>2, <2>3
<1>10. CopiesHold'
  BY <1>1, <1>2, <1>4 DEF PoolInv, CopiesHold, Existing
<1>11. MutexConsistent' /\ WaitIsFutile'
  BY <1>1, <1>2, QuietCall
<1>12. TypeOK'
  <2>1. num_availables' \in Nat
    BY <1>6, UnpinnedFiniteNext DEF AvailablesCounted
  <2>2. map' \in [Tx -> [Block -> Buffer \cup {None}]] /\ pinned' \in [Tx -> [Block -> Nat]]
    BY <1>1, <1>2 DEF TypeOK
  <2>3. buffers' \in [Buffer -> BufferRecord]
    BY <1>2, <1>4
  <2> QED
    BY <1>1, <1>2, <2>1, <2>2, <2>3 DEF TypeOK
<1> QED
  BY <1>6, <1>7, <1>8, <1>9, <1>10, <1>11, <1>12 DEF IInv, PoolInv

-----------------------------------------------------------------------------
(* Changes and their way to the file.                                      *)

LEMMA WriteStep ==
  ASSUME IInv, NEW t \in Tx, NEW b \in Block, NEW v \in Value, Write(t, b, v)
  PROVE  IInv'
<1> USE BufferManagerAssumption
<1>1. TypeOK /\ PoolInv /\ MutexConsistent /\ mutex = None /\ pinned[t][b] > 0
  BY DEF IInv, Write
<1>2. PICK i \in Buffer : i = map[t][b] /\ buffers[i].block = b
  BY <1>1, PinnedIsThere
<1>3. /\ buffers' = [buffers EXCEPT ![i].modifying = t, ![i].page = v]
      /\ latest' = [latest EXCEPT ![b] = v]
      /\ UNCHANGED <<num_availables, mutex, map, pinned, disk, pc, block>>
  BY <1>2 DEF Write
<1>4. /\ \A j \in Buffer : j # i => buffers'[j] = buffers[j]
      /\ \A j \in Buffer : /\ buffers'[j].block = buffers[j].block
                           /\ buffers'[j].pins = buffers[j].pins
      /\ buffers'[i].modifying = t /\ buffers'[i].page = v
      /\ buffers' \in [Buffer -> BufferRecord]
  <2>1. buffers \in [Buffer -> BufferRecord] /\ buffers[i] \in BufferRecord
    BY <1>1 DEF TypeOK
  <2>2. /\ buffers'[i] = [buffers[i] EXCEPT !.modifying = t, !.page = v]
        /\ \A j \in Buffer : j # i => buffers'[j] = buffers[j]
    BY <1>3, <2>1
  <2>3. /\ buffers'[i].block = buffers[i].block /\ buffers'[i].pins = buffers[i].pins
        /\ buffers'[i].modifying = t /\ buffers'[i].page = v
        /\ buffers'[i] \in BufferRecord
    BY <2>1, <2>2 DEF BufferRecord
  <2>4. buffers' \in [Buffer -> BufferRecord]
    BY <1>3, <2>1, <2>2, <2>3
  <2> QED
    BY <2>2, <2>3, <2>4
<1>5. /\ latest' \in [Block -> Value] /\ latest'[b] = v
      /\ \A c \in Block : c # b => latest'[c] = latest[c]
  BY <1>1, <1>3 DEF TypeOK
<1>6. PinsFinite' /\ PinsCounted' /\ Unpinned' = Unpinned
  BY <1>1, <1>3, <1>4, SameCounts DEF PoolInv
<1>7. OneCopy' /\ IndexIsFresh' /\ AvailablesCounted'
  BY <1>1, <1>3, <1>4, <1>6 DEF PoolInv, OneCopy, IndexIsFresh, AvailablesCounted
<1>8. CopiesHold'
  <2>1. ASSUME NEW j \in Buffer, buffers'[j].block # None
        PROVE  /\ buffers'[j].page = latest'[buffers'[j].block]
               /\ buffers'[j].modifying = None => buffers'[j].page = disk'[buffers'[j].block]
    <3>1. CASE j = i
      BY <1>2, <1>4, <1>5, <3>1
    <3>2. CASE j # i
      <4>1. buffers[j].block # b /\ buffers[j].block \in Block
        BY <1>1, <1>2, <1>4, <2>1, <3>2 DEF PoolInv, OneCopy, TypeOK, BufferRecord
      <4> QED
        BY <1>1, <1>3, <1>4, <1>5, <2>1, <3>2, <4>1 DEF PoolInv, CopiesHold
    <3> QED
      BY <3>1, <3>2
  <2>2. ASSUME NEW c \in Block, Existing(c)' = {} PROVE disk'[c] = latest'[c]
    <3>1. Existing(c) = {}
      BY <1>4, <2>2 DEF Existing
    <3>2. c # b
      BY <1>2, <3>1 DEF Existing
    <3> QED
      BY <1>1, <1>3, <1>5, <3>1, <3>2 DEF PoolInv, CopiesHold
  <2> QED
    BY <2>1, <2>2 DEF CopiesHold
<1>9. MutexConsistent' /\ WaitIsFutile'
  BY <1>1, <1>3, QuietCall
<1>10. TypeOK'
  BY <1>1, <1>3, <1>4, <1>5 DEF TypeOK
<1> QED
  BY <1>6, <1>7, <1>8, <1>9, <1>10 DEF IInv, PoolInv

LEMMA FlushAllStep ==
  ASSUME IInv, NEW t \in Tx, FlushAll(t)
  PROVE  IInv'
<1> USE BufferManagerAssumption
<1> DEFINE dirty == {i \in Buffer : buffers[i].modifying = t}
<1>1. TypeOK /\ PoolInv /\ MutexConsistent /\ mutex = None
  BY DEF IInv, FlushAll
<1>2. /\ disk' = [b \in Block |->
                    IF \E i \in dirty : buffers[i].block = b
                    THEN buffers[CHOOSE i \in dirty : buffers[i].block = b].page
                    ELSE disk[b]]
      /\ buffers' = [i \in Buffer |->
                       IF i \in dirty THEN [buffers[i] EXCEPT !.modifying = None]
                                      ELSE buffers[i]]
      /\ UNCHANGED <<num_availables, mutex, map, pinned, pc, block, latest>>
  BY DEF FlushAll
<1>3. ASSUME NEW i \in Buffer
      PROVE  /\ buffers'[i].block = buffers[i].block
             /\ buffers'[i].page = buffers[i].page
             /\ buffers'[i].pins = buffers[i].pins
             /\ buffers'[i].modifying = IF i \in dirty THEN None ELSE buffers[i].modifying
             /\ buffers'[i] \in BufferRecord
  <2>1. buffers[i] \in BufferRecord
    BY <1>1 DEF TypeOK
  <2>2. buffers'[i] = IF i \in dirty THEN [buffers[i] EXCEPT !.modifying = None]
                                     ELSE buffers[i]
    BY <1>2
  <2> QED
    BY <2>1, <2>2 DEF BufferRecord
\* The file gets what the one buffer of the block has.
<1>4. ASSUME NEW b \in Block
      PROVE  disk'[b] \in Value /\ (disk'[b] = disk[b] \/ Existing(b) # {})
  <2>1. CASE \E i \in dirty : buffers[i].block = b
    <3>1. PICK i \in dirty : i = CHOOSE j \in dirty : buffers[j].block = b
      BY <2>1
    <3>2. disk'[b] = buffers[i].page
      BY <1>2, <2>1, <3>1
    <3>3. Existing(b) # {}
      BY <2>1 DEF Existing
    <3> QED
      BY <1>1, <3>2, <3>3 DEF TypeOK, BufferRecord
  <2>2. CASE ~ \E i \in dirty : buffers[i].block = b
    BY <1>1, <1>2, <2>2 DEF TypeOK
  <2> QED
    BY <2>1, <2>2
<1>5. ASSUME NEW j \in Buffer, buffers[j].block # None
      PROVE  disk'[buffers[j].block] = IF j \in dirty THEN buffers[j].page
                                                      ELSE disk[buffers[j].block]
  <2>1. buffers[j].block \in Block
    BY <1>1, <1>5 DEF TypeOK, BufferRecord
  <2>2. \A i \in dirty : buffers[i].block = buffers[j].block => i = j
    BY <1>1, <1>5 DEF PoolInv, OneCopy
  <2>3. CASE j \in dirty
    <3>1. (CHOOSE i \in dirty : buffers[i].block = buffers[j].block) = j
      BY <2>2, <2>3
    <3> QED
      BY <1>2, <2>1, <2>3, <3>1
  <2>4. CASE j \notin dirty
    <3>1. ~ \E i \in dirty : buffers[i].block = buffers[j].block
      BY <2>2, <2>4
    <3> QED
      BY <1>2, <2>1, <2>4, <3>1
  <2> QED
    BY <2>3, <2>4
<1>6. PinsFinite' /\ PinsCounted' /\ Unpinned' = Unpinned
  BY <1>1, <1>2, <1>3, SameCounts DEF PoolInv
<1>7. OneCopy' /\ IndexIsFresh' /\ AvailablesCounted'
  BY <1>1, <1>2, <1>3, <1>6 DEF PoolInv, OneCopy, IndexIsFresh, AvailablesCounted
<1>8. CopiesHold'
  <2>1. ASSUME NEW j \in Buffer, buffers'[j].block # None
        PROVE  /\ buffers'[j].page = latest'[buffers'[j].block]
               /\ buffers'[j].modifying = None => buffers'[j].page = disk'[buffers'[j].block]
    <3>1. /\ buffers[j].page = latest[buffers[j].block]
          /\ buffers[j].modifying = None => buffers[j].page = disk[buffers[j].block]
      BY <1>1, <1>3, <2>1 DEF PoolInv, CopiesHold
    <3>2. disk'[buffers[j].block] = IF j \in dirty THEN buffers[j].page
                                                   ELSE disk[buffers[j].block]
      BY <1>3, <1>5, <2>1
    <3> HIDE DEF dirty
    <3> QED
      BY <1>2, <1>3, <3>1, <3>2
  <2>2. ASSUME NEW c \in Block, Existing(c)' = {} PROVE disk'[c] = latest'[c]
    <3>1. Existing(c) = {}
      BY <1>3, <2>2 DEF Existing
    <3> QED
      BY <1>1, <1>2, <1>4, <3>1 DEF PoolInv, CopiesHold
  <2> QED
    BY <2>1, <2>2 DEF CopiesHold
<1>9. MutexConsistent' /\ WaitIsFutile'
  BY <1>1, <1>2, QuietCall
<1>10. TypeOK'
  <2>1. buffers' \in [Buffer -> BufferRecord] /\ disk' \in [Block -> Value]
    BY <1>2, <1>3, <1>4
  <2> QED
    BY <1>1, <1>2, <2>1 DEF TypeOK
<1> QED
  BY <1>6, <1>7, <1>8, <1>9, <1>10 DEF IInv, PoolInv

-----------------------------------------------------------------------------
LEMMA NextStep == IInv /\ [Next]_vars => IInv'
<1> SUFFICES ASSUME IInv, [Next]_vars PROVE IInv'
  OBVIOUS
<1>1. CASE UNCHANGED vars
  <2>1. PoolInv'
    BY <1>1, SamePool DEF IInv, vars
  <2>2. TypeOK' /\ MutexConsistent' /\ WaitIsFutile'
    BY <1>1 DEF IInv, vars, TypeOK, MutexConsistent, WaitIsFutile, Existing, Unpinned, is_pinned
  <2> QED
    BY <2>1, <2>2 DEF IInv
<1>2. ASSUME NEW t \in Tx, Call(t) PROVE IInv'
  <2>1. CASE \E b \in Block : CallPin(t, b)
    BY <2>1, CallPinStep
  <2>2. CASE \E b \in Block : Unpin(t, b)
    BY <2>2, UnpinStep
  <2>3. CASE UnpinAll(t)
    BY <2>3, UnpinAllStep
  <2>4. CASE \E b \in Block, v \in Value : Write(t, b, v)
    BY <2>4, WriteStep
  <2>5. CASE FlushAll(t)
    BY <2>5, FlushAllStep
  <2> QED
    BY <1>2, <2>1, <2>2, <2>3, <2>4, <2>5 DEF Call
<1>3. ASSUME NEW t \in Tx, Run(t) PROVE IInv'
  BY <1>3, PinExistingStep, PinUnpinnedStep, WaitStep DEF Run
<1>4. ASSUME NEW t \in Tx, Wake(t) \/ GiveUp(t) PROVE IInv'
  BY <1>4, WakeStep, GiveUpStep
<1> QED
  BY <1>1, <1>2, <1>3, <1>4 DEF Next

\* In every state the program reaches, the pool, the transactions' lists of
\* pins and the files agree with each other as IInv says.
THEOREM Invariance == Spec => []IInv
BY InitIInv, NextStep, PTL DEF Spec

\* Every variable of the pool keeps its type.
THEOREM TypeCorrect == Spec => []TypeOK
<1>1. IInv => TypeOK
  BY DEF IInv
<1> QED
  BY <1>1, Invariance, PTL

\* num_availables, which pin and unpin keep by hand, is always the number of
\* buffers without a pin.
THEOREM AvailablesCorrect == Spec => []AvailablesCounted
<1>1. IInv => AvailablesCounted
  BY DEF IInv, PoolInv
<1> QED
  BY <1>1, Invariance, PTL

\* num_pins of a buffer is always the sum of what the transactions have in
\* their lists for its block, however many there are.
THEOREM PinsCorrect == Spec => []PinsCounted
<1>1. IInv => PinsCounted
  BY DEF IInv, PoolInv
<1> QED
  BY <1>1, Invariance, PTL

\* block_to_buffer_map of a transaction never names a buffer that the pool has
\* given to another block.
THEOREM IndexCorrect == Spec => []IndexIsFresh
<1>1. IInv => IndexIsFresh
  BY DEF IInv, PoolInv
<1> QED
  BY <1>1, Invariance, PTL

\* No block is ever in two buffers of the pool.
THEOREM OneCopyCorrect == Spec => []OneCopy
<1>1. IInv => OneCopy
  BY DEF IInv, PoolInv
<1> QED
  BY <1>1, Invariance, PTL

\* No eviction loses a change: what a reader of a block gets is what was last
\* written to it, and a buffer that is not marked as modified is as the file.
THEOREM NothingLostCorrect == Spec => []NothingLost
<1>1. ASSUME IInv PROVE NothingLost
  <2>1. TypeOK /\ OneCopy /\ CopiesHold
    BY <1>1 DEF IInv, PoolInv
  <2>2. ASSUME NEW b \in Block PROVE Contents(b) = latest[b]
    <3>1. CASE Existing(b) = {}
      BY <2>1, <3>1 DEF Contents, CopiesHold
    <3>2. CASE Existing(b) # {}
      <4>1. Existing(b) \subseteq Nat
        BY BufferManagerAssumption DEF Existing
      <4>2. PICK i \in Existing(b) : i = Min(Existing(b))
        BY <3>2, <4>1, MinIsMember
      <4>3. i \in Buffer /\ buffers[i].block = b /\ b # None
        BY <4>2, BufferManagerAssumption DEF Existing
      <4>4. buffers[i].page = latest[b]
        BY <2>1, <4>3 DEF CopiesHold
      <4> QED
        BY <3>2, <4>2, <4>4 DEF Contents
    <3> QED
      BY <3>1, <3>2
  <2> QED
    BY <2>1, <2>2 DEF NothingLost, CopiesHold
<1> QED
  BY <1>1, Invariance, PTL

\* Nobody can free a buffer while a transaction waits for one.
THEOREM WaitCorrect == Spec => []WaitIsFutile
<1>1. IInv => WaitIsFutile
  BY DEF IInv
<1> QED
  BY <1>1, Invariance, PTL
=============================================================================
