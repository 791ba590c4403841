----------------------------- MODULE DriverProofs -----------------------------
(***************************************************************************)
(* Proofs about Driver: what the ids of the clients lead to, and what is   *)
(* committed and locked when calls fail.                                   *)
(***************************************************************************)
EXTENDS Driver, Integers, FiniteSetsExt, NaturalsInduction,
        SequenceTheorems, FiniteSetTheorems, WellFoundedInduction, TLAPS

-----------------------------------------------------------------------------
(* Least numbers of a set.                                                 *)

\* A set of numbers that has one has a least one.
LEMMA LeastExists ==
  ASSUME NEW S, S \subseteq Nat, S # {}
  PROVE  \E i \in S : \A j \in S : i <= j
<1>1. IsWellFoundedOn(OpToRel(<, Nat), Nat)
  BY NatLessThanWellFounded
<1>2. PICK x \in S : \A y \in S : ~ (<<y, x>> \in OpToRel(<, Nat))
  BY <1>1, WFMin
<1>3. \A y \in S : x =< y
  <2> TAKE y \in S
  <2>1. <<y, x>> \in OpToRel(<, Nat) <=> y < x
    BY DEF OpToRel
  <2>2. x \in Nat /\ y \in Nat /\ ~ (y < x)
    BY <1>2, <2>1
  <2> QED
    BY <2>2
<1> QED
  BY <1>2, <1>3

-----------------------------------------------------------------------------
(* The inductive invariant.                                                *)

Connection ==
  [tx : Nat, locks : SUBSET Nat, changed : SUBSET (Nat \X Parts),
   stored : SUBSET (Nat \X Parts), broken : BOOLEAN, client : Client,
   updates : Nat, answered : SUBSET Nat]

ResultSet ==
  [connection : Nat, tx : Nat, scan : {"pinned", "unpinned", "none"}, late : BOOLEAN]

Handle == [kind : Dicts, id : Nat, object : Nat]

Call == [kind : Dicts \cup {"removal"}, object : Nat, id : Nat]

\* A connection when the dictionaries P are poisoned: an update that has failed
\* with something written has poisoned that of the statements.
ConnectionHolds(conn, P) ==
  /\ conn.changed = {} \/ "statement" \in P
  /\ conn.answered \X Parts \subseteq conn.stored
  /\ \A w \in conn.stored : {w[1]} \X Parts \subseteq conn.stored \/ "statement" \in P

\* A result set of connection i has been read under its transaction t too late.
LateRead(i, t) ==
  \E r \in DOMAIN result_set :
    result_set[r].connection = i /\ result_set[r].tx = t /\ result_set[r].late

\* A scan that is pinned is of the current transaction of its connection.
DataHolds ==
  /\ connection \in Seq(Connection)
  /\ result_set \in Seq(ResultSet)
  /\ \A i \in DOMAIN connection : ConnectionHolds(connection[i], poisoned)
  /\ \A r \in DOMAIN result_set :
       /\ result_set[r].connection \in DOMAIN connection
       /\ result_set[r].scan = "pinned" =>
            result_set[r].tx = connection[result_set[r].connection].tx
  /\ \A i \in DOMAIN connection : \A t \in connection[i].locks \ {connection[i].tx} :
       LateRead(i, t)

OfConnection(kind) == kind \in {"connection", "statement"}

Objects(kind) == IF OfConnection(kind) THEN DOMAIN connection ELSE DOMAIN result_set

Owner(kind, x) ==
  IF OfConnection(kind) THEN connection[x].client
  ELSE connection[result_set[x].connection].client

\* An id of a client leads to an object of that client; metadata are in use
\* only together with their result set.
HandleHolds(c, h) ==
  /\ h.object \in Objects(h.kind) /\ Owner(h.kind, h.object) = c
  /\ h.id \in DOMAIN dict[h.kind] /\ dict[h.kind][h.id] = h.object
  /\ h.kind = "metadata" =>
       [kind |-> "result_set", id |-> h.id, object |-> h.object] \in handles[c]

\* Between two sections the new object is that of the client, and a result set
\* that is about to be removed is still there, but in no use.
CallHolds(c) ==
  LET x == call[c]
  IN x # Idle =>
       /\ x.object \in Objects(x.kind) /\ Owner(x.kind, x.object) = c
       /\ x.kind = "metadata" =>
            [kind |-> "result_set", id |-> x.id, object |-> x.object] \in handles[c]
       /\ x.kind = "removal" =>
            /\ x.id \in DOMAIN dict["result_set"] /\ dict["result_set"][x.id] = x.object
            /\ \A h \in handles[c] :
                 h.kind \in {"result_set", "metadata"} => h.object # x.object

NamesTyped ==
  /\ DOMAIN dict = Dicts
  /\ \A d \in Dicts : IsFiniteSet(DOMAIN dict[d]) /\ DOMAIN dict[d] \subseteq Nat
  /\ call \in [Client -> {Idle} \cup Call]
  /\ handles \in [Client -> SUBSET Handle]

NamesHold ==
  /\ NamesTyped
  /\ \A c \in Client : CallHolds(c) /\ \A h \in handles[c] : HandleHolds(c, h)

IInv == DataHolds /\ NamesHold

-----------------------------------------------------------------------------
(* What becomes of a connection.                                           *)

LEMMA Closes ==
  ASSUME NEW conn \in Connection
  PROVE  /\ closed(conn) \in Connection
         /\ closed(conn).tx = conn.tx /\ closed(conn).client = conn.client
         /\ closed(conn).changed = {} /\ closed(conn).stored = conn.stored \cup conn.changed
         /\ closed(conn).locks = conn.locks \ {conn.tx}
         /\ closed(conn).answered = conn.answered
BY DEF closed, Connection

LEMMA Commits ==
  ASSUME NEW conn \in Connection
  PROVE  /\ committed(conn) \in Connection
         /\ committed(conn).client = conn.client
         /\ committed(conn).changed = {}
         /\ committed(conn).stored = conn.stored \cup conn.changed
         /\ committed(conn).locks = conn.locks \ {conn.tx}
         /\ committed(conn).answered = conn.answered
<1> DEFINE c == closed(conn)
<1>1. c \in Connection /\ committed(conn) = [c EXCEPT !.tx = c.tx + 1]
  BY Closes DEF committed
<1> HIDE DEF c
<1>2. [c EXCEPT !.tx = c.tx + 1] \in Connection
  BY <1>1 DEF Connection
<1>3. /\ committed(conn).client = c.client /\ committed(conn).changed = c.changed
      /\ committed(conn).stored = c.stored /\ committed(conn).locks = c.locks
      /\ committed(conn).answered = c.answered
  BY <1>1 DEF Connection
<1> QED
  BY <1>1, <1>2, <1>3, Closes DEF c

\* A commit leaves no change behind; one after a failed update commits a part
\* of it.
LEMMA CommitKeeps ==
  ASSUME NEW conn \in Connection, NEW P, ConnectionHolds(conn, P),
         NEW new \in Connection, new.stored = conn.stored \cup conn.changed,
         new.changed = {}, new.answered = conn.answered
  PROVE  ConnectionHolds(new, P)
<1>1. \A w \in new.stored : {w[1]} \X Parts \subseteq new.stored \/ "statement" \in P
  <2>1. CASE conn.changed = {}
    BY <2>1 DEF ConnectionHolds
  <2>2. CASE conn.changed # {}
    BY <2>2 DEF ConnectionHolds
  <2> QED
    BY <2>1, <2>2
<1> QED
  BY <1>1 DEF ConnectionHolds

LEMMA MorePoisoned ==
  ASSUME NEW conn, NEW P, NEW Q, P \subseteq Q, ConnectionHolds(conn, P)
  PROVE  ConnectionHolds(conn, Q)
BY DEF ConnectionHolds

\* The connections and result sets stay those of the same clients.
Stays ==
  /\ DOMAIN connection \subseteq DOMAIN connection'
  /\ \A i \in DOMAIN connection : connection'[i].client = connection[i].client
  /\ DOMAIN result_set \subseteq DOMAIN result_set'
  /\ \A r \in DOMAIN result_set : result_set'[r].connection = result_set[r].connection

LEMMA DataTypes ==
  ASSUME DataHolds
  PROVE  /\ Len(connection) \in Nat /\ DOMAIN connection = 1..Len(connection)
         /\ Len(result_set) \in Nat /\ DOMAIN result_set = 1..Len(result_set)
         /\ DOMAIN connection \subseteq Nat /\ DOMAIN result_set \subseteq Nat
         /\ \A i \in DOMAIN connection : connection[i] \in Connection
         /\ \A r \in DOMAIN result_set : result_set[r] \in ResultSet
<1>1. connection \in Seq(Connection) /\ result_set \in Seq(ResultSet)
  BY DEF DataHolds
<1>2. /\ Len(connection) \in Nat /\ DOMAIN connection = 1..Len(connection)
      /\ Len(result_set) \in Nat /\ DOMAIN result_set = 1..Len(result_set)
  BY <1>1, LenProperties
<1>3. /\ \A i \in DOMAIN connection : connection[i] \in Connection
      /\ \A r \in DOMAIN result_set : result_set[r] \in ResultSet
  BY <1>1, <1>2, ElementOfSeq
<1> QED
  BY <1>2, <1>3

\* What a step may do to the scans of connection i, whose transaction is then tx.
ScansAfter(i, tx) ==
  /\ result_set' \in Seq(ResultSet) /\ DOMAIN result_set \subseteq DOMAIN result_set'
  /\ \A r \in DOMAIN result_set :
       /\ result_set'[r].connection = result_set[r].connection
       /\ result_set'[r].tx = result_set[r].tx
       /\ result_set[r].late => result_set'[r].late
       /\ result_set'[r].scan = "pinned" =>
            /\ result_set[r].scan = "pinned"
            /\ result_set[r].connection = i => result_set[r].tx = tx
  /\ \A r \in DOMAIN result_set' \ DOMAIN result_set :
       result_set'[r].connection = i /\ result_set'[r].tx = tx

\* What a step may do to the locks of connection i, which it makes conn.
LocksAfter(i, conn) ==
  \A t \in conn.locks \ {conn.tx} :
    t \in connection[i].locks \ {connection[i].tx} \/ LateRead(i, t)'

LEMMA SameScans ==
  ASSUME DataHolds, NEW i \in DOMAIN connection, result_set' = result_set
  PROVE  ScansAfter(i, connection[i].tx)
BY DEF ScansAfter, DataHolds

LEMMA Unpins ==
  ASSUME DataHolds, NEW i \in DOMAIN connection
  PROVE  /\ unpinned(i) \in Seq(ResultSet) /\ Len(unpinned(i)) = Len(result_set)
         /\ DOMAIN unpinned(i) = DOMAIN result_set
         /\ \A r \in DOMAIN result_set :
              /\ unpinned(i)[r].connection = result_set[r].connection
              /\ unpinned(i)[r].tx = result_set[r].tx
              /\ unpinned(i)[r].late = result_set[r].late
              /\ unpinned(i)[r].scan = "pinned" =>
                   result_set[r].scan = "pinned" /\ result_set[r].connection # i
<1> DEFINE n == Len(result_set)
           new(r) == IF /\ result_set[r].connection = i /\ result_set[r].tx = connection[i].tx
                        /\ result_set[r].scan = "pinned"
                     THEN [result_set[r] EXCEPT !.scan = "unpinned"] ELSE result_set[r]
           f == [r \in 1..n |-> new(r)]
<1>1. n \in Nat /\ DOMAIN result_set = 1..n /\ \A r \in 1..n : result_set[r] \in ResultSet
  BY DataTypes
<1>2. unpinned(i) = f
  BY <1>1 DEF unpinned
<1>3. \A r \in 1..n :
        /\ new(r) \in ResultSet /\ new(r).connection = result_set[r].connection
        /\ new(r).tx = result_set[r].tx /\ new(r).late = result_set[r].late
        /\ new(r).scan = "pinned" =>
             result_set[r].scan = "pinned" /\ result_set[r].connection # i
  <2> TAKE r \in 1..n
  <2> DEFINE old == result_set[r]
  <2>1. old \in ResultSet
    BY <1>1
  <2>2. old.connection = i /\ old.scan = "pinned" => old.tx = connection[i].tx
    BY <1>1 DEF DataHolds
  <2> HIDE DEF old
  <2>3. [old EXCEPT !.scan = "unpinned"] \in ResultSet
    BY <2>1 DEF ResultSet
  <2>4. /\ [old EXCEPT !.scan = "unpinned"].connection = old.connection
        /\ [old EXCEPT !.scan = "unpinned"].tx = old.tx
        /\ [old EXCEPT !.scan = "unpinned"].late = old.late
        /\ [old EXCEPT !.scan = "unpinned"].scan = "unpinned"
    BY <2>1 DEF ResultSet
  <2> QED
    BY <2>1, <2>2, <2>3, <2>4 DEF old
<1> HIDE DEF new
<1>4. f \in Seq(ResultSet) /\ Len(f) = n /\ DOMAIN f = 1..n /\ \A r \in 1..n : f[r] = new(r)
  <2>1. \A r \in 1..n : new(r) \in ResultSet
    BY <1>3
  <2>2. f \in Seq(ResultSet) /\ Len(f) = n
    BY <1>1, <2>1, IsASeq
  <2> QED
    BY <2>2
<1> HIDE DEF f
<1> QED
  BY <1>1, <1>2, <1>3, <1>4

LEMMA UnpinnedScans ==
  ASSUME DataHolds, NEW i \in DOMAIN connection, NEW tx, result_set' = unpinned(i)
  PROVE  ScansAfter(i, tx)
<1>1. DOMAIN result_set' = DOMAIN result_set
  BY Unpins
<1> QED
  BY <1>1, Unpins DEF ScansAfter

\* A step that changes one connection, and scans of it.
LEMMA OneConnection ==
  ASSUME DataHolds, NEW i \in DOMAIN connection, NEW conn \in Connection,
         connection' = [connection EXCEPT ![i] = conn], conn.client = connection[i].client,
         poisoned \subseteq poisoned', ConnectionHolds(conn, poisoned'), ScansAfter(i, conn.tx),
         LocksAfter(i, conn)
  PROVE  DataHolds' /\ Stays
<1>1. /\ Len(connection) \in Nat /\ DOMAIN connection = 1..Len(connection)
      /\ Len(result_set) \in Nat /\ DOMAIN result_set = 1..Len(result_set)
      /\ connection \in Seq(Connection)
  BY DataTypes DEF DataHolds
<1>2. /\ connection' \in Seq(Connection) /\ Len(connection') = Len(connection)
      /\ \A j \in 1..Len(connection) : connection'[j] = IF j = i THEN conn ELSE connection[j]
  BY <1>1, ExceptSeq
<1>3. DOMAIN connection' = DOMAIN connection
  BY <1>1, <1>2, LenProperties
<1>5. \A j \in DOMAIN connection : ConnectionHolds(connection'[j], poisoned')
  <2> TAKE j \in DOMAIN connection
  <2>1. ConnectionHolds(connection[j], poisoned')
    BY MorePoisoned DEF DataHolds
  <2> QED
    BY <1>1, <1>2, <2>1
<1>6. \A r \in DOMAIN result_set' :
        /\ result_set'[r].connection \in DOMAIN connection
        /\ result_set'[r].scan = "pinned" =>
             result_set'[r].tx = connection'[result_set'[r].connection].tx
  <2> TAKE r \in DOMAIN result_set'
  <2>1. CASE r \in DOMAIN result_set
    BY <1>1, <1>2, <2>1 DEF DataHolds, ScansAfter
  <2>2. CASE r \notin DOMAIN result_set
    BY <1>1, <1>2, <2>2 DEF ScansAfter
  <2> QED
    BY <2>1, <2>2
<1>7. \A j \in DOMAIN connection : \A t \in connection'[j].locks \ {connection'[j].tx} :
        LateRead(j, t)'
  <2> TAKE j \in DOMAIN connection
  <2> TAKE t \in connection'[j].locks \ {connection'[j].tx}
  <2>1. CASE t \in connection[j].locks \ {connection[j].tx}
    <3>1. LateRead(j, t)
      BY <2>1 DEF DataHolds
    <3> QED
      BY <3>1 DEF LateRead, ScansAfter
  <2>2. CASE t \notin connection[j].locks \ {connection[j].tx}
    <3>1. j = i /\ connection'[j] = conn
      BY <1>1, <1>2, <2>2
    <3> QED
      BY <2>2, <3>1 DEF LocksAfter
  <2> QED
    BY <2>1, <2>2
<1>8. DataHolds'
  BY <1>2, <1>3, <1>5, <1>6, <1>7 DEF DataHolds, ScansAfter
<1>9. Stays
  BY <1>1, <1>2, <1>3 DEF Stays, ScansAfter
<1> QED
  BY <1>8, <1>9

\* A step that changes none.
LEMMA NoConnection ==
  ASSUME DataHolds, UNCHANGED <<connection, result_set>>, poisoned \subseteq poisoned'
  PROVE  DataHolds' /\ Stays
<1>1. \A j \in DOMAIN connection : ConnectionHolds(connection[j], poisoned')
  BY MorePoisoned DEF DataHolds
<1> QED
  BY <1>1 DEF DataHolds, LateRead, Stays

-----------------------------------------------------------------------------
(* What becomes of the names.                                              *)

LEMMA OwnersStay ==
  ASSUME DataHolds, Stays, NEW kind, NEW x \in Objects(kind)
  PROVE  x \in Objects(kind)' /\ Owner(kind, x)' = Owner(kind, x)
<1>1. \A r \in DOMAIN result_set : result_set[r].connection \in DOMAIN connection
  BY DEF DataHolds
<1>2. CASE OfConnection(kind)
  BY <1>2 DEF Objects, Owner, Stays, OfConnection
<1>3. CASE ~OfConnection(kind)
  BY <1>1, <1>3 DEF Objects, Owner, Stays, OfConnection
<1> QED
  BY <1>2, <1>3

\* An id that leads to the same object as before.
LEMMA HandleStays ==
  ASSUME IInv, Stays, NEW c \in Client, NEW h \in handles[c],
         h.id \in DOMAIN dict'[h.kind], dict'[h.kind][h.id] = dict[h.kind][h.id],
         h.kind = "metadata" =>
           [kind |-> "result_set", id |-> h.id, object |-> h.object] \in handles'[c]
  PROVE  HandleHolds(c, h)'
<1>1. DataHolds /\ HandleHolds(c, h)
  BY DEF IInv, NamesHold
<1>2. h.object \in Objects(h.kind)' /\ Owner(h.kind, h.object)' = c
  BY <1>1, OwnersStay DEF HandleHolds
<1> QED
  BY <1>1, <1>2 DEF HandleHolds

\* A client whose call and ids are as before.
LEMMA ClientStays ==
  ASSUME IInv, Stays, NEW c \in Client, call'[c] = call[c], handles'[c] = handles[c],
         \A h \in handles[c] : h.id \in DOMAIN dict'[h.kind] /\
                               dict'[h.kind][h.id] = dict[h.kind][h.id],
         call[c] # Idle /\ call[c].kind = "removal" =>
           /\ call[c].id \in DOMAIN dict'["result_set"]
           /\ dict'["result_set"][call[c].id] = dict["result_set"][call[c].id]
  PROVE  CallHolds(c)' /\ \A h \in handles'[c] : HandleHolds(c, h)'
<1>1. DataHolds /\ CallHolds(c) /\ \A h \in handles[c] : HandleHolds(c, h)
  BY DEF IInv, NamesHold
<1>2. ASSUME NEW h \in handles[c]
      PROVE  HandleHolds(c, h)'
  <2>1. HandleHolds(c, h)
    BY <1>1
  <2> QED
    BY <2>1, HandleStays DEF HandleHolds
<1>3. CallHolds(c)'
  <2>1. CASE call[c] = Idle
    BY <2>1 DEF CallHolds
  <2>2. CASE call[c] # Idle
    <3>1. PICK x : x = call[c]
      OBVIOUS
    <3>2. x.object \in Objects(x.kind) /\ Owner(x.kind, x.object) = c
      BY <1>1, <2>2, <3>1 DEF CallHolds
    <3>3. x.object \in Objects(x.kind)' /\ Owner(x.kind, x.object)' = c
      BY <1>1, <3>2, OwnersStay
    <3> QED
      BY <1>1, <2>2, <3>1, <3>3 DEF CallHolds
  <2> QED
    BY <2>1, <2>2
<1> QED
  BY <1>2, <1>3

LEMMA NamesStay ==
  ASSUME IInv, Stays, UNCHANGED <<dict, call, handles>>
  PROVE  NamesHold'
<1>1. ASSUME NEW c \in Client
      PROVE  CallHolds(c)' /\ \A h \in handles'[c] : HandleHolds(c, h)'
  <2>1. \A h \in handles[c] : h.id \in DOMAIN dict'[h.kind] /\
                              dict'[h.kind][h.id] = dict[h.kind][h.id]
    BY DEF IInv, NamesHold, HandleHolds
  <2>2. call[c] # Idle /\ call[c].kind = "removal" =>
           /\ call[c].id \in DOMAIN dict'["result_set"]
           /\ dict'["result_set"][call[c].id] = dict["result_set"][call[c].id]
    BY DEF IInv, NamesHold, CallHolds
  <2> QED
    BY <2>1, <2>2, ClientStays
<1>2. NamesTyped'
  BY DEF IInv, NamesHold, NamesTyped
<1> QED
  BY <1>1, <1>2 DEF NamesHold

\* What an idle client's id leads to.
LEMMA Uses ==
  ASSUME IInv, NEW c \in Client, NEW d \in Dicts, NEW h, Using(c, d, h)
  PROVE  /\ call[c] = Idle /\ h \in handles[c] /\ h \in Handle /\ h.kind = d
         /\ h.object \in Objects(d) /\ Owner(d, h.object) = c
         /\ h.id \in DOMAIN dict[d] /\ dict[d][h.id] = h.object
         /\ h.id \in Nat /\ h.object \in Nat /\ d \notin poisoned
<1>1. call[c] = Idle /\ h \in handles[c] /\ h.kind = d /\ d \notin poisoned
  BY DEF Using
<1>2. h \in Handle
  BY <1>1 DEF IInv, NamesHold, NamesTyped
<1>3. HandleHolds(c, h)
  BY <1>1 DEF IInv, NamesHold
<1> QED
  BY <1>1, <1>2, <1>3 DEF HandleHolds, Handle

\* The first section of a call has made an object.
LEMMA NamesMade ==
  ASSUME IInv, Stays, UNCHANGED <<dict, handles>>, NEW c \in Client, call[c] = Idle,
         NEW d \in Dicts, NEW x \in Nat, NEW id \in Nat, Made(c, d, x, id),
         x \in Objects(d)', Owner(d, x)' = c,
         d = "metadata" => [kind |-> "result_set", id |-> id, object |-> x] \in handles[c]
  PROVE  NamesHold'
<1> DEFINE new == [kind |-> d, object |-> x, id |-> id]
<1>1. new \in Call /\ new.kind = d /\ new.object = x /\ new.id = id
  BY DEF Call
<1>2. call \in [Client -> {Idle} \cup Call] /\ call' = [call EXCEPT ![c] = new]
  BY DEF IInv, NamesHold, NamesTyped, Made
<1> HIDE DEF new
<1>3. call' \in [Client -> {Idle} \cup Call] /\ call'[c] = new /\ \A u \in Client \ {c} : call'[u] = call[u]
  BY <1>1, <1>2
<1>4. NamesTyped'
  BY <1>3 DEF IInv, NamesHold, NamesTyped
<1>5. ASSUME NEW u \in Client
      PROVE  CallHolds(u)' /\ \A h \in handles'[u] : HandleHolds(u, h)'
  <2>1. \A h \in handles[u] : h.id \in DOMAIN dict'[h.kind] /\
                              dict'[h.kind][h.id] = dict[h.kind][h.id]
    BY DEF IInv, NamesHold, HandleHolds
  <2>2. call[u] # Idle /\ call[u].kind = "removal" =>
           /\ call[u].id \in DOMAIN dict'["result_set"]
           /\ dict'["result_set"][call[u].id] = dict["result_set"][call[u].id]
    BY DEF IInv, NamesHold, CallHolds
  <2>3. CASE u # c
    BY <1>3, <2>1, <2>2, <2>3, ClientStays
  <2>4. CASE u = c
    <3>1. \A h \in handles'[c] : HandleHolds(c, h)'
      <4> TAKE h \in handles'[c]
      <4>1. HandleHolds(c, h)
        BY DEF IInv, NamesHold
      <4> QED
        BY <4>1, HandleStays DEF HandleHolds
    <3>2. d # "removal"
      BY DEF Dicts
    <3>3. CallHolds(c)'
      BY <1>1, <1>3, <3>2 DEF CallHolds
    <3> QED
      BY <2>4, <3>1, <3>3
  <2> QED
    BY <2>3, <2>4
<1> QED
  BY <1>4, <1>5 DEF NamesHold

\* The id that a dictionary gives out is free.
LEMMA FreeId ==
  ASSUME NEW f, IsFiniteSet(DOMAIN f), DOMAIN f \subseteq Nat
  PROVE  free_id(f) \in Nat \ DOMAIN f
<1> DEFINE D == DOMAIN f
           k == Cardinality(D)
<1>1. k \in Nat
  BY FS_CardinalityType
<1>2. PICK n : n \in Nat \ D /\ \A j \in Nat \ D : n <= j
  <2>1. Nat \ D # {}
    <3>1. SUFFICES ASSUME Nat \subseteq D PROVE FALSE
      OBVIOUS
    <3>2. 0..k \subseteq D
      BY <1>1, <3>1
    <3>3. Cardinality(0..k) <= k
      BY <3>2, FS_Subset
    <3>4. Cardinality(0..k) = k + 1
      BY <1>1, FS_Interval
    <3> QED
      BY <1>1, <3>3, <3>4
  <2> HIDE DEF D
  <2>2. Nat \ D \subseteq Nat
    OBVIOUS
  <2> QED
    BY <2>1, <2>2, LeastExists
<1> HIDE DEF D
<1>3. \A j \in 0..n-1 : j \in D
  BY <1>2
<1>4. n <= k
  <2>1. Cardinality(0..n-1) <= k
    BY <1>3, FS_Subset DEF D
  <2>2. Cardinality(0..n-1) = n
    BY <1>2, FS_Interval
  <2> QED
    BY <2>1, <2>2
<1>5. n \in 0..k /\ n \notin D /\ \A j \in 0..n-1 : j \in D
  BY <1>1, <1>2, <1>3, <1>4
<1>6. free_id(f) = CHOOSE m \in 0..k : m \notin D /\ \A j \in 0..m-1 : j \in D
  BY DEF free_id, D
<1>7. free_id(f) \in 0..k /\ free_id(f) \notin D
  <2> HIDE DEF k
  <2> QED
    BY <1>5, <1>6
<1> QED
  BY <1>1, <1>7 DEF D

\* A dictionary that gets an object.
LEMMA Puts ==
  ASSUME NamesTyped, NEW d \in Dicts, NEW id \in Nat, NEW x,
         dict' = [dict EXCEPT ![d] = put(dict[d], id, x)]
  PROVE  /\ DOMAIN dict' = Dicts
         /\ \A e \in Dicts \ {d} : dict'[e] = dict[e]
         /\ \A e \in Dicts : IsFiniteSet(DOMAIN dict'[e]) /\ DOMAIN dict'[e] \subseteq Nat
         /\ DOMAIN dict'[d] = DOMAIN dict[d] \cup {id} /\ dict'[d][id] = x
         /\ \A n \in DOMAIN dict[d] \ {id} : dict'[d][n] = dict[d][n]
<1>1. DOMAIN dict = Dicts
  BY DEF NamesTyped
<1>2. /\ DOMAIN dict' = Dicts /\ dict'[d] = put(dict[d], id, x)
      /\ \A e \in Dicts \ {d} : dict'[e] = dict[e]
  BY <1>1
<1>3. /\ DOMAIN dict'[d] = DOMAIN dict[d] \cup {id} /\ dict'[d][id] = x
      /\ \A n \in DOMAIN dict[d] \ {id} : dict'[d][n] = dict[d][n]
  BY <1>2 DEF put
<1>4. IsFiniteSet(DOMAIN dict[d] \cup {id})
  BY FS_AddElement DEF NamesTyped
<1>5. ASSUME NEW e \in Dicts
      PROVE  IsFiniteSet(DOMAIN dict'[e]) /\ DOMAIN dict'[e] \subseteq Nat
  BY <1>2, <1>3, <1>4 DEF NamesTyped
<1> QED
  BY <1>2, <1>3, <1>5

\* A dictionary that loses an id.
LEMMA Drops ==
  ASSUME NamesTyped, NEW d \in Dicts, NEW id,
         dict' = [dict EXCEPT ![d] = Restrict(dict[d], DOMAIN dict[d] \ {id})]
  PROVE  /\ DOMAIN dict' = Dicts
         /\ \A e \in Dicts \ {d} : dict'[e] = dict[e]
         /\ \A e \in Dicts : IsFiniteSet(DOMAIN dict'[e]) /\ DOMAIN dict'[e] \subseteq Nat
         /\ DOMAIN dict'[d] = DOMAIN dict[d] \ {id}
         /\ \A n \in DOMAIN dict[d] \ {id} : dict'[d][n] = dict[d][n]
<1>1. DOMAIN dict = Dicts
  BY DEF NamesTyped
<1>2. /\ DOMAIN dict' = Dicts /\ dict'[d] = Restrict(dict[d], DOMAIN dict[d] \ {id})
      /\ \A e \in Dicts \ {d} : dict'[e] = dict[e]
  BY <1>1
<1>3. /\ DOMAIN dict'[d] = DOMAIN dict[d] \ {id}
      /\ \A n \in DOMAIN dict[d] \ {id} : dict'[d][n] = dict[d][n]
  BY <1>2 DEF Restrict
<1>4. IsFiniteSet(DOMAIN dict[d] \ {id})
  BY FS_Subset DEF NamesTyped
<1>5. ASSUME NEW e \in Dicts
      PROVE  IsFiniteSet(DOMAIN dict'[e]) /\ DOMAIN dict'[e] \subseteq Nat
  BY <1>2, <1>3, <1>4 DEF NamesTyped
<1> QED
  BY <1>2, <1>3, <1>5

\* A client's call after a step that ends it, or makes an object for it.
LEMMA CallsTyped ==
  ASSUME NamesTyped, NEW c \in Client, NEW x \in {Idle} \cup Call, call' = [call EXCEPT ![c] = x]
  PROVE  /\ call' \in [Client -> {Idle} \cup Call] /\ call'[c] = x
         /\ \A u \in Client \ {c} : call'[u] = call[u]
BY DEF NamesTyped

LEMMA HandlesTyped ==
  ASSUME NamesTyped, NEW c \in Client, NEW H \in SUBSET Handle, handles' = [handles EXCEPT ![c] = H]
  PROVE  /\ handles' \in [Client -> SUBSET Handle] /\ handles'[c] = H
         /\ \A u \in Client \ {c} : handles'[u] = handles[u]
BY DEF NamesTyped

\* The second section of a call that makes an object: the id it registers is
\* either free or one under which there are already the same metadata.
LEMMA Registered ==
  ASSUME IInv, NEW c \in Client, NEW d \in Dicts, NEW id, Register(c, d, id),
         IF d = "metadata" THEN id = call[c].id ELSE id \in Nat \ DOMAIN dict[d]
  PROVE  IInv'
<1>1. PICK x : x = call[c]
  OBVIOUS
<1>2. /\ x # Idle /\ x.kind = d /\ call' = [call EXCEPT ![c] = Idle]
      /\ UNCHANGED <<poisoned, connection, result_set>>
  BY <1>1 DEF Register
<1>3. NamesTyped /\ CallHolds(c) /\ \A u \in Client : CallHolds(u) /\ \A h \in handles[u] : HandleHolds(u, h)
  BY DEF IInv, NamesHold
<1>4. x \in Call /\ x.object \in Nat /\ x.id \in Nat
  BY <1>1, <1>2, <1>3 DEF NamesTyped, Call
<1>5. /\ x.object \in Objects(d) /\ Owner(d, x.object) = c
      /\ d = "metadata" => [kind |-> "result_set", id |-> x.id, object |-> x.object] \in handles[c]
  BY <1>1, <1>2, <1>3 DEF CallHolds
<1>6. DataHolds' /\ Stays
  BY <1>2, NoConnection DEF IInv
<1>7. /\ call' \in [Client -> {Idle} \cup Call] /\ call'[c] = Idle
      /\ \A u \in Client \ {c} : call'[u] = call[u]
  BY <1>2, <1>3, CallsTyped
<1>8. CallHolds(c)'
  BY <1>7 DEF CallHolds
<1>9. CASE d \in poisoned
  <2>1. dict' = dict /\ handles' = handles
    BY <1>9 DEF Register
  <2>2. NamesTyped'
    BY <1>3, <1>7, <2>1 DEF NamesTyped
  <2>3. ASSUME NEW u \in Client
        PROVE  CallHolds(u)' /\ \A h \in handles'[u] : HandleHolds(u, h)'
    <3>1. \A h \in handles'[u] : HandleHolds(u, h)'
      BY <1>3, <1>6, <2>1, HandleStays DEF HandleHolds
    <3>2. CASE u # c
      BY <1>3, <1>6, <1>7, <2>1, <3>2, ClientStays DEF HandleHolds, CallHolds
    <3> QED
      BY <1>8, <3>1, <3>2
  <2> QED
    BY <1>6, <2>2, <2>3 DEF IInv, NamesHold
<1>10. CASE d \notin poisoned
  <2> DEFINE new == [kind |-> d, id |-> id, object |-> x.object]
             H == handles[c] \cup {new}
  <2>1. /\ dict' = [dict EXCEPT ![d] = put(dict[d], id, x.object)]
        /\ handles' = [handles EXCEPT ![c] = H]
    BY <1>1, <1>10 DEF Register
  <2>2. id \in Nat
    BY <1>1, <1>4
  <2>3. /\ new \in Handle /\ new.kind = d /\ new.id = id /\ new.object = x.object
        /\ H \in SUBSET Handle
    BY <1>3, <1>4, <2>2 DEF Handle, NamesTyped
  <2>4. new \in H /\ handles[c] \subseteq H /\ \A h \in H : h = new \/ h \in handles[c]
    OBVIOUS
  <2> HIDE DEF new, H
  <2>5. /\ handles' \in [Client -> SUBSET Handle] /\ handles'[c] = H
        /\ \A u \in Client \ {c} : handles'[u] = handles[u]
    BY <1>3, <2>1, <2>3, HandlesTyped
  <2>6. /\ DOMAIN dict' = Dicts
        /\ \A e \in Dicts \ {d} : dict'[e] = dict[e]
        /\ \A e \in Dicts : IsFiniteSet(DOMAIN dict'[e]) /\ DOMAIN dict'[e] \subseteq Nat
        /\ DOMAIN dict'[d] = DOMAIN dict[d] \cup {id} /\ dict'[d][id] = x.object
        /\ \A n \in DOMAIN dict[d] \ {id} : dict'[d][n] = dict[d][n]
    BY <1>3, <2>1, <2>2, Puts
  <2>7. NamesTyped'
    BY <1>7, <2>5, <2>6 DEF NamesTyped
  <2>8. ASSUME NEW u \in Client, NEW h \in handles[u]
        PROVE  h.id \in DOMAIN dict'[h.kind] /\ dict'[h.kind][h.id] = dict[h.kind][h.id]
    <3>1. HandleHolds(u, h) /\ h \in Handle
      BY <1>3 DEF NamesTyped
    <3>2. CASE h.kind # d
      BY <2>6, <3>1, <3>2 DEF HandleHolds, Handle
    <3>3. CASE h.kind = d /\ h.id # id
      BY <2>6, <3>1, <3>3 DEF HandleHolds
    <3>4. CASE h.kind = d /\ h.id = id
      <4>1. d = "metadata" /\ id = x.id
        BY <1>1, <3>1, <3>4 DEF HandleHolds
      <4>2. [kind |-> "result_set", id |-> id, object |-> h.object] \in handles[u]
        BY <3>1, <3>4, <4>1 DEF HandleHolds
      <4>3. dict["result_set"][id] = h.object
        <5> DEFINE g == [kind |-> "result_set", id |-> id, object |-> h.object]
        <5>1. HandleHolds(u, g) /\ g.kind = "result_set" /\ g.id = id /\ g.object = h.object
          BY <1>3, <4>2
        <5> HIDE DEF g
        <5> QED
          BY <5>1 DEF HandleHolds
      <4>4. dict["result_set"][id] = x.object
        <5> DEFINE g == [kind |-> "result_set", id |-> id, object |-> x.object]
        <5>1. HandleHolds(c, g) /\ g.kind = "result_set" /\ g.id = id /\ g.object = x.object
          BY <1>3, <1>5, <4>1
        <5> HIDE DEF g
        <5> QED
          BY <5>1 DEF HandleHolds
      <4> QED
        BY <2>6, <3>1, <3>4, <4>3, <4>4 DEF HandleHolds
    <3> QED
      BY <3>2, <3>3, <3>4
  <2>9. ASSUME NEW u \in Client, call[u] # Idle, call[u].kind = "removal"
        PROVE  /\ call[u].id \in DOMAIN dict'["result_set"]
               /\ dict'["result_set"][call[u].id] = dict["result_set"][call[u].id]
    <3>1. call[u].id \in DOMAIN dict["result_set"]
      BY <1>3, <2>9 DEF CallHolds
    <3>2. CASE d = "result_set"
      BY <2>6, <3>1, <3>2
    <3>3. CASE d # "result_set"
      BY <2>6, <3>1, <3>3 DEF Dicts
    <3> QED
      BY <3>2, <3>3
  <2>10. HandleHolds(c, new)'
    <3>1. x.object \in Objects(d)' /\ Owner(d, x.object)' = c
      BY <1>5, <1>6, OwnersStay DEF IInv
    <3>2. d = "metadata" => id = x.id
      BY <1>1
    <3>3. d = "metadata" =>
            [kind |-> "result_set", id |-> id, object |-> x.object] \in handles'[c]
      BY <1>5, <2>4, <2>5, <3>2
    <3> QED
      BY <2>3, <2>6, <3>1, <3>3 DEF HandleHolds
  <2>11. ASSUME NEW u \in Client
         PROVE  CallHolds(u)' /\ \A h \in handles'[u] : HandleHolds(u, h)'
    <3>1. CASE u # c
      <4>1. call'[u] = call[u] /\ handles'[u] = handles[u]
        BY <1>7, <2>5, <3>1
      <4> QED
        BY <1>6, <2>8, <2>9, <4>1, ClientStays
    <3>2. CASE u = c
      <4>1. ASSUME NEW h \in handles[c]
            PROVE  HandleHolds(c, h)'
        <5>1. HandleHolds(c, h)
          BY <1>3
        <5>2. h.kind = "metadata" =>
                [kind |-> "result_set", id |-> h.id, object |-> h.object] \in handles'[c]
          BY <2>5, <5>1 DEF HandleHolds, H
        <5> QED
          BY <1>6, <2>8, <5>2, HandleStays
      <4> QED
        BY <1>8, <2>4, <2>5, <2>10, <3>2, <4>1
    <3> QED
      BY <3>1, <3>2
  <2> QED
    BY <1>6, <2>7, <2>11 DEF IInv, NamesHold
<1> QED
  BY <1>9, <1>10

\* The client closes its connection, whose id is given up.
LEMMA Closing ==
  ASSUME IInv, Stays, NEW c \in Client, NEW h, Using(c, "connection", h),
         call' = call, handles' = [handles EXCEPT ![c] = {}],
         \/ dict' = dict
         \/ dict' = [dict EXCEPT !["connection"] =
                       Restrict(dict["connection"], DOMAIN dict["connection"] \ {h.id})]
  PROVE  NamesHold'
<1> DEFINE d == "connection"
<1>1. NamesTyped /\ \A u \in Client : CallHolds(u) /\ \A g \in handles[u] : HandleHolds(u, g)
  BY DEF IInv, NamesHold
<1>2. /\ call[c] = Idle /\ h \in handles[c] /\ h.kind = d /\ h.object \in Objects(d)
      /\ Owner(d, h.object) = c /\ dict[d][h.id] = h.object
  BY Uses DEF Dicts
<1>3. /\ handles' \in [Client -> SUBSET Handle] /\ handles'[c] = {}
      /\ \A u \in Client \ {c} : handles'[u] = handles[u]
  <2>1. {} \in SUBSET Handle
    OBVIOUS
  <2> QED
    BY <1>1, <2>1, HandlesTyped
<1>4. /\ DOMAIN dict' = Dicts
      /\ \A e \in Dicts \ {d} : dict'[e] = dict[e]
      /\ \A e \in Dicts : IsFiniteSet(DOMAIN dict'[e]) /\ DOMAIN dict'[e] \subseteq Nat
      /\ DOMAIN dict[d] \ {h.id} \subseteq DOMAIN dict'[d]
      /\ \A n \in DOMAIN dict[d] \ {h.id} : dict'[d][n] = dict[d][n]
  <2>1. CASE dict' = dict
    BY <1>1, <2>1 DEF NamesTyped
  <2>2. CASE dict' = [dict EXCEPT ![d] = Restrict(dict[d], DOMAIN dict[d] \ {h.id})]
    <3>1. d \in Dicts
      BY DEF Dicts
    <3> HIDE DEF d
    <3> QED
      BY <1>1, <2>2, <3>1, Drops
  <2> QED
    BY <2>1, <2>2
<1>5. NamesTyped'
  BY <1>1, <1>3, <1>4 DEF NamesTyped
<1>6. ASSUME NEW u \in Client
      PROVE  CallHolds(u)' /\ \A g \in handles'[u] : HandleHolds(u, g)'
  <2>1. CASE u = c
    BY <1>2, <1>3, <2>1 DEF CallHolds
  <2>2. CASE u # c
    <3>1. ASSUME NEW g \in handles[u]
          PROVE  g.id \in DOMAIN dict'[g.kind] /\ dict'[g.kind][g.id] = dict[g.kind][g.id]
      <4>1. HandleHolds(u, g) /\ g \in Handle
        BY <1>1 DEF NamesTyped
      <4>2. CASE g.kind # d
        BY <1>4, <4>1, <4>2 DEF HandleHolds, Handle
      <4>3. CASE g.kind = d
        BY <1>2, <1>4, <2>2, <4>1, <4>3 DEF HandleHolds
      <4> QED
        BY <4>2, <4>3
    <3>2. call[u] # Idle /\ call[u].kind = "removal" =>
            /\ call[u].id \in DOMAIN dict'["result_set"]
            /\ dict'["result_set"][call[u].id] = dict["result_set"][call[u].id]
      <4>1. dict'["result_set"] = dict["result_set"]
        BY <1>4 DEF Dicts
      <4> QED
        BY <1>1, <4>1 DEF CallHolds
    <3> QED
      BY <1>3, <2>2, <3>1, <3>2, ClientStays
  <2> QED
    BY <2>1, <2>2
<1> QED
  BY <1>5, <1>6 DEF NamesHold

\* The first section of the close of a result set: the client gives up its id,
\* and its metadata, and is about to remove it.
LEMMA ClosingResultSet ==
  ASSUME IInv, Stays, NEW c \in Client, NEW h, Using(c, "result_set", h), dict' = dict,
         handles' = [handles EXCEPT ![c] = {g \in handles[c] :
                        g.object # h.object \/ g.kind \notin {"result_set", "metadata"}}],
         call' = call \/ Made(c, "removal", h.object, h.id)
  PROVE  NamesHold'
<1> DEFINE H == {g \in handles[c] :
                   g.object # h.object \/ g.kind \notin {"result_set", "metadata"}}
           new == [kind |-> "removal", object |-> h.object, id |-> h.id]
<1>1. NamesTyped /\ \A u \in Client : CallHolds(u) /\ \A g \in handles[u] : HandleHolds(u, g)
  BY DEF IInv, NamesHold
<1>2. /\ call[c] = Idle /\ h \in handles[c] /\ h.kind = "result_set"
      /\ h.object \in Objects("result_set") /\ Owner("result_set", h.object) = c
      /\ h.id \in DOMAIN dict["result_set"] /\ dict["result_set"][h.id] = h.object
      /\ h.id \in Nat /\ h.object \in Nat
  BY Uses DEF Dicts
<1>3. /\ H \subseteq handles[c] /\ H \in SUBSET Handle
      /\ \A g \in H : g.kind \in {"result_set", "metadata"} => g.object # h.object
      /\ \A g \in handles[c] : g.object # h.object => g \in H
  BY <1>1 DEF NamesTyped
<1> HIDE DEF H
<1>4. /\ handles' \in [Client -> SUBSET Handle] /\ handles'[c] = H
      /\ \A u \in Client \ {c} : handles'[u] = handles[u]
  BY <1>1, <1>3, HandlesTyped DEF H
<1>5. new \in {Idle} \cup Call /\ new.kind = "removal" /\ new.object = h.object /\ new.id = h.id
  BY <1>2 DEF Call
<1>6. call' = call \/ call' = [call EXCEPT ![c] = new]
  BY DEF Made
<1> HIDE DEF new
<1>7. /\ call' \in [Client -> {Idle} \cup Call]
      /\ \A u \in Client \ {c} : call'[u] = call[u]
      /\ call'[c] = Idle \/ call'[c] = new
  BY <1>1, <1>2, <1>5, <1>6 DEF NamesTyped
<1>8. NamesTyped'
  BY <1>1, <1>4, <1>7 DEF NamesTyped
<1>9. ASSUME NEW u \in Client, NEW g \in handles[u], g.kind = "metadata" =>
               [kind |-> "result_set", id |-> g.id, object |-> g.object] \in handles'[u]
      PROVE  HandleHolds(u, g)'
  <2>1. HandleHolds(u, g)
    BY <1>1
  <2> QED
    BY <1>9, <2>1, HandleStays DEF HandleHolds
<1>10. \A g \in handles'[c] : HandleHolds(c, g)'
  <2> TAKE g \in handles'[c]
  <2>1. g \in handles[c] /\ HandleHolds(c, g)
    BY <1>1, <1>3, <1>4
  <2>2. g.kind = "metadata" =>
          [kind |-> "result_set", id |-> g.id, object |-> g.object] \in handles'[c]
    <3> SUFFICES ASSUME g.kind = "metadata"
                 PROVE  [kind |-> "result_set", id |-> g.id, object |-> g.object] \in H
      BY <1>4
    <3> DEFINE k == [kind |-> "result_set", id |-> g.id, object |-> g.object]
    <3>1. k \in handles[c] /\ k.object = g.object
      BY <2>1 DEF HandleHolds
    <3>2. g.object # h.object
      BY <1>3, <1>4
    <3> HIDE DEF k
    <3>3. k \in H
      BY <1>3, <3>1, <3>2
    <3> QED
      BY <3>3 DEF k
  <2> QED
    BY <1>9, <2>1, <2>2
<1>11. CallHolds(c)'
  <2>1. CASE call'[c] = Idle
    BY <2>1 DEF CallHolds
  <2>2. CASE call'[c] = new
    <3>1. PICK y : y = new
      OBVIOUS
    <3>2. /\ y.object \in Objects("result_set")' /\ Owner("result_set", y.object)' = c
      BY <1>2, <1>5, <3>1, OwnersStay DEF IInv
    <3>3. y.object \in Objects(y.kind)' /\ Owner(y.kind, y.object)' = c
      BY <1>5, <3>1, <3>2 DEF Objects, Owner, OfConnection
    <3>4. \A g \in handles'[c] : g.kind \in {"result_set", "metadata"} => g.object # y.object
      BY <1>3, <1>4, <1>5, <3>1
    <3> QED
      BY <1>2, <1>5, <2>2, <3>1, <3>3, <3>4 DEF CallHolds
  <2> QED
    BY <1>7, <2>1, <2>2
<1>12. ASSUME NEW u \in Client, u # c
       PROVE  CallHolds(u)' /\ \A g \in handles'[u] : HandleHolds(u, g)'
  BY <1>1, <1>4, <1>7, <1>12, ClientStays DEF HandleHolds, CallHolds
<1> QED
  BY <1>8, <1>10, <1>11, <1>12 DEF NamesHold

LEMMA RemovesResultSet ==
  ASSUME IInv, NEW c \in Client, RemoveResultSet(c)
  PROVE  IInv'
<1> DEFINE d == "result_set"
<1>1. PICK x : x = call[c]
  OBVIOUS
<1>2. /\ x # Idle /\ x.kind = "removal" /\ call' = [call EXCEPT ![c] = Idle]
      /\ UNCHANGED <<poisoned, connection, result_set, handles>>
      /\ dict' = dict \/ dict' = [dict EXCEPT ![d] = Restrict(dict[d], DOMAIN dict[d] \ {x.id})]
  BY <1>1 DEF RemoveResultSet
<1>3. NamesTyped /\ \A u \in Client : CallHolds(u) /\ \A h \in handles[u] : HandleHolds(u, h)
  BY DEF IInv, NamesHold
<1>4. DataHolds' /\ Stays
  BY <1>2, NoConnection DEF IInv
<1>5. /\ x.object \in Objects("removal") /\ Owner("removal", x.object) = c
      /\ x.id \in DOMAIN dict[d] /\ dict[d][x.id] = x.object
      /\ \A h \in handles[c] : h.kind \in {"result_set", "metadata"} => h.object # x.object
  BY <1>1, <1>2, <1>3 DEF CallHolds
<1>6. Owner(d, x.object) = c /\ \A y : Owner("removal", y) = Owner(d, y)
  BY <1>5 DEF Owner, OfConnection
<1>7. /\ DOMAIN dict' = Dicts
      /\ \A e \in Dicts \ {d} : dict'[e] = dict[e]
      /\ \A e \in Dicts : IsFiniteSet(DOMAIN dict'[e]) /\ DOMAIN dict'[e] \subseteq Nat
      /\ DOMAIN dict[d] \ {x.id} \subseteq DOMAIN dict'[d]
      /\ \A n \in DOMAIN dict[d] \ {x.id} : dict'[d][n] = dict[d][n]
  <2>1. CASE dict' = dict
    BY <1>3, <2>1 DEF NamesTyped
  <2>2. CASE dict' = [dict EXCEPT ![d] = Restrict(dict[d], DOMAIN dict[d] \ {x.id})]
    <3>1. d \in Dicts
      BY DEF Dicts
    <3> HIDE DEF d
    <3> QED
      BY <1>3, <2>2, <3>1, Drops
  <2> QED
    BY <1>2, <2>1, <2>2
<1>8. /\ call' \in [Client -> {Idle} \cup Call] /\ call'[c] = Idle
      /\ \A u \in Client \ {c} : call'[u] = call[u]
  BY <1>2, <1>3, CallsTyped
<1>9. NamesTyped'
  BY <1>2, <1>3, <1>7, <1>8 DEF NamesTyped
<1>10. ASSUME NEW u \in Client, NEW h \in handles[u]
       PROVE  h.id \in DOMAIN dict'[h.kind] /\ dict'[h.kind][h.id] = dict[h.kind][h.id]
  <2>1. HandleHolds(u, h) /\ h \in Handle
    BY <1>3 DEF NamesTyped
  <2>2. CASE h.kind # d
    BY <1>7, <2>1, <2>2 DEF HandleHolds, Handle
  <2>3. CASE h.kind = d
    <3>1. h.object # x.object
      BY <1>5, <1>6, <2>1, <2>3 DEF HandleHolds
    <3> QED
      BY <1>5, <1>7, <2>1, <2>3, <3>1 DEF HandleHolds
  <2> QED
    BY <2>2, <2>3
<1>11. ASSUME NEW u \in Client
       PROVE  CallHolds(u)' /\ \A h \in handles'[u] : HandleHolds(u, h)'
  <2>1. CASE u = c
    <3>1. \A h \in handles'[c] : HandleHolds(c, h)'
      <4> TAKE h \in handles'[c]
      <4>1. h \in handles[c] /\ HandleHolds(c, h)
        BY <1>2, <1>3
      <4>2. h.id \in DOMAIN dict'[h.kind] /\ dict'[h.kind][h.id] = dict[h.kind][h.id]
        BY <1>10, <4>1
      <4>3. h.kind = "metadata" =>
              [kind |-> "result_set", id |-> h.id, object |-> h.object] \in handles'[c]
        BY <1>2, <4>1 DEF HandleHolds
      <4> QED
        BY <1>4, <4>1, <4>2, <4>3, HandleStays
    <3> QED
      BY <1>8, <2>1, <3>1 DEF CallHolds
  <2>2. CASE u # c
    <3>1. call[u] # Idle /\ call[u].kind = "removal" =>
            /\ call[u].id \in DOMAIN dict'["result_set"]
            /\ dict'["result_set"][call[u].id] = dict["result_set"][call[u].id]
      <4> SUFFICES ASSUME call[u] # Idle, call[u].kind = "removal"
                   PROVE  call[u].id \in DOMAIN dict[d] /\ call[u].id # x.id
        BY <1>7
      <4>1. /\ call[u].id \in DOMAIN dict[d] /\ dict[d][call[u].id] = call[u].object
            /\ Owner("removal", call[u].object) = u
        BY <1>3 DEF CallHolds
      <4> QED
        BY <1>5, <2>2, <4>1
    <3> QED
      BY <1>2, <1>4, <1>8, <1>10, <2>2, <3>1, ClientStays
  <2> QED
    BY <2>1, <2>2
<1> QED
  BY <1>4, <1>9, <1>11 DEF IInv, NamesHold

-----------------------------------------------------------------------------
(* The steps.                                                              *)

LEMMA CreatingConnection ==
  ASSUME IInv, NEW c \in Client, CreateConnection(c)
  PROVE  IInv'
<1>1. /\ call[c] = Idle /\ UNCHANGED <<dict, result_set, handles>>
      /\ \/ /\ connection' = Append(connection, NewConnection(c))
            /\ Made(c, "connection", Len(connection) + 1, 0) /\ UNCHANGED poisoned
         \/ Panic("driver") /\ UNCHANGED <<connection, call>>
  BY DEF CreateConnection
<1>2. CASE Panic("driver") /\ UNCHANGED <<connection, call>>
  <2>1. DataHolds' /\ Stays
    BY <1>1, <1>2, NoConnection DEF IInv, Panic
  <2> QED
    BY <1>1, <1>2, <2>1, NamesStay DEF IInv
<1>3. CASE /\ connection' = Append(connection, NewConnection(c))
           /\ Made(c, "connection", Len(connection) + 1, 0) /\ UNCHANGED poisoned
  <2>1. PICK new : new = NewConnection(c)
    OBVIOUS
  <2>2. PICK n : n = Len(connection)
    OBVIOUS
  <2>3. /\ connection \in Seq(Connection) /\ n \in Nat /\ DOMAIN connection = 1..n
        /\ \A i \in DOMAIN connection : ConnectionHolds(connection[i], poisoned)
        /\ \A r \in DOMAIN result_set : result_set[r].connection \in DOMAIN connection
    BY <2>2, DataTypes DEF IInv, DataHolds
  <2>4. new \in Connection /\ new.client = c /\ new.locks = {}
    BY <2>1 DEF NewConnection, Connection
  <2>5. ConnectionHolds(new, poisoned)
    BY <2>1 DEF NewConnection, ConnectionHolds
  <2>6. /\ connection' \in Seq(Connection) /\ Len(connection') = n + 1
        /\ \A i \in 1..n : connection'[i] = connection[i]
        /\ connection'[n + 1] = new
    BY <1>3, <2>1, <2>2, <2>3, <2>4, AppendProperties
  <2>7. DOMAIN connection' = DOMAIN connection \cup {n + 1}
    BY <2>3, <2>6, LenProperties
  <2>8. DataHolds'
    <3>1. \A i \in DOMAIN connection' : \A t \in connection'[i].locks \ {connection'[i].tx} :
            LateRead(i, t)'
      <4> TAKE i \in DOMAIN connection'
      <4> TAKE t \in connection'[i].locks \ {connection'[i].tx}
      <4>1. i \in 1..n /\ connection'[i] = connection[i]
        BY <2>3, <2>4, <2>6, <2>7
      <4>2. LateRead(i, t)
        BY <2>3, <4>1 DEF IInv, DataHolds
      <4> QED
        BY <1>1, <4>2 DEF LateRead
    <3> QED
      BY <1>1, <1>3, <2>3, <2>5, <2>6, <2>7, <3>1 DEF DataHolds, IInv
  <2>9. Stays
    BY <1>1, <2>3, <2>6, <2>7 DEF Stays
  <2>10. Made(c, "connection", n + 1, 0)
    BY <1>3, <2>2
  <2>11. PICK x : x = n + 1
    OBVIOUS
  <2>12. x \in Objects("connection")' /\ Owner("connection", x)' = c
    BY <2>4, <2>6, <2>7, <2>11 DEF Objects, Owner, OfConnection
  <2>13. x \in Nat /\ Made(c, "connection", x, 0) /\ "connection" \in Dicts
    BY <2>3, <2>10, <2>11 DEF Dicts
  <2>14. NamesHold'
    BY <1>1, <2>9, <2>12, <2>13, NamesMade
  <2> QED
    BY <2>8, <2>14 DEF IInv
<1> QED
  BY <1>1, <1>2, <1>3

LEMMA RegisteringFree ==
  ASSUME IInv, NEW c \in Client, NEW d \in {"connection", "statement", "result_set"},
         Register(c, d, free_id(dict[d]))
  PROVE  IInv'
<1>1. free_id(dict[d]) \in Nat \ DOMAIN dict[d]
  <2>1. IsFiniteSet(DOMAIN dict[d]) /\ DOMAIN dict[d] \subseteq Nat
    BY DEF IInv, NamesHold, NamesTyped, Dicts
  <2> QED
    BY <2>1, FreeId
<1>2. d \in Dicts /\ d # "metadata"
  BY DEF Dicts
<1> QED
  BY <1>1, <1>2, Registered

LEMMA CreatingStatement ==
  ASSUME IInv, NEW c \in Client, CreateStatement(c)
  PROVE  IInv'
<1>1. PICK h \in handles[c] :
        /\ Using(c, "connection", h)
        /\ \/ Made(c, "statement", dict["connection"][h.id], 0) /\ UNCHANGED poisoned
           \/ Panic("connection") /\ UNCHANGED call
        /\ UNCHANGED <<dict, connection, result_set, handles>>
  BY DEF CreateStatement
<1>2. /\ call[c] = Idle /\ h.object \in Objects("connection") /\ Owner("connection", h.object) = c
      /\ dict["connection"][h.id] = h.object /\ h.object \in Nat
  BY <1>1, Uses DEF Dicts
<1>3. DataHolds' /\ Stays
  BY <1>1, NoConnection DEF IInv, Panic
<1>4. h.object \in Objects("connection")' /\ Owner("connection", h.object)' = c
  BY <1>2, <1>3, OwnersStay DEF IInv
<1>5. h.object \in Objects("statement")' /\ Owner("statement", h.object)' = c
  BY <1>4 DEF Objects, Owner, OfConnection
<1>6. NamesHold'
  <2>1. CASE Made(c, "statement", dict["connection"][h.id], 0)
    BY <1>1, <1>2, <1>3, <1>5, <2>1, NamesMade DEF Dicts
  <2>2. CASE UNCHANGED call
    BY <1>1, <1>3, <2>2, NamesStay
  <2> QED
    BY <1>1, <2>1, <2>2
<1> QED
  BY <1>3, <1>6 DEF IInv

LEMMA GettingMetadata ==
  ASSUME IInv, NEW c \in Client, GetMetadata(c)
  PROVE  IInv'
<1>1. PICK h \in handles[c] :
        /\ Using(c, "result_set", h) /\ Made(c, "metadata", dict["result_set"][h.id], h.id)
        /\ UNCHANGED <<dict, poisoned, connection, result_set, handles>>
  BY DEF GetMetadata
<1>2. /\ call[c] = Idle /\ h.object \in Objects("result_set") /\ Owner("result_set", h.object) = c
      /\ dict["result_set"][h.id] = h.object /\ h.object \in Nat /\ h.id \in Nat
      /\ h.kind = "result_set" /\ h \in Handle
  BY <1>1, Uses DEF Dicts
<1>3. DataHolds' /\ Stays
  BY <1>1, NoConnection DEF IInv
<1>4. h.object \in Objects("result_set")' /\ Owner("result_set", h.object)' = c
  BY <1>2, <1>3, OwnersStay DEF IInv
<1>5. h.object \in Objects("metadata")' /\ Owner("metadata", h.object)' = c
  BY <1>4 DEF Objects, Owner, OfConnection
<1>6. h = [kind |-> "result_set", id |-> h.id, object |-> h.object]
  BY <1>2 DEF Handle
<1>7. NamesHold'
  <2>1. [kind |-> "result_set", id |-> h.id, object |-> h.object] \in handles[c]
    BY <1>6
  <2> QED
    BY <1>1, <1>2, <1>3, <1>5, <2>1, NamesMade DEF Dicts
<1> QED
  BY <1>3, <1>7 DEF IInv

\* A rollback drops the changes and the locks.
LEMMA RollsBack ==
  ASSUME NEW conn \in Connection, NEW P, ConnectionHolds(conn, P)
  PROVE  /\ rolled_back(conn) \in Connection /\ rolled_back(conn).client = conn.client
         /\ rolled_back(conn).locks = conn.locks \ {conn.tx}
         /\ ConnectionHolds(rolled_back(conn), P)
<1>1. /\ rolled_back(conn) \in Connection /\ rolled_back(conn).client = conn.client
      /\ rolled_back(conn).changed = {} /\ rolled_back(conn).locks = conn.locks \ {conn.tx}
      /\ rolled_back(conn).stored = conn.stored /\ rolled_back(conn).answered = conn.answered
  <2> DEFINE d == [conn EXCEPT !.changed = {}, !.locks = conn.locks \ {conn.tx}]
             e == [d EXCEPT !.tx = conn.tx + 1]
  <2>1. rolled_back(conn) = e
    BY DEF rolled_back, Connection
  <2>2. /\ d \in Connection /\ d.client = conn.client /\ d.changed = {}
        /\ d.locks = conn.locks \ {conn.tx} /\ d.stored = conn.stored
        /\ d.answered = conn.answered
    BY DEF Connection
  <2> HIDE DEF d
  <2>3. /\ e \in Connection /\ e.client = d.client /\ e.changed = d.changed
        /\ e.locks = d.locks /\ e.stored = d.stored /\ e.answered = d.answered
    BY <2>2 DEF Connection
  <2> HIDE DEF e
  <2> QED
    BY <2>1, <2>2, <2>3
<1> QED
  BY <1>1 DEF ConnectionHolds

\* The connection of an object of a client.
LEMMA TheConnection ==
  ASSUME DataHolds, NEW i, i \in Objects("connection")
  PROVE  /\ i \in DOMAIN connection /\ connection[i] \in Connection
         /\ ConnectionHolds(connection[i], poisoned)
<1>1. i \in DOMAIN connection
  BY DEF Objects, OfConnection
<1> QED
  BY <1>1, DataTypes DEF DataHolds

LEMMA Ending ==
  ASSUME IInv, NEW c \in Client, NEW how \in {"commit", "rollback"}, End(c, how)
  PROVE  IInv'
<1>1. PICK h, i :
        /\ h \in handles[c] /\ i = dict["connection"][h.id] /\ Using(c, "connection", h)
        /\ IF connection[i].broken
           THEN Panic("connection") /\ UNCHANGED <<connection, result_set>>
           ELSE /\ connection' = [connection EXCEPT ![i] = ended(connection[i], how)]
                /\ result_set' = unpinned(i) /\ UNCHANGED poisoned
        /\ UNCHANGED <<dict, call, handles>>
  BY DEF End
<1>2. i \in Objects("connection")
  BY <1>1, Uses DEF Dicts
<1>3. DataHolds' /\ Stays
  <2>1. CASE connection[i].broken
    BY <1>1, <2>1, NoConnection DEF IInv, Panic
  <2>2. CASE ~connection[i].broken
    <3>1. /\ i \in DOMAIN connection /\ connection[i] \in Connection
          /\ ConnectionHolds(connection[i], poisoned)
      BY <1>2, TheConnection DEF IInv
    <3>2. PICK old : old = connection[i]
      OBVIOUS
    <3>3. PICK new : new = ended(old, how)
      OBVIOUS
    <3>4. connection' = [connection EXCEPT ![i] = new] /\ result_set' = unpinned(i) /\ poisoned' = poisoned
      BY <1>1, <2>2, <3>2, <3>3
    <3>5. /\ new \in Connection /\ new.client = old.client /\ ConnectionHolds(new, poisoned)
          /\ new.locks = old.locks \ {old.tx}
      <4>1. CASE how = "commit"
        BY <3>1, <3>2, <3>3, <4>1, Commits, CommitKeeps DEF ended
      <4>2. CASE how = "rollback"
        BY <3>1, <3>2, <3>3, <4>2, RollsBack DEF ended
      <4> QED
        BY <4>1, <4>2
    <3>6. ScansAfter(i, new.tx)
      BY <3>1, <3>4, UnpinnedScans DEF IInv
    <3>7. LocksAfter(i, new)
      BY <3>2, <3>5 DEF LocksAfter
    <3> QED
      BY <3>1, <3>2, <3>4, <3>5, <3>6, <3>7, OneConnection DEF IInv
  <2> QED
    BY <2>1, <2>2
<1> QED
  BY <1>1, <1>3, NamesStay DEF IInv

LEMMA ClosingConnection ==
  ASSUME IInv, NEW c \in Client, Close(c)
  PROVE  IInv'
<1>1. PICK h, i :
        /\ h \in handles[c] /\ i = dict["connection"][h.id] /\ Using(c, "connection", h)
        /\ IF connection[i].broken
           THEN Panic("connection") /\ UNCHANGED <<dict, connection, result_set>>
           ELSE /\ connection' = [connection EXCEPT ![i] = closed(connection[i])]
                /\ result_set' = unpinned(i) /\ UNCHANGED poisoned
                /\ dict' = [dict EXCEPT !["connection"] =
                     Restrict(dict["connection"], DOMAIN dict["connection"] \ {h.id})]
        /\ handles' = [handles EXCEPT ![c] = {}]
        /\ UNCHANGED call
  BY DEF Close
<1>2. i \in Objects("connection")
  BY <1>1, Uses DEF Dicts
<1>3. DataHolds' /\ Stays
  <2>1. CASE connection[i].broken
    BY <1>1, <2>1, NoConnection DEF IInv, Panic
  <2>2. CASE ~connection[i].broken
    <3>1. /\ i \in DOMAIN connection /\ connection[i] \in Connection
          /\ ConnectionHolds(connection[i], poisoned)
      BY <1>2, TheConnection DEF IInv
    <3>2. PICK old : old = connection[i]
      OBVIOUS
    <3>3. PICK new : new = closed(old)
      OBVIOUS
    <3>4. connection' = [connection EXCEPT ![i] = new] /\ result_set' = unpinned(i) /\ poisoned' = poisoned
      BY <1>1, <2>2, <3>2, <3>3
    <3>5. /\ new \in Connection /\ new.client = old.client /\ ConnectionHolds(new, poisoned)
          /\ new.locks = old.locks \ {old.tx}
      BY <3>1, <3>2, <3>3, Closes, CommitKeeps
    <3>6. ScansAfter(i, new.tx)
      BY <3>1, <3>4, UnpinnedScans DEF IInv
    <3>7. LocksAfter(i, new)
      BY <3>2, <3>5 DEF LocksAfter
    <3> QED
      BY <3>1, <3>2, <3>4, <3>5, <3>6, <3>7, OneConnection DEF IInv
  <2> QED
    BY <2>1, <2>2
<1>4. \/ dict' = dict
      \/ dict' = [dict EXCEPT !["connection"] =
                    Restrict(dict["connection"], DOMAIN dict["connection"] \ {h.id})]
  BY <1>1
<1>5. NamesHold'
  BY <1>1, <1>3, <1>4, Closing
<1> QED
  BY <1>3, <1>5 DEF IInv

\* What a call leaves behind of its connection: more locks, and perhaps a
\* poisoned mutex.
Left(conn, new, L) ==
  /\ new \in Connection /\ new.client = conn.client /\ new.tx = conn.tx
  /\ new.locks = conn.locks \cup L /\ new.changed = conn.changed
  /\ new.stored = conn.stored /\ new.answered = conn.answered

LEMMA Leaves ==
  ASSUME NEW conn, NEW P, NEW Q, ConnectionHolds(conn, P), P \subseteq Q,
         NEW L, NEW new, Left(conn, new, L)
  PROVE  ConnectionHolds(new, Q)
BY DEF ConnectionHolds, Left

\* Locks of the current transaction need no late read.
LEMMA CurrentLocks ==
  ASSUME NEW i, NEW new, NEW L, new.tx = connection[i].tx, L \subseteq {connection[i].tx},
         new.locks = connection[i].locks \cup L
  PROVE  LocksAfter(i, new)
BY DEF LocksAfter

\* A call that leaves the scans as they are, and locks of its transaction.
LEMMA Leaving ==
  ASSUME DataHolds, NEW i \in DOMAIN connection, NEW L, L \subseteq {connection[i].tx},
         NEW b \in BOOLEAN, connection' = left(i, L, b),
         poisoned \subseteq poisoned', result_set' = result_set
  PROVE  DataHolds' /\ Stays
<1> DEFINE old == connection[i]
           d == old.broken \/ b
           new == [old EXCEPT !.locks = old.locks \cup L, !.broken = d]
<1>1. d \in BOOLEAN
  OBVIOUS
<1>2. old \in Connection /\ ConnectionHolds(old, poisoned)
  BY DataTypes DEF DataHolds
<1>3. connection' = [connection EXCEPT ![i] = new]
  BY DEF left
<1> HIDE DEF d
<1>4. new = [old EXCEPT !.locks = old.locks \cup L, !.broken = d]
  OBVIOUS
<1> HIDE DEF new
<1>5. old.tx = connection[i].tx /\ old.locks = connection[i].locks
      /\ old.client = connection[i].client
  OBVIOUS
<1> HIDE DEF old
<1>6. L \in SUBSET Nat
  BY <1>2, <1>5 DEF Connection
<1>7. Left(old, new, L)
  BY <1>1, <1>2, <1>4, <1>6 DEF Left, Connection
<1>8. /\ new \in Connection /\ new.client = old.client /\ new.tx = old.tx
      /\ new.locks = old.locks \cup L /\ ConnectionHolds(new, poisoned')
  BY <1>2, <1>7, Leaves DEF Left
<1>9. ScansAfter(i, new.tx) /\ LocksAfter(i, new)
  BY <1>5, <1>8, SameScans, CurrentLocks
<1> QED
  BY <1>3, <1>5, <1>8, <1>9, OneConnection

LEMMA Updates ==
  ASSUME NEW conn \in Connection, NEW P, ConnectionHolds(conn, P), NEW u \in Nat
  PROVE  LET new == updated([conn EXCEPT !.updates = u], u)
         IN  /\ new \in Connection /\ new.client = conn.client
             /\ new.locks = conn.locks \ {conn.tx} /\ ConnectionHolds(new, P)
<1> DEFINE c1 == [conn EXCEPT !.updates = u]
           c2 == [c1 EXCEPT !.changed = c1.changed \cup ({u} \X Parts)]
           c3 == committed(c2)
           new == [c3 EXCEPT !.answered = c3.answered \cup {u}]
<1>1. /\ c1 \in Connection /\ c1.client = conn.client /\ c1.changed = conn.changed
      /\ c1.stored = conn.stored /\ c1.locks = conn.locks /\ c1.tx = conn.tx
      /\ c1.answered = conn.answered
  BY DEF Connection
<1>2. updated(c1, u) = new
  BY DEF updated
<1> HIDE DEF c1
<1>3. c1.changed \cup ({u} \X Parts) \in SUBSET (Nat \X Parts)
  BY <1>1 DEF Connection
<1>4. /\ c2 \in Connection /\ c2.client = c1.client
      /\ c2.changed = c1.changed \cup ({u} \X Parts)
      /\ c2.stored = c1.stored /\ c2.locks = c1.locks /\ c2.tx = c1.tx
      /\ c2.answered = c1.answered
  BY <1>1, <1>3 DEF Connection
<1> HIDE DEF c2
<1>5. /\ c3 \in Connection /\ c3.client = c2.client /\ c3.changed = {}
      /\ c3.stored = c2.stored \cup c2.changed /\ c3.locks = c2.locks \ {c2.tx}
      /\ c3.answered = c2.answered
  BY <1>4, Commits
<1> HIDE DEF c3
<1>6. /\ new \in Connection /\ new.client = c3.client /\ new.changed = {}
      /\ new.stored = c3.stored /\ new.locks = c3.locks
      /\ new.answered = c3.answered \cup {u}
  BY <1>5 DEF Connection
<1> HIDE DEF new
<1>7. /\ new.stored = conn.stored \cup conn.changed \cup ({u} \X Parts)
      /\ new.locks = conn.locks \ {conn.tx} /\ new.answered = conn.answered \cup {u}
  BY <1>1, <1>4, <1>5, <1>6
<1>8. new.answered \X Parts \subseteq new.stored
  BY <1>7 DEF ConnectionHolds
<1>9. \A w \in new.stored : {w[1]} \X Parts \subseteq new.stored \/ "statement" \in P
  <2> SUFFICES ASSUME NEW w \in new.stored, "statement" \notin P
               PROVE  {w[1]} \X Parts \subseteq new.stored
    OBVIOUS
  <2>1. conn.changed = {} /\ \A v \in conn.stored : {v[1]} \X Parts \subseteq conn.stored
    BY DEF ConnectionHolds
  <2>2. w \in conn.stored \/ w[1] = u
    BY <1>7, <2>1
  <2> QED
    BY <1>7, <2>1, <2>2
<1>10. ConnectionHolds(new, P)
  BY <1>6, <1>8, <1>9 DEF ConnectionHolds
<1> QED
  BY <1>1, <1>2, <1>4, <1>5, <1>6, <1>7, <1>10 DEF c1

LEMMA UpdateFails ==
  ASSUME NEW conn \in Connection, NEW P, ConnectionHolds(conn, P), NEW u \in Nat,
         NEW Q, P \subseteq Q, "statement" \in Q, NEW written \in SUBSET (Nat \X Parts),
         NEW broken \in BOOLEAN
  PROVE  LET new == update_failed([conn EXCEPT !.updates = u], written, broken)
         IN  /\ new \in Connection /\ new.client = conn.client /\ new.tx = conn.tx
             /\ new.locks = conn.locks \cup {conn.tx} /\ ConnectionHolds(new, Q)
<1> DEFINE c1 == [conn EXCEPT !.updates = u]
           new == [c1 EXCEPT !.changed = c1.changed \cup written,
                             !.locks = c1.locks \cup {c1.tx}, !.broken = broken]
<1>1. /\ c1 \in Connection /\ c1.client = conn.client /\ c1.changed = conn.changed
      /\ c1.stored = conn.stored /\ c1.locks = conn.locks /\ c1.tx = conn.tx
      /\ c1.answered = conn.answered
  BY DEF Connection
<1>2. update_failed(c1, written, broken) = new
  BY DEF update_failed
<1> HIDE DEF c1
<1>3. c1.changed \cup written \in SUBSET (Nat \X Parts) /\ c1.locks \cup {c1.tx} \in SUBSET Nat
  BY <1>1 DEF Connection
<1>4. /\ new \in Connection /\ new.client = c1.client /\ new.tx = c1.tx
      /\ new.locks = c1.locks \cup {c1.tx} /\ new.stored = c1.stored
      /\ new.answered = c1.answered
  BY <1>1, <1>3 DEF Connection
<1> HIDE DEF new
<1>5. ConnectionHolds(new, Q)
  BY <1>1, <1>4 DEF ConnectionHolds
<1> QED
  BY <1>1, <1>2, <1>4, <1>5 DEF c1

LEMMA Querying ==
  ASSUME IInv, NEW c \in Client, ExecuteQuery(c)
  PROVE  IInv'
<1>1. PICK h, i :
        /\ h \in handles[c] /\ i = dict["statement"][h.id] /\ Using(c, "statement", h)
        /\ \/ /\ result_set' = Append(result_set,
                   [connection |-> i, tx |-> connection[i].tx, scan |-> "pinned",
                    late |-> FALSE])
              /\ Made(c, "result_set", Len(result_set) + 1, 0)
              /\ connection' = left(i, {connection[i].tx}, FALSE)
              /\ UNCHANGED poisoned
           \/ /\ Panic("statement")
              /\ \E locked \in SUBSET {connection[i].tx}, broken \in BOOLEAN :
                   connection' = left(i, locked, broken)
              /\ UNCHANGED <<result_set, call>>
        /\ UNCHANGED <<dict, handles>>
  BY DEF ExecuteQuery
<1>2. /\ call[c] = Idle /\ i \in Objects("statement") /\ Owner("statement", i) = c
  <2>1. "statement" \in Dicts
    BY DEF Dicts
  <2>2. Using(c, "statement", h) /\ i = dict["statement"][h.id]
    BY <1>1
  <2>3. /\ call[c] = Idle /\ h.object \in Objects("statement")
        /\ Owner("statement", h.object) = c /\ dict["statement"][h.id] = h.object
    BY <2>1, <2>2, Uses
  <2> QED
    BY <2>2, <2>3
<1>3. i \in Objects("connection")
  BY <1>2 DEF Objects, OfConnection
<1>4. PICK old : old = connection[i]
  OBVIOUS
<1>5. /\ i \in DOMAIN connection /\ old \in Connection /\ ConnectionHolds(old, poisoned)
      /\ old.client = c
  BY <1>2, <1>3, <1>4, TheConnection DEF IInv, Owner, OfConnection
<1>6. old.tx \in Nat
  BY <1>5 DEF Connection
<1>7. CASE /\ Panic("statement")
           /\ \E locked \in SUBSET {connection[i].tx}, broken \in BOOLEAN :
                connection' = left(i, locked, broken)
           /\ UNCHANGED <<result_set, call>>
  <2>1. poisoned \subseteq poisoned'
    BY <1>7 DEF Panic
  <2>2. DataHolds' /\ Stays
    BY <1>5, <1>7, <2>1, Leaving DEF IInv
  <2> QED
    BY <1>1, <1>7, <2>2, NamesStay DEF IInv
<1>8. CASE /\ result_set' = Append(result_set,
                [connection |-> i, tx |-> connection[i].tx, scan |-> "pinned",
                 late |-> FALSE])
           /\ Made(c, "result_set", Len(result_set) + 1, 0)
           /\ connection' = left(i, {connection[i].tx}, FALSE)
           /\ UNCHANGED poisoned
  <2>1. PICK L : L = {connection[i].tx}
    OBVIOUS
  <2> DEFINE d == connection[i].broken \/ FALSE
             new == [connection[i] EXCEPT !.locks = connection[i].locks \cup L, !.broken = d]
  <2>2. d \in BOOLEAN
    OBVIOUS
  <2>3. connection' = [connection EXCEPT ![i] = new]
    <3>1. connection' = left(i, L, FALSE)
      BY <1>8, <2>1
    <3> QED
      BY <3>1 DEF left
  <2> HIDE DEF d
  <2>21. new = [old EXCEPT !.locks = old.locks \cup L, !.broken = d]
    BY <1>4
  <2> HIDE DEF new
  <2>4. L \in SUBSET Nat /\ L \subseteq {old.tx}
    BY <1>4, <1>6, <2>1
  <2>5. /\ new \in Connection /\ new.client = old.client /\ new.tx = old.tx
        /\ ConnectionHolds(new, poisoned') /\ LocksAfter(i, new)
    <3>1. /\ new \in Connection /\ new.client = old.client /\ new.tx = old.tx
          /\ new.locks = old.locks \cup L /\ ConnectionHolds(new, poisoned')
      <4>1. Left(old, new, L)
        BY <1>5, <2>2, <2>4, <2>21 DEF Left, Connection
      <4> QED
        BY <1>5, <1>8, <4>1, Leaves DEF Left
    <3> QED
      BY <1>4, <2>4, <3>1, CurrentLocks
  <2>6. PICK rs : rs = [connection |-> i, tx |-> old.tx, scan |-> "pinned", late |-> FALSE]
    OBVIOUS
  <2>7. PICK n : n = Len(result_set)
    OBVIOUS
  <2>8. /\ n \in Nat /\ DOMAIN result_set = 1..n /\ i \in Nat
        /\ result_set \in Seq(ResultSet)
        /\ \A r \in 1..n : result_set[r].scan = "pinned" =>
             result_set[r].tx = connection[result_set[r].connection].tx
    BY <1>5, <2>7, DataTypes DEF IInv, DataHolds
  <2>9. rs \in ResultSet /\ rs.connection = i /\ rs.tx = old.tx
    BY <1>6, <2>6, <2>8 DEF ResultSet
  <2>10. result_set' = Append(result_set, rs)
    BY <1>4, <1>8, <2>6
  <2>11. /\ result_set' \in Seq(ResultSet) /\ Len(result_set') = n + 1
         /\ \A r \in 1..n : result_set'[r] = result_set[r]
         /\ result_set'[n + 1] = rs
    BY <2>7, <2>8, <2>9, <2>10, AppendProperties
  <2>12. DOMAIN result_set' = DOMAIN result_set \cup {n + 1}
    BY <2>8, <2>11, LenProperties
  <2>13. ScansAfter(i, new.tx)
    BY <1>4, <2>5, <2>8, <2>9, <2>11, <2>12 DEF ScansAfter
  <2>14. DataHolds' /\ Stays
    BY <1>4, <1>5, <1>8, <2>3, <2>5, <2>13, OneConnection DEF IInv
  <2>15. PICK x : x = n + 1
    OBVIOUS
  <2>16. x \in Nat /\ Made(c, "result_set", x, 0)
    BY <1>8, <2>7, <2>8, <2>15
  <2>17. connection'[i].client = c
    BY <1>4, <1>5, <2>14 DEF Stays
  <2>18. x \in Objects("result_set")' /\ Owner("result_set", x)' = c
    BY <2>9, <2>11, <2>12, <2>15, <2>17 DEF Objects, Owner, OfConnection
  <2>19. NamesHold'
    BY <1>1, <1>2, <2>14, <2>16, <2>18, NamesMade DEF Dicts
  <2> QED
    BY <2>14, <2>19 DEF IInv
<1> QED
  BY <1>1, <1>7, <1>8

LEMMA Updating ==
  ASSUME IInv, NEW c \in Client, ExecuteUpdate(c)
  PROVE  IInv'
<1>1. PICK h, i, u :
        /\ h \in handles[c] /\ i = dict["statement"][h.id] /\ Using(c, "statement", h)
        /\ u = connection[i].updates + 1
        /\ \/ /\ connection' = [connection EXCEPT
                   ![i] = updated([connection[i] EXCEPT !.updates = u], u)]
              /\ result_set' = unpinned(i) /\ UNCHANGED poisoned
           \/ /\ \E written \in {{}, {<<u, 1>>}}, broken \in BOOLEAN :
                   connection' = [connection EXCEPT
                     ![i] = update_failed([connection[i] EXCEPT !.updates = u], written, broken)]
              /\ Panic("statement") /\ UNCHANGED result_set
           \/ Panic("statement") /\ UNCHANGED <<connection, result_set>>
        /\ UNCHANGED <<dict, call, handles>>
  BY DEF ExecuteUpdate
<1>2. i \in Objects("statement")
  BY <1>1, Uses DEF Dicts
<1>3. i \in Objects("connection")
  BY <1>2 DEF Objects, OfConnection
<1>4. PICK old : old = connection[i]
  OBVIOUS
<1>5. i \in DOMAIN connection /\ old \in Connection /\ ConnectionHolds(old, poisoned)
  BY <1>3, <1>4, TheConnection DEF IInv
<1>6. u \in Nat
  BY <1>1, <1>4, <1>5 DEF Connection
<1>7. DataHolds' /\ Stays
  <2>1. CASE /\ connection' = [connection EXCEPT
                  ![i] = updated([connection[i] EXCEPT !.updates = u], u)]
             /\ result_set' = unpinned(i) /\ UNCHANGED poisoned
    <3>1. PICK new : new = updated([old EXCEPT !.updates = u], u)
      OBVIOUS
    <3>2. /\ new \in Connection /\ new.client = old.client /\ ConnectionHolds(new, poisoned)
          /\ new.locks = old.locks \ {old.tx}
      BY <1>5, <1>6, <3>1, Updates
    <3>3. ScansAfter(i, new.tx)
      BY <1>5, <2>1, UnpinnedScans DEF IInv
    <3>4. LocksAfter(i, new)
      BY <1>4, <3>2 DEF LocksAfter
    <3> QED
      BY <1>4, <1>5, <2>1, <3>1, <3>2, <3>3, <3>4, OneConnection DEF IInv
  <2>2. CASE /\ \E written \in {{}, {<<u, 1>>}}, broken \in BOOLEAN :
                  connection' = [connection EXCEPT
                    ![i] = update_failed([connection[i] EXCEPT !.updates = u], written, broken)]
             /\ Panic("statement") /\ UNCHANGED result_set
    <3>1. PICK written \in {{}, {<<u, 1>>}}, broken \in BOOLEAN :
                  connection' = [connection EXCEPT
                    ![i] = update_failed([connection[i] EXCEPT !.updates = u], written, broken)]
      BY <2>2
    <3>2. PICK new : new = update_failed([old EXCEPT !.updates = u], written, broken)
      OBVIOUS
    <3>3. poisoned \subseteq poisoned' /\ "statement" \in poisoned'
      BY <2>2 DEF Panic
    <3>4. written \in SUBSET (Nat \X Parts)
      BY <1>6 DEF Parts
    <3>5. /\ new \in Connection /\ new.client = old.client /\ new.tx = old.tx
          /\ new.locks = old.locks \cup {old.tx} /\ ConnectionHolds(new, poisoned')
      BY <1>5, <1>6, <3>2, <3>3, <3>4, UpdateFails
    <3>6. ScansAfter(i, new.tx)
      BY <1>4, <1>5, <2>2, <3>5, SameScans DEF IInv
    <3>7. LocksAfter(i, new)
      BY <1>4, <3>5, CurrentLocks
    <3> QED
      BY <1>4, <1>5, <3>1, <3>2, <3>3, <3>5, <3>6, <3>7, OneConnection DEF IInv
  <2>3. CASE Panic("statement") /\ UNCHANGED <<connection, result_set>>
    BY <2>3, NoConnection DEF IInv, Panic
  <2> QED
    BY <1>1, <2>1, <2>2, <2>3
<1> QED
  BY <1>1, <1>7, NamesStay DEF IInv

\* The connection of a result set of a client.
LEMMA TheResultSet ==
  ASSUME DataHolds, NEW r, r \in Objects("result_set")
  PROVE  /\ r \in DOMAIN result_set /\ result_set[r] \in ResultSet
         /\ result_set[r].connection \in Objects("connection")
         /\ result_set[r].scan = "pinned" =>
              result_set[r].tx = connection[result_set[r].connection].tx
<1>1. r \in DOMAIN result_set
  BY DEF Objects, OfConnection
<1> QED
  BY <1>1, DataTypes DEF DataHolds, Objects, OfConnection

\* The scans when a call on result set r takes the locks L: one under a
\* transaction that is over is late from then on.
LEMMA LockedScans ==
  ASSUME DataHolds, NEW r \in DOMAIN result_set, NEW L, result_set' = locked_by(r, L),
         NEW i \in DOMAIN connection
  PROVE  /\ ScansAfter(i, connection[i].tx)
         /\ result_set'[r].connection = result_set[r].connection
         /\ result_set'[r].tx = result_set[r].tx
         /\ result_set[r].scan = "unpinned" /\ L # {} => result_set'[r].late
         /\ r \in DOMAIN result_set'
<1>1. /\ result_set \in Seq(ResultSet) /\ Len(result_set) \in Nat
      /\ DOMAIN result_set = 1..Len(result_set) /\ result_set[r] \in ResultSet
  BY DataTypes DEF DataHolds
<1>2. PICK old : old = result_set[r]
  OBVIOUS
<1> DEFINE b == old.late \/ (old.scan = "unpinned" /\ L # {})
           new == [old EXCEPT !.late = b]
<1>3. b \in BOOLEAN /\ (old.late => b) /\ (old.scan = "unpinned" /\ L # {} => b)
  OBVIOUS
<1>6. result_set' = [result_set EXCEPT ![r] = new]
  BY <1>2 DEF locked_by
<1> HIDE DEF b
<1>5. /\ new \in ResultSet /\ new.connection = old.connection /\ new.tx = old.tx
      /\ new.scan = old.scan /\ new.late = b
  BY <1>1, <1>2, <1>3 DEF ResultSet
<1> HIDE DEF new
<1>7. /\ result_set' \in Seq(ResultSet) /\ Len(result_set') = Len(result_set)
      /\ \A q \in 1..Len(result_set) :
           result_set'[q] = IF q = r THEN new ELSE result_set[q]
  <2>1. r \in 1..Len(result_set)
    BY <1>1
  <2> QED
    BY ONLY <1>1, <1>5, <1>6, <2>1, ExceptSeq
<1>8. DOMAIN result_set' = DOMAIN result_set
  BY <1>1, <1>7, LenProperties
<1>9. result_set'[r] = new
  BY <1>1, <1>7
<1>10. ASSUME NEW q \in DOMAIN result_set
       PROVE  /\ result_set'[q].connection = result_set[q].connection
              /\ result_set'[q].tx = result_set[q].tx
              /\ result_set'[q].scan = result_set[q].scan
              /\ result_set[q].late => result_set'[q].late
  BY <1>1, <1>2, <1>3, <1>5, <1>7
<1>11. \A q \in DOMAIN result_set :
         result_set[q].scan = "pinned" =>
           result_set[q].tx = connection[result_set[q].connection].tx
  BY DEF DataHolds
<1> QED
  BY <1>2, <1>3, <1>5, <1>7, <1>8, <1>9, <1>10, <1>11 DEF ScansAfter

\* A call that uses the scan of result set r.
LEMMA Touches ==
  ASSUME DataHolds, NEW r, r \in Objects("result_set"), result_set[r].scan # "none",
         NEW L, L \in SUBSET {result_set[r].tx}, NEW b \in BOOLEAN,
         connection' = left(result_set[r].connection, L, b),
         result_set' = locked_by(r, L), poisoned \subseteq poisoned'
  PROVE  DataHolds' /\ Stays
<1>1. /\ r \in DOMAIN result_set /\ result_set[r] \in ResultSet
      /\ result_set[r].connection \in Objects("connection")
      /\ result_set[r].scan = "pinned" =>
           result_set[r].tx = connection[result_set[r].connection].tx
  BY TheResultSet
<1>2. PICK i : i = result_set[r].connection
  OBVIOUS
<1> DEFINE old == connection[i]
           d == old.broken \/ b
           new == [old EXCEPT !.locks = old.locks \cup L, !.broken = d]
<1>3. d \in BOOLEAN
  OBVIOUS
<1>4. i \in DOMAIN connection /\ old \in Connection /\ ConnectionHolds(old, poisoned)
  BY <1>1, <1>2, TheConnection
<1>5. connection' = [connection EXCEPT ![i] = new]
  <2>1. connection' = left(i, L, b)
    BY <1>2
  <2> QED
    BY <2>1 DEF left
<1> HIDE DEF d
<1>6. new = [old EXCEPT !.locks = old.locks \cup L, !.broken = d]
  OBVIOUS
<1> HIDE DEF new
<1>7. old = connection[i]
  OBVIOUS
<1> HIDE DEF old
<1>8. L \in SUBSET Nat
  BY <1>1 DEF ResultSet
<1>9. /\ new \in Connection /\ new.client = old.client /\ new.tx = old.tx
      /\ new.locks = old.locks \cup L /\ ConnectionHolds(new, poisoned')
  <2>1. Left(old, new, L)
    BY <1>3, <1>4, <1>6, <1>8 DEF Left, Connection
  <2> QED
    BY <1>4, <2>1, Leaves DEF Left
<1>10. /\ ScansAfter(i, new.tx) /\ r \in DOMAIN result_set'
       /\ result_set'[r].connection = i /\ result_set'[r].tx = result_set[r].tx
       /\ result_set[r].scan = "unpinned" /\ L # {} => result_set'[r].late
  BY <1>1, <1>2, <1>4, <1>7, <1>9, LockedScans
<1>11. LocksAfter(i, new)
  <2> SUFFICES ASSUME NEW t \in new.locks \ {new.tx}, t \notin old.locks
               PROVE  LateRead(i, t)'
    BY <1>7, <1>9 DEF LocksAfter
  <2>1. t \in L /\ t = result_set[r].tx
    BY <1>9
  <2>2. result_set[r].scan = "unpinned"
    BY <1>1, <1>2, <1>7, <1>9, <2>1 DEF ResultSet
  <2> QED
    BY <1>10, <2>1, <2>2 DEF LateRead
<1> QED
  BY <1>4, <1>5, <1>7, <1>9, <1>10, <1>11, OneConnection

LEMMA Reading ==
  ASSUME IInv, NEW c \in Client, Read(c)
  PROVE  IInv'
<1>1. PICK h, r, locked, broken :
        /\ h \in handles[c] /\ r = dict["result_set"][h.id]
        /\ Using(c, "result_set", h)
        /\ result_set[r].scan # "none" /\ broken \in BOOLEAN
        /\ locked \in SUBSET {result_set[r].tx}
        /\ connection' = left(result_set[r].connection, locked, broken)
        /\ result_set' = locked_by(r, locked)
        /\ UNCHANGED poisoned \/ Panic("result_set")
        /\ UNCHANGED <<dict, call, handles>>
  BY DEF Read
<1>2. r \in Objects("result_set")
  <2>1. "result_set" \in Dicts
    BY DEF Dicts
  <2>2. h.object \in Objects("result_set") /\ dict["result_set"][h.id] = h.object
    BY <1>1, <2>1, Uses
  <2> QED
    BY <1>1, <2>2
<1>3. DataHolds' /\ Stays
  <2>1. poisoned \subseteq poisoned'
    BY <1>1 DEF Panic
  <2> QED
    BY <1>1, <1>2, <2>1, Touches DEF IInv
<1> QED
  BY <1>1, <1>3, NamesStay DEF IInv

LEMMA Rewinding ==
  ASSUME IInv, NEW c \in Client, Rewind(c)
  PROVE  IInv'
<1>1. PICK h, r, locked, broken :
        /\ h \in handles[c] /\ r = dict["result_set"][h.id]
        /\ Using(c, "result_set", h)
        /\ result_set[r].scan # "none" /\ broken \in BOOLEAN
        /\ locked \in SUBSET {result_set[r].tx}
        /\ connection' = left(result_set[r].connection, locked, broken)
        /\ result_set' = locked_by(r, locked)
        /\ UNCHANGED poisoned \/ Panic("result_set")
        /\ UNCHANGED <<dict, call, handles>>
  BY DEF Rewind
<1>2. r \in Objects("result_set")
  <2>1. "result_set" \in Dicts
    BY DEF Dicts
  <2>2. h.object \in Objects("result_set") /\ dict["result_set"][h.id] = h.object
    BY <1>1, <2>1, Uses
  <2> QED
    BY <1>1, <2>2
<1>3. DataHolds' /\ Stays
  <2>1. poisoned \subseteq poisoned'
    BY <1>1 DEF Panic
  <2> QED
    BY <1>1, <1>2, <2>1, Touches DEF IInv
<1> QED
  BY <1>1, <1>3, NamesStay DEF IInv

\* The scan of r is dropped, after those of its connection have been unpinned.
LEMMA DropsScan ==
  ASSUME DataHolds, NEW i \in DOMAIN connection, NEW tx, NEW r \in DOMAIN result_set,
         result_set' = [unpinned(i) EXCEPT ![r].scan = "none"]
  PROVE  ScansAfter(i, tx)
<1>1. PICK S : S = unpinned(i)
  OBVIOUS
<1>2. /\ S \in Seq(ResultSet) /\ Len(S) = Len(result_set) /\ DOMAIN S = DOMAIN result_set
      /\ \A q \in DOMAIN result_set :
           /\ S[q].connection = result_set[q].connection /\ S[q].tx = result_set[q].tx
           /\ S[q].late = result_set[q].late
           /\ S[q].scan = "pinned" =>
                result_set[q].scan = "pinned" /\ result_set[q].connection # i
  BY <1>1, Unpins
<1>3. DOMAIN result_set = 1..Len(S)
  BY <1>2, DataTypes
<1>4. PICK old : old = S[r]
  OBVIOUS
<1>5. PICK new : new = [old EXCEPT !.scan = "none"]
  OBVIOUS
<1>6. old \in ResultSet
  BY <1>2, <1>3, <1>4, ElementOfSeq
<1>7. /\ new \in ResultSet /\ new.scan = "none" /\ new.tx = old.tx
      /\ new.connection = old.connection /\ new.late = old.late
  BY <1>5, <1>6 DEF ResultSet
<1>8. result_set' = [S EXCEPT ![r] = new]
  BY <1>1, <1>4, <1>5
<1>9. /\ result_set' \in Seq(ResultSet) /\ Len(result_set') = Len(S)
      /\ \A q \in 1..Len(S) : result_set'[q] = IF q = r THEN new ELSE S[q]
  <2>1. S \in Seq(ResultSet) /\ r \in 1..Len(S) /\ new \in ResultSet
    BY <1>2, <1>3, <1>7
  <2> QED
    BY ONLY <1>8, <2>1, ExceptSeq
<1>10. DOMAIN result_set' = DOMAIN result_set
  BY <1>3, <1>9, LenProperties
<1> QED
  BY <1>2, <1>3, <1>4, <1>7, <1>9, <1>10 DEF ScansAfter

LEMMA ClosingResult ==
  ASSUME IInv, NEW c \in Client, CloseResultSet(c)
  PROVE  IInv'
<1>1. PICK h, r, i :
        /\ h \in handles[c] /\ r = dict["result_set"][h.id] /\ i = result_set[r].connection
        /\ Using(c, "result_set", h)
        /\ \/ /\ Panic("result_set")
              /\ connection' = [connection EXCEPT ![i].broken = TRUE]
              /\ UNCHANGED <<result_set, call>>
           \/ /\ connection' = [connection EXCEPT ![i] = committed(connection[i])]
              /\ result_set' = [unpinned(i) EXCEPT ![r].scan = "none"]
              /\ Made(c, "removal", r, h.id)
              /\ UNCHANGED poisoned
        /\ handles' = [handles EXCEPT ![c] = {g \in handles[c] :
                          g.object # h.object \/ g.kind \notin {"result_set", "metadata"}}]
        /\ UNCHANGED dict
  BY DEF CloseResultSet
<1>2. r = h.object /\ r \in Objects("result_set")
  <2>1. "result_set" \in Dicts
    BY DEF Dicts
  <2>2. Using(c, "result_set", h) /\ r = dict["result_set"][h.id]
    BY <1>1
  <2>3. h.object \in Objects("result_set") /\ dict["result_set"][h.id] = h.object
    BY <2>1, <2>2, Uses
  <2> QED
    BY <2>2, <2>3
<1>3. r \in DOMAIN result_set /\ i \in Objects("connection")
  BY <1>1, <1>2, TheResultSet DEF IInv
<1>4. PICK old : old = connection[i]
  OBVIOUS
<1>5. i \in DOMAIN connection /\ old \in Connection /\ ConnectionHolds(old, poisoned)
  BY <1>3, <1>4, TheConnection DEF IInv
<1>6. DataHolds' /\ Stays
  <2>1. CASE /\ Panic("result_set")
             /\ connection' = [connection EXCEPT ![i].broken = TRUE]
             /\ UNCHANGED <<result_set, call>>
    <3>1. PICK new : new = [old EXCEPT !.locks = old.locks \cup {}, !.broken = TRUE]
      OBVIOUS
    <3>2. [old EXCEPT !.broken = TRUE] = new /\ old.locks \cup {} = old.locks
      BY <1>5, <3>1 DEF Connection
    <3>3. connection' = [connection EXCEPT ![i] = new] /\ poisoned \subseteq poisoned'
      BY <1>4, <2>1, <3>2 DEF Panic
    <3>4. /\ new \in Connection /\ new.client = old.client /\ new.tx = old.tx
          /\ new.locks = old.locks \cup {} /\ ConnectionHolds(new, poisoned')
      <4>1. Left(old, new, {})
        BY <1>5, <3>1 DEF Left, Connection
      <4> QED
        BY <1>5, <3>3, <4>1, Leaves DEF Left
    <3>5. ScansAfter(i, new.tx)
      BY <1>4, <1>5, <2>1, <3>4, SameScans DEF IInv
    <3>6. LocksAfter(i, new)
      BY <1>4, <3>2, <3>4 DEF LocksAfter
    <3> QED
      BY <1>4, <1>5, <3>3, <3>4, <3>5, <3>6, OneConnection DEF IInv
  <2>2. CASE /\ connection' = [connection EXCEPT ![i] = committed(connection[i])]
             /\ result_set' = [unpinned(i) EXCEPT ![r].scan = "none"]
             /\ UNCHANGED poisoned
    <3>1. PICK new : new = committed(old)
      OBVIOUS
    <3>2. connection' = [connection EXCEPT ![i] = new]
      BY <1>4, <2>2, <3>1
    <3>3. /\ new \in Connection /\ new.client = old.client /\ ConnectionHolds(new, poisoned)
          /\ new.locks = old.locks \ {old.tx}
      BY <1>5, <3>1, Commits, CommitKeeps
    <3>4. ScansAfter(i, new.tx)
      BY <1>3, <1>5, <2>2, DropsScan DEF IInv
    <3>5. LocksAfter(i, new)
      BY <1>4, <3>3 DEF LocksAfter
    <3> QED
      BY <1>4, <1>5, <2>2, <3>2, <3>3, <3>4, <3>5, OneConnection DEF IInv
  <2> QED
    BY <1>1, <2>1, <2>2
<1>7. call' = call \/ Made(c, "removal", h.object, h.id)
  BY <1>1, <1>2
<1>8. NamesHold'
  BY <1>1, <1>6, <1>7, ClosingResultSet
<1> QED
  BY <1>6, <1>8 DEF IInv

LEMMA Begins ==
  ASSUME Init
  PROVE  IInv
<1>1. DataHolds
  <2>1. connection = <<>> /\ result_set = <<>>
    BY DEF Init
  <2>2. DOMAIN connection = {} /\ DOMAIN result_set = {}
    BY <2>1
  <2>3. connection \in Seq(Connection) /\ result_set \in Seq(ResultSet)
    BY <2>1
  <2> QED
    BY <2>2, <2>3 DEF DataHolds
<1>2. \A d \in Dicts : DOMAIN dict[d] = {}
  BY DEF Init
<1>3. NamesTyped
  <2>1. IsFiniteSet({})
    BY FS_EmptySet
  <2>2. DOMAIN dict = Dicts /\ call \in [Client -> {Idle} \cup Call] /\ handles \in [Client -> SUBSET Handle]
    BY DEF Init
  <2> QED
    BY <1>2, <2>1, <2>2 DEF NamesTyped
<1>4. \A c \in Client : CallHolds(c) /\ handles[c] = {}
  BY DEF Init, CallHolds
<1> QED
  BY <1>1, <1>3, <1>4 DEF IInv, NamesHold

-----------------------------------------------------------------------------
(* The theorems.                                                           *)

\* The invariant holds.  The steps of the sections of every call preserve it.
THEOREM Invariance == Spec => []IInv
<1>1. Init => IInv
  BY Begins
<1>2. IInv /\ [Next]_vars => IInv'
  <2> SUFFICES ASSUME IInv, [Next]_vars PROVE IInv'
    OBVIOUS
  <2>1. ASSUME NEW c \in Client, CreateConnection(c) PROVE IInv'
    BY <2>1, CreatingConnection
  <2>2. ASSUME NEW c \in Client,
               RegisterConnection(c) \/ RegisterStatement(c) \/ RegisterResultSet(c)
        PROVE  IInv'
    BY <2>2, RegisteringFree DEF RegisterConnection, RegisterStatement, RegisterResultSet
  <2>3. ASSUME NEW c \in Client, CreateStatement(c) PROVE IInv'
    BY <2>3, CreatingStatement
  <2>4. ASSUME NEW c \in Client, Commit(c) \/ Rollback(c) PROVE IInv'
    BY <2>4, Ending DEF Commit, Rollback
  <2>5. ASSUME NEW c \in Client, Close(c) PROVE IInv'
    BY <2>5, ClosingConnection
  <2>6. ASSUME NEW c \in Client, ExecuteQuery(c) PROVE IInv'
    BY <2>6, Querying
  <2>7. ASSUME NEW c \in Client, ExecuteUpdate(c) PROVE IInv'
    BY <2>7, Updating
  <2>8. ASSUME NEW c \in Client, Read(c) PROVE IInv'
    BY <2>8, Reading
  <2>9. ASSUME NEW c \in Client, Rewind(c) PROVE IInv'
    BY <2>9, Rewinding
  <2>10. ASSUME NEW c \in Client, CloseResultSet(c) PROVE IInv'
    BY <2>10, ClosingResult
  <2>11. ASSUME NEW c \in Client, RemoveResultSet(c) PROVE IInv'
    BY <2>11, RemovesResultSet
  <2>12. ASSUME NEW c \in Client, GetMetadata(c) PROVE IInv'
    BY <2>12, GettingMetadata
  <2>13. ASSUME NEW c \in Client, RegisterMetadata(c) PROVE IInv'
    BY <2>13, Registered DEF RegisterMetadata, Dicts
  <2>14. CASE UNCHANGED vars
    <3>1. UNCHANGED <<dict, poisoned, connection, result_set, call, handles>>
      BY <2>14 DEF vars
    <3>2. DataHolds' /\ Stays
      BY <3>1, NoConnection DEF IInv
    <3> QED
      BY <3>1, <3>2, NamesStay DEF IInv
  <2> QED
    BY <2>1, <2>2, <2>3, <2>4, <2>5, <2>6, <2>7, <2>8, <2>9, <2>10, <2>11, <2>12,
       <2>13, <2>14 DEF Next
<1> QED
  BY <1>1, <1>2, PTL DEF Spec

\* Whatever the other clients create and close, an id leads to the object that
\* it was given for.
THEOREM HandlesCorrect == Spec => []HandlesReachTheirObjects
<1>1. IInv => HandlesReachTheirObjects
  BY DEF IInv, NamesHold, HandleHolds, HandlesReachTheirObjects
<1> QED
  BY <1>1, Invariance, PTL

\* An answered update is committed whole, and a part of another one only with
\* the dictionary of statements poisoned.
THEOREM UpdatesCorrect == Spec => []UpdatesAreWholeOrAnnounced
<1>1. IInv => UpdatesAreWholeOrAnnounced
  BY DEF IInv, DataHolds, ConnectionHolds, UpdatesAreWholeOrAnnounced
<1> QED
  BY <1>1, Invariance, PTL

\* A transaction that is over keeps a lock only when a result set has been read
\* under it afterwards.
THEOREM LocksCorrect == Spec => []LeftLocksAreLateReads
<1>1. IInv => LeftLocksAreLateReads
  BY DEF IInv, DataHolds, LateRead, LeftLocksAreLateReads
<1> QED
  BY <1>1, Invariance, PTL

=============================================================================
