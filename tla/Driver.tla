------------------------------- MODULE Driver -------------------------------
(***************************************************************************)
(* The drivers: connections, statements and result sets of                 *)
(* src/src/driver/embedded.rs behind the dictionaries of the server in     *)
(* src/src/driver/network/.                                                *)
(*                                                                         *)
(* A remote call locks one dictionary for as long as it uses an object of  *)
(* it; a call that makes an object locks a second dictionary to register   *)
(* it.  Each such section is a step, and the clients' sections interleave. *)
(* Everything the server unwraps panics with the mutex of the dictionary   *)
(* held, which poisons it: every later call that locks it fails and        *)
(* changes nothing, so such calls are left out.                            *)
(*                                                                         *)
(* A client makes one call at a time and uses no object after closing it,  *)
(* nor what was made from that object; it asks for the metadata of a       *)
(* result set once.  Each connection has a directory of its own.           *)
(***************************************************************************)
EXTENDS Naturals, FiniteSets, Sequences, Functions

CONSTANTS
  Client,
  Idle,             \* no call under way
  MaxConnections,   \* bounds for TLC: connections ever made,
  MaxStatements,    \*   statements a client has,
  MaxResultSets,    \*   result sets ever made,
  MaxUpdates,       \*   updates of one connection,
  MaxTx,            \*   transactions of the busiest connection,
  MaxPoisoned       \*   and dictionaries poisoned

ASSUME DriverAssumption ==
  {MaxConnections, MaxStatements, MaxResultSets, MaxUpdates, MaxTx, MaxPoisoned}
    \subseteq Nat \ {0}

VARIABLES
  dict,         \* the dictionaries: from ids to objects
  poisoned,     \* those whose mutex is poisoned
  connection,   \* the EmbeddedConnectionImpls ever made, with their databases
  result_set,   \* the EmbeddedResultSets ever made
  call,         \* for each client, the second section of its call, or Idle
  handles       \* the ids each client uses, with the objects they are for

vars == <<dict, poisoned, connection, result_set, call, handles>>

\* The statements of a connection have no state of their own, so that the
\* object of a statement is its connection.  The metadata of a result set is
\* the schema of that result set, and stands for it.
Dicts == {"connection", "statement", "result_set", "metadata"}

\* An update writes two records, and may fail before the first or between.
Parts == {1, 2}

\* A connection: the number of its current transaction, which of its
\* transactions have locks, the records written by the current one and those
\* committed, and whether a panic has poisoned the mutex of its buffer manager,
\* of its transaction or its own, without which nothing commits.  The rest is
\* history: its client, and the updates answered and failed.
NewConnection(c) ==
  [tx |-> 1, locks |-> {}, changed |-> {}, stored |-> {}, broken |-> FALSE,
   client |-> c, updates |-> 0, answered |-> {}]

Init ==
  /\ dict = [d \in Dicts |-> [id \in {} |-> 0]]
  /\ poisoned = {}
  /\ connection = <<>>
  /\ result_set = <<>>
  /\ call = [c \in Client |-> Idle]
  /\ handles = [c \in Client |-> {}]

-----------------------------------------------------------------------------
(* The embedded driver.                                                    *)

\* The transaction tx of connection i has ended: unpin_all.
unpinned(i) ==
  [r \in DOMAIN result_set |->
     IF result_set[r].connection = i /\ result_set[r].tx = connection[i].tx
        /\ result_set[r].scan = "pinned"
     THEN [result_set[r] EXCEPT !.scan = "unpinned"]
     ELSE result_set[r]]

\* Bound: no connection begins a transaction after one has had MaxTx.
MayBegin == \A i \in DOMAIN connection : connection[i].tx < MaxTx

\* EmbeddedConnectionImpl::close commits and leaves the transaction in place.
closed(conn) ==
  [conn EXCEPT !.stored = @ \cup conn.changed, !.changed = {},
               !.locks = @ \ {conn.tx}]

replaced_only(conn) == [conn EXCEPT !.tx = @ + 1, !.changed = {}]

committed(conn) == [closed(conn) EXCEPT !.tx = @ + 1]

rolled_back(conn) ==
  [conn EXCEPT !.changed = {}, !.locks = @ \ {conn.tx}, !.tx = @ + 1]

updated_uncommitted(conn, u) ==
  [conn EXCEPT !.changed = @ \cup ({u} \X Parts), !.locks = @ \cup {conn.tx},
               !.answered = @ \cup {u}]

\* The changes of an update that succeeds are committed before it is answered.
updated(conn, u) ==
  [committed([conn EXCEPT !.changed = @ \cup ({u} \X Parts)])
     EXCEPT !.answered = @ \cup {u}]

\* One that fails leaves what it has written, and its locks, as they are.
update_failed(conn, written, broken) ==
  [conn EXCEPT !.changed = @ \cup written, !.locks = @ \cup {conn.tx},
               !.broken = broken]

\* What a call on connection i leaves behind: locks of some transactions, and,
\* when it panics with one of those mutexes held, that mutex poisoned.
left(i, locked, broken) ==
  LET conn == connection[i]
  IN  [connection EXCEPT ![i] =
         [conn EXCEPT !.locks = conn.locks \cup locked, !.broken = conn.broken \/ broken]]

-----------------------------------------------------------------------------
(* The dictionaries.                                                       *)

number_of_ids(d) == Cardinality(DOMAIN d)

free_id(d) ==
  CHOOSE n \in 0..Cardinality(DOMAIN d) :
    /\ n \notin DOMAIN d
    /\ \A k \in 0..n-1 : k \in DOMAIN d

put(d, id, object) ==
  [n \in DOMAIN d \cup {id} |-> IF n = id THEN object ELSE d[n]]

\* Client c uses the id of a kind of object, and nothing is in its way.
Using(c, d, h) ==
  /\ call[c] = Idle
  /\ h \in handles[c] /\ h.kind = d
  /\ d \notin poisoned

\* The section panics with the mutex of d held.
Panic(d) ==
  /\ Cardinality(poisoned) < MaxPoisoned
  /\ poisoned' = poisoned \cup {d}

\* The second section of a call that makes an object: it gets the smallest
\* free id, unless the dictionary is poisoned.
Register(c, d, id) ==
  /\ call[c] # Idle /\ call[c].kind = d
  /\ call' = [call EXCEPT ![c] = Idle]
  /\ IF d \in poisoned THEN UNCHANGED <<dict, handles>>
     ELSE /\ dict' = [dict EXCEPT ![d] = put(@, id, call[c].object)]
          /\ handles' = [handles EXCEPT ![c] = @ \cup
               {[kind |-> d, id |-> id, object |-> call[c].object]}]
  /\ UNCHANGED <<poisoned, connection, result_set>>

\* The first section has made an object.
Made(c, d, object, id) ==
  call' = [call EXCEPT ![c] = [kind |-> d, object |-> object, id |-> id]]

-----------------------------------------------------------------------------
(* RemoteDriver, RemoteConnection.                                         *)

\* SimpleDB::new may fail, which poisons the driver itself.
CreateConnection(c) ==
  /\ call[c] = Idle
  /\ "driver" \notin poisoned
  /\ Len(connection) < MaxConnections
  /\ \/ /\ connection' = Append(connection, NewConnection(c))
        /\ Made(c, "connection", Len(connection) + 1, 0)
        /\ UNCHANGED poisoned
     \/ Panic("driver") /\ UNCHANGED <<connection, call>>
  /\ UNCHANGED <<dict, result_set, handles>>

RegisterConnection(c) ==
  Register(c, "connection", free_id(dict["connection"]))

CreateStatement(c) ==
  \E h \in handles[c] :
    /\ Using(c, "connection", h)
    /\ Cardinality({g \in handles[c] : g.kind = "statement"}) < MaxStatements
    /\ \/ /\ Made(c, "statement", dict["connection"][h.id], 0)
          /\ UNCHANGED poisoned
       \/ /\ connection[dict["connection"][h.id]].broken
          /\ Panic("connection")
          /\ UNCHANGED call
    /\ UNCHANGED <<dict, connection, result_set, handles>>

RegisterStatement(c) ==
  Register(c, "statement", free_id(dict["statement"]))

ended(conn, how) == IF how = "commit" THEN committed(conn) ELSE rolled_back(conn)

\* EmbeddedConnection::commit and rollback.  A poisoned mutex panics.
End(c, how) ==
  \E h \in handles[c] :
    /\ Using(c, "connection", h)
    /\ LET i == dict["connection"][h.id]
       IN  IF connection[i].broken
           THEN Panic("connection") /\ UNCHANGED <<connection, result_set>>
           ELSE /\ MayBegin
                /\ connection' = [connection EXCEPT ![i] = ended(@, how)]
                /\ result_set' = unpinned(i)
                /\ UNCHANGED poisoned
    /\ UNCHANGED <<dict, call, handles>>

Commit(c) == End(c, "commit")

Rollback(c) == End(c, "rollback")

\* RemoteConnection::close.  The client lets go of all that the connection
\* made; statements and result sets stay in their dictionaries.
Close(c) ==
  \E h \in handles[c] :
    /\ Using(c, "connection", h)
    /\ LET i == dict["connection"][h.id]
       IN  IF connection[i].broken
           THEN /\ Panic("connection")
                /\ UNCHANGED <<dict, connection, result_set>>
           ELSE /\ connection' = [connection EXCEPT ![i] = closed(@)]
                /\ result_set' = unpinned(i)
                /\ dict' = [dict EXCEPT !["connection"] =
                              Restrict(@, DOMAIN @ \ {h.id})]
                /\ UNCHANGED poisoned
    /\ handles' = [handles EXCEPT ![c] = {}]
    /\ UNCHANGED call

-----------------------------------------------------------------------------
(* RemoteStatement.                                                        *)

\* A scan is opened in the current transaction, where it pins and locks.  A
\* query that fails, in the parser, the planner or a lock, panics; one that
\* cannot pin does so while it holds the connection and the transaction.
ExecuteQuery(c) ==
  \E h \in handles[c] :
    /\ Using(c, "statement", h)
    /\ Len(result_set) < MaxResultSets
    /\ LET i == dict["statement"][h.id]
       IN  \/ /\ ~connection[i].broken
              /\ result_set' = Append(result_set,
                   [connection |-> i, tx |-> connection[i].tx, scan |-> "pinned",
                    late |-> FALSE])
              /\ Made(c, "result_set", Len(result_set) + 1, 0)
              /\ connection' = left(i, {connection[i].tx}, FALSE)
              /\ UNCHANGED poisoned
           \/ /\ Panic("statement")
              /\ \E locked \in SUBSET {connection[i].tx}, broken \in BOOLEAN :
                   connection' = left(i, locked, broken)
              /\ UNCHANGED <<result_set, call>>
    /\ UNCHANGED <<dict, handles>>

RegisterResultSet(c) ==
  Register(c, "result_set", free_id(dict["result_set"]))

ExecuteUpdate(c) ==
  \E h \in handles[c] :
    /\ Using(c, "statement", h)
    /\ LET i == dict["statement"][h.id]
           u == connection[i].updates + 1
       IN  /\ u <= MaxUpdates
           /\ \/ /\ ~connection[i].broken
                 /\ MayBegin
                 /\ connection' = [connection EXCEPT
                      ![i] = updated([@ EXCEPT !.updates = u], u)]
                 /\ result_set' = unpinned(i)
                 /\ UNCHANGED poisoned
              \/ /\ ~connection[i].broken
                 /\ \E written \in {{}, {<<u, 1>>}}, broken \in BOOLEAN :
                      connection' = [connection EXCEPT
                        ![i] = update_failed([@ EXCEPT !.updates = u], written, broken)]
                 /\ Panic("statement")
                 /\ UNCHANGED result_set
              \/ /\ connection[i].broken
                 /\ Panic("statement")
                 /\ UNCHANGED <<connection, result_set>>
    /\ UNCHANGED <<dict, call, handles>>

-----------------------------------------------------------------------------
(* RemoteResultSet, RemoteMetadata.                                        *)

\* A call on result set r takes a lock, or none, in its transaction.
locked_by(r, locked) ==
  [result_set EXCEPT ![r].late = @ \/ (result_set[r].scan = "unpinned" /\ locked # {})]

\* A call that reads through the scan: next, previous, get_i32, get_string.
\* It takes a lock first, in the transaction of the scan; then it needs the
\* page, and panics when that is not pinned, and when the next or previous
\* block has to take its place.  A scan that is behind its last row needs no
\* page: next takes the lock of the file's end and answers false, whatever
\* has become of its transaction.  Any of these calls may fail too.
Read(c) ==
  \E h \in handles[c] :
    /\ Using(c, "result_set", h)
    /\ LET r == dict["result_set"][h.id]
           i == result_set[r].connection
       IN  /\ result_set[r].scan # "none"
           /\ \E locked \in SUBSET {result_set[r].tx}, broken \in BOOLEAN :
                /\ connection' = left(i, locked, broken)
                /\ result_set' = locked_by(r, locked)
                /\ \/ ~broken /\ UNCHANGED poisoned
                   \/ Panic("result_set")
    /\ UNCHANGED <<dict, call, handles>>

\* A call that moves the scan to a block: before_first, after_last, absolute.
\* after_last takes the lock of the file's end first.  Each unpins the page,
\* and one that is not pinned panics in Transaction::unpin with the buffer
\* manager locked.
Rewind(c) ==
  \E h \in handles[c] :
    /\ Using(c, "result_set", h)
    /\ LET r == dict["result_set"][h.id]
           i == result_set[r].connection
       IN  /\ result_set[r].scan # "none"
           /\ \E locked \in SUBSET {result_set[r].tx}, broken \in BOOLEAN :
                /\ connection' = left(i, locked, broken)
                /\ result_set' = locked_by(r, locked)
                /\ \/ /\ ~connection[i].broken /\ ~broken
                      /\ result_set[r].scan = "pinned"
                      /\ UNCHANGED poisoned
                   \/ Panic("result_set")
    /\ UNCHANGED <<dict, call, handles>>

\* The first section of close: the scan is dropped, which unpins its page,
\* and then the connection commits whatever its current transaction is.
CloseResultSet(c) ==
  \E h \in handles[c] :
    /\ Using(c, "result_set", h)
    /\ LET r == dict["result_set"][h.id]
           i == result_set[r].connection
       IN  IF connection[i].broken \/ result_set[r].scan # "pinned"
           THEN /\ Panic("result_set")
                /\ connection' = [connection EXCEPT ![i].broken = TRUE]
                /\ UNCHANGED <<result_set, call>>
           ELSE /\ MayBegin
                /\ connection' = [connection EXCEPT ![i] = committed(@)]
                /\ result_set' = [unpinned(i) EXCEPT ![r].scan = "none"]
                /\ Made(c, "removal", r, h.id)
                /\ UNCHANGED poisoned
    /\ handles' = [handles EXCEPT ![c] = {g \in @ : g.object # h.object
                                 \/ g.kind \notin {"result_set", "metadata"}}]
    /\ UNCHANGED dict

\* Its second section.
RemoveResultSet(c) ==
  /\ call[c] # Idle /\ call[c].kind = "removal"
  /\ call' = [call EXCEPT ![c] = Idle]
  /\ dict' = IF "result_set" \in poisoned THEN dict
             ELSE [dict EXCEPT !["result_set"] =
                     Restrict(@, DOMAIN @ \ {call[c].id})]
  /\ UNCHANGED <<poisoned, connection, result_set, handles>>

GetMetadata(c) ==
  \E h \in handles[c] :
    /\ Using(c, "result_set", h)
    /\ [h EXCEPT !.kind = "metadata"] \notin handles[c]
    /\ Made(c, "metadata", dict["result_set"][h.id], h.id)
    /\ UNCHANGED <<dict, poisoned, connection, result_set, handles>>

\* Metadata has the id of its result set, and no call removes it.
RegisterMetadata(c) == Register(c, "metadata", call[c].id)

Next ==
  \E c \in Client :
    \/ CreateConnection(c) \/ RegisterConnection(c)
    \/ CreateStatement(c) \/ RegisterStatement(c)
    \/ Commit(c) \/ Rollback(c) \/ Close(c)
    \/ ExecuteQuery(c) \/ RegisterResultSet(c) \/ ExecuteUpdate(c)
    \/ Read(c) \/ Rewind(c)
    \/ CloseResultSet(c) \/ RemoveResultSet(c)
    \/ GetMetadata(c) \/ RegisterMetadata(c)

Spec == Init /\ [][Next]_vars

-----------------------------------------------------------------------------
(* Properties.                                                             *)

\* Whatever other clients create and close meanwhile, the id that a client has
\* for a connection, a statement or a result set leads to the object it was
\* given for, and the metadata it has got of an open result set are those of
\* that result set, though metadata go by its id and are never removed.
HandlesReachTheirObjects ==
  \A c \in Client : \A h \in handles[c] :
    h.id \in DOMAIN dict[h.kind] /\ dict[h.kind][h.id] = h.object

\* An update that was answered is committed as a whole, whatever is closed,
\* committed or rolled back later; and when one has been committed in part,
\* which a failed update followed by any commit of its connection does, the
\* dictionary of statements is poisoned, so that no client goes on updating.
UpdatesAreWholeOrAnnounced ==
  \A i \in DOMAIN connection :
    LET conn == connection[i]
    IN  /\ conn.answered \X Parts \subseteq conn.stored
        /\ \A w \in conn.stored :
             {w[1]} \X Parts \subseteq conn.stored \/ "statement" \in poisoned

\* Every end of a transaction gives its locks back: a lock that outlives its
\* transaction was taken by a result set that was read after its transaction
\* had ended, under it, by an update, a commit or the closing of another result
\* set; no other order of calls leaves one.
LeftLocksAreLateReads ==
  \A i \in DOMAIN connection : \A t \in connection[i].locks \ {connection[i].tx} :
    \E r \in DOMAIN result_set :
      /\ result_set[r].connection = i /\ result_set[r].tx = t
      /\ result_set[r].late
=============================================================================
