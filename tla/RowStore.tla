------------------------------ MODULE RowStore ------------------------------
(***************************************************************************)
(* What table scans promise to the transactions that insert, change and    *)
(* delete rows through them, with blocks, slots and flags out of sight: a  *)
(* table is a set of rows, the changes of a transaction show to nobody     *)
(* else until it commits, and a rollback takes them all back.              *)
(***************************************************************************)
CONSTANTS Tx, Row, Field, Gone

VARIABLES
  rows,       \* what each row that is committed contains
  changed     \* for each transaction, what its own rows contain, or Gone

vars == <<rows, changed>>

Nothing == [r \in {} |-> Gone]

Init == rows = Nothing /\ changed = [t \in Tx |-> Nothing]

Used == DOMAIN rows \cup UNION {DOMAIN changed[t] : t \in Tx}
Touched(t) == UNION {DOMAIN changed[u] : u \in Tx \ {t}}

\* The rows as a transaction has them.
Content(t, r) == IF r \in DOMAIN changed[t] THEN changed[t][r] ELSE rows[r]
View(t) ==
  [r \in {x \in DOMAIN changed[t] \cup DOMAIN rows : Content(t, x) # Gone} |-> Content(t, r)]

With(f, r, v) == [x \in DOMAIN f \cup {r} |-> IF x = r THEN v ELSE f[x]]
Without(f, r) == [x \in DOMAIN f \ {r} |-> f[x]]

Insert(t, r, v) ==
  /\ r \notin Used
  /\ changed' = [changed EXCEPT ![t] = With(@, r, v)]
  /\ UNCHANGED rows

Set(t, r, v) ==
  /\ r \in DOMAIN View(t) \ Touched(t)
  /\ changed' = [changed EXCEPT ![t] = With(@, r, v)]
  /\ UNCHANGED rows

Delete(t, r) ==
  /\ r \in DOMAIN View(t) \ Touched(t)
  /\ changed' = [changed EXCEPT
                   ![t] = IF r \in DOMAIN rows THEN With(@, r, Gone) ELSE Without(@, r)]
  /\ UNCHANGED rows

Commit(t) ==
  /\ rows' = View(t)
  /\ changed' = [changed EXCEPT ![t] = Nothing]

Rollback(t) ==
  /\ changed' = [changed EXCEPT ![t] = Nothing]
  /\ UNCHANGED rows

Next ==
  \E t \in Tx :
    \/ Commit(t) \/ Rollback(t)
    \/ \E r \in Row : Delete(t, r) \/ \E v \in Field : Insert(t, r, v) \/ Set(t, r, v)

Spec == Init /\ [][Next]_vars
=============================================================================
