------------------------------- MODULE Cursor -------------------------------
(***************************************************************************)
(* What the client of a scan counts on: a fixed sequence of rows, and a    *)
(* place before, on or after one of them that calls move by one.  Which    *)
(* rows these are is for the query to say.                                 *)
(***************************************************************************)
EXTENDS Naturals, Sequences

CONSTANT NoRow

VARIABLES
  rows,     \* the rows, once the scan is open
  at,       \* 0 before the first, Len(rows) + 1 after the last
  shown,    \* the row that can be read, which there is after a TRUE
  call      \* the last call

vars == <<rows, at, shown, call>>

Init == rows = <<>> /\ at = 0 /\ shown = NoRow /\ call = "close"

Open ==
  /\ call = "close" /\ call' = "open"
  /\ at' = 0 /\ shown' = NoRow

Close ==
  /\ call # "close" /\ call' = "close"
  /\ rows' = <<>> /\ at' = 0 /\ shown' = NoRow

\* A rewind shows no row, and a move the one that it reaches.
MoveTo(place) ==
  /\ call # "close"
  /\ at' = place
  /\ shown' = IF place \in DOMAIN rows THEN rows[place] ELSE NoRow
  /\ UNCHANGED rows

BeforeFirst == call' = "before_first" /\ MoveTo(0)

AfterLast == call' = "after_last" /\ MoveTo(Len(rows) + 1)

MoveNext == call' = "next" /\ MoveTo(IF at > Len(rows) THEN at ELSE at + 1)

MovePrevious == call' = "previous" /\ MoveTo(IF at = 0 THEN 0 ELSE at - 1)

Next == Open \/ Close \/ BeforeFirst \/ AfterLast \/ MoveNext \/ MovePrevious

Spec == Init /\ [][Next]_vars
=============================================================================
