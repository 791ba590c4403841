----------------------------- MODULE DurableLog -----------------------------
(***************************************************************************)
(* What the log manager of src/src/log/manager.rs promises: a sequence of  *)
(* records that only grows, a prefix of it that is safe on disk, and a     *)
(* crash that costs no more than the rest.                                 *)
(***************************************************************************)
EXTENDS Naturals, Sequences

CONSTANT Record

VARIABLES
  records,   \* every record of the log, oldest first
  durable    \* how many of them a crash cannot take

vars == <<records, durable>>

Init == records = <<>> /\ durable = 0

AppendRecord(r) ==
  /\ records' = Append(records, r)
  /\ UNCHANGED durable

\* Saving is all or nothing: what was appended before is durable after.
Save ==
  /\ durable' = Len(records)
  /\ UNCHANGED records

Crash ==
  /\ records' = SubSeq(records, 1, durable)
  /\ UNCHANGED durable

Next == (\E r \in Record : AppendRecord(r)) \/ Save \/ Crash

Spec == Init /\ [][Next]_vars
=============================================================================
