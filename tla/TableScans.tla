----------------------------- MODULE TableScans -----------------------------
(***************************************************************************)
(* The file of a table, src/src/record/record_page.rs, and the scans of    *)
(* src/src/scan/table_scan.rs by which concurrent transactions read and    *)
(* change it: RowStore with blocks, slots and locks.                       *)
(*                                                                         *)
(* A call goes through the blocks in a loop, and each turn needs a lock    *)
(* that another transaction may have: a turn is a step.  The locks are     *)
(* those of BlockLocks, of which EofBlock stands for the end of the file.  *)
(* A row has one field, and null is one of the things it may contain.      *)
(* format is left out: it writes zeros to a block of zeros.                *)
(***************************************************************************)
EXTENDS Integers, Sequences, FiniteSets, FiniteSetsExt, TLC

CONSTANTS
  Tx,           \* transactions, each with at most one scan of the table
  Field,        \* what the field of a row may contain
  Zero,         \* what a field of zeros contains
  NumSlots,     \* num_slots, the slots of a block
  Gone,         \* no contents
  MaxBlocks,    \* bound on the file, for TLC
  MaxRows       \* bound on the rows that are ever inserted, for TLC

ASSUME TableScansAssumption ==
  /\ IsFiniteSet(Tx)
  /\ Zero \in Field /\ Gone \notin Field
  /\ NumSlots \in Nat \ {0}
  /\ MaxBlocks \in Nat \ {0} /\ MaxRows \in Nat

VARIABLES
  file,         \* the blocks, counted from 1, as the buffers show them
  held,         \* the locks
  pc,           \* for each transaction, the call its scan is in the middle of
  at,           \* where its scan is
  undo,         \* what the slots that it has changed contained before
  row,          \* history: how many rows were inserted
  pass          \* history: the records its scan has gone through

vars == <<file, held, pc, at, undo, row, pass>>

Start == 0
End == NumSlots + 1
Slots == 1..NumSlots
EofBlock == 0
Blocks == 1..MaxBlocks

Locks == INSTANCE BlockLocks WITH Block <- Blocks \cup {EofBlock}

\* A slot has a flag, and what was last written to its field stays when it is
\* freed.  The number of the row in it is a history, 0 for none.
Slot == [full : BOOLEAN, row : 0..MaxRows, field : Field]
Zeros == [i \in Slots |-> [full |-> FALSE, row |-> 0, field |-> Zero]]

From(kind) == [kind |-> kind, complete |-> FALSE, seen |-> <<>>]
NoPass == From("none")

Init ==
  /\ file = <<>>
  /\ Locks!Init
  /\ pc = [t \in Tx |-> "closed"]
  /\ at = [t \in Tx |-> [block |-> 1, slot |-> Start]]
  /\ undo = [t \in Tx |-> [x \in {} |-> Zeros[1]]]
  /\ row = 0
  /\ pass = [t \in Tx |-> NoPass]

-----------------------------------------------------------------------------
(* Locks, positions and writes.                                            *)

CanRead(t, b) == \A u \in Tx \ {t} : held[u][b] # "exclusive"
CanWriteAmongReaders(t, b) == \A u \in Tx \ {t} : held[u][b] # "exclusive"

CanWrite(t, b) == \A u \in Tx \ {t} : held[u][b] = "none"

\* TakeShared of BlockLocks, unless the lock is there, and Upgrade after it.
ReadLock(t, b) ==
  held' = [held EXCEPT ![t][b] = IF @ = "none" THEN "shared" ELSE @]
WriteLock(t, b) == held' = [held EXCEPT ![t][b] = "exclusive"]

\* A call returns, or its loop goes on, with the scan at a slot.
Move(t, l, b, i) ==
  /\ pc' = [pc EXCEPT ![t] = l]
  /\ at' = [at EXCEPT ![t] = [block |-> b, slot |-> i]]

MayRun(t, call) == pc[t] \in {"idle", call}

\* What is remembered of x first, s, is what a rollback, which goes through the
\* records backwards, leaves.
Remember(before, x, s) ==
  [y \in DOMAIN before \cup {x} |-> IF y \in DOMAIN before THEN before[y] ELSE s]

WriteKeepingLast(t, b, i, s) ==
  /\ file' = [file EXCEPT ![b][i] = s]
  /\ undo' = [undo EXCEPT ![t] = (<<b, i>> :> file[b][i]) @@ @]

\* set_i32 of the transaction.
Write(t, b, i, s) ==
  /\ file' = [file EXCEPT ![b][i] = s]
  /\ undo' = [undo EXCEPT ![t] = Remember(@, <<b, i>>, file[b][i])]

\* search_after and search_before: the slots to come that have the flag.
After(t, full) ==
  {i \in at[t].slot+1..NumSlots : file[at[t].block][i].full = full}
Before(t) ==
  {i \in 1..at[t].slot-1 : file[at[t].block][i].full}

\* A pass through the rows goes on in its direction, and ends otherwise.
Seen(t, kind, b, i) ==
  pass' = [pass EXCEPT ![t] =
             IF @.kind = kind /\ ~@.complete
             THEN [kind |-> kind, complete |-> FALSE, seen |-> Append(@.seen, <<b, i>>)]
             ELSE NoPass]
Passed(t, kind) ==
  pass' = [pass EXCEPT ![t] = IF @.kind = kind THEN [@ EXCEPT !.complete = TRUE] ELSE NoPass]
\* A row that is deleted is the last one that a pass has come to.
Forget(t) ==
  pass' = [pass EXCEPT ![t].seen = IF @ = <<>> THEN @ ELSE SubSeq(@, 1, Len(@) - 1)]
Continue(t, kind) == pass' = [pass EXCEPT ![t] = IF @.kind = kind THEN @ ELSE NoPass]
EndPass(t) == pass' = [pass EXCEPT ![t] = NoPass]

-----------------------------------------------------------------------------
(* Opening and placing a scan.                                             *)

Placed(t) ==
  /\ Move(t, "idle", 1, Start)
  /\ pass' = [pass EXCEPT ![t] = From("forward")]

\* TableScan::new counts the blocks.
Open(t) ==
  /\ pc[t] = "closed" /\ CanRead(t, EofBlock)
  /\ ReadLock(t, EofBlock)
  /\ IF file = <<>>
     THEN pc' = [pc EXCEPT ![t] = "open"] /\ UNCHANGED <<at, pass>>
     ELSE Placed(t)
  /\ UNCHANGED <<file, undo, row>>

\* A new table gets its first block,
OpenNew(t) ==
  /\ pc[t] = "open" /\ CanWrite(t, EofBlock)
  /\ held' = [held EXCEPT ![t][EofBlock] = "exclusive", ![t][1] = "exclusive"]
  /\ file' = <<Zeros>>
  /\ Placed(t)
  /\ UNCHANGED <<undo, row>>

\* unless another transaction has counted its blocks too.
OpenFails(t) ==
  /\ pc[t] = "open" /\ ~CanWrite(t, EofBlock)
  /\ pc' = [pc EXCEPT ![t] = "closed"]
  /\ UNCHANGED <<file, held, at, undo, row, pass>>

BeforeFirst(t) ==
  /\ MayRun(t, "idle")
  /\ Move(t, "idle", 1, Start)
  /\ pass' = [pass EXCEPT ![t] = From("forward")]
  /\ UNCHANGED <<file, held, undo, row>>

AfterLast(t) ==
  /\ MayRun(t, "idle") /\ CanRead(t, EofBlock)
  /\ ReadLock(t, EofBlock)
  /\ Move(t, "idle", Len(file), End)
  /\ pass' = [pass EXCEPT ![t] = From("backward")]
  /\ UNCHANGED <<file, undo, row>>

\* move_to_record_pointer, to a record the transaction has read.
MoveTo(t, b, i) ==
  /\ MayRun(t, "idle")
  /\ held[t][b] # "none" /\ file[b][i].full
  /\ Move(t, "idle", b, i)
  /\ EndPass(t)
  /\ UNCHANGED <<file, held, undo, row>>

-----------------------------------------------------------------------------
(* Reading on.                                                             *)

NextInBlock(t) ==
  LET b == at[t].block
  IN /\ MayRun(t, "next") /\ at[t].slot # End
     /\ IF at[t].slot < NumSlots THEN CanRead(t, b) /\ ReadLock(t, b) ELSE UNCHANGED held
     /\ \/ /\ After(t, TRUE) # {}
           /\ Move(t, "idle", b, Min(After(t, TRUE)))
           /\ Seen(t, "forward", b, Min(After(t, TRUE)))
        \/ After(t, TRUE) = {} /\ Move(t, "next", b, End) /\ Continue(t, "forward")
     /\ UNCHANGED <<file, undo, row>>

NextBlockBeyond(t) ==
  LET b == at[t].block
  IN /\ MayRun(t, "next") /\ at[t].slot = End /\ CanRead(t, EofBlock)
     /\ ReadLock(t, EofBlock)
     /\ \/ b > Len(file) /\ Move(t, "idle", b, End) /\ Passed(t, "forward")
        \/ b <= Len(file) /\ Move(t, "next", b + 1, Start) /\ Continue(t, "forward")
     /\ UNCHANGED <<file, undo, row>>

\* get_next_block without appending; next returns false at the last block.
NextBlock(t) ==
  LET b == at[t].block
  IN /\ MayRun(t, "next") /\ at[t].slot = End /\ CanRead(t, EofBlock)
     /\ ReadLock(t, EofBlock)
     /\ \/ b = Len(file) /\ Move(t, "idle", b, End) /\ Passed(t, "forward")
        \/ b # Len(file) /\ Move(t, "next", b + 1, Start) /\ Continue(t, "forward")
     /\ UNCHANGED <<file, undo, row>>

PreviousInBlock(t) ==
  LET b == at[t].block
  IN /\ MayRun(t, "previous") /\ at[t].slot # Start
     /\ IF at[t].slot > 1 THEN CanRead(t, b) /\ ReadLock(t, b) ELSE UNCHANGED held
     /\ \/ /\ Before(t) # {}
           /\ Move(t, "idle", b, Max(Before(t)))
           /\ Seen(t, "backward", b, Max(Before(t)))
        \/ Before(t) = {} /\ Move(t, "previous", b, Start) /\ Continue(t, "backward")
     /\ UNCHANGED <<file, undo, row>>

PreviousBlock(t) ==
  LET b == at[t].block
  IN /\ MayRun(t, "previous") /\ at[t].slot = Start
     /\ \/ b = 1 /\ Move(t, "idle", b, Start) /\ Passed(t, "backward")
        \/ b # 1 /\ Move(t, "previous", b - 1, End) /\ Continue(t, "backward")
     /\ UNCHANGED <<file, held, undo, row>>

-----------------------------------------------------------------------------
(* Changing rows.                                                          *)

\* insert_after: the flag of the first free slot, whose field stays as it was.
\* The shared lock is there when the exclusive one is refused.
InsertInBlock(t) ==
  LET b == at[t].block
      i == Min(After(t, FALSE))
  IN /\ MayRun(t, "insert") /\ at[t].slot # End
     /\ at[t].slot < NumSlots => CanRead(t, b)
     /\ row < MaxRows
     /\ \/ /\ After(t, FALSE) # {} /\ CanWrite(t, b)
           /\ WriteLock(t, b)
           /\ Write(t, b, i, [file[b][i] EXCEPT !.full = TRUE, !.row = row + 1])
           /\ row' = row + 1
           /\ Move(t, "idle", b, i)
        \/ /\ After(t, FALSE) # {} /\ ~CanWrite(t, b)
           /\ ReadLock(t, b)
           /\ Move(t, "idle", b, at[t].slot)
           /\ UNCHANGED <<file, undo, row>>
        \/ /\ After(t, FALSE) = {}
           /\ IF at[t].slot < NumSlots THEN ReadLock(t, b) ELSE UNCHANGED held
           /\ Move(t, "insert", b, End)
           /\ UNCHANGED <<file, undo, row>>
     /\ EndPass(t)

\* get_next_block, with append_block at the end of the file.
InsertInNextBlock(t) ==
  LET b == at[t].block
  IN /\ MayRun(t, "insert") /\ at[t].slot = End /\ CanRead(t, EofBlock)
     /\ row < MaxRows
     /\ \/ /\ b # Len(file)
           /\ ReadLock(t, EofBlock)
           /\ Move(t, "insert", b + 1, Start)
           /\ UNCHANGED file
        \/ /\ b = Len(file) /\ b < MaxBlocks /\ CanWrite(t, EofBlock)
           /\ WriteLock(t, EofBlock)
           /\ file' = Append(file, Zeros)
           /\ Move(t, "insert", b + 1, Start)
        \/ /\ b = Len(file) /\ b < MaxBlocks /\ ~CanWrite(t, EofBlock)
           /\ ReadLock(t, EofBlock)
           /\ Move(t, "idle", b, End)
           /\ UNCHANGED file
     /\ EndPass(t)
     /\ UNCHANGED <<undo, row>>

\* The scan is on a row.
OnRow(t) == MayRun(t, "idle") /\ at[t].slot \in Slots /\ file[at[t].block][at[t].slot].full

\* set_i32, set_string or set_null, with the flags.
Set(t, v) ==
  LET b == at[t].block
      i == at[t].slot
  IN /\ OnRow(t) /\ CanWrite(t, b)
     /\ WriteLock(t, b)
     /\ Write(t, b, i, [file[b][i] EXCEPT !.field = v])
     /\ UNCHANGED <<pc, at, row, pass>>

Delete(t) ==
  LET b == at[t].block
      i == at[t].slot
  IN /\ OnRow(t) /\ CanWrite(t, b)
     /\ WriteLock(t, b)
     /\ Write(t, b, i, [file[b][i] EXCEPT !.full = FALSE, !.row = 0])
     /\ Forget(t)
     /\ UNCHANGED <<pc, at, row>>

\* The lock that the next turn of a loop asks for.
Wanted(t) ==
  IF pc[t] # "previous" /\ at[t].slot = End THEN EofBlock ELSE at[t].block

\* The error of a lock ends the call.
GiveUp(t) ==
  /\ pc[t] \in {"next", "previous", "insert"}
  /\ pc[t] = "previous" => at[t].slot # Start
  /\ ~CanRead(t, Wanted(t))
  /\ pc' = [pc EXCEPT ![t] = "idle"]
  /\ UNCHANGED <<file, held, at, undo, row, pass>>

-----------------------------------------------------------------------------
(* Ending.                                                                 *)

\* The scan is dropped, then the locks are released.
Finish(t) ==
  /\ pc[t] \in {"closed", "idle"}
  /\ held' = [held EXCEPT ![t] = [b \in DOMAIN @ |-> "none"]]
  /\ Move(t, "closed", 1, Start)
  /\ undo' = [undo EXCEPT ![t] = [x \in {} |-> Zeros[1]]]
  /\ EndPass(t)
  /\ UNCHANGED row

Commit(t) == Finish(t) /\ UNCHANGED file

\* do_rollback; blocks that were appended stay.
Rollback(t) ==
  /\ Finish(t)
  /\ file' = [b \in DOMAIN file |->
                [i \in Slots |->
                   IF <<b, i>> \in DOMAIN undo[t] THEN undo[t][<<b, i>>] ELSE file[b][i]]]

Next ==
  \E t \in Tx :
    \/ Open(t) \/ OpenNew(t) \/ OpenFails(t) \/ BeforeFirst(t) \/ AfterLast(t)
    \/ \E b \in DOMAIN file, i \in Slots : MoveTo(t, b, i)
    \/ NextInBlock(t) \/ NextBlock(t)
    \/ PreviousInBlock(t) \/ PreviousBlock(t)
    \/ InsertInBlock(t) \/ InsertInNextBlock(t)
    \/ \E v \in Field : Set(t, v)
    \/ Delete(t) \/ GiveUp(t)
    \/ Commit(t) \/ Rollback(t)

Spec == Init /\ [][Next]_vars

-----------------------------------------------------------------------------
TypeOK ==
  /\ file \in Seq([Slots -> Slot]) /\ Len(file) <= MaxBlocks
  /\ held \in Locks!Held
  /\ pc \in [Tx -> {"closed", "open", "idle", "next", "previous", "insert"}]
  /\ at \in [Tx -> [block : Blocks, slot : Start..End]]
  /\ \A t \in Tx : pc[t] \notin {"closed", "open"} => at[t].block \in DOMAIN file
  /\ DOMAIN undo = Tx
  /\ \A t \in Tx : /\ DOMAIN undo[t] \subseteq (DOMAIN file) \X Slots
                   /\ undo[t] \in [DOMAIN undo[t] -> Slot]
  /\ row \in 0..MaxRows
  /\ pass \in [Tx -> [kind : {"none", "forward", "backward"}, complete : BOOLEAN,
                     seen : Seq(Blocks \X Slots)]]

Full == {x \in (DOMAIN file) \X Slots : file[x[1]][x[2]].full}

Precedes(x, y) == x[1] < y[1] \/ (x[1] = y[1] /\ x[2] < y[2])

\* A scan that has gone on in one direction has seen, in order and once, the
\* rows that are there now on its way, and all rows when it has come to the end:
\* nobody adds, removes or moves a row behind it.
PassIsExact ==
  \A t \in Tx :
    LET p == pass[t]
        here == <<at[t].block, at[t].slot>>
        seen == {p.seen[k] : k \in DOMAIN p.seen}
        behind(x) ==
          IF p.kind = "forward" THEN x = here \/ Precedes(x, here)
          ELSE x = here \/ Precedes(here, x)
    IN p.kind # "none" =>
         /\ seen = {x \in Full : p.complete \/ behind(x)}
         /\ \A j, k \in DOMAIN p.seen :
              j < k => IF p.kind = "forward" THEN Precedes(p.seen[j], p.seen[k])
                       ELSE Precedes(p.seen[k], p.seen[j])

Cells == (DOMAIN file) \X Slots

\* What the slots contain, and what they contained before the transaction that
\* has changed them.
Contents == [x \in Cells |-> file[x[1]][x[2]]]

Originals ==
  [x \in Cells |->
     LET by == {t \in Tx : x \in DOMAIN undo[t]}
     IN IF by = {} THEN file[x[1]][x[2]] ELSE undo[CHOOSE t \in by : TRUE][x]]

\* The rows in some slots, with their fields.
InUse(slots, contents) == {x \in slots : contents[x].full}
RowsIn(slots, contents) ==
  LET used == InUse(slots, contents)
  IN [r \in {contents[x].row : x \in used} |->
        contents[CHOOSE x \in used : contents[x].row = r].field]

CommittedRows == RowsIn(Cells, Originals)

ChangedRows(t) ==
  LET own == RowsIn(DOMAIN undo[t], Contents)
      old == RowsIn(DOMAIN undo[t], undo[t])
  IN [r \in DOMAIN own \cup DOMAIN old |-> IF r \in DOMAIN own THEN own[r] ELSE Gone]

\* The file, with its flags, its reused slots and its undo, is a table of rows.
Rows == INSTANCE RowStore
  WITH Row <- 1..MaxRows,
       rows <- CommittedRows,
       changed <- [t \in Tx |-> ChangedRows(t)]

\* (Rows!Spec, whose variables are functions of file and undo.)
ImplementsRowStore ==
  Rows!Init /\ [][UNCHANGED <<file, undo>> \/ UNCHANGED Rows!vars \/ Rows!Next]_<<file, undo>>
=============================================================================
