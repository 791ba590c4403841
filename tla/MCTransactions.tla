--------------------------- MODULE MCTransactions ---------------------------
(* Finite instances of Transactions for TLC.  The transactions after the     *)
(* first, the blocks and the values are interchangeable in every property.   *)
EXTENDS Transactions, TLC

Symmetry ==
  Permutations(Tx \ {Opener}) \cup Permutations(Block) \cup Permutations(Value)
=============================================================================
