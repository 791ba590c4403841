---------------------------- MODULE MCLogManager ----------------------------
(* Finite instances of LogManager for TLC.  Two records that share a block,  *)
(* one that fills a block to its last word, and one larger than a block.     *)
EXTENDS LogManager

CONSTANTS small, medium, full, large

MCSize == small :> 1 @@ medium :> 2 @@ full :> 3 @@ large :> 4
=============================================================================
