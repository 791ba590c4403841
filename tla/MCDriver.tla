------------------------------ MODULE MCDriver ------------------------------
(* Finite instances of Driver for TLC.  The clients are interchangeable.     *)
EXTENDS Driver, TLC

Symmetry == Permutations(Client)
=============================================================================
