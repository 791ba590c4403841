---------------------------- MODULE MCTableScans ----------------------------
\* Finite instances of TableScans for TLC.
EXTENDS TableScans

Symmetry == Permutations(Tx)
=============================================================================
