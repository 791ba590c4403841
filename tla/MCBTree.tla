------------------------------- MODULE MCBTree -------------------------------
EXTENDS BTree
=============================================================================
