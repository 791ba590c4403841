----------------------------- MODULE MCLockTable -----------------------------
(* A finite instance of LockTable for TLC. *)
EXTENDS LockTable
=============================================================================
