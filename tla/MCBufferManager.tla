-------------------------- MODULE MCBufferManager --------------------------
(* A finite instance of BufferManager for TLC. *)
EXTENDS BufferManager
=============================================================================
