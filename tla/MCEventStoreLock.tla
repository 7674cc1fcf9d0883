-------------------------- MODULE MCEventStoreLock ---------------------------
(***************************************************************************)
(* EventStoreLock for TLC: one append slot in each process.                *)
(***************************************************************************)
EXTENDS EventStoreLock

MCHome == [c \in Calls |-> c]
=============================================================================
