--------------------------- MODULE MCKernelSerial ----------------------------
(***************************************************************************)
(* KernelSerial for TLC: one call slot in each process.                    *)
(***************************************************************************)
EXTENDS KernelSerial

MCHome == [c \in Calls |-> c]
=============================================================================
