------------------------------ MODULE MCKernel -------------------------------
(***************************************************************************)
(* KernelSafety for TLC: the one process has all call slots, and the slots *)
(* are interchangeable.                                                    *)
(***************************************************************************)
EXTENDS KernelSafety, TLC

MCHome == [c \in Calls |-> 1]

Interchangeable == Permutations(Calls)
=============================================================================
