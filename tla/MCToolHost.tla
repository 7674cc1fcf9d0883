------------------------------ MODULE MCToolHost ------------------------------
(* One process that serves two calls and one that appends only what it        *)
(* reconciles; the file is rotated after every second line.                   *)
EXTENDS ToolHost, TLC

CONSTANTS p1, p2, c1, c2

MCProcs == {p1, p2}
MCCalls == {c1, c2}
MCHome == [c \in MCCalls |-> p1]
CallSymmetry == Permutations(MCCalls)
=============================================================================
