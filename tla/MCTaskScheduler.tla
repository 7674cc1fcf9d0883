--------------------------- MODULE MCTaskScheduler ---------------------------
(***************************************************************************)
(* TaskScheduler for TLC: lane a takes one task at a time, lane b any.     *)
(***************************************************************************)
EXTENDS TaskScheduler

MCLimit == [l \in Lanes |-> IF l = "a" THEN 1 ELSE 0]
=============================================================================
