--------------------------- MODULE AppendOnlyLog ----------------------------
(***************************************************************************)
(* What EventStore.appendAll promises its callers: a batch reaches the log *)
(* in one piece and once, an append that returns has logged its batch, and *)
(* one that was refused the lock has not and never will.                   *)
(***************************************************************************)
EXTENDS Naturals, Sequences

CONSTANT Batches

VARIABLES log, acked, refused

Logged(b) == \E i \in DOMAIN log : log[i] = b

Init == log = <<>> /\ acked = {} /\ refused = {}

Write(b) ==
    /\ ~Logged(b) /\ b \notin refused
    /\ log' = Append(log, b)
    /\ UNCHANGED <<acked, refused>>

Return(b) ==
    /\ Logged(b)
    /\ acked' = acked \cup {b}
    /\ UNCHANGED <<log, refused>>

Refuse(b) ==
    /\ ~Logged(b)
    /\ refused' = refused \cup {b}
    /\ UNCHANGED <<log, acked>>

Next == \E b \in Batches : Write(b) \/ Return(b) \/ Refuse(b)

Spec == Init /\ [][Next]_<<log, acked, refused>>
=============================================================================
