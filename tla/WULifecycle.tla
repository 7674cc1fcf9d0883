----------------------------- MODULE WULifecycle -----------------------------
(***************************************************************************)
(* What the transition table promises of a work unit: its status moves     *)
(* along TRANSITIONS and in no other way; done has no way out.             *)
(***************************************************************************)
CONSTANT WUs

VARIABLE status

Transitions ==
    [ready       |-> {"in_progress"},
     in_progress |-> {"blocked", "waiting", "done", "ready"},
     blocked     |-> {"in_progress", "done"},
     waiting     |-> {"in_progress", "done"},
     done        |-> {}]

Init == status = [w \in WUs |-> "ready"]

Move(w) ==
    /\ status'[w] \in Transitions[status[w]]
    /\ status' = [status EXCEPT ![w] = status'[w]]

Next == \E w \in WUs : Move(w)

Spec == Init /\ [][Next]_status
=============================================================================
