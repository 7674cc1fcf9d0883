---------------------------- MODULE TaskLifecycle ----------------------------
(***************************************************************************)
(* What the kernel promises of a task: a status that moves along the life  *)
(* cycle table and in no other way.  done has no way out of it.            *)
(***************************************************************************)
CONSTANT Tasks

VARIABLE status

Allowed ==
    [ready   |-> {"active"},
     active  |-> {"blocked", "waiting", "done", "ready"},
     blocked |-> {"active", "done"},
     waiting |-> {"active", "done"},
     done    |-> {}]

Init == status = [t \in Tasks |-> "ready"]

Move(t, to) ==
    /\ to \in Allowed[status[t]]
    /\ status' = [status EXCEPT ![t] = to]

Next == \E t \in Tasks, to \in DOMAIN Allowed : Move(t, to)

Spec == Init /\ [][Next]_status
=============================================================================
