--------------------------- MODULE ProjectionCheck ---------------------------
(***************************************************************************)
(* The two ways a task's events are read: projectTaskState's loop over the *)
(* sorted page, one event a turn, against the closed forms of              *)
(* TaskProjection; and a caller that follows nextCursor page after page,   *)
(* while others append.                                                    *)
(*                                                                         *)
(* The log grows by the batches the runtime writes, one task event or a    *)
(* task event and a run event with one timestamp, and by the single run    *)
(* events that only the projection knows.  Stamps arrive in any order: a   *)
(* batch is stamped before its writer has the lock.  The loop and the      *)
(* caller share nothing but the log, so they run one at a time.            *)
(***************************************************************************)
EXTENDS TaskProjection

CONSTANTS Task,         \* the one task
          RunIds,       \* run ids, positive
          Stamps,       \* timestamps, positive
          MaxEvents,    \* bound on the log
          PageSizes     \* the limits a paging caller asks for

ASSUME ProjectionAssumption ==
    /\ RunIds \subseteq Nat \ {0} /\ Stamps \subseteq Nat \ {0}
    /\ MaxEvents \in Nat /\ PageSizes \subseteq Nat \ {0}

VARIABLES
    log,    \* the task's events in the file
    loop,   \* the projection that runs: its state, the events it has still to go through
    walk    \* the caller that pages: its limit and cursor, the events it got

vars == <<log, loop, walk>>

-----------------------------------------------------------------------------
Event(kind, run, ts) == [kind |-> kind, task |-> Task, run |-> run, req |-> 0, ts |-> ts]

SingleKinds == TaskKinds \ {"task_claimed", "task_completed"}

Batches ==
    UNION {{<<Event(k, 0, ts)>> : k \in SingleKinds}
           \cup {<<Event(k, r, ts)>> : k \in {"run_paused", "run_failed"}, r \in RunIds}
           \cup {<<Event("task_claimed", 0, ts), Event("run_started", r, ts)>> : r \in RunIds}
           \cup {<<Event("run_succeeded", r, ts), Event("task_completed", 0, ts)>> : r \in RunIds}
           : ts \in Stamps}

\* The loop has no await: nothing is appended to what the process has read until it is through.
Grow(b) ==
    /\ ~loop.on
    /\ Len(log) + Len(b) <= MaxEvents
    /\ log' = log \o b
    /\ UNCHANGED <<loop, walk>>

-----------------------------------------------------------------------------
(* projectTaskState *)

NewState == [status |-> "ready", current |-> 0, runs |-> <<>>]

NoLoop == [on |-> FALSE, state |-> NewState, todo |-> {}]

BeginLoop ==
    /\ ~loop.on /\ walk.pc = "off"
    /\ loop' = [on |-> TRUE, state |-> NewState, todo |-> Page(log, Task)]
    /\ UNCHANGED <<log, walk>>

\* One turn of the loop; reduceRunEvent updates the map of runs.
Reduce(state, e) ==
    [status  |-> IF e.kind \in TaskKinds THEN StatusAfter[e.kind] ELSE state.status,
     current |-> IF e.kind \in RunKinds THEN e.run ELSE state.current,
     runs    |-> IF e.kind \in RunKinds
                 THEN [r \in DOMAIN state.runs \cup {e.run} |->
                          IF r = e.run THEN RunStatusAfter[e.kind] ELSE state.runs[r]]
                 ELSE state.runs]

\* The next event of the page, sorted by timestamp; the sort is stable.
Turn ==
    /\ loop.on
    /\ \E i \in loop.todo :
          /\ \A j \in loop.todo : Before(log, i, j)
          /\ loop' = [loop EXCEPT !.state = Reduce(@, log[i]), !.todo = @ \ {i}]
    /\ UNCHANGED <<log, walk>>

EndLoop ==
    /\ loop.on /\ loop.todo = {}
    /\ loop' = NoLoop
    /\ UNCHANGED <<log, walk>>

-----------------------------------------------------------------------------
(* A caller that follows nextCursor until it is null *)

\* seen is the length of the log at its last page, twice tells that an event came again.
NoWalk == [pc |-> "off", limit |-> 0, cursor |-> 0, got |-> {}, twice |-> FALSE, seen |-> 0]

BeginWalk(limit) ==
    /\ walk.pc = "off" /\ ~loop.on
    /\ walk' = [NoWalk EXCEPT !.pc = "on", !.limit = limit]
    /\ UNCHANGED <<log, loop>>

NextPage ==
    LET page == PageAfter(log, Task, walk.cursor, walk.limit)
        next == NextCursor(log, Task, walk.cursor, walk.limit)
    IN  /\ walk.pc = "on"
        /\ walk' = [walk EXCEPT !.pc = IF next = 0 THEN "done" ELSE "on",
                                !.cursor = next,
                                !.got = @ \cup page,
                                !.twice = @ \/ page \cap walk.got # {},
                                !.seen = Len(log)]
        /\ UNCHANGED <<log, loop>>

-----------------------------------------------------------------------------
Init == log = <<>> /\ loop = NoLoop /\ walk = NoWalk

Next ==
    \/ \E b \in Batches : Grow(b)
    \/ BeginLoop \/ Turn \/ EndLoop
    \/ \E limit \in PageSizes : BeginWalk(limit)
    \/ NextPage

Spec == Init /\ [][Next]_vars

-----------------------------------------------------------------------------
\* At the end of the loop the closed forms say what it computed: status, current run,
\* number of runs and the status of each run, for pages cut short and stamps out of order.
ProjectionAgrees ==
    (loop.on /\ loop.todo = {}) =>
        /\ Status(log, Task) = loop.state.status
        /\ CurrentRun(log, Task) = loop.state.current
        /\ RunCount(log, Task) = Cardinality(DOMAIN loop.state.runs)
        /\ \A r \in DOMAIN loop.state.runs : RunStatus(log, Task, r) = loop.state.runs[r]

FileOrderIsTimeOrder == \A i, j \in DOMAIN log : i < j => log[i].ts <= log[j].ts

\* The caller got an event, and not another one of its timestamp that it could have got.
StampIsSplit ==
    \E i \in walk.got, j \in EventsOf(log, Task) \ walk.got :
        j <= walk.seen /\ log[i].ts = log[j].ts

\* Where stamps never decrease along the file and no page ends between two events of one
\* timestamp, a caller that follows nextCursor gets every event of the task once that is there
\* when it reads its last page, although the log grows between its pages (replay, the cursor
\* is an exclusive bound on the timestamp).
PagingRetrievesAll ==
    (walk.pc = "done" /\ FileOrderIsTimeOrder /\ ~StampIsSplit) =>
        /\ walk.got = {i \in EventsOf(log, Task) : i <= walk.seen}
        /\ ~walk.twice
=============================================================================
