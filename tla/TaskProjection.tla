---------------------------- MODULE TaskProjection ----------------------------
(***************************************************************************)
(* What the kernel reads out of its event log: the task life cycle table,  *)
(* the page of events one replay returns, and the state of a task that     *)
(* projectTaskState folds out of that page.                                *)
(*                                                                         *)
(* A log is the sequence of task-scoped events in file order.  An event is *)
(* a record [kind, task, run, req, ts].  run is the run id of a run event  *)
(* (0 on the others), req the approval request a wait or a resume belongs  *)
(* to (0 on the others), ts the millisecond its writer stamped it with.    *)
(* Events without a task_id (workspace_updated, spec_tampered) are seen by *)
(* no projection of a task and are left out of the log, as are checkpoint  *)
(* and task_delegated, which change no state and are written nowhere.      *)
(*                                                                         *)
(* projectTaskState sorts the page by timestamp and folds it.  Every task  *)
(* event sets the status absolutely and every run event replaces the       *)
(* current run, so the fold's result is what the latest event of each sort *)
(* says.  The definitions below take that closed form; ProjectionCheck has *)
(* the loop itself, and Projection_proofs shows that it ends in them.      *)
(***************************************************************************)
EXTENDS Naturals, Sequences, FiniteSets

CONSTANT ReplayLimit    \* events one replay returns at most; 100 in the code

ASSUME ReplayLimitAssumption == ReplayLimit \in Nat \ {0}

-----------------------------------------------------------------------------
(* The life cycle table *)

Statuses == {"ready", "active", "blocked", "waiting", "done"}

AllowedTransitions ==
    [ready   |-> {"active"},
     active  |-> {"blocked", "waiting", "done", "ready"},
     blocked |-> {"active", "done"},
     waiting |-> {"active", "done"},
     done    |-> {}]

\* assertTransition does not throw.
CanMove(from, to) == to \in AllowedTransitions[from]

-----------------------------------------------------------------------------
(* Events *)

\* The kinds that set a status.  No call of the runtime writes task_released,
\* run_paused or run_failed; other writers of the log may.
TaskKinds == {"task_created", "task_claimed", "task_blocked", "task_unblocked",
              "task_waiting", "task_resumed", "task_completed", "task_released"}

RunKinds == {"run_started", "run_paused", "run_failed", "run_succeeded"}

\* The status a task event leaves its task in.
StatusAfter ==
    [task_created   |-> "ready",
     task_claimed   |-> "active",
     task_blocked   |-> "blocked",
     task_unblocked |-> "active",
     task_waiting   |-> "waiting",
     task_resumed   |-> "active",
     task_completed |-> "done",
     task_released  |-> "ready"]

\* The status a run event leaves its run in.
RunStatusAfter ==
    [run_started   |-> "executing",
     run_paused    |-> "paused",
     run_failed    |-> "failed",
     run_succeeded |-> "succeeded"]

-----------------------------------------------------------------------------
(* Replay and projection *)

\* The positions of t's events: byTask.get(t), in file order.
EventsOf(log, t) == {i \in DOMAIN log : log[i].task = t}

\* The first n positions of S: a page of n events.
FirstOf(S, n) == {i \in S : Cardinality({j \in S : j < i}) < n}

\* What replay({taskId: t}) returns when its caller names no limit.
Page(log, t) == FirstOf(EventsOf(log, t), ReplayLimit)

\* Mutation of Before: the sort reverses events of one timestamp.
BeforeUnstable(log, i, j) ==
    \/ log[i].ts < log[j].ts
    \/ log[i].ts = log[j].ts /\ i >= j

\* Stable sort by timestamp: i comes no later than j.
Before(log, i, j) ==
    \/ log[i].ts < log[j].ts
    \/ log[i].ts = log[j].ts /\ i <= j

\* An element of a non-empty set: the only one of a singleton.
Only(S) == CHOOSE i \in S : TRUE

\* Mutation of Latest: the page is folded in file order.
LastInFile(log, S) == Only({i \in S : \A j \in S : j <= i})

\* The last position of a non-empty S once S is sorted.
Latest(log, S) == Only({i \in S : \A j \in S : Before(log, j, i)})

StatusEvents(log, t) == {i \in Page(log, t) : log[i].kind \in TaskKinds}

RunEvents(log, t) == {i \in Page(log, t) : log[i].kind \in RunKinds}

Status(log, t) ==
    IF StatusEvents(log, t) = {} THEN "ready"
    ELSE StatusAfter[log[Latest(log, StatusEvents(log, t))].kind]

\* state.current_run.run_id, 0 when there is none.
CurrentRun(log, t) ==
    IF RunEvents(log, t) = {} THEN 0
    ELSE log[Latest(log, RunEvents(log, t))].run

RunCount(log, t) == Cardinality({log[i].run : i \in RunEvents(log, t)})

\* The status of run r after the events of the page.
RunStatus(log, t, r) ==
    RunStatusAfter[log[Latest(log, {i \in RunEvents(log, t) : log[i].run = r})].kind]

-----------------------------------------------------------------------------
(* Paging: replay({taskId: t, cursor, limit}), cursor = 0 for none *)

\* The positions a page that starts after timestamp cursor may hold.
AfterCursor(log, t, cursor) == {i \in EventsOf(log, t) : log[i].ts > cursor}

PageAfter(log, t, cursor, limit) == FirstOf(AfterCursor(log, t, cursor), limit)

\* Mutation of NextCursor: the timestamp of the first event that did not fit.
CursorPastPage(log, t, cursor, limit) ==
    LET Rest == AfterCursor(log, t, cursor) \ PageAfter(log, t, cursor, limit)
    IN  IF Rest = {} THEN 0 ELSE log[CHOOSE i \in Rest : \A j \in Rest : i <= j].ts

\* The timestamp of the page's last event in file order, 0 for null: no more.
NextCursor(log, t, cursor, limit) ==
    LET P == PageAfter(log, t, cursor, limit)
    IN  IF P = AfterCursor(log, t, cursor) THEN 0
        ELSE log[CHOOSE i \in P : \A j \in P : j <= i].ts
=============================================================================
