---------------------------- MODULE TaskScheduler ----------------------------
(***************************************************************************)
(* TaskScheduler: tasks wait in one queue, by priority and then in order   *)
(* of arrival, and a lane hands out no more while it is at its limit.      *)
(*                                                                         *)
(* Every method runs to its end before another starts.  What a host does   *)
(* between them is open: it may ask for several tasks before it starts     *)
(* one, never start one, and enqueue a task again at any time.  A method   *)
(* that finds nothing to do changes nothing and has no action.             *)
(***************************************************************************)
EXTENDS Naturals, FiniteSets

CONSTANTS TaskIds, Lanes, NoLane,
          Priorities,       \* scores: P0 is 0
          Limit,            \* laneWipLimits; 0 for a lane without one
          MaxEnqueued       \* bound: tasks enqueued

ASSUME SchedulerAssumption ==
    /\ IsFiniteSet(TaskIds)
    /\ NoLane \notin Lanes
    /\ Priorities \subseteq Nat
    /\ Limit \in [Lanes -> Nat]
    /\ MaxEnqueued \in Nat

VARIABLES
    queue,              \* the entries that wait
    sequenceCounter,
    activeByLane,       \* 0 for a lane without an entry
    activeByTask,       \* the lane of a started task, NoLane without an entry
    dequeuedByTask,     \* the lane of a task handed out, NoLane without an entry
    \* history
    peak,               \* the most tasks that were handed out and not started at once
    restarted,          \* a task was started while it was active
    outUpTo             \* outUpTo[l][p]: above every sequence handed out in l at p

vars == <<queue, sequenceCounter, activeByLane, activeByTask, dequeuedByTask,
          peak, restarted, outUpTo>>

Entries == [task_id : TaskIds, lane_id : Lanes, priority : Priorities, sequence : Nat]

HandedOut == {id \in TaskIds : dequeuedByTask[id] # NoLane}

Active(l) == {id \in TaskIds : activeByTask[id] = l}

-----------------------------------------------------------------------------
(* Mutations *)

\* Mutation of canStartInLane: a lane at its limit takes one more.
CanStartAtLimit(l) == Limit[l] = 0 \/ activeByLane[l] <= Limit[l]

\* Mutation of Sooner: the latest arrival of a priority first.
LatestFirst(e, f) ==
    \/ e.priority < f.priority
    \/ e.priority = f.priority /\ e.sequence > f.sequence

\* Mutation of MarkCompleted: the lane's count is left as it was.
CompleteUncounted(id) ==
    /\ activeByTask[id] # NoLane
    /\ activeByTask' = [activeByTask EXCEPT ![id] = NoLane]
    /\ UNCHANGED <<queue, sequenceCounter, activeByLane, dequeuedByTask, peak, restarted, outUpTo>>

\* Mutation of MarkCompleted: a task that is not active is counted all the same,
\* in the lane its caller names.
CompleteUnknown(id) ==
    \E l \in Lanes :
        /\ activeByTask[id] \in {l, NoLane}
        /\ activeByTask' = [activeByTask EXCEPT ![id] = NoLane]
        /\ activeByLane' = [activeByLane EXCEPT ![l] = @ - 1]
        /\ UNCHANGED <<queue, sequenceCounter, dequeuedByTask, peak, restarted, outUpTo>>

-----------------------------------------------------------------------------
canStartInLane(l) == Limit[l] = 0 \/ activeByLane[l] < Limit[l]

\* The order of the sort in dequeue.
Sooner(e, f) ==
    \/ e.priority < f.priority
    \/ e.priority = f.priority /\ e.sequence < f.sequence

Enqueue(id, l, p) ==
    /\ sequenceCounter < MaxEnqueued
    /\ queue' = queue \cup {[task_id |-> id, lane_id |-> l, priority |-> p, sequence |-> sequenceCounter]}
    /\ sequenceCounter' = sequenceCounter + 1
    /\ UNCHANGED <<activeByLane, activeByTask, dequeuedByTask, peak, restarted, outUpTo>>

\* The first entry of a lane that can start one.  Of two entries of one task
\* the later replaces the earlier in dequeuedByTask.
Dequeue ==
    \E e \in queue :
        /\ canStartInLane(e.lane_id)
        /\ \A f \in queue : canStartInLane(f.lane_id) => f = e \/ Sooner(e, f)
        /\ queue' = queue \ {e}
        /\ dequeuedByTask' = [dequeuedByTask EXCEPT ![e.task_id] = e.lane_id]
        /\ peak' = IF Cardinality(HandedOut') > peak THEN Cardinality(HandedOut') ELSE peak
        /\ outUpTo' = [outUpTo EXCEPT ![e.lane_id][e.priority] = e.sequence + 1]
        /\ UNCHANGED <<sequenceCounter, activeByLane, activeByTask, restarted>>

MarkStarted(id) ==
    /\ dequeuedByTask[id] # NoLane
    /\ activeByLane' = [activeByLane EXCEPT ![dequeuedByTask[id]] = @ + 1]
    /\ activeByTask' = [activeByTask EXCEPT ![id] = dequeuedByTask[id]]
    /\ dequeuedByTask' = [dequeuedByTask EXCEPT ![id] = NoLane]
    /\ restarted' = (restarted \/ activeByTask[id] # NoLane)
    /\ UNCHANGED <<queue, sequenceCounter, peak, outUpTo>>

MarkCompleted(id) ==
    /\ activeByTask[id] # NoLane
    /\ activeByTask' = [activeByTask EXCEPT ![id] = NoLane]
    /\ activeByLane' = [activeByLane EXCEPT ![activeByTask[id]] = IF @ > 0 THEN @ - 1 ELSE 0]
    /\ UNCHANGED <<queue, sequenceCounter, dequeuedByTask, peak, restarted, outUpTo>>

Init ==
    /\ queue = {}
    /\ sequenceCounter = 0
    /\ activeByLane = [l \in Lanes |-> 0]
    /\ activeByTask = [id \in TaskIds |-> NoLane]
    /\ dequeuedByTask = [id \in TaskIds |-> NoLane]
    /\ peak = 0
    /\ restarted = FALSE
    /\ outUpTo = [l \in Lanes |-> [p \in Priorities |-> 0]]

Next ==
    \/ \E id \in TaskIds, l \in Lanes, p \in Priorities : Enqueue(id, l, p)
    \/ Dequeue
    \/ \E id \in TaskIds : MarkStarted(id) \/ MarkCompleted(id)

Spec == Init /\ [][Next]_vars

\* A host that keeps asking for tasks and completes the ones it starts.
FairSpec == Spec /\ WF_vars(Dequeue) /\ \A id \in TaskIds : WF_vars(MarkCompleted(id))

-----------------------------------------------------------------------------
\* The type invariant of the scheduler's state.
TypeOK ==
    /\ queue \subseteq Entries
    /\ sequenceCounter \in Nat
    /\ activeByLane \in [Lanes -> Nat]
    /\ activeByTask \in [TaskIds -> Lanes \cup {NoLane}]
    /\ dequeuedByTask \in [TaskIds -> Lanes \cup {NoLane}]
    /\ peak \in Nat
    /\ restarted \in BOOLEAN
    /\ outUpTo \in [Lanes -> [Priorities -> Nat]]

\* A lane's count is never below the number of its active tasks, and it is that
\* number as long as no task is started twice (markStarted, markCompleted).
CountsMatch ==
    \A l \in Lanes :
        /\ activeByLane[l] >= Cardinality(Active(l))
        /\ ~restarted => activeByLane[l] = Cardinality(Active(l))

\* A lane goes over its limit by less than the number of tasks that were ever
\* handed out and not yet started: dequeue does not count those.  A host that
\* starts each task before it asks for the next (peak = 1) keeps the limits.
OverrunBounded ==
    \A l \in Lanes : Limit[l] > 0 => activeByLane[l] < Limit[l] + peak \/ activeByLane[l] = 0

\* In one lane and priority tasks are handed out in the order they came, though
\* the lane may fill and empty in between: nothing waits behind a later task.
FirstInFirstOut ==
    \A e \in queue : e.sequence >= outUpTo[e.lane_id][e.priority]

\* Once no more tasks come, each one is handed out, unless a second start has
\* left a count too high: no limit holds a lane up for good.
EveryTaskIsHandedOut ==
    \A n \in 0..(MaxEnqueued - 1) :
        (\E e \in queue : e.sequence = n) ~> (restarted \/ ~\E e \in queue : e.sequence = n)
=============================================================================
