---------------------------- MODULE KernelSerial -----------------------------
(***************************************************************************)
(* KernelRuntime under a host that keeps to the life cycle: it makes one   *)
(* call at a time, lets the runtime stamp the events, asks for an approval *)
(* only on an active task and resolves it only while the task waits.       *)
(* Nothing in the kernel enforces this; under it, the event log implements *)
(* TaskLifecycle.                                                          *)
(***************************************************************************)
EXTENDS KernelRuntime

Starts(c, op) == calls[c] = Idle /\ calls'[c].op = op

OneAtATime == \A c, d \in Calls : calls'[c] # Idle /\ calls'[d] # Idle => c = d

\* No caller passes a timestamp of its own.
RuntimeStamps == \A c \in Calls : calls'[c].pc = "append" => calls'[c].ts = clock'

ToolsWhileActive ==
    \A c \in Calls : Starts(c, "tool") => Status(log, calls'[c].task) = "active"

ResolvesWhileWaiting ==
    \A c \in Calls : Starts(c, "resolve") => Status(log, calls'[c].task) = "waiting"

SerialNext == Next /\ OneAtATime /\ RuntimeStamps /\ ToolsWhileActive /\ ResolvesWhileWaiting

SerialSpec == Init /\ [][SerialNext]_vars

\* A host that makes one call at a time but resolves an approval whenever the
\* human answers.
LateApprovalNext == Next /\ OneAtATime /\ RuntimeStamps /\ ToolsWhileActive

LateApprovalSpec == Init /\ [][LateApprovalNext]_vars

-----------------------------------------------------------------------------
\* No task has more events than a replay returns.
WithinPage == \A t \in Tasks : Cardinality(EventsOf(log, t)) <= ReplayLimit

StatusMap == [t \in Tasks |-> Status(log, t)]

\* A step moves the projected status along the table or leaves it.
LegalStep ==
    \/ StatusMap' = StatusMap
    \/ \E t \in Tasks, to \in Statuses :
          CanMove(StatusMap[t], to) /\ StatusMap' = [StatusMap EXCEPT ![t] = to]

\* The log implements the life cycle while its pages hold all of it.
ImplementsLifecycle == [][WithinPage' => LegalStep]_vars

Lifecycle == INSTANCE TaskLifecycle WITH status <- StatusMap

\* The same as a refinement, for runs whose pages hold the whole log.
RefinesLifecycle == Lifecycle!Spec

\* The status a call's events ask for.
Wanted(call) ==
    CASE call.op \in Guarded -> Target[call.op]
      [] call.op = "create"  -> "ready"
      [] call.op = "tool"    -> "waiting"
      [] OTHER               -> "active"

\* A call that has appended its events is seen to have had its effect.
EffectStep ==
    \A c \in Calls : (calls[c].pc = "append" /\ log' # log) =>
        Status(log', calls[c].task) = Wanted(calls[c])

EffectIsSeen == [][WithinPage' => EffectStep]_vars

\* No event changes what the table calls terminal (assertTransition: "done is
\* a terminal state").
DoneIsTerminal == [][\A t \in Tasks : Status(log, t) = "done" => Status(log', t) = "done"]_vars
=============================================================================
