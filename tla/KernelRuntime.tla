---------------------------- MODULE KernelRuntime ----------------------------
(***************************************************************************)
(* DefaultKernelRuntime: the calls that create, claim, block, unblock and  *)
(* complete a task, the tool call that stops for an approval and the call  *)
(* that resolves it.                                                       *)
(*                                                                         *)
(* Several runtime processes share one workspace: the spec files under     *)
(* tasks/ and the event log.  A process runs several calls at once (the    *)
(* HTTP surface awaits each request on its own), and a call gives way at   *)
(* every await: it reads the log, evaluates the policy, stamps its events  *)
(* and appends them in different steps.  An append is one step here: the   *)
(* whole batch is one write under the lock that EventStoreLock models.     *)
(*                                                                         *)
(* An error a call throws before it has changed anything leaves the state  *)
(* as it was and has no action.                                            *)
(***************************************************************************)
EXTENDS TaskProjection

CONSTANTS Tasks, NoTask,
          Procs,            \* runtime processes
          Calls,            \* call slots: how many calls may be in flight
          Home,             \* the process each slot belongs to
          CallerStamps,     \* timestamps a caller may pass as input.timestamp
          MaxCalls,         \* bound: calls begun
          MaxFaults         \* bound: process crashes and failures of single steps

ASSUME KernelAssumption ==
    /\ NoTask \notin Tasks
    /\ Home \in [Calls -> Procs]
    /\ CallerStamps \subseteq Nat
    /\ MaxCalls \in Nat /\ MaxFaults \in Nat

VARIABLES
    log,        \* events.jsonl, the events of tasks
    spec,       \* spec[t]: the file tasks/t.yaml; "partial" is open but not written
    pending,    \* pending[p]: pendingApprovals of process p, a map in memory
    calls,      \* the calls in flight
    clock,      \* the wall clock the processes share
    lastRun,    \* run ids given out so far: they end in random bytes and never recur
    lastReq,    \* approval request ids given out so far (randomUUID)
    begun, crashes, failures,   \* counters for the bounds
    late,       \* those of the failures that came after the batch was written
    abandoned   \* history: tasks whose creation was cut off, or could not clear up after itself

vars == <<log, spec, pending, calls, clock, lastRun, lastReq, begun, crashes, failures, late,
          abandoned>>

-----------------------------------------------------------------------------
(* Calls and the events they write *)

\* The calls that read the task's state and assert a transition first.
Guarded == {"claim", "block", "unblock", "complete"}

Ops == Guarded \cup {"create", "tool", "resolve"}

\* The status each guarded call asserts a transition to.
Target == [claim |-> "active", block |-> "blocked", unblock |-> "active", complete |-> "done"]

Idle == [pc |-> "idle", op |-> "none", task |-> NoTask, run |-> 0, req |-> 0, ts |-> 0]

\* Mutation of EventOf: an event without its timestamp.
EventWithoutStamp(call, kind, run, req) ==
    [kind |-> kind, task |-> call.task, run |-> run, req |-> req]

EventOf(call, kind, run, req) ==
    [kind |-> kind, task |-> call.task, run |-> run, req |-> req, ts |-> call.ts]

\* What the call appends in one write.
Batch(call) ==
    CASE call.op = "create"   -> <<EventOf(call, "task_created", 0, 0)>>
      [] call.op = "claim"    -> <<EventOf(call, "task_claimed", 0, 0),
                                   EventOf(call, "run_started", call.run, 0)>>
      [] call.op = "block"    -> <<EventOf(call, "task_blocked", 0, 0)>>
      [] call.op = "unblock"  -> <<EventOf(call, "task_unblocked", 0, 0)>>
      [] call.op = "complete" -> <<EventOf(call, "run_succeeded", call.run, 0),
                                   EventOf(call, "task_completed", 0, 0)>>
      [] call.op = "tool"     -> <<EventOf(call, "task_waiting", 0, call.req)>>
      [] call.op = "resolve"  -> <<EventOf(call, "task_resumed", 0, call.req)>>

\* The runs of t a caller can name: those the log has started.
StartedRuns(t) == {log[i].run : i \in {j \in EventsOf(log, t) : log[j].kind = "run_started"}}

\* normalizeTimestamp(this.now): the clock may have moved since it was last read.
Now == {clock, clock + 1}

Begin(c, call) ==
    /\ calls[c] = Idle
    /\ begun < MaxCalls
    /\ begun' = begun + 1
    /\ calls' = [calls EXCEPT ![c] = call]

Return(c) == calls' = [calls EXCEPT ![c] = Idle]

-----------------------------------------------------------------------------
(* createTask *)

\* Mutation of CreateOpen: the file is opened with 'w'.
CreateOverwrites(c, t) ==
    /\ Begin(c, [Idle EXCEPT !.pc = "write", !.op = "create", !.task = t])
    /\ spec' = [spec EXCEPT ![t] = "partial"]
    /\ UNCHANGED <<log, pending, clock, lastRun, lastReq, crashes, failures, late, abandoned>>

\* Mutation of CreateOpen: the clean-up also follows an open that found the file.
CreateCleansUp(c, t) ==
    /\ Begin(c, [Idle EXCEPT !.pc = IF spec[t] = "absent" THEN "write" ELSE "remove",
                             !.op = "create", !.task = t])
    /\ spec' = [spec EXCEPT ![t] = IF @ = "absent" THEN "partial" ELSE @]
    /\ UNCHANGED <<log, pending, clock, lastRun, lastReq, crashes, failures, late, abandoned>>

\* writeTaskSpecImmutable opens the file with 'wx': only one call can.
CreateOpen(c, t) ==
    /\ spec[t] = "absent"
    /\ Begin(c, [Idle EXCEPT !.pc = "write", !.op = "create", !.task = t])
    /\ spec' = [spec EXCEPT ![t] = "partial"]
    /\ UNCHANGED <<log, pending, clock, lastRun, lastReq, crashes, failures, late, abandoned>>

CreateWrite(c) ==
    /\ calls[c].pc = "write"
    /\ spec' = [spec EXCEPT ![calls[c].task] = "written"]
    /\ \E ts \in Now :
          /\ clock' = ts
          /\ calls' = [calls EXCEPT ![c] = [@ EXCEPT !.pc = "append", !.ts = ts]]
    /\ UNCHANGED <<log, pending, lastRun, lastReq, begun, crashes, failures, late, abandoned>>

Fails == crashes + failures < MaxFaults /\ failures' = failures + 1

\* The write fails; the file is closed and then removed.
CreateWriteFails(c) ==
    /\ calls[c].pc = "write"
    /\ Fails
    /\ calls' = [calls EXCEPT ![c] = [@ EXCEPT !.pc = "remove"]]
    /\ UNCHANGED <<log, spec, pending, clock, lastRun, lastReq, begun, crashes, late, abandoned>>

\* The call throws and leaves its file where it is.
Abandon(c) ==
    /\ Fails
    /\ Return(c)
    /\ abandoned' = abandoned \cup {calls[c].task}
    /\ UNCHANGED <<log, pending, clock, lastRun, lastReq, begun, crashes, late>>

\* The close after the write fails, outside the try: no clean-up.
CreateCloseFails(c) ==
    /\ calls[c].pc = "write"
    /\ \E s \in {"partial", "written"} : spec' = [spec EXCEPT ![calls[c].task] = s]
    /\ Abandon(c)

CreateRemove(c) ==
    /\ calls[c].pc = "remove"
    /\ spec' = [spec EXCEPT ![calls[c].task] = "absent"]
    /\ Return(c)
    /\ UNCHANGED <<log, pending, clock, lastRun, lastReq, begun, crashes, failures, late, abandoned>>

\* The close before the removal, or the removal, fails.
CreateRemoveFails(c) ==
    /\ calls[c].pc = "remove"
    /\ Abandon(c)
    /\ UNCHANGED spec

-----------------------------------------------------------------------------
(* claimTask, blockTask, unblockTask, completeTask *)

\* Mutation of Read: the state is projected from the log alone.
ReadWithoutSpec(c, op, t) ==
    /\ CanMove(Status(log, t), Target[op])
    /\ \E r \in IF op = "complete" THEN StartedRuns(t) ELSE {0} :
          Begin(c, [Idle EXCEPT !.pc = "decide", !.op = op, !.task = t, !.run = r])
    /\ UNCHANGED <<log, spec, pending, clock, lastRun, lastReq, crashes, failures, late, abandoned>>

\* Mutation of Read: no transition is asserted.
ReadUnasserted(c, op, t) ==
    /\ spec[t] = "written"
    /\ \E r \in IF op = "complete" THEN StartedRuns(t) ELSE {0} :
          Begin(c, [Idle EXCEPT !.pc = "decide", !.op = op, !.task = t, !.run = r])
    /\ UNCHANGED <<log, spec, pending, clock, lastRun, lastReq, crashes, failures, late, abandoned>>

\* requireTaskSpec, projectTaskState and assertTransition.  completeTask takes
\* the run its caller names or else the current one, which is one of those the
\* log has started; without any it throws.
Read(c, op, t) ==
    /\ \E r \in IF op = "complete" THEN StartedRuns(t) ELSE {0} :
          Begin(c, [Idle EXCEPT !.pc = "decide", !.op = op, !.task = t, !.run = r])
    /\ spec[t] = "written"
    /\ CanMove(Status(log, t), Target[op])
    /\ UNCHANGED <<log, spec, pending, clock, lastRun, lastReq, crashes, failures, late, abandoned>>

\* The policy lets the call pass, a claim has its run id, the events are stamped.
Decide(c) ==
    /\ calls[c].pc = "decide"
    /\ \E ts \in Now \cup CallerStamps :
          /\ clock' = IF ts \in Now THEN ts ELSE clock
          /\ IF calls[c].op = "claim"
             THEN /\ lastRun' = lastRun + 1
                  /\ calls' = [calls EXCEPT ![c] = [@ EXCEPT !.pc = "append", !.ts = ts, !.run = lastRun + 1]]
             ELSE /\ calls' = [calls EXCEPT ![c] = [@ EXCEPT !.pc = "append", !.ts = ts]]
                  /\ UNCHANGED lastRun
    /\ UNCHANGED <<log, spec, pending, lastReq, begun, crashes, failures, late, abandoned>>

\* on_claim or on_completion denies, or the reason of a block is blank.
Refuse(c) ==
    /\ calls[c].pc = "decide"
    /\ calls[c].op \in {"claim", "complete", "block"}
    /\ Return(c)
    /\ UNCHANGED <<log, spec, pending, clock, lastRun, lastReq, begun, crashes, failures, late, abandoned>>

-----------------------------------------------------------------------------
(* executeTool and resolveApproval *)

\* Mutation of RequestApproval: the request is logged and not kept.
RequestUnrecorded(c, t) ==
    /\ StartedRuns(t) # {}
    /\ lastReq' = lastReq + 1
    /\ \E ts \in Now :
          /\ clock' = ts
          /\ Begin(c, [Idle EXCEPT !.pc = "append", !.op = "tool", !.task = t,
                                   !.req = lastReq + 1, !.ts = ts])
    /\ UNCHANGED <<log, spec, pending, lastRun, crashes, failures, late, abandoned>>

\* The tool host answers APPROVAL_REQUIRED for a task and a run its host has
\* claimed.  Neither the task's spec nor its state is read.
RequestApproval(c, t) ==
    /\ StartedRuns(t) # {}
    /\ lastReq' = lastReq + 1
    /\ pending' = [pending EXCEPT ![Home[c]] = @ \cup {[req |-> lastReq + 1, task |-> t]}]
    /\ \E ts \in Now :
          /\ clock' = ts
          /\ Begin(c, [Idle EXCEPT !.pc = "append", !.op = "tool", !.task = t,
                                   !.req = lastReq + 1, !.ts = ts])
    /\ UNCHANGED <<log, spec, lastRun, crashes, failures, late, abandoned>>

\* Mutation of ResolveApproval: the entry is not deleted before the append.
ResolveAndKeep(c, a) ==
    /\ a \in pending[Home[c]]
    /\ \E i \in DOMAIN log : log[i].kind = "task_waiting" /\ log[i].req = a.req
    /\ \E ts \in Now :
          /\ clock' = ts
          /\ Begin(c, [Idle EXCEPT !.pc = "append", !.op = "resolve", !.task = a.task,
                                   !.req = a.req, !.ts = ts])
    /\ UNCHANGED <<log, spec, pending, lastRun, lastReq, crashes, failures, late, abandoned>>

\* A request id reaches a human with the output of executeTool or with the
\* logged event, so only a logged wait is resolved.  The entry is deleted
\* before the event is appended, and a rejection resumes the task as well.
ResolveApproval(c, a) ==
    /\ a \in pending[Home[c]]
    /\ \E i \in DOMAIN log : log[i].kind = "task_waiting" /\ log[i].req = a.req
    /\ pending' = [pending EXCEPT ![Home[c]] = @ \ {a}]
    /\ \E ts \in Now :
          /\ clock' = ts
          /\ Begin(c, [Idle EXCEPT !.pc = "append", !.op = "resolve", !.task = a.task,
                                   !.req = a.req, !.ts = ts])
    /\ UNCHANGED <<log, spec, lastRun, lastReq, crashes, failures, late, abandoned>>

-----------------------------------------------------------------------------
(* The append that ends each call, and crashes *)

WriteBatch(c) ==
    /\ calls[c].pc = "append"
    /\ log' = log \o Batch(calls[c])

AppendBatch(c) ==
    /\ WriteBatch(c)
    /\ Return(c)
    /\ UNCHANGED <<spec, pending, clock, lastRun, lastReq, begun, crashes, failures, late, abandoned>>

\* Mutation of AppendFails: createTask rethrows without removing the spec.
AppendFailsBare(c) ==
    /\ calls[c].pc = "append"
    /\ Fails
    /\ Return(c)
    /\ UNCHANGED <<log, spec, pending, clock, lastRun, lastReq, begun, crashes, late, abandoned>>

\* The lock's retries run out: nothing is written and the call throws.
\* createTask removes the spec file first.
AppendFails(c) ==
    /\ calls[c].pc = "append"
    /\ Fails
    /\ IF calls[c].op = "create" THEN calls' = [calls EXCEPT ![c] = [@ EXCEPT !.pc = "remove"]] ELSE Return(c)
    /\ UNCHANGED <<log, spec, pending, clock, lastRun, lastReq, begun, crashes, late, abandoned>>

\* The batch is written and appendAll throws all the same: the lock file cannot be
\* removed or the log cannot be read back.  createTask takes that for a failure
\* and removes the spec file of the task it has logged; to the log the other
\* calls look like AppendBatch.
CreateFailsLate(c) ==
    /\ calls[c].op = "create"
    /\ WriteBatch(c)
    /\ Fails
    /\ late' = late + 1
    /\ calls' = [calls EXCEPT ![c] = [@ EXCEPT !.pc = "remove"]]
    /\ UNCHANGED <<spec, pending, clock, lastRun, lastReq, begun, crashes, abandoned>>

\* A process dies with its calls and its approvals; the next runtime in its
\* place starts with none.
Crash(p) ==
    /\ crashes + failures < MaxFaults
    /\ crashes' = crashes + 1
    /\ pending' = [pending EXCEPT ![p] = {}]
    /\ calls' = [c \in Calls |-> IF Home[c] = p THEN Idle ELSE calls[c]]
    /\ abandoned' = abandoned \cup {calls[c].task : c \in {d \in Calls : Home[d] = p /\ calls[d].op = "create"}}
    /\ UNCHANGED <<log, spec, clock, lastRun, lastReq, begun, failures, late>>

-----------------------------------------------------------------------------
Init ==
    /\ log = <<>>
    /\ spec = [t \in Tasks |-> "absent"]
    /\ pending = [p \in Procs |-> {}]
    /\ calls = [c \in Calls |-> Idle]
    /\ clock = 1
    /\ lastRun = 0 /\ lastReq = 0
    /\ begun = 0 /\ crashes = 0 /\ failures = 0 /\ late = 0
    /\ abandoned = {}

CreateStep(c) ==
    \/ \E t \in Tasks : CreateOpen(c, t)
    \/ CreateWrite(c)
    \/ CreateWriteFails(c)
    \/ CreateCloseFails(c)
    \/ CreateRemove(c)
    \/ CreateRemoveFails(c)

GuardedStep(c) ==
    \/ \E t \in Tasks, op \in Guarded : Read(c, op, t)
    \/ Decide(c)
    \/ Refuse(c)

ApprovalStep(c) ==
    \/ \E t \in Tasks : RequestApproval(c, t)
    \/ \E a \in pending[Home[c]] : ResolveApproval(c, a)

Next ==
    \/ \E c \in Calls : CreateStep(c) \/ GuardedStep(c) \/ ApprovalStep(c)
                        \/ AppendBatch(c) \/ AppendFails(c) \/ CreateFailsLate(c)
    \/ \E p \in Procs : Crash(p)

Spec == Init /\ [][Next]_vars
=============================================================================
