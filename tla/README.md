# LumenFlow: TLA+ models, checks and proofs

LumenFlow coordinates agents that work on tasks. It has two halves that share ideas
and little code. Its kernel (`kernel`) keeps tasks as immutable spec files and an
append-only event log, and projects a task's state from that log; several processes
(command line, MCP server, HTTP surface) run a kernel on one workspace, and each answers
many calls at once. A daemon hands tasks out by priority and lane. Its command line
(`cli`, `core`) moves *work units* through their life by commits that each command
pushes to the main branch of a git remote. This directory models the core of both,
model-checks it with TLC and proves its main properties with TLAPS.

Paths below are relative to `src/packages/@lumenflow/`.

## The system

| Component | State it keeps | Operations | Hard behaviour |
| --- | --- | --- | --- |
| State machine and projection (`kernel/src/state-machine`, `projectTaskState`) | none; pure | `assertTransition`, `reduceRunEvent`, `projectTaskState` | sort by timestamp against file order, ties, pages cut at 100 events |
| Kernel runtime (`kernel/src/runtime`) | spec files, pending approvals in memory | `createTask`, `claimTask`, `blockTask`, `unblockTask`, `completeTask`, `executeTool`, `resolveApproval`, `inspectTask` | each call reads, gives way, then appends; two stores (file and log) without a transaction |
| Event store (`kernel/src/event-store`) | `events.jsonl`, `events.lock`, in-memory indexes, subscriptions | `appendAll`, `replay`, `project`, `subscribe` | lock file with retries, stale-lock recovery, removal by path; a drain loop behind a debounce timer |
| Control plane sync (`surfaces/http/control-plane-event-subscriber.ts`) | `pendingEvents` of each subscription | `wrapEventSubscriberWithControlPlaneSync` | events that arrive while a push is under way, pushes that fail |
| Policy engine (`kernel/src/policy`) | none; pure | `evaluate` | order of layers, deny and approval that stick |
| Tool host (`kernel/src/tool-host`) | none of its own | `onStartup`, `execute`, `listGovernedTools` | a trace before and after each call, errors of the trace swallowed |
| Evidence store (`kernel/src/evidence`) | trace segments, lock, indexes, blobs | `appendTrace`, `readTraces`, `pruneTask`, `persistData`, `reconcileOrphanedStarts` | incremental reads, rotation, several writers, orphans |
| Task scheduler (`runtime/src/scheduler`) | queue, active counts | `enqueue`, `dequeue`, `markStarted`, `markCompleted` | lane limits between `dequeue` and `markStarted`, duplicate ids |
| Runtime daemon, sessions (`runtime/src/daemon`, `runtime/src/session`) | socket, pid file, session checkpoints | `start`, `stop`, `createSession`, `checkpoint`, `restore` | two daemons, a crash in a checkpoint |
| Work-unit store (`core/src/wu-state-store.ts`, `core/src/state-machine.ts`) | `wu-events.jsonl` and the units' YAML files on main | claim, block, unblock, release, complete | two representations of one status |
| Micro-worktree publishing (`core/src/micro-worktree*.ts`) | a temporary branch and worktree, main on origin | `withMicroWorktree`, `pushRefspecWithRetry` | a rejected commit is rebased and pushed without new checks; two runs of one operation on one unit share a branch name |
| Lane lock (`core/src/lane-lock.ts`) | a lock file for each lane of a clone | `acquireLaneLock`, `releaseLaneLock` | created, then written; removed by age or by path |
| Work-unit commands (`cli/src/wu-*.ts`), agent sessions (`agent/src`) | lane branches, worktrees, a session file for each clone | `wu:claim`, `wu:block`, `wu:unblock`, `wu:release`, `wu:done` | a claim of many steps with a rollback that is itself a push; ownership checked on a copy of main that lags |
| Memory and signals (`memory/src`) | JSONL files | create, checkpoint, signal, clean up | appends against rewrites |
| Surfaces, MCP server, packs, sandbox, SDK, metrics, agents, initiatives | none that matters here | calls into the above | not modelled, see `PROJECT.json` |

How they interact. A surface calls the runtime and awaits it; other calls run in
between. The runtime reads a spec file, replays the log, asks the policy engine,
and appends one batch to the event store. The event store serializes the appends
of all processes with `events.lock`. `executeTool` goes through the tool host,
which writes traces to the evidence store; an answer `APPROVAL_REQUIRED` makes the
runtime remember the request and log `task_waiting`, and `resolveApproval` logs
`task_resumed`. `completeTask` prunes the evidence index after its append. The HTTP
surface subscribes to the event store, and what it is told it forwards to a control
plane. On the other side every command fetches main, checks, edits in a temporary
worktree, commits and pushes; a claim holds its clone's lane lock around that, opens an
agent session, and makes a worktree and a lane branch afterwards. Block, unblock and
release first check on the clone's own copy of main that the session may do it.

What makes each correct:

- projection: it is the function of the log that the fold defines, whatever the
  order of stamps, and a caller who pages gets every event;
- runtime: a task is created once, its log and its spec file agree, its status
  moves along the table, an approval resumes its task once, done stays done;
- event store: appends exclude each other, a batch is written whole and once, an
  append that returns is in the log and one that was refused is not, dead locks are
  recovered, every append ends; a subscriber is told of every event once and in order;
- control plane sync: every event that was told is forwarded, in order, whatever fails;
- policy engine: the answer depends on the statements as documented, a rule's denial
  cannot be talked away, and a tool call does what the answer says;
- evidence store and tool host: no trace is lost, a call's own traces are shown, and
  start-up finishes the calls a crash has left, and no finished one;
- scheduler: order within a lane, lane limits, counts that match, every task comes out;
- work units: a unit's YAML and the log on main say the same, the log moves along the
  table, a unit is claimed by one agent at a time, a failed claim leaves nothing, one
  claim runs in a lane.

`PROJECT.json` lists the hazards found in the survey, each at its line, with the
properties that cover it or the reason why none does.

## Modules

| Module | Models |
| --- | --- |
| `TaskProjection` | transition table, event kinds, `replay`'s page and cursor, status, current run and run count of a task |
| `ProjectionCheck` | the loop of `projectTaskState`, event by event, and a caller that pages while the log grows |
| `KernelRuntime` | the runtime's calls in several processes, the spec files, the log, approvals, crashes and failures |
| `KernelSafety` | what holds of `KernelRuntime` however calls overlap |
| `KernelSerial` | `KernelRuntime` under a host that makes one call at a time |
| `TaskLifecycle` | abstract: a task's status that moves along the table |
| `EventStoreLock` | `withFileLock`, its retries and `recoverStaleLockIfNeeded`, around the append |
| `AppendOnlyLog` | abstract: what `appendAll` promises |
| `EventSubscription` | `subscribe`: watcher, debounce timer, drain loop, lines cut by a read |
| `ControlPlaneSync` | composes `EventSubscription` with the queue and the cycles that push to the control plane |
| `TaskScheduler` | the queue, lane limits and active counts of the daemon's scheduler |
| `PolicyEngine` | `evaluate` statement by statement, its closed form, and what a tool call makes of the answer |
| `EvidenceStore` | trace files, their lock and rotation, each process's index |
| `ToolHost` | composes `EvidenceStore` with start-ups, tool calls, reads of receipts, crashes |
| `WULifecycle` | abstract: a unit's status that moves along the table |
| `MicroWorktree` | a command's change to main: temporary branch, fetch, check, commit, push, rebase |
| `WorkUnits` | composes `MicroWorktree` with the lane lock, the branches, the sessions and the five commands |
| `MCKernel`, `MCKernelSerial`, `MCEventStoreLock`, `MCTaskScheduler`, `MCToolHost`, `MCWorkUnits` | instances for TLC |
| `Projection_proofs`, `Kernel_proofs`, `EventStoreLock_proofs`, `TaskScheduler_proofs`, `PolicyEngine_proofs`, `ToolHost_proofs`, `WorkUnits_proofs`, `ControlPlaneSync_proofs` | theorems and proofs |

### TaskProjection and ProjectionCheck

A log is the sequence of task events in file order. `Page` is what one `replay`
returns: the first `ReplayLimit` events of the task in file order, and only then
does the projection sort them. Every task event sets the status absolutely, so the
status is what the last event of the sorted page says; `Status`, `CurrentRun` and
`RunStatus` are written in that closed form, which needs no recursion and can be
proved about. `ProjectionCheck` has the loop itself: `Turn` takes the next event of the
sorted page and `Reduce` is its body; when nothing is left to take, the closed forms must
say what it computed. The same module has a caller that follows `nextCursor` until it is
null (`BeginWalk`, `NextPage`, the loop of `pagination.test.ts`), with appends between its
pages. The loop has no await, so no append comes between its turns.

Left out: the fields of a state and a run that no transition reads (who claimed,
reasons, times), and the time filters of `replay`.

### KernelRuntime

| State | Code |
| --- | --- |
| `log` | `events/events.jsonl`, the events with a task id |
| `spec[t]` | `tasks/<t>.yaml`: absent, created but not written, written |
| `pending[p]` | `pendingApprovals` of process p |
| `calls[c]` | a call in flight: where it is, and what it will append |
| `clock`, `lastRun`, `lastReq` | the wall clock and the ids given out |

A call is cut into the steps between which other calls can change what it
depends on:

- `createTask`: `CreateOpen` (`open` with `wx`), `CreateWrite`, then the append. A
  failed write or append goes through `CreateRemove`, which may fail in its turn
  (`CreateRemoveFails`: the close or the `rm`); the close after a good write is outside
  the code's `try`, and a failure of it cleans up nothing (`CreateCloseFails`).
  `CreateFailsLate` is an append that throws after it has written. `abandoned` is
  history: the tasks whose creation ended with one of these or with its process.
- `claimTask`, `blockTask`, `unblockTask`, `completeTask`: `Read` (spec file, log,
  `assertTransition`), `Decide` (policy passes, run id, timestamp) or `Refuse`, then
  the append. The reads of the spec file and of the log are one step, at the time of
  the log's: what a call does depends on the log it saw.
- `executeTool` with `APPROVAL_REQUIRED`: `RequestApproval`, then the append of
  `task_waiting`. The outcomes that write no task event change nothing here.
- `resolveApproval`: `ResolveApproval` deletes the entry, then the append of
  `task_resumed`, for rejections as well.

The append is one step, which `EventStoreLock` justifies: a batch reaches the file
in one write. `Crash(p)` drops a process's calls and its approvals. The inputs are
those a host can have: it names a run the log has started and answers a request it
has seen.

### KernelSerial

Nothing in the kernel stops two claims of one task or an approval answered late, so
the life cycle cannot be promised for every host. `SerialSpec` names what a host must
keep: one call at a time, no timestamps of its own, approvals asked for an active
task and answered while it waits. Under it the log implements `TaskLifecycle`, with
the mapping `status <- [t |-> Status(log, t)]`, as long as no task has more events
than a page.

### EventStoreLock

`lock` is the file: who created it, and the pid in it, which is written in a second
step. `calls[c]` walks through the loop of `withFileLock`: open, stamp, write,
release; or, with the file taken, inspect, remove, open again. `Remove` and `Release`
remove whatever file is at the path. `StampOrWriteFails`, `CleanupFails` and
`RecoverFails` are file operations that throw. `foundDead` is history: which lock of a
dead process a call found when it began.

Pids are not reused. A batch is its append's number.

### EventSubscription and ControlPlaneSync

| State | Code |
| --- | --- |
| `size`, `watch` | `events.jsonl`, and a change of it the watcher has not reported |
| `timer`, `again` | `drainTimer`, `shouldDrainAgain` |
| `drain`, `passes`, `text`, `chunk` | where `drain` is (`isDraining` unless `"rest"`), and what is left of the last read |
| `measured`, `offset`, `partial` | `initializedOffset`, `offset`, `trailingPartialLine` |
| `cycle`, `pending`, `batch` | `runSyncCycle` (`inFlight` unless `"none"`), `pendingEvents`, `batch` |
| `accepted` | what the control plane has taken |

The file is measured in half lines: a write may be seen in part, and the size that is
asked for when the subscription is made may lie inside a line. `Notify` is
`scheduleDrain`, `Fire` the timer (nothing, while a drain is under way), `Begin`,
`ReadTail`, `Tell`, `PassAgain` and `Rest` the loop. A cycle is `Tick`,
`PoliciesAllow`, `Heartbeat` (with the `splice`) and `Push`; `PushUnanswered` is a push
that arrived and whose answer did not. `stopped` is history: the loop came to rest with
`shouldDrainAgain` set and no timer.

Left out: the filter, truncation (nothing truncates the log), the warnings that a failed
cycle gives the subscriber.

### TaskScheduler

The variables are the class's fields; `activeByTask` and `dequeuedByTask` keep the
lane, which is all the methods read of a task. The array's order is that of the
sequence numbers, so the queue is a set. `enqueue`, `dequeue`, `markStarted` and
`markCompleted` are an action each, and the host may call them in any order. `peak`,
`restarted` and `outUpTo` are history: how many tasks were handed out at once before
their start, whether one was started twice, and what has left each lane.

### PolicyEngine

The variables are those of the loop; `said` is the input so far, chosen step by step:
layers' openings (default decision and `allow_loosening`) and the rules that matched.
Whether a rule's trigger and condition match is left to the choice. `HookDecisions` is
`toPolicyHookDecisions` and `Access` is `evaluateAccess`, which looks at the decisions
one by one. Warnings are left out.

`ClosedForm` is what the pass comes to, as a function of the whole of the statements: the
code's answer, not the documents'. It names what takes an inherited deny away. `HasLeave` is
what the documents allow: `allow_loosening`, or the first layer's default.
`PassesWithoutLeave` is what the code lets through besides: a default of `approval_required`.
`AllowNeedsLeave` is the documents' promise, and the run `policy_loosening` shows that the
code breaks it. The kernel itself builds its workspace layer with `allow_loosening` and no
default but `allow`; a layer with a default of `approval_required` is one that a user of
`PolicyEngine` can write.

### EvidenceStore and ToolHost

| State | Code |
| --- | --- |
| `segs`, `active`, `lock` | the numbered trace files, the active one, the lock file |
| `store[p]` | `tracesByReceipt`, the receipts with a task, their buckets, `lastReadByteOffset`, the count of segments read |
| `reads[p]`, `writes[w]` | a read and the appends under way |
| `proc`, `orphans`, `calls` | a process's life, what its start-up has yet to finish, where each tool call is |

An append is `Write` (create the lock, write the line), `Rotate`, `Unlock` (release and
index), `Return` (the cursor jumps to the file's size); `GiveUp` and `WriteFails` are its
errors. A read lists the segments, then reads what is new of the active file. `Start`,
`FindOrphans`, `Reconcile`, `Reconciled`, `Up` are `onStartup`; `Execute`, the append,
`Decide`, the append are `execute`, whose traces are given up when they fail.

A trace is its receipt and its kind, and the active file is measured in lines. One read
at a time is under way in a process, which is what `hydrateIndexesIfNeeded` is called
with in the kernel.

### MicroWorktree and WorkUnits

| State | Code |
| --- | --- |
| `log`, `yaml` | `wu-events.jsonl` and the units' YAML files on origin's main |
| `past` | the YAML files as each commit of main left them |
| `proc[a]` | the command an agent runs: the base and the content of its commit, its attempts |
| `temp[b]` | whose worktree is on a temporary branch: clone, operation and unit name it |
| `lock[c]` | the lane lock file of a clone: created, written, old |
| `local[c]`, `remote` | lane branches in a clone and on origin |
| `main[c]` | the last commit that the clone's own main is known to have had |
| `session[c]`, `under[i]` | the session file of a clone, and `session_id` in what a claim writes |

`withMicroWorktree` is `Sweep` (what is on the temporary branch is removed, whoever
made it), `Execute` (fetch, check, edit), `BranchOff` (which fails while the branch is
there), then `pushRefspecWithRetry` as `Push`, `PushFails` and `Rebase`, and its clean-up in
`finally`, which is part of the last step. Two runs of one operation on one unit in one clone
share the branch: `HasWorktree` says that a run still has its worktree, without which it
neither rebases nor pushes. git is modelled from how it is used: a rebase merges the YAML
field by field, a field changed on both sides to different values is a conflict, and the
log is merged by union as `.gitattributes` says, so the commit's event comes last. Ids
stand for the moments at which commands ran; two notes of one kind, which carry a date
and a reason, are the same text. `moot` is history: the units that a commit reached at its
third attempt or later without changing their status.

A claim takes the lane lock (`Open`, `Write`; `OpenExists` and then `LookShared` for a lock
of the same unit, `LookStale` and `Clear` for one that cannot be read, is gone by the
time it is read, or is old and dead), checks the branches, opens a session or goes on in
the one that is open, publishes, makes the worktree and pushes the branch; whatever fails after
it has published goes through the rollback, a change to main like any other. `Unlock` reads
the lock and `Unlink` removes what is there by then. Block, unblock and release are
`StartEdit` with the same publishing: `MayEdit` is their check of the status and `Owns` that
of the session, both on the clone's copy of main, which is any commit since the last one read
from it; `OverrideOwner` is `--override-owner` with its reason. Done is a commit on the lane
branch that is rebased onto main; at its end it closes the clone's session. A unit is in
worktree mode, with a remote, the lane's lock policy is `all`, and all agents are one user. Of
the commands that are refused before anything is changed only claims are modelled.

## Runs

| Run | Instance | What it shows |
| --- | --- | --- |
| `projection` | logs of up to 3 events, 3 timestamps, 2 runs, a replay of 2, pages of 1 and 2 | the loop ends in what the closed forms say; paging a growing log returns each event once when its stamps never decrease and no page splits one |
| `kernel_safety` | 1 task, 2 call slots in one process, 5 calls, 2 faults, one caller timestamp | creation, approvals and done under overlapping calls |
| `kernel_serial` | 2 tasks, 5 calls, 1 fault | the refinement of `TaskLifecycle`, and that a call's effect is seen |
| `event_lock` | 3 processes, 4 appends, 1 retry, 1 death, 1 failed operation | exclusion, recovery, the promise of `appendAll`, termination |
| `subscription` | 5 half lines, 2 passes, 2 failed requests | events are told and forwarded once and in order, and none is forgotten |
| `scheduler` | 2 tasks, 2 lanes with limits 1 and none, 2 priorities, 4 enqueues | counts, limits and order under any host; each task comes out |
| `evidence` | 2 processes, 2 calls of one of them, rotation after 2 lines, 2 start-ups, 1 read, 1 fault | traces are kept and shown, reads catch up, start-up settles what a crash left |
| `policy` | up to 4 layers and 5 statements | the pass gives the answer of its closed form, a rule's denial is final, calls follow it |
| `work_units` | 2 agents in 1 clone and 1 in another, 2 units, 4 commands and faults, 2 commands at a time, 3 attempts to push | main's files agree and follow the table, claims exclude each other, failed claims leave nothing |
| `kernel_done_terminal` | 1 task, 1 call at a time | finding |
| `event_lock_stale` | 2 processes, 1 death | finding |
| `policy_loosening` | as `policy` | finding |

Why the bounds are enough to be of use: two overlapping calls are what each race
needs, and five calls suffice for create, claim, a wait, its answer and a
completion; two faults in any places meet every clean-up and a failure of it. In the lock two waiters and a dead
owner are what loses exclusion, and one retry gives the shortest loop that inspects,
removes and gives up. Four enqueues of two tasks give two of one lane at once, and the
same task twice. The kernel run has one process, so a crash there leaves no other call
behind; the proofs are for any number of processes. `ReplayLimit` is out of reach in the kernel runs, which is why
`WithinPage` holds in them; `projection` has pages that are cut short, stamps out of order and
a caller that needs two or three pages (with four events, 18.6 million states, it passes as
well, in three minutes), and the theorem `FullPageFreezes` covers the rest. Five half lines are two events and the part of a third, so a
read may end, and the subscription begin, inside a line; two passes are the least that
a loop can be asked to exceed. Rotation after two lines makes every read run into one;
one process that only reconciles and one that serves calls are the two kinds of writer.
The policy's counterexamples to any weaker closed form need three statements.

`work_units` has the code's default of three attempts to push (`push_retry.retries`), so a
command rebases up to twice. Commands and faults are four together (`MaxEvents`), and two
commands run at once (`MaxRunning`), as every race here is one of two. A claim, another command
that moves main or wants the lane, one more, and a fault are what a lock, its publishing and
its rollback need. Two runs of one operation on one unit in one clone, and the same from two
clones, are both within them.

The call slots of `MCKernel` and the agents and units of `MCWorkUnits` are
interchangeable and the properties of those runs do not tell them apart, so they use
symmetry, as do the calls of `MCToolHost`; no liveness property is checked under it.
Deadlock is not checked: a bounded model stops when its calls are used up.

Each property has a mutation: an operator written before the definition it would
replace and marked *Mutation of*, which changes the code's behaviour as a plausible bug
would and breaks the property. They are used by nothing else.

### Fairness

None in the kernel's calls, the evidence store and the work units: their properties are
safety. `EventStoreLock!FairSpec` assumes weak
fairness of `Advance(c)` for each append: its file operations complete and the event
loop of a live process resumes it. That is all the code relies on. Nothing is assumed
of crashes, failures or new appends, and no fairness that a waiter finds the lock
free: `EveryAppendEnds` holds because retries are bounded, and a refusal is an end.

`ControlPlaneSync!FairSpec` assumes that the watcher reports a change, timers and
intervals fire, and reads, callbacks and requests come to an end. Nothing is assumed of
writers, of `Dispose` and of the requests that fail, of which there are finitely many
(`MaxTroubles`): a control plane that never answers gets nothing.

`TaskScheduler!FairSpec` is an assumption on the host, since no code of the repository
but tests starts and completes tasks: it keeps asking while a task can be handed out,
and completes what it starts. `EveryTaskIsHandedOut` speaks of a queue that is no longer
added to (`MaxEnqueued`): with endless tasks of a higher priority a lower one starves.

## Findings

- **done is not terminal, in the kernel** (`kernel-runtime.ts:1871`). `resolveApproval` and
  `executeTool` append without reading the state.
- **An unstamped dead lock is never recovered** (`event-store/index.ts:588`).
- **approval_required loosens without leave** (`policy-engine.ts:123`). A default of
  `approval_required` replaces an inherited deny in a layer without `allow_loosening`, and the
  next layer may then allow without it too; `policy-engine.mdx:49` says that later layers "can
  only tighten (deny), not loosen, unless explicitly granted `allow_loosening`", `policy-engine.ts:53`
  calls that the opt-in to relax inherited denies, and `:151` says that `approval_required`
  "overrides allow but not deny". A rule of `approval_required` decides over an inherited default
  of deny as well (`ClosedForm`). As long as nothing wants approval the promise holds, for any
  number of layers: `LooseningNeedsLeave`.

More the models show, which contradict no text of the repository or only a loose one:

- kernel: a page of `replay` that ends between the two events of a claim makes a caller
  that pages skip the second (`PagingRetrievesAll` says where it does not); a crash
  between spec file and event, a failed close after the write and a clean-up that fails leave a
  file that blocks the task's creation (`OnlyAbandonedOrphans` says that nothing else does); claims and
  unblocks are accepted from every state that the table lets reach active; an append
  that fails after it wrote makes `createTask` remove a logged task's spec file (the
  properties carry `late = 0`); after a death the removal of a stale lock by path can
  remove a fresh one, so that two appends overlap (`ExclusionUntilCrash` says *until*),
  which the log survives, as each append is one write (`ImplementsAppend`);
- subscription: an event is not told as long as the file does not change again when the
  timer fires during a drain that then stops, after its eighth pass or an empty read; the
  initial offset is measured after `subscribe` returns, and what is appended before that is
  not told; what a disposed subscription has queued is never forwarded; a lost answer
  doubles a batch;
- scheduler: a lane exceeds its limit by the hand-outs that have not started, and a task
  that is started twice leaves its lane's count too high for good (`CountsMatch` carries
  `~restarted`);
- evidence: start-up takes live calls of other processes for crashed ones; the traces
  lock has no owner, so a death while it is held costs all later traces;
- work units: a lane lock that is created and not yet written counts as invalid and is
  removed, one that is gone when it is read is removed too when another is there by then, an old
  one is removed by its age alone, and a release removes whatever is there after its
  check, so two claims may run in a lane (`LaneExclusive` carries `spoiled`); two runs of one
  operation on one unit in one clone take each other's worktree away; a commit whose status
  main already has, after its first rebase, loses its change to the YAML in its second and keeps
  its event, which may come after a completion and make main's log say in_progress where the
  YAML says done (`FilesAgree` and `FollowsTable` carry `moot`; it takes unblocks of one unit
  from two clones, so an overridden owner or a claim whose session could not be started); the branch of a released or rolled-back claim
  blocks the next claim until it is deleted; a claim whose push was taken and never
  answered ends without a rollback.

## What is proved

All theorems hold for every number of tasks, processes, calls, agents, units and faults.
They assume the named ASSUMEs: `ReplayLimitAssumption`, `KernelAssumption`,
`LockAssumption`, `SubscriptionAssumption`, `SyncAssumption`, `SchedulerAssumption`,
`PolicyAssumption`, `EvidenceAssumption`, `BoundsAssumption`, `AttemptsAssumption`,
`HomeAssumption`, `ProjectionAssumption`, which only give the constants their types, and require one retry or
attempt, a rotation after at least one line, and finitely many tasks.

Each component's type invariant is proved; the runs check those of the kernel, the
subscription and the work units, the others only by proof.

The inductive invariants of the projection, the evidence and the work units were checked by
TLC as invariants of their runs' instances before they were proved.

**Projection** (`Projection_proofs`). `LoopInv`: what is applied of the page comes before
what is left, and the loop's state is what the closed forms say of what is applied. A turn
adds an event that comes no earlier than any of those, so it is the latest of its sort
and of its run; with nothing left the page is what was applied (`LoopIsClosedForm`). It
carries every theorem about `Status` over to the code's loop. `WalkInv`: where stamps never
decrease, what the caller got lies up to its cursor, the cursor is the stamp of
something it got, and unless a stamp was split it has everything up to the cursor. An
event appended between two pages has a stamp no earlier than the cursor; if it has the
cursor's own, that stamp is split (`BehindCursor`). `WalkGetsEachOnce` follows at the last
page.

**Creation** (`Kernel_proofs`). `TypeCorrect` first. `CreatedOnce` and
`CreatedHasSpec` need a strengthening: a call that is between `wx` and its append is
the only one for its task, the file exists and the event does not. From it follow
`OneCreation`, `CreationHasSpec` and `OrphansAreAbandoned`: an orphan that nobody abandoned
would still have its call. `EventsNeedSpec` adds that
calls past `Read` have a spec file. `DoneStaysSettled` is an action property: from a
settled task every guarded call is refused, because the projection still says done.

**Approvals** (`Kernel_proofs`). The invariant tracks where a request is: in a
tool call about to log the wait, pending in one process, in one call about to resume, or
resumed. `ApprovalResumesOnce` and `WaitsAreAnswerable` follow.

**Life cycle** (`Kernel_proofs`). The invariant: one call is in flight, the
clock is not behind the log, the log is sorted by time, and a call about to append saw
the status that still holds. Then the appended event is the latest, so the new status is
the one it sets (`SerialEffects`), which the table allows (`SerialImplements`), and the
statuses refine `TaskLifecycle` (`SerialRefines`). `Kernel_proofs` begins with the
lemmas about pages and latest positions, and `FullPageFreezes`: a task with a full page
never changes its projection again.

**Lock** (`EventStoreLock_proofs`). `LockExcludes` from: while all live, the lock at the
path is that of every holder and nobody is about to remove one. `LockImplements` from:
a batch is logged exactly from its write on and never in an append that was refused.
`DeadLocksAreRecovered` from: the lock a call found dead stays its owner's, nobody in
flight has it, and the call spends no attempt while it is there.

**Subscription** (`ControlPlaneSync_proofs`). What was told and read is the run of events
up to the offset; it goes on without a gap because the half line that is kept is there
exactly when the offset lies inside a line that was begun after the start (`LoopInv`,
`LinesGoOn`): `EventsToldOnce`. Nothing is lost between queue and push, as a batch is
empty outside its push: `EventsForwardedOnce`. For `EventsForwardedInOrder`, a told event
is later than all before it, and a batch that is sent twice repeats right behind itself,
so that nothing new comes before what was due (`InOrderTwice`).

**Scheduler** (`TaskScheduler_proofs`). Limits are not inductive by themselves: the
invariant (`Reserved`) counts a lane's hand-outs with its active tasks, since all of
them left the queue while the active ones were below the limit. Order needs that no
entry has a number that is still to be given out. `CountsAreRight`,
`OverrunIsBounded` and `OrderIsKept` follow.

**Policy** (`PolicyEngine_proofs`). The invariant says of the flags that they are the
existence of a rule with that effect, and of `effectiveDecision`, as long as no rule denies
or wants approval, that it is what the closed form says of the statements so far.
`PassIsClosedForm`, `DenyIsFinal` and `CallsGetTheVerdict` follow at `Conclude`.
`LooseningNeedsLeave` follows from the closed form: what lifts the last deny lies behind it, and
without a statement that wants approval it has leave.

**Evidence** (`ToolHost_proofs`). `NoTraceIsLost` needs that the lock is exclusive: who
writes, rotates or unlocks is the one who created the lock file, and the segment number
it has worked out is still the next one, as no other append can have rotated since. On top
of it `HostEvidence` proves an invariant with three arguments in it. `Covered`: a process that
has appended nothing has indexed the segments it counts, and of the active file what is
before its cursor; a read only adds to that, and `QuietReadsCatchUp` is this at its end.
`Reconciling`: what a start-up holds for an orphan is a call whose finish it did not see, and
every start it saw has a finish on disk, is an orphan, or is about to be given one. So nothing
is owed when no orphan is left (`UpMeansReconciled`), and no finish is made up for a call
that had one (`NoFinishedCallReconciled`); a rotation that runs into the read is the exception
both properties name. `Shown`: a start that is on disk is in the index of the process that
serves the call, or its append still has the lock, and then nobody can have found the
call unfinished and written a finish for it (`ServedCallsAreShown`).

**Work units** (`WorkUnits_proofs`). The invariant ties a clone's lock to the one command
that is in its lane: unless the clone is spoiled, who is past `Open` and before `Unlock`
has its id in the lock file. Ids of running commands differ. `OneClaimPerLane` follows.

For what is on main the second invariant is `ClaimInv`. `Based`: a commit that can land has
main as its base. `Change`: what each kind of commit does to the claim its base names. `BaseInv`
and `FreshInv`: the id of a claim that has not landed, or is still to come, is in no YAML and in the
base of no other claim, so no rebase can carry it to main; after a refusal or a rollback
only the lock is left to release (`VoidInv`), which gives `FailedClaimsLeaveNothing`.
`FreeUnit`: as long as main names the claim a commit of `wu:claim` is based on, the unit is free; a
rebase over another claim changes that field on both sides and is a conflict. So the
unit is free when a claim lands (`UnitsClaimedInTurn`). Neither needs a bound on the attempts
to push: they hold of the code's three as of any other number.

For the two files of main and the table the third invariant is `LifeInv`, and its
theorems hold for any number of attempts too, the code's three included. Up to `moot`: the YAML and
the log of main give a unit the same status, and it has a `completedAt` just when it is done
(`AgreeInv`, and `BranchesStamped` for the copies on lane branches); a commit in flight sets the
status its kind stands for, which the table allows from the status of its base (`LegalInv`); and a
`completedAt` on main is that of a command that has started (`FinishedByStarted`), so that two
`wu:done` of a unit differ in it and conflict. A rebase merges field by field: main then has the
status of the old base, and nothing has changed, or already the one the commit sets. A commit of
the latter sort has its own status for its base. If it lands with that rebase as its only one it is
an event that changes nothing. If it is rebased again it takes over whatever status main has by
then and still adds its event: that is a third attempt with nothing to change, which `moot`
names. From it follow `FilesKeepTogether` and `UnitsFollowTable`, step by step: what is done in
main's log stays done, and what moves moves along the table.

## Only model-checked

Liveness, which is out of the prover's reach: `EveryAppendEnds`, `EveryEventIsTold`,
`EveryEventIsForwarded`, `EveryTaskIsHandedOut`.

## Plan

1. Projection, runtime, life cycle: done.
2. Event store's lock: done; its subscription and the control plane sync: done.
3. `TaskScheduler`: done; then the daemon's start and stop, and sessions.
4. `EvidenceStore` with `ToolHost`: done.
5. `PolicyEngine`: done.
6. Work units, lane lock, publishing: done in worktree mode; then the other modes.
7. Torn appends and the readers that meet them; the event store's in-memory indexes.
8. Memory and signals.

## Not modelled

Of the kernel: workspace tampering checks, pack loading, configuration, the content of
specs and policies, the sandbox, network surfaces, progress traces, `persistData`,
`onShutdown` (nothing calls it), the indexes behind `getByTask`, `getByKind` and
`getByTimestamp` (only tests call them). `intersectToolScopes` compares glob strings
with heuristics that lean on a library's matcher: a faithful model would be that matcher.

Of the work units: branch-only, branch-pr and cloud modes, `--force` and `--no-push`,
`wu:recover`'s reset, which writes no event, the generated `backlog.md` and `status.md`
beyond the conflicts they cause, WIP limits, the sort by timestamp in `wu:done`'s own
merge of the log, checkpoints and delegations of the store, a clean-up of a micro-worktree
that fails, users other than one, sessions that are opened or closed by hand. The merge lock only spares `wu:done` retries (its push is what decides) and
completions overlap in the model as if it were not there; no code takes the lock of
`wu-lock-manager.ts`. Liveness of the tool host and of work units: their state graphs
are too large for it, and it needs a model without symmetry.

Torn writes (a full disk), reused pids, characters that a read cuts and an `appendTrace` that
fails after its line is written, in the rotation or the release, are not modelled so far. The
event store's in-memory indexes may hold a batch twice when a replay reloads them between its
write and its application, until the next reload (`event-store/index.ts:329`). All else is listed in `PROJECT.json` as `not_modelled` with its reason.
