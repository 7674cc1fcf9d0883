---------------------------- MODULE KernelSafety -----------------------------
(***************************************************************************)
(* What holds of KernelRuntime however its calls overlap, fail and crash.  *)
(***************************************************************************)
EXTENDS KernelRuntime

Events == [kind : TaskKinds \cup RunKinds, task : Tasks, run : Nat, req : Nat, ts : Nat]

CallStates == [pc   : {"idle", "write", "remove", "decide", "append"},
               op   : Ops \cup {"none"},
               task : Tasks \cup {NoTask},
               run  : Nat, req : Nat, ts : Nat]

\* The type invariant of the runtime's state.
TypeOK ==
    /\ log \in Seq(Events)
    /\ spec \in [Tasks -> {"absent", "partial", "written"}]
    /\ pending \in [Procs -> SUBSET [req : Nat, task : Tasks]]
    /\ calls \in [Calls -> CallStates]
    /\ clock \in Nat /\ lastRun \in Nat /\ lastReq \in Nat
    /\ begun \in Nat /\ crashes \in Nat /\ failures \in Nat /\ late \in Nat
    /\ abandoned \subseteq Tasks

-----------------------------------------------------------------------------
(* Specs and their task_created events *)

Created(t) == {i \in EventsOf(log, t) : log[i].kind = "task_created"}

\* The calls that are creating t.
Creating(t) == {c \in Calls : calls[c].op = "create" /\ calls[c].task = t}

\* A task is created at most once, though two calls may race to create it, a
\* failed create may be retried and its process may die (createTask).  Only an
\* append that fails after it has written breaks this.
CreatedOnce == late = 0 => \A t \in Tasks : \A i, j \in Created(t) : i = j

\* A task whose creation is logged has its spec file: with the same exception,
\* the clean-up of a create that failed never removes the file of one that
\* succeeded (createTask).
CreatedHasSpec == late = 0 => \A t \in Tasks : Created(t) # {} => spec[t] = "written"

\* A spec file without a task_created event and without a call that is still
\* creating the task: no call can create that task any more.
Orphaned(t) == spec[t] # "absent" /\ Created(t) = {} /\ Creating(t) = {}

\* createTask leaves such a file behind only where its process dies in the middle, where the
\* close after the write fails, or where its clean-up fails in its turn: after a failed write
\* or append that it can clear up, the task can be created again.
OnlyAbandonedOrphans == \A t \in Tasks : Orphaned(t) => t \in abandoned

\* As long as no write or append fails, a task with events has its spec file,
\* although a claim may find the file before task_created is logged.
EventsHaveSpec ==
    failures = 0 => \A t \in Tasks : EventsOf(log, t) # {} => spec[t] = "written"

-----------------------------------------------------------------------------
(* Approvals *)

Waits(r) == {i \in DOMAIN log : log[i].kind = "task_waiting" /\ log[i].req = r}

Resumes(r) == {i \in DOMAIN log : log[i].kind = "task_resumed" /\ log[i].req = r}

\* An approval resumes its task at most once, and after the wait it answers,
\* though two calls may resolve it at once (resolveApproval).
ResumedOnce ==
    \A r \in 1..lastReq : \A i \in Resumes(r) :
        /\ Resumes(r) = {i}
        /\ \E j \in Waits(r) : j < i /\ log[j].task = log[i].task

\* While nothing fails or crashes, a logged wait can be answered: its request
\* is pending, or a call is resolving it, or the task was resumed.
WaitIsAnswerable ==
    (crashes = 0 /\ failures = 0) =>
        \A r \in 1..lastReq : Waits(r) # {} =>
            \/ \E p \in Procs : \E a \in pending[p] : a.req = r
            \/ \E c \in Calls : calls[c].op = "resolve" /\ calls[c].req = r
            \/ Resumes(r) # {}

-----------------------------------------------------------------------------
(* done *)

\* t is done and nothing that is under way can touch it.  Without its spec file,
\* which a failed create may take away from a task it lost, t can be created anew.
Settled(t) ==
    /\ Status(log, t) = "done"
    /\ spec[t] # "absent"
    /\ \A c \in Calls : calls[c].task # t
    /\ \A p \in Procs : \A a \in pending[p] : a.task # t

\* Only a tool call that stops for an approval reopens a settled task: every
\* other call reads the task first and is refused.
SettledStep(t) ==
    Settled(t) => \/ Settled(t)'
                  \/ \E c \in Calls : calls[c] = Idle /\ calls'[c].op = "tool" /\ calls'[c].task = t

DoneSettles == [][\A t \in Tasks : SettledStep(t)]_vars
=============================================================================
