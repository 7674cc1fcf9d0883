------------------------------- MODULE ToolHost -------------------------------
(***************************************************************************)
(* ToolHost over the evidence store: a process that starts first finishes  *)
(* the calls it finds unfinished, then serves tool calls, each of which    *)
(* leaves a trace before it is decided and one when it is over.            *)
(*                                                                         *)
(* Whether a call is denied, refused for its input or dispatched makes no  *)
(* difference to its traces and is one step.  A trace that cannot be       *)
(* written is given up, the call goes on.                                  *)
(***************************************************************************)
EXTENDS EvidenceStore

CONSTANTS MaxStarts,    \* bound: start-ups
          MaxAsks,      \* bound: reads after start-up
          MaxFaults     \* bound: crashes, and failures of the file system

ASSUME BoundsAssumption == MaxStarts \in Nat /\ MaxAsks \in Nat /\ MaxFaults \in Nat

VARIABLES
    proc,       \* the processes: down, starting or up
    orphans,    \* the unfinished calls a start-up has found and has yet to finish
    calls,      \* where each call is
    used,       \* how many start-ups, reads and faults there have been
    seen,       \* history: what was on disk when the read of a process began
    quiet,      \* history: processes that have appended nothing since they started
    acked,      \* history: traces of calls, of processes that still run, whose append returned
    pruned      \* history: calls that pruneTask has dropped from their process's indexes

hostVars == <<proc, orphans, calls, used, seen, quiet, acked, pruned>>

vars == <<evidenceVars, hostVars>>

Nothing == [lines |-> {}, segs |-> 0]

OnDisk == [lines |-> Lines, segs |-> Len(segs)]

\* A rotation has run into the read that began with seen[p].
RotatedMeanwhile(p) == Len(segs) # seen[p].segs

CallAt(c, pc) == calls[c] = pc

CallGoto(c, pc) == calls' = [calls EXCEPT ![c] = pc]

-----------------------------------------------------------------------------
(* onStartup: reconcileOrphanedStarts *)

Start(p) ==
    /\ proc[p] = "down" /\ used.starts < MaxStarts
    /\ used' = [used EXCEPT !.starts = @ + 1]
    /\ proc' = [proc EXCEPT ![p] = "starting"]
    /\ FirstRead(p)
    /\ seen' = [seen EXCEPT ![p] = OnDisk]
    /\ quiet' = quiet \cup {p}
    /\ UNCHANGED <<segs, active, lock, store, writes, orphans, calls, acked, pruned>>

\* Mutation of FindOrphans: a finish is not looked for.
FindStarted(p) ==
    /\ proc[p] = "starting"
    /\ NoTraces(p) \/ Whole(p)
    /\ orphans' = [orphans EXCEPT ![p] = {c \in Calls : Started(c) \in store'[p].index}]
    /\ seen' = [seen EXCEPT ![p] = IF RotatedMeanwhile(p) THEN Nothing ELSE @]
    /\ UNCHANGED <<proc, calls, used, quiet, acked, pruned>>

\* The started calls without a finish, whether their process has died or not.
FindOrphans(p) ==
    /\ proc[p] = "starting"
    /\ NoTraces(p) \/ Whole(p)
    /\ orphans' = [orphans EXCEPT ![p] =
                     {c \in Calls : /\ Started(c) \in store'[p].index
                                    /\ Finished(c) \notin store'[p].index}]
    /\ seen' = [seen EXCEPT ![p] = IF RotatedMeanwhile(p) THEN Nothing ELSE @]
    /\ UNCHANGED <<proc, calls, used, quiet, acked, pruned>>

Reconcile(p) ==
    /\ proc[p] = "starting"
    /\ \E c \in orphans[p] :
          /\ AppendTrace(p, Finished(c))
          /\ orphans' = [orphans EXCEPT ![p] = @ \ {c}]
    /\ quiet' = quiet \ {p}
    /\ UNCHANGED <<segs, active, lock, store, reads, proc, calls, used, seen, acked, pruned>>

\* Mutation of Reconciled: one made-up finish ends the start-up.
ReconciledOne(p) ==
    /\ proc[p] = "starting" /\ Return(p)
    /\ orphans' = [orphans EXCEPT ![p] = {}]
    /\ UNCHANGED <<proc, calls, used, seen, quiet, acked, pruned>>

Reconciled(p) ==
    /\ proc[p] = "starting" /\ Return(p)
    /\ UNCHANGED hostVars

Up(p) ==
    /\ proc[p] = "starting" /\ ReadAt(p, "none") /\ WriteAt(p, "none") /\ orphans[p] = {}
    /\ proc' = [proc EXCEPT ![p] = "up"]
    /\ UNCHANGED <<evidenceVars, orphans, calls, used, seen, quiet, acked, pruned>>

\* The process ends, and with it its calls.
Stop(p) ==
    /\ proc' = [proc EXCEPT ![p] = "down"]
    /\ Forget(p)
    /\ orphans' = [orphans EXCEPT ![p] = {}]
    /\ calls' = [c \in Calls |-> IF Home[c] = p /\ calls[c] # "idle" THEN "lost" ELSE calls[c]]
    /\ seen' = [seen EXCEPT ![p] = Nothing]
    /\ quiet' = quiet \ {p}
    /\ acked' = {t \in acked : Home[t.call] # p}
    /\ UNCHANGED pruned

\* An append of the start-up gives up, and with it the initialization.
StartFails(p) ==
    /\ proc[p] = "starting" /\ WriteAt(p, "lock") /\ lock # NoOne
    /\ Stop(p)
    /\ UNCHANGED used

StartStep(p) ==
    FindOrphans(p) \/ Reconcile(p) \/ Reconciled(p) \/ Up(p) \/ StartFails(p)

\* A crash; also a start-up whose read or write fails.
Crash(p) ==
    /\ proc[p] # "down" /\ used.faults < MaxFaults
    /\ used' = [used EXCEPT !.faults = @ + 1]
    /\ Stop(p)

-----------------------------------------------------------------------------
(* execute *)

Execute(c) ==
    /\ proc[Home[c]] = "up" /\ CallAt(c, "idle")
    /\ AppendTrace(c, Started(c))
    /\ CallGoto(c, "start")
    /\ quiet' = quiet \ {Home[c]}
    /\ UNCHANGED <<segs, active, lock, store, reads, proc, orphans, used, seen, acked, pruned>>

AfterAppend(c) == CallGoto(c, IF CallAt(c, "start") THEN "decide" ELSE "returned")

Recorded(c) ==
    /\ Return(c)
    /\ acked' = acked \cup {writes[c].trace}
    /\ AfterAppend(c)
    /\ UNCHANGED <<proc, orphans, used, seen, quiet, pruned>>

\* The trace is given up, the call goes on.
Unrecorded(c) ==
    /\ GiveUp(c)
    /\ AfterAppend(c)
    /\ UNCHANGED <<proc, orphans, used, seen, quiet, acked, pruned>>

UnrecordedFault(c) ==
    /\ used.faults < MaxFaults
    /\ used' = [used EXCEPT !.faults = @ + 1]
    /\ WriteFails(c)
    /\ AfterAppend(c)
    /\ UNCHANGED <<proc, orphans, seen, quiet, acked, pruned>>

\* authorize, the input's schema and dispatch; each way out of them records a finish, but for
\* a policy hook that throws: then execute throws with no finish recorded, which leaves what a
\* finish leaves whose append fails.
Decide(c) ==
    /\ CallAt(c, "decide")
    /\ AppendTrace(c, Finished(c))
    /\ CallGoto(c, "finish")
    /\ UNCHANGED <<segs, active, lock, store, reads, proc, orphans, used, seen, quiet, acked, pruned>>

CallStep(c) == Recorded(c) \/ Unrecorded(c) \/ Decide(c)

-----------------------------------------------------------------------------
(* The runtime reads receipts, and prunes a task it has completed. *)

Ask(p) ==
    /\ proc[p] = "up" /\ used.asks < MaxAsks
    /\ used' = [used EXCEPT !.asks = @ + 1]
    /\ Read(p)
    /\ seen' = IF p \in quiet THEN [seen EXCEPT ![p] = OnDisk] ELSE seen
    /\ UNCHANGED <<segs, active, lock, store, writes, proc, orphans, calls, quiet, acked, pruned>>

Answer(p) ==
    /\ proc[p] = "up"
    /\ Delta(p) \/ ReadFails(p)
    /\ seen' = [seen EXCEPT ![p] = Nothing]
    /\ UNCHANGED <<proc, orphans, calls, used, quiet, acked, pruned>>

\* completeTask prunes the task's receipts.
PruneTask(p) ==
    /\ proc[p] = "up"
    /\ Prune(p)
    /\ seen' = [seen EXCEPT ![p] = Nothing]
    /\ pruned' = pruned \cup {c \in Calls : Home[c] = p /\ ~CallAt(c, "idle")}
    /\ UNCHANGED <<proc, orphans, calls, used, quiet, acked>>

-----------------------------------------------------------------------------
Init ==
    /\ EvidenceInit
    /\ proc = [p \in Procs |-> "down"]
    /\ orphans = [p \in Procs |-> {}]
    /\ calls = [c \in Calls |-> "idle"]
    /\ used = [starts |-> 0, asks |-> 0, faults |-> 0]
    /\ seen = [p \in Procs |-> Nothing]
    /\ quiet = {} /\ acked = {} /\ pruned = {}

\* A step of the store that is not its caller's last.
Advance ==
    /\ \/ \E w \in Writers : WriteStep(w)
       \/ \E p \in Procs : Segments(p)
    /\ UNCHANGED hostVars

Next ==
    \/ Advance
    \/ \E p \in Procs : Start(p) \/ StartStep(p) \/ Crash(p) \/ Ask(p) \/ Answer(p) \/ PruneTask(p)
    \/ \E c \in Calls : Execute(c) \/ CallStep(c) \/ UnrecordedFault(c)

Spec == Init /\ [][Next]_vars

-----------------------------------------------------------------------------
(* What the evidence is good for. *)

TypeOK ==
    /\ EvidenceTypeOK
    /\ proc \in [Procs -> {"down", "starting", "up"}]
    /\ orphans \in [Procs -> SUBSET Calls]
    /\ calls \in [Calls -> {"idle", "start", "decide", "finish", "returned", "lost"}]
    /\ used \in [starts : Nat, asks : Nat, faults : Nat]
    /\ seen \in [Procs -> [lines : SUBSET Traces, segs : Nat]]
    /\ quiet \subseteq Procs /\ acked \subseteq Traces /\ pruned \subseteq Calls

KeepsTraces ==
    /\ Len(segs') >= Len(segs)
    /\ \A i \in DOMAIN segs : segs'[i] = segs[i]
    /\ Lines \subseteq Lines'

\* No trace that is on disk is ever lost or changed: a rotation moves the active
\* file to a name that no segment has, though every process rotates by itself.
TracesAreKept == [][KeepsTraces]_vars

\* A process that runs shows both traces of a call it has served among the task's
\* receipts, once their appends have returned and unless the task was pruned,
\* whatever other processes append, rotate and reconcile and however its own
\* reads run into the appends.
OwnCallsShown ==
    \A c \in Calls \ pruned :
       {Started(c), Finished(c)} \subseteq acked =>
          {Started(c), Finished(c)} \subseteq store[Home[c]].bucket

\* The read of a process that appends nothing itself misses no trace that was on
\* disk when it began, unless a rotation ran into the read.
ReadsCatchUp ==
    [][\A p \in quiet :
          (FindOrphans(p) \/ (Answer(p) /\ Delta(p))) /\ ~RotatedMeanwhile(p) =>
             seen[p].lines \subseteq store'[p].index]_vars

\* A process is up only when every call whose start was on disk at the beginning
\* of its start-up has a finish, unless a rotation ran into its read.
ReconcileSettles ==
    [][\A p \in Procs, c \in Calls :
          Up(p) /\ Started(c) \in seen[p].lines => Finished(c) \in Lines']_vars

\* A start-up never reports a call crashed whose finish was on disk when it
\* began, unless a rotation ran into its read.
OnlyOpenCallsReconciled ==
    \A p \in Procs : ~WriteAt(p, "none") => Finished(writes[p].trace.call) \notin seen[p].lines
=============================================================================
