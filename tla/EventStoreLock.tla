--------------------------- MODULE EventStoreLock ----------------------------
(***************************************************************************)
(* EventStore.withFileLock: the lock file that serializes the appends of   *)
(* all processes, its retries, and the removal of a lock whose owner died. *)
(*                                                                         *)
(* The lock is the file itself, created with 'wx'.  Its creator then       *)
(* writes its pid into it; until it has, nobody can tell whose it is.  Any *)
(* removal is by path, so it takes whatever file is there.  One process    *)
(* may append several times at once and shares its pid among them.  A pid  *)
(* does not come back: a restarted process is another member of Procs.     *)
(*                                                                         *)
(* The append itself is one write to a file opened for appending.          *)
(***************************************************************************)
EXTENDS Naturals, Sequences, FiniteSets

CONSTANTS Procs,        \* pids
          NoPid,        \* what an empty lock file says
          Calls,        \* call slots: appends in flight
          Home,         \* the process of each slot
          MaxRetries,   \* lockMaxRetries; 250 in the code
          MaxBatches,   \* bound: appends begun
          MaxCrashes,   \* bound: processes that die
          MaxFailures   \* bound: file operations that fail

ASSUME LockAssumption ==
    /\ NoPid \notin Procs
    /\ Home \in [Calls -> Procs]
    /\ MaxRetries \in Nat \ {0}
    /\ MaxBatches \in Nat /\ MaxCrashes \in Nat /\ MaxFailures \in Nat

VARIABLES
    lock,       \* the lock file: the append and the process that created it, the pid it holds
    calls,      \* the appends in flight
    log,        \* the event file: the batches in it
    alive,      \* the processes that are running
    begun,      \* appends begun; each one's batch is its number
    acked,      \* batches whose append returned
    refused,    \* batches whose append found the lock taken to the end
    failures,   \* file operations that failed
    foundDead   \* history: the lock whose creator was dead when a call began

vars == <<lock, calls, log, alive, begun, acked, refused, failures, foundDead>>

NoLock == [batch |-> 0, owner |-> NoPid, pid |-> NoPid]

Idle == [pc |-> "idle", batch |-> 0, tries |-> 0]

Crashes == Cardinality(Procs \ alive)

\* Mutation of NamesTheDead: every pid counts as alive.
NamesNobody == FALSE

\* isProcessAlive says no of the pid the lock holds.
NamesTheDead == lock.pid # NoPid /\ lock.pid \notin alive

At(c, pc) == calls[c].pc = pc

Goto(c, pc) == calls' = [calls EXCEPT ![c].pc = pc]

Finish(c) == calls' = [calls EXCEPT ![c] = Idle]

\* Mutation of Retry: the loop does not count its turns.
RetryUncounted(c) == calls' = [calls EXCEPT ![c].pc = "open"]

\* The next turn of the loop.
Retry(c) == calls' = [calls EXCEPT ![c].pc = "open", ![c].tries = @ + 1]

Fails == failures < MaxFailures /\ failures' = failures + 1

-----------------------------------------------------------------------------
Begin(c) ==
    /\ calls[c] = Idle /\ Home[c] \in alive
    /\ begun < MaxBatches
    /\ begun' = begun + 1
    /\ calls' = [calls EXCEPT ![c] = [pc |-> "open", batch |-> begun + 1, tries |-> 0]]
    /\ foundDead' = [foundDead EXCEPT ![c] = IF lock.owner \in alive THEN 0 ELSE lock.batch]
    /\ UNCHANGED <<lock, log, alive, acked, refused, failures>>

Open(c) ==
    /\ At(c, "open") /\ lock = NoLock
    /\ lock' = [batch |-> calls[c].batch, owner |-> Home[c], pid |-> NoPid]
    /\ Goto(c, "stamp")
    /\ UNCHANGED <<log, alive, begun, acked, refused, failures, foundDead>>

\* Mutation of OpenBusy: the clean-up does not ask whether this call has a handle.
OpenBusyCleansUp(c) ==
    /\ At(c, "open") /\ lock # NoLock
    /\ lock' = NoLock
    /\ IF calls[c].tries < MaxRetries
       THEN Goto(c, "inspect") /\ UNCHANGED refused
       ELSE Finish(c) /\ refused' = refused \cup {calls[c].batch}
    /\ UNCHANGED <<log, alive, begun, acked, failures, foundDead>>

\* EEXIST: see whose lock it is, or give up after the last attempt.
OpenBusy(c) ==
    /\ At(c, "open") /\ lock # NoLock
    /\ IF calls[c].tries < MaxRetries
       THEN Goto(c, "inspect") /\ UNCHANGED refused
       ELSE Finish(c) /\ refused' = refused \cup {calls[c].batch}
    /\ UNCHANGED <<lock, log, alive, begun, acked, failures, foundDead>>

\* handle.writeFile: the pid goes into the file this call created, which need
\* not be the one that is at the path by now.
Stamp(c) ==
    /\ At(c, "stamp")
    /\ lock' = IF lock.batch = calls[c].batch THEN [lock EXCEPT !.pid = Home[c]] ELSE lock
    /\ Goto(c, "write")
    /\ UNCHANGED <<log, alive, begun, acked, refused, failures, foundDead>>

Write(c) ==
    /\ At(c, "write")
    /\ log' = Append(log, calls[c].batch)
    /\ Goto(c, "release")
    /\ UNCHANGED <<lock, alive, begun, acked, refused, failures, foundDead>>

\* The pid or the batch cannot be written: the lock file is removed, the call throws.
StampOrWriteFails(c) ==
    /\ At(c, "stamp") \/ At(c, "write")
    /\ Fails
    /\ Goto(c, "abort")
    /\ UNCHANGED <<lock, log, alive, begun, acked, refused, foundDead>>

Release(c) ==
    /\ At(c, "release")
    /\ lock' = NoLock
    /\ acked' = acked \cup {calls[c].batch}
    /\ Finish(c)
    /\ UNCHANGED <<log, alive, begun, refused, failures, foundDead>>

Abort(c) ==
    /\ At(c, "abort")
    /\ lock' = NoLock
    /\ Finish(c)
    /\ UNCHANGED <<log, alive, begun, acked, refused, failures, foundDead>>

\* Mutation of CleanupFails: the loop takes the failure for a taken lock.
CleanupFailsAndRetries(c) ==
    /\ At(c, "release") \/ At(c, "abort")
    /\ Fails
    /\ lock' \in IF At(c, "release") THEN {lock, NoLock} ELSE {lock}
    /\ Retry(c)
    /\ UNCHANGED <<log, alive, begun, acked, refused, foundDead>>

\* The lock file cannot be removed and the call throws, after a written batch
\* too.  There the removal is tried once more on the way out, and may succeed.
CleanupFails(c) ==
    /\ At(c, "release") \/ At(c, "abort")
    /\ Fails
    /\ lock' \in IF At(c, "release") THEN {lock, NoLock} ELSE {lock}
    /\ Finish(c)
    /\ UNCHANGED <<log, alive, begun, acked, refused, foundDead>>

-----------------------------------------------------------------------------
(* recoverStaleLockIfNeeded *)

\* The lock is gone, says no pid yet or is a live process's: try again.
InspectLive(c) ==
    /\ At(c, "inspect") /\ ~NamesTheDead
    /\ Retry(c)
    /\ UNCHANGED <<lock, log, alive, begun, acked, refused, failures, foundDead>>

InspectDead(c) ==
    /\ At(c, "inspect") /\ NamesTheDead
    /\ Goto(c, "remove")
    /\ UNCHANGED <<lock, log, alive, begun, acked, refused, failures, foundDead>>

\* The lock at the path by now may be another one.
Remove(c) ==
    /\ At(c, "remove")
    /\ lock' = NoLock
    /\ Retry(c)
    /\ UNCHANGED <<log, alive, begun, acked, refused, failures, foundDead>>

\* The lock file cannot be read or removed and the call throws.
RecoverFails(c) ==
    /\ At(c, "inspect") \/ At(c, "remove")
    /\ Fails
    /\ Finish(c)
    /\ UNCHANGED <<lock, log, alive, begun, acked, refused, foundDead>>

-----------------------------------------------------------------------------
Crash(p) ==
    /\ p \in alive /\ Crashes < MaxCrashes
    /\ alive' = alive \ {p}
    /\ calls' = [c \in Calls |-> IF Home[c] = p THEN Idle ELSE calls[c]]
    /\ UNCHANGED <<lock, log, begun, acked, refused, failures, foundDead>>

Init ==
    /\ lock = NoLock
    /\ calls = [c \in Calls |-> Idle]
    /\ log = <<>>
    /\ alive = Procs
    /\ begun = 0 /\ failures = 0
    /\ acked = {} /\ refused = {}
    /\ foundDead = [c \in Calls |-> 0]

\* A step of an append whose file operations succeed.
Advance(c) ==
    \/ Open(c) \/ OpenBusy(c) \/ Stamp(c) \/ Write(c) \/ Release(c) \/ Abort(c)
    \/ InspectLive(c) \/ InspectDead(c) \/ Remove(c)

Next ==
    \/ \E c \in Calls : Begin(c) \/ Advance(c) \/ StampOrWriteFails(c)
                        \/ CleanupFails(c) \/ RecoverFails(c)
    \/ \E p \in Procs : Crash(p)

Spec == Init /\ [][Next]_vars

\* The event loop of a live process resumes a call whose file operation is done.
FairSpec == Spec /\ \A c \in Calls : WF_vars(Advance(c))

-----------------------------------------------------------------------------
PcValues == {"idle", "open", "stamp", "write", "release", "abort", "inspect", "remove"}

\* The type invariant of the lock's state.
TypeOK ==
    /\ lock \in [batch : Nat, owner : Procs \cup {NoPid}, pid : Procs \cup {NoPid}]
    /\ calls \in [Calls -> [pc : PcValues, batch : Nat, tries : 0..MaxRetries]]
    /\ log \in Seq(Nat)
    /\ alive \subseteq Procs
    /\ begun \in Nat /\ failures \in Nat
    /\ acked \subseteq Nat /\ refused \subseteq Nat
    /\ foundDead \in [Calls -> Nat]

\* The calls between creating the lock file and removing it.
Holders == {c \in Calls : calls[c].pc \in {"stamp", "write", "release", "abort"}}

\* Until a process dies one append at a time holds the lock, though removals are
\* by path and some fail (withFileLock, cleanupLockHandle).
ExclusionUntilCrash == alive = Procs => \A c, d \in Holders : c = d

\* An append that began after a lock's owner had written its pid and died is not
\* refused on account of that lock (recoverStaleLockIfNeeded), whatever other
\* calls do to the lock file meanwhile.
RefusedStep ==
    \A c \in Calls : calls[c].batch \in refused' \ refused =>
        lock.batch # foundDead[c] \/ lock.pid = NoPid

NotRefusedByTheDead == [][RefusedStep]_vars

\* The same of a lock whose owner died before it had written its pid: what the
\* test "recovers stale lock files when lock owner PID is no longer alive" says.
RecoveredStep ==
    \A c \in Calls : calls[c].batch \in refused' \ refused => lock.batch # foundDead[c]

RecoversDeadLocks == [][RecoveredStep]_vars

\* Every append ends: its retries are bounded, and no call waits for another.
EveryAppendEnds == \A c \in Calls : calls[c] # Idle ~> calls[c] = Idle

AppendLog == INSTANCE AppendOnlyLog WITH Batches <- 1..MaxBatches

\* The log keeps what appendAll promises, with crashes and failures as well.
ImplementsAppend == AppendLog!Spec
=============================================================================
