------------------------------ MODULE WorkUnits ------------------------------
(***************************************************************************)
(* The life of work units of one lane under the commands wu:claim,         *)
(* wu:block, wu:unblock, wu:release and wu:done, in worktree mode with a   *)
(* remote.  Agents work in clones; the agents of a clone share its lane    *)
(* lock, a file that is created, then written, its lane branches, its copy *)
(* of main, which lags behind origin, and the agent session a claim opens  *)
(* there.  All agents are one user: assigned_to refuses nobody.            *)
(*                                                                         *)
(* Of the commands that are refused before anything is changed only claims *)
(* are modelled; what a claim reads of the clone's main can only refuse    *)
(* it.  The lane's lock policy is "all".                                   *)
(***************************************************************************)
EXTENDS MicroWorktree

CONSTANTS MaxRunning,  \* bound: commands that run at once
          MaxEvents    \* bound: commands started and faults, which are commands that die or fail
                       \* for a reason outside the model, pushes whose answer is lost, locks that
                       \* grow old, branches deleted, sessions not started, owners overridden

ASSUME BoundsAssumption == MaxRunning \in Nat /\ MaxEvents \in Nat

VARIABLES
    lock,       \* the lane lock file of each clone
    local,      \* the lane branches of each clone: the unit's YAML they were made from
    remote,     \* the lane branches on origin
    main,       \* the commit of main each clone has had for its own main when it was last read
    session,    \* the session that is open in each clone: the claim that started it, its unit
    under,      \* session_id in what a claim writes: the claim that started it, 0 if none
    used,       \* commands started and faults
    spoiled     \* history: clones in which a lock was removed that may still be needed

ownVars == <<main, session, under>>

cloneVars == <<lock, local, remote, spoiled, ownVars>>

vars == <<repoVars, proc, void, cloneVars, used>>

NoLock == [wu |-> "none", id |-> 0, old |-> FALSE]

NoBranch == [NewWU EXCEPT !.status = "none"]

NoSession == [id |-> 0, wu |-> "none"]

Lock(a) == lock[Home[a]]

SetLock(a, l) == lock' = [lock EXCEPT ![Home[a]] = l]

\* Created but not yet written: nobody can read whose it is.
Unwritten(l) == l.wu = "empty"

\* The process whose pid the lock has still runs.
OwnerRuns(l) == \E b \in Agents : proc[b].id = l.id /\ l.id # 0

\* The lock of a clone is removed; history: it was the lock of a command that still runs.
RemoveLock(a) ==
    /\ SetLock(a, NoLock)
    /\ spoiled' = IF OwnerRuns(Lock(a)) /\ Lock(a).id # proc[a].id
                  THEN spoiled \cup {Home[a]} ELSE spoiled

\* What may always go wrong, and what goes wrong if it has a reason in the model.
Fault ==
    /\ used.commands + used.faults < MaxEvents
    /\ used' = [used EXCEPT !.faults = @ + 1]

FaultUnless(reason) == IF reason THEN UNCHANGED used ELSE Fault

MayStart(a) ==
    /\ At(a, "idle")
    /\ used.commands < MaxCommands /\ used.commands + used.faults < MaxEvents
    /\ Cardinality({b \in Agents : ~At(b, "idle")}) < MaxRunning

Starts(a) ==
    /\ MayStart(a)
    /\ used' = [used EXCEPT !.commands = @ + 1]

Command(w, kind, pc) ==
    [Idle EXCEPT !.pc = pc, !.kind = kind, !.wu = w, !.id = used.commands + 1]

-----------------------------------------------------------------------------
(* The lane lock: checkLaneLock, acquireLaneLock, releaseLaneLock *)

\* wu:claim removes a lock by its age alone, before it tries to acquire it.
StartClaim(a) ==
    /\ Starts(a)
    /\ \E w \in WUs : proc' = [proc EXCEPT ![a] =
                          Command(w, "claim", IF Lock(a).old THEN "clear" ELSE "open")]
    /\ UNCHANGED <<repoVars, void, cloneVars>>

\* Mutation of Open: the file is not opened exclusively.
OpenOver(a) ==
    /\ At(a, "open")
    /\ SetLock(a, [wu |-> "empty", id |-> proc[a].id, old |-> FALSE])
    /\ Goto(a, "write")
    /\ UNCHANGED <<repoVars, void, local, remote, ownVars, spoiled, used>>

Open(a) ==
    /\ At(a, "open") /\ Lock(a) = NoLock
    /\ SetLock(a, [wu |-> "empty", id |-> proc[a].id, old |-> FALSE])
    /\ Goto(a, "write")
    /\ UNCHANGED <<repoVars, void, local, remote, ownVars, spoiled, used>>

OpenExists(a) ==
    /\ At(a, "open") /\ Lock(a) # NoLock
    /\ Goto(a, "look")
    /\ UNCHANGED <<repoVars, void, cloneVars, used>>

\* The lock of the same unit counts as acquired.
LookShared(a) ==
    /\ At(a, "look") /\ Lock(a).wu = proc[a].wu
    /\ Goto(a, "branch")
    /\ spoiled' = spoiled \cup {Home[a]}
    /\ UNCHANGED <<repoVars, void, lock, local, remote, ownVars, used>>

\* A lock that cannot be read, because it is not written yet or gone by now, counts as stale.
Stale(l) == l = NoLock \/ Unwritten(l) \/ (l.old /\ ~OwnerRuns(l))

LookStale(a) ==
    /\ At(a, "look") /\ Lock(a).wu # proc[a].wu /\ Stale(Lock(a))
    /\ Goto(a, "clear")
    /\ UNCHANGED <<repoVars, void, cloneVars, used>>

LookRefused(a) ==
    /\ At(a, "look") /\ Lock(a).wu # proc[a].wu /\ ~Stale(Lock(a))
    /\ Ends(a)
    /\ Voids(a)
    /\ UNCHANGED <<repoVars, cloneVars, used>>

\* What was seen there is removed by its path, whatever is there by now.
Clear(a) ==
    /\ At(a, "clear")
    /\ RemoveLock(a)
    /\ Goto(a, "open")
    /\ UNCHANGED <<repoVars, void, local, remote, ownVars, used>>

Write(a) ==
    /\ At(a, "write")
    /\ SetLock(a, [wu |-> proc[a].wu, id |-> proc[a].id, old |-> FALSE])
    /\ Goto(a, "branch")
    /\ UNCHANGED <<repoVars, void, local, remote, ownVars, spoiled, used>>

\* The end of wu:done closes the session of its clone, whatever unit it was started for.
Finishes(a) ==
    /\ Ends(a)
    /\ session' = IF proc[a].kind = "complete" THEN [session EXCEPT ![Home[a]] = NoSession]
                  ELSE session
    /\ UNCHANGED <<main, under>>

\* A failed claim, wu:release and wu:done drop the lock of their unit, and one they cannot read.
Unlock(a) ==
    /\ At(a, "unlock")
    /\ IF Lock(a).wu = proc[a].wu \/ Unwritten(Lock(a))
         THEN Goto(a, "unlink") /\ UNCHANGED ownVars ELSE Finishes(a)
    /\ UNCHANGED <<repoVars, void, lock, local, remote, spoiled, used>>

Unlink(a) ==
    /\ At(a, "unlink")
    /\ RemoveLock(a)
    /\ Finishes(a)
    /\ UNCHANGED <<repoVars, void, local, remote, used>>

\* More than the stale threshold after it was written.
Age(c) ==
    /\ Fault
    /\ lock[c] # NoLock /\ ~Unwritten(lock[c]) /\ ~lock[c].old
    /\ lock' = [lock EXCEPT ![c].old = TRUE]
    /\ UNCHANGED <<repoVars, proc, void, local, remote, ownVars, spoiled>>

-----------------------------------------------------------------------------
(* wu:claim after the lock: branch checks, the change on main, worktree and branch *)

Fetching(a, kind) ==
    proc' = [proc EXCEPT ![a] = [@ EXCEPT !.pc = "sweep", !.kind = kind, !.tries = 0,
                                         !.landed = FALSE]]

HasBranch(a) == proc[a].wu \in remote \/ local[Home[a]][proc[a].wu] # NoBranch

\* A session that is open already goes on, whatever unit it was started for.
StartsSession(a) ==
    /\ session' = [session EXCEPT ![Home[a]] =
                     IF @ = NoSession THEN [id |-> proc[a].id, wu |-> proc[a].wu] ELSE @]
    /\ under' = [under EXCEPT ![proc[a].id] = session'[Home[a]].id]

\* A session that cannot be started does not stop the claim.
CheckBranches(a) ==
    /\ At(a, "branch") /\ ~HasBranch(a)
    /\ \/ StartsSession(a) /\ UNCHANGED used
       \/ Fault /\ UNCHANGED <<session, under>>
    /\ Fetching(a, "claim")
    /\ UNCHANGED <<repoVars, void, lock, local, remote, main, spoiled>>

\* The branch exists, or another check between the lock and the change fails.
ClaimRefused(a) ==
    /\ At(a, "branch") /\ FaultUnless(HasBranch(a))
    /\ Goto(a, "unlock")
    /\ Voids(a)
    /\ UNCHANGED <<repoVars, cloneVars>>

AddWorktree(a) ==
    LET w == proc[a].wu
    IN  /\ At(a, "worktree") /\ local[Home[a]][w] = NoBranch
        /\ local' = [local EXCEPT ![Home[a]][w] = yaml[w]]
        /\ Goto(a, "branchpush")
        /\ UNCHANGED <<repoVars, void, lock, remote, ownVars, spoiled, used>>

PushBranch(a) ==
    /\ At(a, "branchpush")
    /\ remote' = remote \cup {proc[a].wu}
    /\ Goto(a, "setup")
    /\ UNCHANGED <<repoVars, void, lock, local, ownVars, spoiled, used>>

\* The lock stays, for wu:done to drop.
ClaimMade(a) ==
    /\ At(a, "setup")
    /\ Ends(a)
    /\ UNCHANGED <<repoVars, void, cloneVars, used>>

MustFail(a) == At(a, "worktree") /\ local[Home[a]][proc[a].wu] # NoBranch

\* Mutation of ClaimFails: only the lock is released.
ClaimFailsUnrolled(a) ==
    /\ proc[a].pc \in {"worktree", "branchpush", "setup"} /\ FaultUnless(MustFail(a))
    /\ Goto(a, "unlock")
    /\ Voids(a)
    /\ UNCHANGED <<repoVars, cloneVars>>

\* Whatever fails after the change has been pushed: rollbackCanonicalClaim.
ClaimFails(a) ==
    /\ proc[a].pc \in {"worktree", "branchpush", "setup"} /\ FaultUnless(MustFail(a))
    /\ Fetching(a, "rollback")
    /\ UNCHANGED <<repoVars, void, cloneVars>>

-----------------------------------------------------------------------------
(* The other commands *)

\* assertStateMutationOwnership on the unit's YAML: not in a session for another unit, nor in
\* one that the claim was not made in.
Owns(a, w, doc) ==
    /\ session[Home[a]].wu \in {"none", w}
    /\ under[doc.claimedAt] \in {0, session[Home[a]].id}

MayEdit(kind, doc) ==
    IF kind = "release" THEN doc.status = "in_progress"
    ELSE Target[kind] \in Lifecycle!Transitions[doc.status]

\* Before it goes to origin a command checks its clone's copy of main, which was last brought
\* up to date some time after it was last read.
Edits(a, owned) ==
    /\ \E w \in WUs, kind \in {"block", "unblock", "release"}, n \in main[Home[a]] .. Len(past) :
          /\ MayEdit(kind, past[n][w]) /\ Owns(a, w, past[n][w]) = owned
          /\ proc' = [proc EXCEPT ![a] = Command(w, kind, "sweep")]
          /\ main' = [main EXCEPT ![Home[a]] = n]
    /\ UNCHANGED <<repoVars, void, lock, local, remote, session, under, spoiled>>

StartEdit(a) ==
    /\ Starts(a)
    /\ Edits(a, TRUE)

\* --override-owner, with a reason.
OverrideOwner(a) ==
    /\ MayStart(a) /\ used.commands + used.faults + 1 < MaxEvents
    /\ used' = [used EXCEPT !.commands = @ + 1, !.faults = @ + 1]
    /\ Edits(a, FALSE)

\* wu:done commits on the lane branch: it reads the YAML there and the event log of main.
StartDone(a) ==
    /\ Starts(a)
    /\ \E w \in WUs :
          LET doc == local[Home[a]][w]
              p == Command(w, "complete", "rebase")
          IN  /\ doc # NoBranch
              /\ Allowed("complete", doc, StatusIn(log, w))
              /\ proc' = [proc EXCEPT ![a] = [p EXCEPT !.base = doc,
                                                      !.mine = Edited("complete", doc, p.id)]]
    /\ UNCHANGED <<repoVars, void, cloneVars>>

\* wu:done, wu:cleanup and wu:recover delete a lane branch, here and on origin.
DeleteBranch(c, w) ==
    /\ Fault
    /\ local[c][w] # NoBranch
    /\ local' = [local EXCEPT ![c][w] = NoBranch]
    /\ remote' = remote \ {w}
    /\ UNCHANGED <<repoVars, proc, void, lock, ownVars, spoiled>>

Crash(a) ==
    /\ ~At(a, "idle")
    /\ Fault
    /\ Ends(a)
    /\ UNCHANGED <<repoVars, void, cloneVars>>

-----------------------------------------------------------------------------
Publish(a) ==
    /\ \/ /\ \/ Sweep(a) \/ Execute(a) \/ BranchOff(a) \/ Push(a) \/ Rebase(a) \/ RebaseFails(a)
          /\ UNCHANGED used
       \/ ExecuteFails(a) /\ FaultUnless(Refused(a))
       \/ PushFails(a) /\ FaultUnless(Rejected(a))
       \/ PushUnanswered(a) /\ Fault
    /\ UNCHANGED cloneVars

Acquire(a) ==
    \/ Open(a) \/ OpenExists(a) \/ LookShared(a) \/ LookStale(a) \/ LookRefused(a)
    \/ Clear(a) \/ Write(a) \/ Unlock(a) \/ Unlink(a)

Claim(a) ==
    \/ CheckBranches(a) \/ ClaimRefused(a) \/ AddWorktree(a) \/ PushBranch(a)
    \/ ClaimMade(a) \/ ClaimFails(a)

Step(a) == Publish(a) \/ Acquire(a) \/ Claim(a)

Init ==
    /\ log = <<>>
    /\ yaml = [w \in WUs |-> NewWU]
    /\ proc = [a \in Agents |-> Idle]
    /\ past = <<yaml>>
    /\ temp = [b \in Branches |-> 0]
    /\ void = {} /\ moot = {}
    /\ lock = [c \in Clones |-> NoLock]
    /\ local = [c \in Clones |-> [w \in WUs |-> NoBranch]]
    /\ remote = {}
    /\ main = [c \in Clones |-> 1]
    /\ session = [c \in Clones |-> NoSession]
    /\ under = [i \in Ids \cup {0} |-> 0]
    /\ used = [commands |-> 0, faults |-> 0]
    /\ spoiled = {}

Next ==
    \/ \E a \in Agents : \/ Step(a) \/ StartClaim(a) \/ StartEdit(a) \/ OverrideOwner(a)
                       \/ StartDone(a) \/ Crash(a)
    \/ \E c \in Clones : Age(c) \/ \E w \in WUs : DeleteBranch(c, w)

Spec == Init /\ [][Next]_vars

-----------------------------------------------------------------------------
Locks == [wu : WUs \cup {"none", "empty"}, id : Nat, old : BOOLEAN]

TypeOK ==
    /\ log \in Seq([wu : WUs, kind : Kinds])
    /\ \A w \in WUs : yaml[w].status \in DOMAIN Lifecycle!Transitions
    /\ \A a \in Agents : /\ proc[a].id \in 0 .. MaxCommands
                         /\ proc[a].tries \in 0 .. MaxAttempts - 1
    /\ lock \in [Clones -> Locks]
    /\ remote \subseteq WUs /\ spoiled \subseteq Clones /\ void \subseteq Ids

\* The YAML of a unit has the status that a replay of the event log gives, although a rebased
\* commit is merged file by file and not checked again (micro-worktree-shared.ts).  Only a
\* commit that lands at its third attempt or later, when the unit has the status it was to give
\* without it, can end that: the rebase after the next push of another one drops its change to
\* the YAML and keeps its event.
FilesAgree ==
    \A w \in WUs \ moot : yaml[w].status = StatusIn(log, w)

\* Up to such a commit every event that reaches main moves its unit along the transition table
\* or leaves its status as it is; so what is done stays done.
FollowsTable ==
    [][\A i \in DOMAIN log' \ DOMAIN log :
          LET w == log'[i].wu
              status == StatusIn(log, w)
          IN  \/ w \in moot'
              \/ StatusIn(log', w) \in Lifecycle!Transitions[status] \cup {status}]_log

LeavesProgress == {"block", "release", "complete", "rollback"}

\* Two claims of one unit are never on main without an event between them that took it
\* out of in_progress: a unit is not claimed by two agents at once, wherever they work.
ClaimsAlternate ==
    \A i, j \in DOMAIN log :
        (i < j /\ log[i].kind = "claim" /\ log[j].kind = "claim" /\ log[i].wu = log[j].wu)
            => \E k \in i .. j : log[k].wu = log[i].wu /\ log[k].kind \in LeavesProgress

\* A claim that was refused, or failed and was rolled back, is not left in the unit's YAML on
\* main (rollbackCanonicalClaim).
FailedLeavesNothing ==
    \A w \in WUs : yaml[w].claimedAt \notin void

InLane(a) ==
    \/ proc[a].kind = "claim" /\ proc[a].pc \notin {"open", "look", "clear"}
    \/ proc[a].kind = "rollback"

\* One claim at a time runs in a clone's lane, until a lock is shared by a second claim of its
\* unit or removed while its owner runs (lane-lock.ts, wu-claim.ts): old, or by a command that
\* found an unwritten lock or none when it read, or read the one before.
LaneExclusive ==
    \A a, b \in Agents :
        (a # b /\ Home[a] = Home[b] /\ Home[a] \notin spoiled) => ~(InLane(a) /\ InLane(b))
=============================================================================
