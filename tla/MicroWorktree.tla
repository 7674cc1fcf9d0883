---------------------------- MODULE MicroWorktree ----------------------------
(***************************************************************************)
(* How a command changes the state of a work unit on origin/main: it       *)
(* fetches main, edits the unit's YAML and appends to the event log in a   *)
(* worktree of its own, commits, and pushes.  When main has moved the push *)
(* is rejected; the commit is rebased onto the new main, without running   *)
(* the command's checks again, and pushed once more.                       *)
(*                                                                         *)
(* The worktree is on a temporary branch that is named after operation and *)
(* unit: runs of one operation on one unit in one clone want the same one. *)
(* Each removes what it finds there before it starts, and what is there    *)
(* when it ends, and a command that lost its worktree can push no more.    *)
(* A removal is taken to succeed.  A fetch that fails after the push ends  *)
(* as a push does whose answer is lost and whose retries fail.             *)
(*                                                                         *)
(* git's rebase is a three-way merge: of the YAML file field by field, of  *)
(* the event log by union (.gitattributes), so that the commit's event     *)
(* comes after those of main.  Any other rebase may stop at a conflict in  *)
(* the generated backlog.md and status.md.  Every clock agrees.            *)
(***************************************************************************)
EXTENDS Integers, Sequences, FiniteSetsExt

CONSTANTS Agents,       \* processes that run commands, one at a time
          WUs,          \* work units
          Clones,
          Home,         \* the clone an agent works in
          MaxAttempts,  \* push_retry.retries
          MaxCommands   \* bound: commands started

ASSUME AttemptsAssumption == MaxAttempts \in Nat \ {0} /\ MaxCommands \in Nat

ASSUME HomeAssumption == Home \in [Agents -> Clones]

VARIABLES
    log,    \* origin/main: wu-events.jsonl
    yaml,   \* origin/main: the YAML file of each unit
    past,   \* origin/main: the YAML files as each commit left them, the first to the last
    proc,   \* the command each agent runs and how far it is
    temp,   \* the command whose worktree is on each temporary branch of a clone
    void,   \* history: the claims that were refused, or failed and were rolled back
    moot    \* history: the units that a commit reached at its third attempt or later without
            \* changing their status

repoVars == <<log, yaml, past, temp, moot>>

Ids == 1 .. MaxCommands

Kinds == {"claim", "block", "unblock", "release", "complete", "rollback"}

Target ==
    [claim    |-> "in_progress", unblock |-> "in_progress", block    |-> "blocked",
     complete |-> "done",        release |-> "ready",       rollback |-> "ready"]

\* Ids stand for the moments a command ran: claimedAt and completedAt are 0 while absent.
NewWU == [status |-> "ready", claimedAt |-> 0, completedAt |-> 0, notes |-> <<>>]

\* The status a replay of the event log gives; a unit without events is ready.
StatusIn(events, w) ==
    LET mine == {i \in DOMAIN events : events[i].wu = w}
    IN  IF mine = {} THEN "ready" ELSE Target[events[Max(mine)].kind]

Lifecycle == INSTANCE WULifecycle WITH status <- [w \in WUs |-> StatusIn(log, w)]

\* The checks of command and store on the YAML and the replayed status they have read.
Allowed(kind, doc, status) ==
    CASE kind = "claim"    -> /\ "in_progress" \in Lifecycle!Transitions[doc.status]
                              /\ status # "in_progress"
      [] kind = "unblock"  -> status = "blocked"
      [] kind = "complete" -> /\ "done" \in Lifecycle!Transitions[doc.status]
                              /\ status = "in_progress"
      [] OTHER             -> status = "in_progress"

\* Mutation of Edited: a claim does not write when it was made.
EditedWithoutTime(kind, doc, id) ==
    IF kind = "complete"
      THEN [doc EXCEPT !.status = "done", !.completedAt = id]
      ELSE [doc EXCEPT !.status = Target[kind],
                       !.notes = IF kind \in {"claim", "rollback"} THEN @ ELSE Append(@, kind)]

\* Two notes of one kind are the same text: no reason given, or the same one, on one day.
Edited(kind, doc, id) ==
    LET moved == [doc EXCEPT !.status = Target[kind]]
    IN  CASE kind = "claim"    -> [moved EXCEPT !.claimedAt = id]
          [] kind = "rollback" -> [moved EXCEPT !.claimedAt = 0]
          [] kind = "complete" -> [moved EXCEPT !.completedAt = id]
          [] OTHER             -> [moved EXCEPT !.notes = Append(@, kind)]

Clashes(base, mine, theirs) ==
    \E f \in DOMAIN base : /\ mine[f] # base[f] /\ theirs[f] # base[f]
                           /\ mine[f] # theirs[f]

Merged(base, mine, theirs) ==
    [f \in DOMAIN base |-> IF mine[f] = base[f] THEN theirs[f] ELSE mine[f]]

-----------------------------------------------------------------------------
Idle == [pc |-> "idle", kind |-> "none", wu |-> "none", id |-> 0, at |-> 0,
         base |-> NewWU, mine |-> NewWU, tries |-> 0, landed |-> FALSE]

At(a, pc) == proc[a].pc = pc

Goto(a, pc) == proc' = [proc EXCEPT ![a].pc = pc]

Ends(a) == proc' = [proc EXCEPT ![a] = Idle]

\* The micro-worktree is removed, the command goes on.
Leaves(a, pc) ==
    proc' = [proc EXCEPT ![a] = [Idle EXCEPT !.pc = pc, !.kind = proc[a].kind,
                                           !.wu = proc[a].wu, !.id = proc[a].id]]

Voids(a) == void' = void \cup {proc[a].id}

\* What comes after a change that was pushed, and after one that was not.
Published(a) ==
    CASE proc[a].kind = "claim"    -> Leaves(a, "worktree") /\ UNCHANGED void
      [] proc[a].kind = "rollback" -> Leaves(a, "unlock") /\ Voids(a)
      [] proc[a].kind \in {"release", "complete"} -> Leaves(a, "unlock") /\ UNCHANGED void
      [] OTHER                     -> Ends(a) /\ UNCHANGED void

Unpublished(a) ==
    CASE proc[a].kind = "claim"    ->
            /\ Leaves(a, "unlock")
            /\ IF proc[a].landed THEN UNCHANGED void ELSE Voids(a)
      [] proc[a].kind = "rollback" -> Leaves(a, "unlock") /\ UNCHANGED void
      [] OTHER                     -> Ends(a) /\ UNCHANGED void

-----------------------------------------------------------------------------
(* The temporary branch and its worktree *)

\* A rollback runs the operation of wu:claim, and wu:release that of wu:block.
Operation ==
    [claim |-> "wu-claim", rollback |-> "wu-claim", block    |-> "wu-block",
     release |-> "wu-block", unblock |-> "wu-unblock", complete |-> "wu-done"]

Branches == Clones \X {Operation[k] : k \in Kinds} \X WUs

TempBranch(a) == <<Home[a], Operation[proc[a].kind], proc[a].wu>>

CleansUp(a) == temp' = [temp EXCEPT ![TempBranch(a)] = 0]

\* The worktree is still there; wu:done works in the unit's own, on the lane branch.
HasWorktree(a) == proc[a].kind = "complete" \/ temp[TempBranch(a)] = proc[a].id

\* Whatever is on the branch is taken for what an interrupted run left.
Sweep(a) ==
    /\ At(a, "sweep")
    /\ CleansUp(a)
    /\ Goto(a, "fetch")
    /\ UNCHANGED <<log, yaml, past, void, moot>>

\* Fetch main, check and edit there, commit.  The code makes the branch before it checks;
\* what it finds depends only on the main it has fetched.
Execute(a) ==
    LET p == proc[a]
        doc == yaml[p.wu]
    IN  /\ At(a, "fetch")
        /\ Allowed(p.kind, doc, StatusIn(log, p.wu))
        /\ proc' = [proc EXCEPT ![a] = [p EXCEPT !.pc = "branchoff", !.at = Len(log), !.base = doc,
                                                !.mine = Edited(p.kind, doc, p.id)]]
        /\ UNCHANGED <<log, yaml, past, temp, void, moot>>

\* Another run may have made the branch since it was removed.
BranchOff(a) ==
    /\ At(a, "branchoff") /\ temp[TempBranch(a)] = 0
    /\ temp' = [temp EXCEPT ![TempBranch(a)] = proc[a].id]
    /\ Goto(a, "push")
    /\ UNCHANGED <<log, yaml, past, void, moot>>

\* The checks refuse, or another run has made the branch.
Refused(a) ==
    LET p == proc[a]
    IN  \/ At(a, "fetch") /\ ~Allowed(p.kind, yaml[p.wu], StatusIn(log, p.wu))
        \/ At(a, "branchoff") /\ temp[TempBranch(a)] # 0

\* The fetch fails, the branch exists, the checks refuse or a step of git fails.  Only what
\* comes after the fetch is cleaned up.
ExecuteFails(a) ==
    /\ proc[a].pc \in {"fetch", "branchoff"}
    /\ CleansUp(a) \/ (At(a, "fetch") /\ UNCHANGED temp)
    /\ Unpublished(a)
    /\ UNCHANGED <<log, yaml, past, moot>>

-----------------------------------------------------------------------------
(* Push, and rebase when it fails *)

Lands(p) ==
    /\ log' = Append(log, [wu |-> p.wu, kind |-> p.kind])
    /\ yaml' = [yaml EXCEPT ![p.wu] = p.mine]
    /\ past' = Append(past, yaml')
    /\ moot' = IF p.tries > 1 /\ p.mine.status = p.base.status THEN moot \cup {p.wu} ELSE moot

\* Main is where the commit was based: it is advanced, if the commit is not in it already.
Push(a) ==
    LET p == proc[a]
    IN  /\ At(a, "push") /\ p.at = Len(log) /\ HasWorktree(a)
        /\ IF p.landed THEN UNCHANGED <<log, yaml, past, moot>> ELSE Lands(p)
        /\ CleansUp(a)
        /\ Published(a)

\* Mutation of PushFails: one attempt too many.
PushFailsOnceMore(a) ==
    LET p == proc[a]
    IN  /\ At(a, "push")
        /\ IF p.tries < MaxAttempts
             THEN /\ proc' = [proc EXCEPT ![a] = [p EXCEPT !.pc = "rebase", !.tries = @ + 1]]
                  /\ UNCHANGED <<temp, void>>
             ELSE Unpublished(a) /\ CleansUp(a)
        /\ UNCHANGED <<log, yaml, past, moot>>

\* Main has moved, or the worktree is gone.
Rejected(a) == proc[a].at # Len(log) \/ ~HasWorktree(a)

\* The push is rejected or does not reach the remote.  After the last attempt that is the end.
PushFails(a) ==
    LET p == proc[a]
    IN  /\ At(a, "push")
        /\ IF p.tries + 1 < MaxAttempts
             THEN /\ proc' = [proc EXCEPT ![a] = [p EXCEPT !.pc = "rebase", !.tries = @ + 1]]
                  /\ UNCHANGED <<temp, void>>
             ELSE Unpublished(a) /\ CleansUp(a)
        /\ UNCHANGED <<log, yaml, past, moot>>

\* Main is advanced but the answer is lost.
PushUnanswered(a) ==
    LET p == proc[a]
    IN  /\ At(a, "push") /\ p.at = Len(log) /\ HasWorktree(a) /\ ~p.landed
        /\ Lands(p)
        /\ proc' = [proc EXCEPT ![a].landed = TRUE]
        /\ UNCHANGED <<temp, void>>

\* Mutation of Rebase: in a conflict the commit's side is taken.
RebaseTakingMine(a) ==
    LET p == proc[a]
        theirs == yaml[p.wu]
    IN  /\ At(a, "rebase") /\ HasWorktree(a)
        /\ proc' = [proc EXCEPT ![a] =
                      [p EXCEPT !.pc = "push", !.at = Len(log), !.base = theirs,
                                !.mine = IF p.landed THEN theirs ELSE Merged(p.base, p.mine, theirs)]]
        /\ UNCHANGED <<log, yaml, past, temp, void, moot>>

\* Mutation of Rebase: in a conflict main's side is taken.
RebaseTakingTheirs(a) ==
    LET p == proc[a]
        theirs == yaml[p.wu]
    IN  /\ At(a, "rebase") /\ HasWorktree(a)
        /\ proc' = [proc EXCEPT ![a] =
                      [p EXCEPT !.pc = "push", !.at = Len(log), !.base = theirs,
                                !.mine = IF p.landed THEN theirs ELSE Merged(p.base, theirs, p.mine)]]
        /\ UNCHANGED <<log, yaml, past, temp, void, moot>>

\* Fetch main and rebase onto it; a commit that is in main already leaves nothing to merge.
Rebase(a) ==
    LET p == proc[a]
        theirs == yaml[p.wu]
    IN  /\ At(a, "rebase") /\ HasWorktree(a)
        /\ p.landed \/ ~Clashes(p.base, p.mine, theirs)
        /\ proc' = [proc EXCEPT ![a] =
                      [p EXCEPT !.pc = "push", !.at = Len(log), !.base = theirs,
                                !.mine = IF p.landed THEN theirs ELSE Merged(p.base, p.mine, theirs)]]
        /\ UNCHANGED <<log, yaml, past, temp, void, moot>>

\* A conflict stops the rebase half way, and with it every later attempt; so does a worktree
\* that is gone.
RebaseFails(a) ==
    /\ At(a, "rebase")
    /\ ~HasWorktree(a) \/ (~proc[a].landed /\ proc[a].at # Len(log))
    /\ CleansUp(a)
    /\ Unpublished(a)
    /\ UNCHANGED <<log, yaml, past, moot>>
=============================================================================
