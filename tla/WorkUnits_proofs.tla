--------------------------- MODULE WorkUnits_proofs ---------------------------
(***************************************************************************)
(* Proofs about WorkUnits, for any number of agents, clones, units,        *)
(* attempts to push and faults.                                            *)
(*                                                                         *)
(* Inv: the types, and that a command which is in the lane of a clone that *)
(* is not spoiled has its number in the clone's lock file (LaneInv); no    *)
(* two commands have the same number (IdInv).                              *)
(*                                                                         *)
(* ClaimInv: where a unit's claimedAt comes from.  Each commit in flight   *)
(* is tied to the base it was made or rebased on (Change), and that base   *)
(* to main when the push can land (Based).  A claim whose change is not in *)
(* main has its number nowhere, not even in the base of another claim      *)
(* (BaseInv), so a rebased claim has seen main as the check did: the unit  *)
(* is still free (FreeUnit) although no check runs again.                  *)
(*                                                                         *)
(* LifeInv: for the units that are not moot, the two files of main agree   *)
(* (AgreeInv), and a commit in flight changes the status of its base as    *)
(* the table allows, or finds on main the status that it was to give       *)
(* (Legal).  A commit that was rebased once may find it there and land; to *)
(* be rebased again it must fail to land, and then it is at its third      *)
(* attempt.                                                                *)
(***************************************************************************)
EXTENDS WorkUnits, TLAPS

Statuses == {"ready", "in_progress", "blocked", "waiting", "done"}

Docs == [status : Statuses, claimedAt : Nat, completedAt : Nat, notes : Seq(Kinds)]

PCs == {"idle", "open", "look", "clear", "write", "branch", "sweep", "fetch", "branchoff",
        "push", "rebase", "worktree", "branchpush", "setup", "unlock", "unlink"}

\* Where only a claim can be.
ClaimPCs == {"open", "look", "clear", "write", "branch", "worktree", "branchpush", "setup"}

Procs == [pc : PCs, kind : Kinds \cup {"none"}, wu : WUs \cup {"none"}, id : Ids \cup {0},
          at : Nat, base : Docs, mine : Docs, tries : 0 .. MaxAttempts - 1, landed : BOOLEAN]

RestTypes ==
    /\ log \in Seq([wu : WUs, kind : Kinds])
    /\ yaml \in [WUs -> Docs]
    /\ void \subseteq Ids
    /\ local \in [Clones -> [WUs -> Docs \cup {NoBranch}]]
    /\ remote \subseteq WUs
    /\ used \in [commands : 0 .. MaxCommands, faults : Nat]
    /\ spoiled \subseteq Clones

Types == RestTypes /\ proc \in [Agents -> Procs] /\ lock \in [Clones -> Locks]

\* What a command that runs has, and what the points it can be at say of it.
Shaped(p) ==
    /\ p.pc = "idle" => p.id = 0 /\ p.kind = "none"
    /\ p.pc # "idle" => p.id # 0 /\ p.wu \in WUs /\ p.kind \in Kinds
    /\ p.pc \in ClaimPCs => p.kind = "claim"

ShapeInv == \A a \in Agents : Shaped(proc[a])

IdInv ==
    \A a, b \in Agents : /\ proc[a].id <= used.commands
                         /\ a # b /\ proc[a].id # 0 => proc[a].id # proc[b].id

\* InLane of the command's record.
Entered(p) ==
    \/ p.kind = "claim" /\ p.pc \notin {"open", "look", "clear"}
    \/ p.kind = "rollback"

LaneInv ==
    \A a \in Agents :
        Entered(proc[a]) /\ Home[a] \notin spoiled => lock[Home[a]].id = proc[a].id

Inv == Types /\ ShapeInv /\ IdInv /\ LaneInv

-----------------------------------------------------------------------------
(* Operators. *)

LEMMA Constants == MaxAttempts \in Nat \ {0} /\ MaxCommands \in Nat /\ Ids \subseteq Nat
                   /\ 0 \notin Ids /\ \A a \in Agents : Home[a] \in Clones
BY AttemptsAssumption, HomeAssumption DEF Ids

LEMMA MergedType ==
    ASSUME NEW b \in Docs, NEW m \in Docs, NEW t \in Docs
    PROVE  Merged(b, m, t) \in Docs
BY DEF Merged, Docs

LEMMA EditedType ==
    ASSUME NEW kind \in Kinds, NEW doc \in Docs, NEW id \in Ids
    PROVE  Edited(kind, doc, id) \in Docs
<1>1. Target[kind] \in Statuses
  BY DEF Target, Statuses, Kinds
<1>2. id \in Nat /\ Append(doc.notes, kind) \in Seq(Kinds)
  BY Constants DEF Docs
<1> QED BY <1>1, <1>2 DEF Edited, Docs, Kinds

LEMMA IdleType == Idle \in Procs /\ Shaped(Idle) /\ ~Entered(Idle) /\ Idle.id = 0 /\ NewWU \in Docs
<1>1. NewWU \in Docs
  BY DEF NewWU, Docs, Statuses
<1>2. 0 \in 0 .. MaxAttempts - 1
  BY Constants
<1> QED BY <1>1, <1>2 DEF Idle, Procs, PCs, Shaped, Entered, ClaimPCs

\* A command that has just started.
LEMMA CommandType ==
    ASSUME Types, used.commands < MaxCommands, NEW w \in WUs, NEW kind \in Kinds,
           NEW pc \in PCs \ {"idle"}, pc \in ClaimPCs => kind = "claim"
    PROVE  /\ Command(w, kind, pc) \in Procs /\ Shaped(Command(w, kind, pc))
           /\ Command(w, kind, pc).id = used.commands + 1
           /\ Command(w, kind, pc).wu = w /\ Command(w, kind, pc).kind = kind
           /\ Command(w, kind, pc).pc = pc
<1>1. used.commands + 1 \in Ids /\ used.commands + 1 # 0
  BY Constants DEF Types, RestTypes, Ids
<1> QED BY <1>1, IdleType DEF Command, Idle, Procs, Shaped

LEMMA IdIsNat == ASSUME NEW p \in Procs PROVE p.id \in Nat
<1>1. p.id \in Ids \cup {0}
  BY DEF Procs
<1>2. Ids \subseteq Nat
  BY Constants
<1>3. 0 \in Nat
  OBVIOUS
<1>4. p.id \in Ids \/ p.id = 0
  BY <1>1
<1> QED BY <1>2, <1>3, <1>4, Zenon

\* A command in the middle of publishing.
LEMMA RunningFacts ==
    ASSUME Types, ShapeInv, NEW a \in Agents, proc[a].pc # "idle"
    PROVE  /\ proc[a] \in Procs /\ Shaped(proc[a]) /\ proc[a].id \in Ids /\ proc[a].id # 0
           /\ proc[a].wu \in WUs /\ proc[a].kind \in Kinds
           /\ proc[a].mine \in Docs /\ proc[a].base \in Docs
           /\ proc[a].tries \in 0 .. MaxAttempts - 1 /\ proc[a].landed \in BOOLEAN
           /\ yaml[proc[a].wu] \in Docs /\ Len(log) \in Nat
<1>1. proc[a] \in Procs /\ Shaped(proc[a])
  BY DEF Types, ShapeInv
<1>2. proc[a].id # 0 /\ proc[a].wu \in WUs /\ proc[a].kind \in Kinds
  BY <1>1 DEF Shaped
<1> QED BY <1>1, <1>2 DEF Types, RestTypes, Procs

-----------------------------------------------------------------------------
(* Steps of one command. *)

\* The command goes on, or ends, and the locks fit what the commands have become.
LEMMA LockStep ==
    ASSUME Inv, RestTypes', NEW a \in Agents, NEW q \in Procs, Shaped(q),
           proc' = [proc EXCEPT ![a] = q], q.id \in {0, proc[a].id},
           lock' \in [Clones -> Locks], used'.commands = used.commands,
           Entered(q) /\ Home[a] \notin spoiled' => lock'[Home[a]].id = q.id,
           \A b \in Agents \ {a} : Entered(proc[b]) /\ Home[b] \notin spoiled'
                                       => lock'[Home[b]].id = proc[b].id
    PROVE  Inv'
<1>1. /\ Types /\ ShapeInv /\ IdInv /\ LaneInv
      /\ proc'[a] = q /\ \A b \in Agents : b # a => proc'[b] = proc[b]
  BY DEF Inv, Types
<1>2. Types'
  BY <1>1 DEF Types
<1>3. ShapeInv'
  <2> SUFFICES ASSUME NEW b \in Agents PROVE Shaped(proc'[b])
    BY DEF ShapeInv, Shaped
  <2> QED BY <1>1 DEF ShapeInv
<1>4. IdInv'
  <2>1. used.commands \in Nat /\ q.id \in Nat
    <3>1. used.commands \in 0 .. MaxCommands
      BY <1>1 DEF Types, RestTypes
    <3> QED BY <3>1, IdIsNat, Constants
  <2> SUFFICES ASSUME NEW b \in Agents, NEW c \in Agents
               PROVE  /\ proc'[b].id <= used.commands
                      /\ b # c /\ proc'[b].id # 0 => proc'[b].id # proc'[c].id
    BY DEF IdInv
  <2>2. \A d \in Agents : proc'[d].id \in {0, proc[d].id}
    BY <1>1
  <2>3. proc[b].id <= used.commands /\ (b # c /\ proc[b].id # 0 => proc[b].id # proc[c].id)
    BY <1>1 DEF IdInv
  <2> QED BY <2>1, <2>2, <2>3
<1>5. LaneInv'
  <2> SUFFICES ASSUME NEW b \in Agents, Entered(proc'[b]), Home[b] \notin spoiled'
               PROVE  lock'[Home[b]].id = proc'[b].id
    BY DEF LaneInv, Entered
  <2> QED BY <1>1
<1> QED BY <1>2, <1>3, <1>4, <1>5 DEF Inv

\* The locks stay as they are.
LEMMA ProcStep ==
    ASSUME Inv, RestTypes', NEW a \in Agents, NEW q \in Procs, Shaped(q),
           proc' = [proc EXCEPT ![a] = q], q.id \in {0, proc[a].id},
           Entered(q) => q.id = proc[a].id /\ (Entered(proc[a]) \/ Home[a] \in spoiled'),
           lock' = lock, spoiled \subseteq spoiled', used'.commands = used.commands
    PROVE  Inv'
<1>1. Types /\ LaneInv
  BY DEF Inv
<1>2. lock' \in [Clones -> Locks]
  BY <1>1 DEF Types
<1>3. Entered(q) /\ Home[a] \notin spoiled' => lock'[Home[a]].id = q.id
  BY <1>1 DEF LaneInv
<1>4. \A b \in Agents \ {a} : Entered(proc[b]) /\ Home[b] \notin spoiled'
                                  => lock'[Home[b]].id = proc[b].id
  BY <1>1 DEF LaneInv
<1> QED BY <1>2, <1>3, <1>4, LockStep

\* A command starts.
LEMMA StartStep ==
    ASSUME Inv, RestTypes', NEW a \in Agents, NEW q \in Procs, Shaped(q),
           proc' = [proc EXCEPT ![a] = q], q.id = used.commands + 1, ~Entered(q),
           lock' = lock, spoiled' = spoiled, used'.commands = used.commands + 1
    PROVE  Inv'
<1>1. /\ Types /\ ShapeInv /\ IdInv /\ LaneInv
      /\ proc'[a] = q /\ \A b \in Agents : b # a => proc'[b] = proc[b]
  BY DEF Inv, Types
<1>2. Types'
  BY <1>1 DEF Types
<1>3. ShapeInv'
  <2> SUFFICES ASSUME NEW b \in Agents PROVE Shaped(proc'[b])
    BY DEF ShapeInv, Shaped
  <2> QED BY <1>1 DEF ShapeInv
<1>4. IdInv'
  <2>1. used.commands \in Nat
    BY <1>1 DEF Types, RestTypes
  <2>2. \A d \in Agents : proc[d].id \in Nat /\ proc[d].id <= used.commands
    <3> TAKE d \in Agents
    <3>1. proc[d] \in Procs
      BY <1>1 DEF Types
    <3>2. proc[d].id <= used.commands
      BY <1>1 DEF IdInv
    <3> QED BY <3>1, <3>2, IdIsNat
  <2> SUFFICES ASSUME NEW b \in Agents, NEW c \in Agents
               PROVE  /\ proc'[b].id <= used.commands + 1
                      /\ b # c /\ proc'[b].id # 0 => proc'[b].id # proc'[c].id
    BY DEF IdInv
  <2>3. b # c /\ proc[b].id # 0 => proc[b].id # proc[c].id
    BY <1>1 DEF IdInv
  <2>4. /\ b = a => proc'[b].id = used.commands + 1
        /\ b # a => proc'[b].id = proc[b].id
        /\ c = a => proc'[c].id = used.commands + 1
        /\ c # a => proc'[c].id = proc[c].id
    BY <1>1
  <2> QED BY <2>1, <2>2, <2>3, <2>4
<1>5. LaneInv'
  <2> SUFFICES ASSUME NEW b \in Agents, Entered(proc'[b]), Home[b] \notin spoiled
               PROVE  lock[Home[b]].id = proc'[b].id
    BY DEF LaneInv, Entered
  <2>1. b # a /\ proc'[b] = proc[b]
    BY <1>1
  <2> QED BY <1>1, <2>1 DEF LaneInv
<1> QED BY <1>2, <1>3, <1>4, <1>5 DEF Inv

\* The records of a command that goes on.
LEMMA MovedRecord ==
    ASSUME NEW p \in Procs, Shaped(p), p.pc # "idle",
           NEW pc \in PCs \ {"idle"}, pc \in ClaimPCs => p.kind = "claim"
    PROVE  \A q \in {[p EXCEPT !.pc = pc],
                     [Idle EXCEPT !.pc = pc, !.kind = p.kind, !.wu = p.wu, !.id = p.id]} :
               /\ q \in Procs /\ Shaped(q) /\ q.id = p.id
               /\ q.kind = p.kind /\ q.pc = pc
<1>1. p.kind \in Kinds /\ p.wu \in WUs /\ p.id # 0
  BY DEF Shaped
<1>2. [p EXCEPT !.pc = pc] \in Procs
  BY DEF Procs
<1>3. p.id \in Ids
  BY <1>1 DEF Procs
<1>4. [Idle EXCEPT !.pc = pc, !.kind = p.kind, !.wu = p.wu, !.id = p.id] \in Procs
  BY <1>1, <1>3, IdleType DEF Procs, Idle
<1>5. /\ [p EXCEPT !.pc = pc].id = p.id /\ [p EXCEPT !.pc = pc].kind = p.kind
      /\ [p EXCEPT !.pc = pc].pc = pc /\ [p EXCEPT !.pc = pc].wu = p.wu
  BY DEF Procs
<1>6. \A q \in {[p EXCEPT !.pc = pc],
                [Idle EXCEPT !.pc = pc, !.kind = p.kind, !.wu = p.wu, !.id = p.id]} :
         q.id = p.id /\ q.kind = p.kind /\ q.pc = pc /\ q.wu = p.wu
  BY <1>5 DEF Idle
<1>7. ASSUME NEW q \in Procs, q.id = p.id, q.kind = p.kind, q.pc = pc, q.wu = p.wu
      PROVE  Shaped(q)
  <2>1. pc # "idle" /\ (pc \in ClaimPCs => p.kind = "claim")
    OBVIOUS
  <2>2. q.pc # "idle" /\ (q.pc \in ClaimPCs => q.kind = "claim")
    BY <1>7, <2>1
  <2> QED BY <1>1, <1>7, <2>2 DEF Shaped
<1> QED BY <1>2, <1>4, <1>6, <1>7

LEMMA EndsStep ==
    ASSUME Inv, RestTypes', NEW a \in Agents, Ends(a),
           lock' = lock, spoiled' = spoiled, used'.commands = used.commands
    PROVE  Inv'
BY IdleType, ProcStep DEF Ends

\* The command goes on at pc, which is past the lock only if it was before.
LEMMA MoveStep ==
    ASSUME Inv, RestTypes', NEW a \in Agents, proc[a].pc # "idle",
           NEW pc \in PCs \ {"idle"}, pc \in ClaimPCs => proc[a].kind = "claim",
           Goto(a, pc) \/ Leaves(a, pc),
           \/ proc[a].pc \notin {"open", "look", "clear"} \/ pc \in {"open", "look", "clear"}
           \/ Home[a] \in spoiled',
           lock' = lock, spoiled \subseteq spoiled', used'.commands = used.commands
    PROVE  Inv'
<1>1. proc[a] \in Procs /\ Shaped(proc[a])
  BY DEF Inv, Types, ShapeInv
<1>2. PICK q \in {[proc[a] EXCEPT !.pc = pc],
                  [Idle EXCEPT !.pc = pc, !.kind = proc[a].kind, !.wu = proc[a].wu,
                               !.id = proc[a].id]} : proc' = [proc EXCEPT ![a] = q]
  BY DEF Goto, Leaves, Inv, Types
<1>3. /\ q \in Procs /\ Shaped(q) /\ q.id = proc[a].id
      /\ q.kind = proc[a].kind /\ q.pc = pc
  <2>1. \A r \in {[proc[a] EXCEPT !.pc = pc],
                  [Idle EXCEPT !.pc = pc, !.kind = proc[a].kind, !.wu = proc[a].wu,
                               !.id = proc[a].id]} :
            /\ r \in Procs /\ Shaped(r) /\ r.id = proc[a].id
            /\ r.kind = proc[a].kind /\ r.pc = pc
    BY <1>1, MovedRecord, Zenon
  <2> QED BY <1>2, <2>1, Zenon
<1>4. Entered(q) => Entered(proc[a]) \/ Home[a] \in spoiled'
  BY <1>3 DEF Entered
<1> QED BY <1>2, <1>3, <1>4, ProcStep

\* The command goes on with a record of its own, where it was past the lock or is not.
LEMMA RecordStep ==
    ASSUME Inv, RestTypes', NEW a \in Agents, NEW q \in Procs, Shaped(q),
           proc' = [proc EXCEPT ![a] = q], q.id = proc[a].id,
           Entered(q) => Entered(proc[a]),
           lock' = lock, spoiled' = spoiled, used'.commands = used.commands
    PROVE  Inv'
BY ProcStep

\* No command starts.
SameCount ==
    /\ used' \in [commands : 0 .. MaxCommands, faults : Nat]
    /\ used'.commands = used.commands

LEMMA CountKept == ASSUME Types, UNCHANGED used \/ Fault PROVE SameCount
<1>1. used \in [commands : 0 .. MaxCommands, faults : Nat]
  BY DEF Types, RestTypes
<1> QED BY <1>1 DEF SameCount, Fault

-----------------------------------------------------------------------------
(* Publishing. *)

LEMMA PublishedStep ==
    ASSUME Inv, NEW a \in Agents, proc[a].pc \notin {"idle", "open", "look", "clear"},
           log' \in Seq([wu : WUs, kind : Kinds]), yaml' \in [WUs -> Docs],
           Published(a) \/ Unpublished(a), UNCHANGED cloneVars, SameCount
    PROVE  Inv'
<1>1. Types /\ ShapeInv
  BY DEF Inv
<1>2. proc[a].id \in Ids /\ proc[a].kind \in Kinds
  BY <1>1, RunningFacts
<1>3. void' \subseteq Ids
  <2>1. void \subseteq Ids
    BY <1>1 DEF Types, RestTypes
  <2>2. void' = void \/ void' = void \cup {proc[a].id}
    BY <1>2 DEF Published, Unpublished, Voids, Kinds
  <2> QED BY <1>2, <2>1, <2>2
<1>4. RestTypes'
  BY <1>1, <1>3 DEF Types, RestTypes, cloneVars, SameCount
<1>5. lock' = lock /\ spoiled' = spoiled /\ used'.commands = used.commands
  BY DEF cloneVars, SameCount
<1>6. \/ Leaves(a, "worktree") /\ proc[a].kind = "claim"
      \/ Leaves(a, "unlock")
      \/ Ends(a)
  BY <1>2 DEF Published, Unpublished, Kinds
<1>7. "worktree" \in PCs /\ "unlock" \in PCs /\ "unlock" \notin ClaimPCs
  BY DEF PCs, ClaimPCs
<1>8. CASE Leaves(a, "worktree") /\ proc[a].kind = "claim"
  BY <1>4, <1>5, <1>7, <1>8, MoveStep
<1>9. CASE Leaves(a, "unlock")
  BY <1>4, <1>5, <1>7, <1>9, MoveStep
<1>10. CASE Ends(a)
  BY <1>4, <1>5, <1>10, EndsStep
<1> QED BY <1>6, <1>8, <1>9, <1>10

\* A command whose commit has a new base, and one that tries again.
Committed(p, pc, n, base, mine) == [p EXCEPT !.pc = pc, !.at = n, !.base = base, !.mine = mine]

Retried(p, n) == [p EXCEPT !.pc = "rebase", !.tries = n]

LEMMA CommittedRecord ==
    ASSUME NEW p \in Procs, Shaped(p), p.pc # "idle", NEW pc \in {"branchoff", "push"},
           NEW n \in Nat, NEW base \in Docs, NEW mine \in Docs
    PROVE  /\ Committed(p, pc, n, base, mine) \in Procs
           /\ Shaped(Committed(p, pc, n, base, mine))
           /\ Committed(p, pc, n, base, mine).id = p.id
           /\ Committed(p, pc, n, base, mine).kind = p.kind
           /\ Committed(p, pc, n, base, mine).pc = pc
<1> DEFINE q == Committed(p, pc, n, base, mine)
<1>1. pc \in PCs /\ pc \notin ClaimPCs /\ pc # "idle"
  BY DEF PCs, ClaimPCs
<1>2. q \in Procs /\ q.id = p.id /\ q.kind = p.kind /\ q.wu = p.wu /\ q.pc = pc
  BY <1>1 DEF Procs, Committed
<1> HIDE DEF q
<1>3. Shaped(q)
  BY <1>1, <1>2 DEF Shaped
<1> QED BY <1>2, <1>3 DEF q

LEMMA RetriedRecord ==
    ASSUME NEW p \in Procs, Shaped(p), p.pc # "idle", NEW n \in 0 .. MaxAttempts - 1
    PROVE  /\ Retried(p, n) \in Procs /\ Shaped(Retried(p, n)) /\ Retried(p, n).id = p.id
           /\ Retried(p, n).kind = p.kind /\ Retried(p, n).pc = "rebase"
<1> DEFINE q == Retried(p, n)
<1>1. "rebase" \in PCs /\ "rebase" \notin ClaimPCs
  BY DEF PCs, ClaimPCs
<1>2. q \in Procs /\ q.id = p.id /\ q.kind = p.kind /\ q.wu = p.wu /\ q.pc = "rebase"
  BY <1>1 DEF Procs, Retried
<1> HIDE DEF q
<1>3. Shaped(q)
  BY <1>1, <1>2 DEF Shaped
<1> QED BY <1>2, <1>3 DEF q

LEMMA ExecuteStep ==
    ASSUME Inv, NEW a \in Agents, Execute(a), UNCHANGED cloneVars, SameCount
    PROVE  Inv'
<1> DEFINE p == proc[a]
           q == Committed(p, "branchoff", Len(log), yaml[p.wu], Edited(p.kind, yaml[p.wu], p.id))
<1>1. Types /\ ShapeInv /\ p.pc = "fetch" /\ proc' = [proc EXCEPT ![a] = q]
  BY DEF Inv, Execute, At, Committed
<1>2. /\ p \in Procs /\ Shaped(p) /\ p.pc # "idle" /\ yaml[p.wu] \in Docs /\ Len(log) \in Nat
      /\ p.id \in Ids /\ p.kind \in Kinds
  BY <1>1, RunningFacts
<1>3. Edited(p.kind, yaml[p.wu], p.id) \in Docs
  BY <1>2, EditedType
<1>4. q \in Procs /\ Shaped(q) /\ q.id = p.id /\ q.kind = p.kind
  BY <1>2, <1>3, CommittedRecord
<1>5. Entered(q) => Entered(p)
  BY <1>1, <1>4 DEF Entered
<1>6. RestTypes' /\ lock' = lock /\ spoiled' = spoiled /\ used'.commands = used.commands
  BY <1>1 DEF Types, RestTypes, cloneVars, Execute, SameCount
<1> HIDE DEF p, q
<1> QED BY <1>1, <1>4, <1>5, <1>6, RecordStep DEF p

\* The temporary branch is cleared, or made.
LEMMA TempStep ==
    ASSUME Inv, NEW a \in Agents, Sweep(a) \/ BranchOff(a), UNCHANGED cloneVars, SameCount
    PROVE  Inv'
<1>1. Types /\ proc[a].pc \in {"sweep", "branchoff"} /\ log' = log /\ yaml' = yaml /\ void' = void
  BY DEF Inv, Sweep, BranchOff, At
<1>2. PICK pc \in {"fetch", "push"} : Goto(a, pc)
  BY DEF Sweep, BranchOff
<1>3. pc \in PCs \ {"idle"} /\ pc \notin ClaimPCs
  BY DEF PCs, ClaimPCs
<1>4. RestTypes' /\ lock' = lock /\ spoiled' = spoiled /\ used'.commands = used.commands
  BY <1>1 DEF Types, RestTypes, cloneVars, SameCount
<1> QED BY <1>1, <1>2, <1>3, <1>4, MoveStep

LEMMA LandsType ==
    ASSUME Types, NEW p, p.wu \in WUs, p.kind \in Kinds, p.mine \in Docs, Lands(p)
    PROVE  log' \in Seq([wu : WUs, kind : Kinds]) /\ yaml' \in [WUs -> Docs]
<1> DEFINE Events == [wu : WUs, kind : Kinds]
           e == [wu |-> p.wu, kind |-> p.kind]
<1>1. log \in Seq(Events) /\ e \in Events /\ log' = Append(log, e)
  BY DEF Types, RestTypes, Lands
<1>2. log' \in Seq(Events)
  <2> HIDE DEF Events, e
  <2> QED BY <1>1
<1>3. yaml' \in [WUs -> Docs]
  BY DEF Types, RestTypes, Lands
<1> QED BY <1>2, <1>3

LEMMA PushStep ==
    ASSUME Inv, NEW a \in Agents, Push(a), UNCHANGED cloneVars, SameCount
    PROVE  Inv'
<1>1. Types /\ ShapeInv /\ proc[a].pc = "push" /\ Published(a)
  BY DEF Inv, Push, At
<1>2. proc[a].wu \in WUs /\ proc[a].kind \in Kinds /\ proc[a].mine \in Docs
  BY <1>1, RunningFacts
<1>3. log' \in Seq([wu : WUs, kind : Kinds]) /\ yaml' \in [WUs -> Docs]
  BY <1>1, <1>2, LandsType DEF Push, Types, RestTypes
<1> QED BY <1>1, <1>3, PublishedStep

LEMMA FailingSteps ==
    ASSUME Inv, NEW a \in Agents, UNCHANGED cloneVars, SameCount,
           ExecuteFails(a) \/ RebaseFails(a)
               \/ (At(a, "push") /\ Unpublished(a) /\ UNCHANGED <<log, yaml>>)
    PROVE  Inv'
<1>1. /\ Types /\ proc[a].pc \in {"fetch", "branchoff", "rebase", "push"} /\ Unpublished(a)
      /\ log' = log /\ yaml' = yaml
  BY DEF Inv, ExecuteFails, RebaseFails, At
<1>2. log' \in Seq([wu : WUs, kind : Kinds]) /\ yaml' \in [WUs -> Docs]
  BY <1>1 DEF Types, RestTypes
<1> QED BY <1>1, <1>2, PublishedStep

LEMMA PushFailsStep ==
    ASSUME Inv, NEW a \in Agents, PushFails(a), UNCHANGED cloneVars, SameCount
    PROVE  Inv'
<1> DEFINE p == proc[a]
           q == Retried(p, p.tries + 1)
<1>1. Types /\ ShapeInv /\ p.pc = "push" /\ UNCHANGED <<log, yaml>>
  BY DEF Inv, PushFails, At
<1>2. CASE p.tries + 1 < MaxAttempts
  <2>1. /\ p \in Procs /\ Shaped(p) /\ p.pc # "idle" /\ p.tries \in 0 .. MaxAttempts - 1
        /\ NewWU \in Docs
    BY <1>1, RunningFacts, IdleType
  <2>2. p.tries + 1 \in 0 .. MaxAttempts - 1
    BY <1>2, <2>1, Constants
  <2>3. q \in Procs /\ Shaped(q) /\ q.id = p.id /\ q.kind = p.kind
    BY <2>1, <2>2, RetriedRecord
  <2>4. Entered(q) => Entered(p)
    BY <1>1, <2>3 DEF Entered
  <2>5. proc' = [proc EXCEPT ![a] = q] /\ void' = void
    BY <1>2 DEF PushFails, Retried
  <2>6. RestTypes' /\ lock' = lock /\ spoiled' = spoiled /\ used'.commands = used.commands
    BY <1>1, <2>5 DEF Types, RestTypes, cloneVars, SameCount
  <2> HIDE DEF p, q
  <2> QED BY <2>3, <2>4, <2>5, <2>6, RecordStep DEF p
<1>3. CASE ~(p.tries + 1 < MaxAttempts)
  <2>1. Unpublished(a) /\ At(a, "push")
    BY <1>3 DEF PushFails
  <2> QED BY <1>1, <2>1, FailingSteps
<1> QED BY <1>2, <1>3

LEMMA UnansweredStep ==
    ASSUME Inv, NEW a \in Agents, PushUnanswered(a), UNCHANGED cloneVars, SameCount
    PROVE  Inv'
<1> DEFINE p == proc[a]
           q == [p EXCEPT !.landed = TRUE]
<1>1. Types /\ ShapeInv /\ p.pc = "push" /\ proc' = [proc EXCEPT ![a] = q] /\ void' = void
  BY DEF Inv, PushUnanswered, At
<1>2. p \in Procs /\ Shaped(p) /\ p.wu \in WUs /\ p.kind \in Kinds /\ p.mine \in Docs
  BY <1>1, RunningFacts
<1>3. q \in Procs /\ q.id = p.id /\ q.kind = p.kind /\ q.pc = p.pc /\ q.wu = p.wu
  BY <1>2 DEF Procs
<1>4. Shaped(q) /\ (Entered(q) => Entered(p))
  BY <1>2, <1>3 DEF Shaped, Entered
<1>5. log' \in Seq([wu : WUs, kind : Kinds]) /\ yaml' \in [WUs -> Docs]
  BY <1>1, <1>2, LandsType DEF PushUnanswered, Types, RestTypes
<1>6. used'.commands = used.commands
  BY DEF SameCount
<1>7. RestTypes' /\ lock' = lock /\ spoiled' = spoiled
  BY <1>1, <1>5 DEF Types, RestTypes, cloneVars, SameCount
<1> HIDE DEF p, q
<1> QED BY <1>1, <1>3, <1>4, <1>6, <1>7, RecordStep DEF p

LEMMA RebaseStep ==
    ASSUME Inv, NEW a \in Agents, Rebase(a), UNCHANGED cloneVars, SameCount
    PROVE  Inv'
<1> DEFINE p == proc[a]
           theirs == yaml[p.wu]
           m == IF p.landed THEN theirs ELSE Merged(p.base, p.mine, theirs)
           q == Committed(p, "push", Len(log), theirs, m)
<1>1. Types /\ ShapeInv /\ p.pc = "rebase" /\ proc' = [proc EXCEPT ![a] = q]
  BY DEF Inv, Rebase, At, Committed
<1>2. /\ p \in Procs /\ Shaped(p) /\ p.pc # "idle" /\ theirs \in Docs /\ Len(log) \in Nat
      /\ p.base \in Docs /\ p.mine \in Docs
  BY <1>1, RunningFacts
<1>3. m \in Docs
  BY <1>2, MergedType
<1>4. q \in Procs /\ Shaped(q) /\ q.id = p.id /\ q.kind = p.kind
  <2> HIDE DEF m, theirs
  <2> QED BY <1>2, <1>3, CommittedRecord
<1>5. Entered(q) => Entered(p)
  BY <1>1, <1>4 DEF Entered
<1>6. RestTypes' /\ lock' = lock /\ spoiled' = spoiled /\ used'.commands = used.commands
  BY <1>1 DEF Types, RestTypes, cloneVars, Rebase, SameCount
<1> HIDE DEF p, q
<1> QED BY <1>1, <1>4, <1>5, <1>6, RecordStep DEF p

-----------------------------------------------------------------------------
(* The lane lock. *)

LEMMA OpenStep ==
    ASSUME Inv, NEW a \in Agents, Open(a)
    PROVE  Inv'
<1> DEFINE q == [proc[a] EXCEPT !.pc = "write"]
<1>1. /\ Types /\ ShapeInv /\ LaneInv /\ proc[a].pc = "open" /\ lock[Home[a]] = NoLock
      /\ proc' = [proc EXCEPT ![a] = q]
  BY DEF Inv, Open, At, Goto, Lock
<1>2. proc[a] \in Procs /\ Shaped(proc[a]) /\ proc[a].kind = "claim" /\ proc[a].id \in Ids
  BY <1>1, RunningFacts DEF Shaped, ClaimPCs
<1>3. q \in Procs /\ Shaped(q) /\ q.id = proc[a].id
  BY <1>1, <1>2, MovedRecord DEF PCs
<1>4. Home[a] \in Clones /\ [wu |-> "empty", id |-> proc[a].id, old |-> FALSE] \in Locks
  BY <1>2, Constants DEF Locks
<1>5. /\ lock' \in [Clones -> Locks] /\ lock'[Home[a]].id = q.id
      /\ \A c \in Clones \ {Home[a]} : lock'[c] = lock[c]
  BY <1>1, <1>3, <1>4 DEF Open, SetLock, Types
<1>6. RestTypes' /\ spoiled' = spoiled /\ used' = used
  BY <1>1 DEF Open, Types, RestTypes, repoVars
<1>7. ASSUME NEW b \in Agents \ {a}, Entered(proc[b]), Home[b] \notin spoiled
      PROVE  lock'[Home[b]].id = proc[b].id
  <2>1. lock[Home[b]].id = proc[b].id
    BY <1>1, <1>7 DEF LaneInv
  <2>2. proc[b].id # 0
    BY <1>1, <1>7 DEF ShapeInv, Shaped, Entered
  <2>3. Home[b] # Home[a] /\ Home[b] \in Clones
    BY <1>1, <2>1, <2>2, Constants DEF NoLock
  <2> QED BY <1>5, <2>1, <2>3
<1> HIDE DEF q
<1> QED BY <1>1, <1>3, <1>5, <1>6, <1>7, LockStep

LEMMA WriteStep ==
    ASSUME Inv, NEW a \in Agents, Write(a)
    PROVE  Inv'
<1> DEFINE q == [proc[a] EXCEPT !.pc = "branch"]
<1>1. /\ Types /\ ShapeInv /\ LaneInv /\ IdInv /\ proc[a].pc = "write"
      /\ proc' = [proc EXCEPT ![a] = q]
  BY DEF Inv, Write, At, Goto
<1>2. /\ proc[a] \in Procs /\ Shaped(proc[a]) /\ proc[a].kind = "claim" /\ proc[a].id \in Ids
      /\ proc[a].wu \in WUs
  BY <1>1, RunningFacts DEF Shaped, ClaimPCs
<1>3. q \in Procs /\ Shaped(q) /\ q.id = proc[a].id
  BY <1>1, <1>2, MovedRecord DEF PCs
<1>4. Home[a] \in Clones /\ [wu |-> proc[a].wu, id |-> proc[a].id, old |-> FALSE] \in Locks
  BY <1>2, Constants DEF Locks
<1>5. /\ lock' \in [Clones -> Locks] /\ lock'[Home[a]].id = q.id
      /\ \A c \in Clones \ {Home[a]} : lock'[c] = lock[c]
  BY <1>1, <1>3, <1>4 DEF Write, SetLock, Types
<1>6. RestTypes' /\ spoiled' = spoiled /\ used' = used
  BY <1>1 DEF Write, Types, RestTypes, repoVars
<1>7. ASSUME NEW b \in Agents \ {a}, Entered(proc[b]), Home[b] \notin spoiled
      PROVE  lock'[Home[b]].id = proc[b].id
  <2>1. lock[Home[b]].id = proc[b].id
    BY <1>1, <1>7 DEF LaneInv
  <2>2. proc[b].id # 0 /\ proc[b].id # proc[a].id
    BY <1>1, <1>7 DEF ShapeInv, Shaped, Entered, IdInv
  <2>3. Entered(proc[a])
    BY <1>1, <1>2 DEF Entered
  <2>4. Home[b] # Home[a] /\ Home[b] \in Clones
    BY <1>1, <1>7, <2>1, <2>2, <2>3, Constants DEF LaneInv
  <2> QED BY <1>5, <2>1, <2>4
<1> HIDE DEF q
<1> QED BY <1>1, <1>3, <1>5, <1>6, <1>7, LockStep

\* Whoever removes a lock that a running claim needs spoils the clone.
LEMMA RemovedLock ==
    ASSUME Inv, NEW a \in Agents, RemoveLock(a)
    PROVE  /\ lock' \in [Clones -> Locks] /\ spoiled' \subseteq Clones
           /\ \A b \in Agents \ {a} : Entered(proc[b]) /\ Home[b] \notin spoiled'
                                          => lock'[Home[b]].id = proc[b].id
<1>1. Types /\ ShapeInv /\ LaneInv /\ IdInv /\ Home[a] \in Clones
  BY Constants DEF Inv
<1>2. NoLock \in Locks
  BY DEF NoLock, Locks
<1>3. lock' \in [Clones -> Locks] /\ \A c \in Clones \ {Home[a]} : lock'[c] = lock[c]
  BY <1>1, <1>2 DEF RemoveLock, SetLock, Types
<1>4. spoiled' \subseteq Clones /\ spoiled \subseteq spoiled'
  BY <1>1 DEF RemoveLock, Types, RestTypes
<1>5. ASSUME NEW b \in Agents \ {a}, Entered(proc[b]), Home[b] \notin spoiled'
      PROVE  lock'[Home[b]].id = proc[b].id
  <2>1. lock[Home[b]].id = proc[b].id
    BY <1>1, <1>4, <1>5 DEF LaneInv
  <2>2. proc[b].id # 0 /\ proc[b].id # proc[a].id
    BY <1>1, <1>5 DEF ShapeInv, Shaped, Entered, IdInv
  <2>3. Home[b] # Home[a]
    <3> SUFFICES ASSUME Home[b] = Home[a] PROVE FALSE
      OBVIOUS
    <3>1. OwnerRuns(Lock(a)) /\ Lock(a).id # proc[a].id
      BY <2>1, <2>2 DEF OwnerRuns, Lock
    <3>2. Home[a] \in spoiled'
      BY <3>1 DEF RemoveLock
    <3> QED BY <1>5, <3>2
  <2> QED BY <1>3, <2>1, <2>3, Constants
<1> QED BY <1>3, <1>4, <1>5

LEMMA ClearStep ==
    ASSUME Inv, NEW a \in Agents, Clear(a)
    PROVE  Inv'
<1> DEFINE q == [proc[a] EXCEPT !.pc = "open"]
<1>1. /\ Types /\ ShapeInv /\ proc[a].pc = "clear" /\ RemoveLock(a)
      /\ proc' = [proc EXCEPT ![a] = q]
  BY DEF Inv, Clear, At, Goto
<1>2. proc[a] \in Procs /\ Shaped(proc[a]) /\ proc[a].kind = "claim"
  BY <1>1, RunningFacts DEF Shaped, ClaimPCs
<1>3. q \in Procs /\ Shaped(q) /\ q.id = proc[a].id /\ q.kind = "claim" /\ q.pc = "open"
  BY <1>1, <1>2, MovedRecord DEF PCs
<1>4. ~Entered(q)
  BY <1>3 DEF Entered
<1>5. RestTypes' /\ used' = used
  BY <1>1, RemovedLock DEF Clear, Types, RestTypes, repoVars
<1> HIDE DEF q
<1> QED BY <1>1, <1>3, <1>4, <1>5, RemovedLock, LockStep

LEMMA UnlinkStep ==
    ASSUME Inv, NEW a \in Agents, Unlink(a)
    PROVE  Inv'
<1>1. Types /\ RemoveLock(a) /\ proc' = [proc EXCEPT ![a] = Idle]
  BY DEF Inv, Unlink, Finishes, Ends
<1>2. /\ lock' \in [Clones -> Locks] /\ spoiled' \subseteq Clones
      /\ \A b \in Agents \ {a} : Entered(proc[b]) /\ Home[b] \notin spoiled'
                                     => lock'[Home[b]].id = proc[b].id
  BY <1>1, RemovedLock
<1>3. RestTypes' /\ used' = used
  BY <1>1, <1>2 DEF Unlink, Types, RestTypes, repoVars
<1> QED BY <1>1, <1>2, <1>3, IdleType, LockStep

\* The lock file stays as it is: it is looked at, shared, found stale, or left to another.
LEMMA LookStep ==
    ASSUME Inv, NEW a \in Agents,
           OpenExists(a) \/ LookShared(a) \/ LookStale(a) \/ LookRefused(a) \/ Unlock(a)
    PROVE  Inv'
<1>1. Types /\ ShapeInv /\ Home[a] \in Clones
  BY Constants DEF Inv
<1>2. CASE OpenExists(a) \/ LookStale(a)
  <2>1. PICK pc \in {"look", "clear"} : Goto(a, pc)
    BY <1>2 DEF OpenExists, LookStale
  <2>2. /\ proc[a].pc \in {"open", "look"} /\ spoiled' = spoiled /\ lock' = lock /\ used' = used
        /\ RestTypes'
    BY <1>1, <1>2 DEF OpenExists, LookStale, At, Types, RestTypes, repoVars, cloneVars
  <2>3. proc[a].kind = "claim" /\ pc \in PCs \ {"idle"}
    BY <1>1, <2>2 DEF ShapeInv, Shaped, ClaimPCs, PCs
  <2> QED BY <2>1, <2>2, <2>3, MoveStep
<1>3. CASE LookShared(a)
  <2>1. proc[a].pc = "look" /\ Goto(a, "branch") /\ spoiled' = spoiled \cup {Home[a]}
        /\ lock' = lock /\ used' = used
    BY <1>3 DEF LookShared, At
  <2>2. proc[a].kind = "claim"
    BY <1>1, <2>1 DEF ShapeInv, Shaped, ClaimPCs
  <2>3. RestTypes'
    BY <1>1, <1>3, <2>1 DEF LookShared, Types, RestTypes, repoVars
  <2>4. "branch" \in PCs \ {"idle"}
    BY DEF PCs
  <2> QED BY <2>1, <2>2, <2>3, <2>4, MoveStep
<1>4. CASE LookRefused(a)
  <2>1. proc[a].pc = "look" /\ Ends(a) /\ spoiled' = spoiled /\ lock' = lock /\ used' = used
    BY <1>4 DEF LookRefused, At, cloneVars
  <2>2. void' \subseteq Ids
    BY <1>1, <1>4, <2>1, RunningFacts DEF LookRefused, Voids, Types, RestTypes
  <2>3. RestTypes'
    BY <1>1, <1>4, <2>1, <2>2 DEF LookRefused, Types, RestTypes, repoVars, cloneVars
  <2> QED BY <2>1, <2>3, EndsStep
<1>5. CASE Unlock(a)
  <2>1. /\ proc[a].pc = "unlock" /\ spoiled' = spoiled /\ lock' = lock /\ used' = used
        /\ RestTypes'
    BY <1>1, <1>5 DEF Unlock, At, Types, RestTypes, repoVars
  <2>2. Goto(a, "unlink") \/ Ends(a)
    BY <1>5 DEF Unlock, Finishes
  <2>3. "unlink" \in PCs \ {"idle"} /\ "unlink" \notin ClaimPCs
    BY DEF PCs, ClaimPCs
  <2> QED BY <2>1, <2>2, <2>3, MoveStep, EndsStep
<1> QED BY <1>2, <1>3, <1>4, <1>5

LEMMA AcquireStep ==
    ASSUME Inv, NEW a \in Agents, Acquire(a)
    PROVE  Inv'
BY OpenStep, LookStep, ClearStep, WriteStep, UnlinkStep DEF Acquire

-----------------------------------------------------------------------------
(* The rest of a claim. *)

Fetcher(p, kind) == [p EXCEPT !.pc = "sweep", !.kind = kind, !.tries = 0, !.landed = FALSE]

LEMMA FetcherRecord ==
    ASSUME NEW p \in Procs, Shaped(p), p.pc # "idle", NEW kind \in Kinds
    PROVE  /\ Fetcher(p, kind) \in Procs /\ Shaped(Fetcher(p, kind))
           /\ Fetcher(p, kind).id = p.id
<1> DEFINE q == Fetcher(p, kind)
<1>1. "sweep" \in PCs /\ "sweep" \notin ClaimPCs /\ 0 \in 0 .. MaxAttempts - 1
  BY Constants DEF PCs, ClaimPCs
<1>2. q \in Procs /\ q.id = p.id /\ q.kind = kind /\ q.wu = p.wu /\ q.pc = "sweep"
  BY <1>1 DEF Procs, Fetcher
<1> HIDE DEF q
<1>3. Shaped(q)
  BY <1>1, <1>2 DEF Shaped
<1> QED BY <1>2, <1>3 DEF q

LEMMA FetchingStep ==
    ASSUME Inv, NEW a \in Agents, NEW kind \in Kinds, Fetching(a, kind),
           proc[a].pc \in ClaimPCs \ {"open", "look", "clear"},
           UNCHANGED <<repoVars, void, lock, local, remote, spoiled>>, SameCount
    PROVE  Inv'
<1>1. Types /\ ShapeInv /\ proc' = [proc EXCEPT ![a] = Fetcher(proc[a], kind)]
  BY DEF Inv, Fetching, Fetcher, Types
<1>2. proc[a] \in Procs /\ Shaped(proc[a]) /\ proc[a].pc # "idle" /\ proc[a].kind = "claim"
  BY <1>1 DEF Types, ShapeInv, Shaped, ClaimPCs
<1>3. /\ Fetcher(proc[a], kind) \in Procs /\ Shaped(Fetcher(proc[a], kind))
      /\ Fetcher(proc[a], kind).id = proc[a].id
  BY <1>2, FetcherRecord
<1>4. Entered(proc[a])
  BY <1>2 DEF Entered
<1>5. RestTypes' /\ lock' = lock /\ spoiled' = spoiled /\ used'.commands = used.commands
  BY <1>1 DEF Types, RestTypes, repoVars, SameCount
<1> QED BY <1>1, <1>3, <1>4, <1>5, RecordStep

LEMMA ClaimStep ==
    ASSUME Inv, NEW a \in Agents, Claim(a)
    PROVE  Inv'
<1>1. Types /\ ShapeInv /\ Home[a] \in Clones
  BY Constants DEF Inv
<1>2. CASE CheckBranches(a)
  <2>1. UNCHANGED used \/ Fault
    BY <1>2 DEF CheckBranches
  <2>2. SameCount
    BY <1>1, <2>1, CountKept
  <2> QED BY <1>2, <2>2, FetchingStep DEF CheckBranches, At, ClaimPCs, Kinds
<1>3. CASE ClaimFails(a)
  <2>1. UNCHANGED used \/ Fault
    BY <1>3 DEF ClaimFails, FaultUnless
  <2>2. SameCount
    BY <1>1, <2>1, CountKept
  <2> QED BY <1>3, <2>2, FetchingStep DEF ClaimFails, ClaimPCs, Kinds, cloneVars
<1>4. CASE ClaimRefused(a)
  <2>1. UNCHANGED used \/ Fault
    BY <1>4 DEF ClaimRefused, FaultUnless
  <2>2. SameCount
    BY <1>1, <2>1, CountKept
  <2>3. proc[a].pc = "branch" /\ Goto(a, "unlock") /\ spoiled' = spoiled
        /\ lock' = lock /\ used'.commands = used.commands
    BY <1>4, <2>2 DEF ClaimRefused, At, cloneVars, SameCount
  <2>4. void' \subseteq Ids
    BY <1>1, <1>4, <2>3, RunningFacts DEF ClaimRefused, Voids, Types, RestTypes
  <2>5. RestTypes'
    BY <1>1, <1>4, <2>2, <2>4 DEF ClaimRefused, Types, RestTypes, repoVars, cloneVars, SameCount
  <2>6. "unlock" \in PCs \ {"idle"} /\ "unlock" \notin ClaimPCs
    BY DEF PCs, ClaimPCs
  <2> QED BY <2>3, <2>5, <2>6, MoveStep
<1>5. CASE AddWorktree(a)
  <2>1. proc[a].pc = "worktree" /\ Goto(a, "branchpush") /\ spoiled' = spoiled
        /\ lock' = lock /\ used' = used
    BY <1>5 DEF AddWorktree, At
  <2>2. proc[a].kind = "claim" /\ proc[a].wu \in WUs /\ yaml[proc[a].wu] \in Docs
    BY <1>1, <2>1, RunningFacts DEF Shaped, ClaimPCs
  <2>3. local' \in [Clones -> [WUs -> Docs \cup {NoBranch}]]
    BY <1>1, <1>5, <2>2 DEF AddWorktree, Types, RestTypes
  <2>4. RestTypes'
    BY <1>1, <1>5, <2>3 DEF AddWorktree, Types, RestTypes, repoVars
  <2>5. "branchpush" \in PCs \ {"idle"}
    BY DEF PCs
  <2> QED BY <2>1, <2>2, <2>4, <2>5, MoveStep
<1>6. CASE PushBranch(a)
  <2>1. proc[a].pc = "branchpush" /\ Goto(a, "setup") /\ spoiled' = spoiled
        /\ lock' = lock /\ used' = used
    BY <1>6 DEF PushBranch, At
  <2>2. proc[a].kind = "claim" /\ proc[a].wu \in WUs
    BY <1>1, <2>1, RunningFacts DEF Shaped, ClaimPCs
  <2>3. RestTypes'
    BY <1>1, <1>6, <2>2 DEF PushBranch, Types, RestTypes, repoVars
  <2>4. "setup" \in PCs \ {"idle"}
    BY DEF PCs
  <2> QED BY <2>1, <2>2, <2>3, <2>4, MoveStep
<1>7. CASE ClaimMade(a)
  <2>1. RestTypes' /\ lock' = lock /\ spoiled' = spoiled /\ used' = used /\ Ends(a)
    BY <1>1, <1>7 DEF ClaimMade, Types, RestTypes, repoVars, cloneVars
  <2> QED BY <2>1, EndsStep
<1> QED BY <1>2, <1>3, <1>4, <1>5, <1>6, <1>7 DEF Claim

LEMMA PublishStep ==
    ASSUME Inv, NEW a \in Agents, Publish(a)
    PROVE  Inv'
<1>1. UNCHANGED cloneVars /\ (UNCHANGED used \/ Fault)
  BY DEF Publish, FaultUnless
<1>2. SameCount
  BY <1>1, CountKept DEF Inv
<1> QED BY <1>1, <1>2, ExecuteStep, TempStep, FailingSteps, PushStep, PushFailsStep,
           UnansweredStep, RebaseStep DEF Publish

-----------------------------------------------------------------------------
(* Commands start; faults. *)

NewCommand ==
    /\ used.commands < MaxCommands
    /\ used' \in [commands : 0 .. MaxCommands, faults : Nat]
    /\ used'.commands = used.commands + 1

LEMMA CommandCounted ==
    ASSUME Types, NEW a \in Agents, Starts(a) \/ OverrideOwner(a)
    PROVE  NewCommand
<1>1. used \in [commands : 0 .. MaxCommands, faults : Nat] /\ used.commands < MaxCommands
  BY DEF Types, RestTypes, Starts, OverrideOwner, MayStart
<1>2. used.commands + 1 \in 0 .. MaxCommands /\ used.faults + 1 \in Nat
  BY <1>1, Constants
<1>3. \/ used' = [used EXCEPT !.commands = used.commands + 1]
      \/ used' = [used EXCEPT !.commands = used.commands + 1, !.faults = used.faults + 1]
  BY DEF Starts, OverrideOwner
<1> QED BY <1>1, <1>2, <1>3 DEF NewCommand

LEMMA StartedTypes ==
    ASSUME Types, NewCommand, UNCHANGED <<repoVars, void, lock, local, remote, spoiled>>
    PROVE  RestTypes' /\ lock' = lock /\ spoiled' = spoiled
BY DEF Types, RestTypes, repoVars, NewCommand

LEMMA StartClaimStep ==
    ASSUME Inv, NEW a \in Agents, StartClaim(a)
    PROVE  Inv'
<1>1. Types /\ Starts(a) /\ UNCHANGED <<repoVars, void, lock, local, remote, spoiled>>
  BY DEF Inv, StartClaim, cloneVars
<1>2. NewCommand /\ RestTypes' /\ lock' = lock /\ spoiled' = spoiled
  BY <1>1, CommandCounted, StartedTypes
<1>3. PICK w \in WUs, pc \in {"open", "clear"} :
          proc' = [proc EXCEPT ![a] = Command(w, "claim", pc)]
  BY DEF StartClaim
<1>4. "claim" \in Kinds /\ pc \in PCs \ {"idle"} /\ used.commands < MaxCommands
  BY <1>2, <1>3 DEF Kinds, PCs, NewCommand
<1>5. /\ Command(w, "claim", pc) \in Procs /\ Shaped(Command(w, "claim", pc))
      /\ Command(w, "claim", pc).id = used.commands + 1
      /\ Command(w, "claim", pc).kind = "claim" /\ Command(w, "claim", pc).pc = pc
  BY <1>1, <1>4, CommandType
<1>6. ~Entered(Command(w, "claim", pc)) /\ used'.commands = used.commands + 1
  BY <1>2, <1>3, <1>5 DEF Entered, NewCommand
<1> QED BY <1>2, <1>3, <1>5, <1>6, StartStep

\* wu:block, wu:unblock and wu:release start, as the owner or in spite of one.
LEMMA EditStarts ==
    ASSUME Types, NEW a \in Agents, StartEdit(a) \/ OverrideOwner(a)
    PROVE  /\ NewCommand /\ UNCHANGED <<repoVars, void, lock, local, remote, spoiled>>
           /\ \E w \in WUs, kind \in {"block", "unblock", "release"} :
                 proc' = [proc EXCEPT ![a] = Command(w, kind, "sweep")]
<1>1. NewCommand
  BY CommandCounted DEF StartEdit
<1>2. Edits(a, TRUE) \/ Edits(a, FALSE)
  BY DEF StartEdit, OverrideOwner
<1> QED BY <1>1, <1>2 DEF Edits

LEMMA StartEditStep ==
    ASSUME Inv, NEW a \in Agents, StartEdit(a) \/ OverrideOwner(a)
    PROVE  Inv'
<1>1. Types /\ NewCommand /\ RestTypes' /\ lock' = lock /\ spoiled' = spoiled
  BY EditStarts, StartedTypes DEF Inv
<1>2. PICK w \in WUs, kind \in {"block", "unblock", "release"} :
          proc' = [proc EXCEPT ![a] = Command(w, kind, "sweep")]
  BY <1>1, EditStarts
<1>3. /\ kind \in Kinds /\ "sweep" \in PCs \ {"idle"} /\ "sweep" \notin ClaimPCs
      /\ used.commands < MaxCommands
  BY <1>1 DEF Kinds, PCs, ClaimPCs, NewCommand
<1>4. PICK q : q = Command(w, kind, "sweep")
  OBVIOUS
<1>5. q \in Procs /\ Shaped(q) /\ q.id = used.commands + 1 /\ q.kind = kind
  BY <1>1, <1>3, <1>4, CommandType
<1>6. ~Entered(q) /\ used'.commands = used.commands + 1
  BY <1>1, <1>2, <1>5 DEF Entered, NewCommand
<1>7. proc' = [proc EXCEPT ![a] = q]
  BY <1>2, <1>4, Zenon
<1> QED BY <1>1, <1>5, <1>6, <1>7, StartStep

LEMMA StartDoneStep ==
    ASSUME Inv, NEW a \in Agents, StartDone(a)
    PROVE  Inv'
<1>1. /\ Types /\ Starts(a) /\ UNCHANGED <<repoVars, void, lock, local, remote, spoiled>>
      /\ Home[a] \in Clones
  BY Constants DEF Inv, StartDone, cloneVars
<1>2. /\ RestTypes' /\ lock' = lock /\ spoiled' = spoiled
      /\ used.commands < MaxCommands /\ used'.commands = used.commands + 1
  BY <1>1, CommandCounted, StartedTypes DEF NewCommand
<1>3. PICK w \in WUs :
          /\ local[Home[a]][w] # NoBranch
          /\ proc' = [proc EXCEPT ![a] =
                        [Command(w, "complete", "rebase") EXCEPT
                            !.base = local[Home[a]][w],
                            !.mine = Edited("complete", local[Home[a]][w],
                                            Command(w, "complete", "rebase").id)]]
  BY DEF StartDone
<1> DEFINE p == Command(w, "complete", "rebase")
           doc == local[Home[a]][w]
           q == [p EXCEPT !.base = doc, !.mine = Edited("complete", doc, p.id)]
<1>4. "complete" \in Kinds /\ "rebase" \in PCs \ {"idle"} /\ "rebase" \notin ClaimPCs
  BY DEF Kinds, PCs, ClaimPCs
<1>5. /\ p \in Procs /\ Shaped(p) /\ p.id = used.commands + 1 /\ p.wu = w
      /\ p.kind = "complete" /\ p.pc = "rebase"
  BY <1>1, <1>2, <1>4, CommandType
<1>6. doc \in Docs
  BY <1>1, <1>3 DEF Types, RestTypes
<1>7. p.id \in Ids
  BY <1>5 DEF Procs, Shaped
<1>8. Edited("complete", doc, p.id) \in Docs
  BY <1>4, <1>6, <1>7, EditedType
<1>9. proc' = [proc EXCEPT ![a] = q]
  BY <1>3
<1> HIDE DEF p, doc
<1>10. q \in Procs /\ q.id = p.id /\ q.kind = p.kind /\ q.pc = p.pc /\ q.wu = p.wu
  BY <1>5, <1>6, <1>8 DEF Procs
<1> HIDE DEF q
<1>11. Shaped(q) /\ ~Entered(q)
  BY <1>5, <1>10 DEF Shaped, Entered
<1> QED BY <1>2, <1>5, <1>9, <1>10, <1>11, StartStep

LEMMA FaultStep ==
    ASSUME Inv, Fault, UNCHANGED <<repoVars, proc, void, spoiled>>,
           lock' \in [Clones -> Locks], \A c \in Clones : lock'[c].id = lock[c].id,
           local' \in [Clones -> [WUs -> Docs \cup {NoBranch}]], remote' \subseteq WUs
    PROVE  Inv'
<1>1. Types /\ ShapeInv /\ IdInv /\ LaneInv
  BY DEF Inv
<1>2. /\ used' \in [commands : 0 .. MaxCommands, faults : Nat]
      /\ used'.commands = used.commands
  BY <1>1 DEF Fault, Types, RestTypes
<1>3. Types'
  BY <1>1, <1>2 DEF Types, RestTypes, repoVars
<1>4. ShapeInv' /\ IdInv'
  BY <1>1, <1>2 DEF ShapeInv, IdInv
<1>5. LaneInv'
  BY <1>1, Constants DEF LaneInv
<1> QED BY <1>3, <1>4, <1>5 DEF Inv

LEMMA AgeStep ==
    ASSUME Inv, NEW c \in Clones, Age(c)
    PROVE  Inv'
<1>1. Types /\ lock' = [lock EXCEPT ![c].old = TRUE] /\ Fault
  BY DEF Inv, Age
<1>2. lock' \in [Clones -> Locks] /\ \A d \in Clones : lock'[d].id = lock[d].id
  BY <1>1 DEF Types, Locks
<1>3. UNCHANGED <<repoVars, proc, void, spoiled, local, remote>>
  BY DEF Age
<1>4. local' \in [Clones -> [WUs -> Docs \cup {NoBranch}]] /\ remote' \subseteq WUs
  BY <1>1, <1>3 DEF Types, RestTypes
<1> QED BY <1>1, <1>2, <1>3, <1>4, FaultStep

LEMMA DeleteBranchStep ==
    ASSUME Inv, NEW c \in Clones, NEW w \in WUs, DeleteBranch(c, w)
    PROVE  Inv'
<1>1. Types /\ Fault /\ UNCHANGED <<repoVars, proc, void, lock, spoiled>>
  BY DEF Inv, DeleteBranch
<1>2. local' \in [Clones -> [WUs -> Docs \cup {NoBranch}]] /\ remote' \subseteq WUs
  BY <1>1 DEF DeleteBranch, Types, RestTypes
<1>3. lock' \in [Clones -> Locks] /\ \A d \in Clones : lock'[d].id = lock[d].id
  BY <1>1 DEF Types
<1> QED BY <1>1, <1>2, <1>3, FaultStep

LEMMA CrashStep ==
    ASSUME Inv, NEW a \in Agents, Crash(a)
    PROVE  Inv'
<1>1. Types /\ Fault /\ Ends(a) /\ UNCHANGED <<repoVars, void, cloneVars>>
  BY DEF Inv, Crash
<1>2. /\ used' \in [commands : 0 .. MaxCommands, faults : Nat]
      /\ used'.commands = used.commands
  BY <1>1 DEF Fault, Types, RestTypes
<1>3. RestTypes' /\ lock' = lock /\ spoiled' = spoiled
  BY <1>1, <1>2 DEF Types, RestTypes, repoVars, cloneVars
<1> QED BY <1>1, <1>2, <1>3, EndsStep

-----------------------------------------------------------------------------
(* The theorems. *)

LEMMA InitInv == Init => Inv
<1> SUFFICES ASSUME Init PROVE Inv
  OBVIOUS
<1>1. RestTypes /\ spoiled = {}
  <2>1. <<>> \in Seq([wu : WUs, kind : Kinds]) /\ 0 \in 0 .. MaxCommands
    BY Constants
  <2> QED BY <2>1, IdleType DEF Init, RestTypes
<1>2. lock \in [Clones -> Locks]
  BY DEF Init, NoLock, Locks
<1>3. proc \in [Agents -> Procs] /\ \A a \in Agents : proc[a] = Idle
  BY IdleType DEF Init
<1>4. ShapeInv /\ LaneInv
  BY <1>3, IdleType DEF ShapeInv, LaneInv
<1>5. IdInv
  BY <1>3, IdleType DEF IdInv, Init
<1> QED BY <1>1, <1>2, <1>3, <1>4, <1>5 DEF Inv, Types

LEMMA NextInv == Inv /\ [Next]_vars => Inv'
<1> SUFFICES ASSUME Inv, [Next]_vars PROVE Inv'
  OBVIOUS
<1>1. CASE Next
  <2>1. ASSUME NEW a \in Agents,
               Step(a) \/ StartClaim(a) \/ StartEdit(a) \/ OverrideOwner(a) \/ StartDone(a)
                   \/ Crash(a)
        PROVE  Inv'
    BY <2>1, PublishStep, AcquireStep, ClaimStep, StartClaimStep, StartEditStep,
       StartDoneStep, CrashStep DEF Step
  <2>2. ASSUME NEW c \in Clones, Age(c) \/ \E w \in WUs : DeleteBranch(c, w)
        PROVE  Inv'
    BY <2>2, AgeStep, DeleteBranchStep
  <2> QED BY <1>1, <2>1, <2>2 DEF Next
<1>2. CASE UNCHANGED vars
  BY <1>2 DEF vars, repoVars, cloneVars, Inv, Types, RestTypes, ShapeInv, IdInv, LaneInv
<1> QED BY <1>1, <1>2

\* The inductive invariant: types, the command numbers and what the lock files hold.
THEOREM UnitsInv == Spec => []Inv
BY InitInv, NextInv, PTL DEF Spec

\* The variables of the work units keep their types.
THEOREM UnitTypes == Spec => []TypeOK
<1>1. Inv => TypeOK
  <2> SUFFICES ASSUME Inv PROVE TypeOK
    OBVIOUS
  <2>1. Types
    BY DEF Inv
  <2>2. \A w \in WUs : yaml[w].status \in DOMAIN Lifecycle!Transitions
    BY <2>1 DEF Types, RestTypes, Docs, Statuses, Lifecycle!Transitions
  <2>3. \A a \in Agents : /\ proc[a].id \in 0 .. MaxCommands
                          /\ proc[a].tries \in 0 .. MaxAttempts - 1
    <3> TAKE a \in Agents
    <3>1. /\ proc[a].id \in Ids \cup {0}
          /\ proc[a].tries \in 0 .. MaxAttempts - 1
      BY <2>1 DEF Types, Procs
    <3> QED BY <3>1, Constants DEF Ids
  <2> QED BY <2>1, <2>2, <2>3 DEF Types, RestTypes, TypeOK
<1> QED BY <1>1, UnitsInv, PTL

\* Two claims are never in the lane of one clone at once, as long as no lock there was
\* shared or removed under its owner: for any number of agents, clones, units and faults.
THEOREM OneClaimPerLane == Spec => []LaneExclusive
<1>1. Inv => LaneExclusive
  <2> SUFFICES ASSUME Inv, NEW a \in Agents, NEW b \in Agents, a # b, Home[a] = Home[b],
                      Home[a] \notin spoiled, InLane(a), InLane(b)
               PROVE  FALSE
    BY DEF LaneExclusive
  <2>1. LaneInv /\ IdInv /\ ShapeInv
    BY DEF Inv
  <2>2. proc[a].id = proc[b].id
    BY <2>1 DEF InLane, Entered, LaneInv
  <2>3. proc[a].id # 0
    BY <2>1 DEF InLane, ShapeInv, Shaped
  <2> QED BY <2>1, <2>2, <2>3 DEF IdInv
<1> QED BY <1>1, UnitsInv, PTL

-----------------------------------------------------------------------------
(* A failed claim leaves nothing, and claims of a unit alternate. *)

\* The commit is not in main yet.
Publishing(p) == p.pc \in {"branchoff", "push", "rebase"} /\ ~p.landed

\* There is no commit yet.
Early == {"open", "look", "clear", "write", "branch", "sweep", "fetch"}

\* A claim whose change is not in main yet.
Unlanded(p) ==
    p.kind = "claim" /\ (p.pc \in Early \/ Publishing(p))

Absent(p) == \A w \in WUs : yaml[w].claimedAt # p.id

\* A claim of the unit is in main and nothing after it took the unit out of in_progress.
Held(w) ==
    \E i \in DOMAIN log :
        /\ log[i].wu = w /\ log[i].kind = "claim"
        /\ \A j \in DOMAIN log : (i < j /\ log[j].wu = w) => log[j].kind \notin LeavesProgress

\* The commit against its base, and the base against main.
Change(p) ==
    /\ p.kind \notin {"claim", "rollback"} => p.mine.claimedAt = p.base.claimedAt
    /\ p.kind = "claim" => p.mine.claimedAt = p.id /\ p.base.claimedAt # p.id
    /\ p.kind = "rollback" => /\ p.mine.claimedAt # p.id
                              /\ p.mine.claimedAt \in {0, p.base.claimedAt}
                              /\ p.base.claimedAt # p.id => Absent(p)

OwnUnit(p) == p.id # 0 => \A w \in WUs : w # p.wu => yaml[w].claimedAt # p.id

Based(p) ==
    p.pc \in {"branchoff", "push"} =>
        p.at <= Len(log) /\ (p.at = Len(log) /\ ~p.landed => p.base = yaml[p.wu])

\* While main's claim of the unit is the one the commit is based on, the unit is free.
FreeUnit(p) ==
    (p.kind = "claim" /\ Publishing(p) /\ yaml[p.wu].claimedAt = p.base.claimedAt) => ~Held(p.wu)

Sound(p) ==
    /\ p.landed => p.pc \in {"push", "rebase"}
    /\ Unlanded(p) => Absent(p)
    /\ p.landed /\ p.kind = "rollback" => Absent(p)
    /\ OwnUnit(p)
    /\ Based(p)
    /\ Publishing(p) => Change(p)
    /\ FreeUnit(p)

SoundInv == \A a \in Agents : Sound(proc[a])

\* A claim that counts as failed has only its lock left to release.
VoidInv == \A a \in Agents : proc[a].id \in void => proc[a].pc \in {"unlock", "unlink"}

Basing(p) == p.kind = "claim" /\ Publishing(p)

\* No claim is based on a claim that is not in main.
BaseInv ==
    \A a, b \in Agents :
        Unlanded(proc[a]) /\ Basing(proc[b]) => proc[b].base.claimedAt # proc[a].id

\* The number of a command to come is nowhere.
FreshInv ==
    /\ \A w \in WUs : yaml[w].claimedAt <= used.commands
    /\ \A v \in void : v <= used.commands
    /\ \A a \in Agents : Basing(proc[a]) => proc[a].base.claimedAt <= used.commands

EventsOf(w) == {i \in DOMAIN log : log[i].wu = w}

\* A unit with events has a last one.
LastInv == \A w \in WUs : EventsOf(w) # {} => \E m \in EventsOf(w) : \A i \in EventsOf(w) : m >= i

ClaimInv ==
    /\ SoundInv /\ VoidInv /\ BaseInv /\ FreshInv /\ LastInv
    /\ ClaimsAlternate /\ FailedLeavesNothing

-----------------------------------------------------------------------------
LEMMA ElementOfSeq == ASSUME NEW S, NEW s \in Seq(S), NEW i \in DOMAIN s PROVE s[i] \in S
OBVIOUS

\* A unit that a replay does not find in_progress is free.
LEMMA NotInProgressIsFree ==
    ASSUME Types, LastInv, NEW w \in WUs, StatusIn(log, w) # "in_progress"
    PROVE  ~Held(w)
<1> SUFFICES ASSUME Held(w) PROVE FALSE
  OBVIOUS
<1>1. PICK i \in DOMAIN log :
          /\ log[i].wu = w /\ log[i].kind = "claim"
          /\ \A j \in DOMAIN log : (i < j /\ log[j].wu = w) => log[j].kind \notin LeavesProgress
  BY DEF Held
<1>2. log \in Seq([wu : WUs, kind : Kinds]) /\ DOMAIN log = 1 .. Len(log) /\ Len(log) \in Nat
  BY DEF Types, RestTypes
<1> DEFINE m == Max(EventsOf(w))
<1>3. i \in EventsOf(w)
  BY <1>1 DEF EventsOf
<1>4. m \in EventsOf(w) /\ \A j \in EventsOf(w) : m >= j
  <2>1. PICK n \in EventsOf(w) : \A j \in EventsOf(w) : n >= j
    BY <1>3 DEF LastInv
  <2> QED BY <2>1, Zenon DEF Max
<1>5. m \in DOMAIN log /\ log[m].wu = w /\ m >= i
  BY <1>3, <1>4 DEF EventsOf
<1> HIDE DEF m
<1>6. log[m].kind \in Kinds
  <2>1. log[m] \in [wu : WUs, kind : Kinds]
    BY <1>2, <1>5, ElementOfSeq
  <2> QED BY <2>1
<1>7. log[m].kind \in {"claim", "unblock"}
  <2>1. CASE m = i
    BY <1>1, <2>1
  <2>2. CASE m # i
    <3>1. i < m
      BY <1>2, <1>5, <2>2
    <3> QED BY <1>1, <1>5, <1>6, <3>1 DEF LeavesProgress, Kinds
  <2> QED BY <2>1, <2>2
<1>8. Target[log[m].kind] = "in_progress"
  BY <1>7 DEF Target, Kinds
<1>9. StatusIn(log, w) = Target[log[m].kind]
  BY <1>3 DEF StatusIn, EventsOf, m
<1> QED BY <1>8, <1>9

\* Nothing reaches main: one command goes on, ends or starts.
LEMMA QuietStep ==
    ASSUME Inv, ClaimInv, Inv', NEW a \in Agents, NEW q \in Procs,
           proc' = [proc EXCEPT ![a] = q], UNCHANGED <<log, yaml>>,
           used.commands <= used'.commands,
           q.id \in {0, proc[a].id} \/ (q.id = used.commands + 1 /\ used'.commands = q.id),
           void' = void \/ (void' = void \cup {proc[a].id} /\ Absent(proc[a])),
           q.id \in void' => q.pc \in {"unlock", "unlink"},
           Sound(q),
           Unlanded(q) => (Unlanded(proc[a]) /\ q.id = proc[a].id) \/ q.id = used.commands + 1,
           Basing(q) => \/ Basing(proc[a]) /\ q.base = proc[a].base
                        \/ q.wu \in WUs /\ q.base.claimedAt = yaml[q.wu].claimedAt
    PROVE  ClaimInv'
<1>1. /\ Types /\ ShapeInv /\ IdInv /\ Types' /\ IdInv' /\ ShapeInv'
      /\ SoundInv /\ VoidInv /\ BaseInv /\ FreshInv /\ LastInv
      /\ ClaimsAlternate /\ FailedLeavesNothing
  BY DEF Inv, ClaimInv
<1>2. proc'[a] = q /\ (\A b \in Agents : b # a => proc'[b] = proc[b]) /\ log' = log /\ yaml' = yaml
  BY <1>1 DEF Types, repoVars
<1>3. SoundInv'
  <2>1. \A b \in Agents : Sound(proc'[b])
    BY <1>1, <1>2 DEF SoundInv
  <2> QED BY <1>2, <2>1 DEF SoundInv, Sound, Absent, OwnUnit, Based, Change, FreeUnit, Held,
                            Publishing, Unlanded
<1>4. LastInv' /\ ClaimsAlternate'
  BY <1>1, <1>2 DEF LastInv, EventsOf, ClaimsAlternate
<1>5. FailedLeavesNothing'
  BY <1>1, <1>2 DEF FailedLeavesNothing, Absent
<1>6. VoidInv'
  <2> SUFFICES ASSUME NEW b \in Agents, proc'[b].id \in void' PROVE proc'[b].pc \in {"unlock", "unlink"}
    BY DEF VoidInv
  <2>1. CASE b = a
    BY <1>2, <2>1
  <2>2. CASE b # a
    <3>1. proc'[b] = proc[b] /\ proc[b].id # 0
      <4>1. void' \subseteq Ids
        BY <1>1 DEF Types, RestTypes
      <4> QED BY <1>2, <2>2, <4>1, Constants
    <3>2. proc[b].id # proc[a].id
      BY <1>1, <2>2, <3>1 DEF IdInv
    <3>3. proc[b].id \in void
      BY <3>1, <3>2
    <3> QED BY <1>1, <3>1, <3>3 DEF VoidInv
  <2> QED BY <2>1, <2>2
<1>7. used.commands \in Nat /\ used'.commands \in Nat /\ \A b \in Agents : proc[b] \in Procs
  BY <1>1, Constants DEF Types, RestTypes
<1>8. \A w \in WUs : yaml[w] \in Docs /\ yaml[w].claimedAt \in Nat /\ yaml[w].claimedAt <= used.commands
  BY <1>1 DEF Types, RestTypes, Docs, FreshInv
<1>9. \A b \in Agents : /\ proc[b].base.claimedAt \in Nat /\ proc[b].id \in Nat
                        /\ proc[b].id <= used.commands
  BY <1>1, <1>7, IdIsNat DEF Procs, Docs, IdInv
<1>10. \A b \in Agents : Basing(proc'[b]) =>
           proc'[b].base.claimedAt \in Nat /\ proc'[b].base.claimedAt <= used.commands
  <2> SUFFICES ASSUME NEW b \in Agents, Basing(proc'[b])
               PROVE  proc'[b].base.claimedAt \in Nat /\ proc'[b].base.claimedAt <= used.commands
    OBVIOUS
  <2>1. CASE b # a
    BY <1>1, <1>2, <1>9, <2>1 DEF FreshInv
  <2>2. CASE b = a
    BY <1>1, <1>2, <1>8, <1>9, <2>2 DEF FreshInv
  <2> QED BY <2>1, <2>2
<1>11. FreshInv'
  <2>1. \A w \in WUs : yaml'[w].claimedAt <= used'.commands
    BY <1>2, <1>7, <1>8
  <2>2. \A v \in void' : v <= used'.commands
    <3>1. void \subseteq Nat
      BY <1>1, Constants DEF Types, RestTypes
    <3>2. \A v \in void : v <= used'.commands
      BY <1>1, <1>7, <3>1 DEF FreshInv
    <3>3. proc[a].id <= used'.commands
      BY <1>7, <1>9
    <3> QED BY <3>2, <3>3
  <2>3. \A b \in Agents : Basing(proc'[b]) => proc'[b].base.claimedAt <= used'.commands
    BY <1>7, <1>10
  <2> QED BY <2>1, <2>2, <2>3 DEF FreshInv, Basing, Publishing
<1>12. BaseInv'
  <2> SUFFICES ASSUME NEW b \in Agents, NEW c \in Agents, Unlanded(proc'[b]), Basing(proc'[c])
               PROVE  proc'[c].base.claimedAt # proc'[b].id
    BY DEF BaseInv, Unlanded, Basing, Publishing
  <2>1. CASE proc'[b].id = used.commands + 1
    BY <1>7, <1>10, <2>1
  <2>2. CASE proc'[b].id # used.commands + 1
    <3>1. Unlanded(proc[b]) /\ proc'[b].id = proc[b].id
      BY <1>2, <2>2
    <3>2. CASE Basing(proc[c]) /\ proc'[c].base = proc[c].base
      BY <1>1, <3>1, <3>2 DEF BaseInv
    <3>3. CASE q.wu \in WUs /\ q.base.claimedAt = yaml[q.wu].claimedAt /\ proc'[c] = q
      BY <1>1, <3>1, <3>3 DEF SoundInv, Sound, Absent
    <3> QED BY <1>2, <3>2, <3>3
  <2> QED BY <2>1, <2>2
<1> QED BY <1>3, <1>4, <1>5, <1>6, <1>11, <1>12 DEF ClaimInv

\* Nothing of main or of the commands changes.
LEMMA StillStep ==
    ASSUME ClaimInv, UNCHANGED <<log, yaml, proc, void>>, used'.commands = used.commands
    PROVE  ClaimInv'
BY DEF ClaimInv, SoundInv, Sound, Absent, OwnUnit, Based, Change, FreeUnit, Held, Publishing,
       Unlanded, VoidInv, BaseInv, Basing, FreshInv, LastInv, EventsOf, ClaimsAlternate,
       FailedLeavesNothing, repoVars

LEMMA AppendedLog ==
    ASSUME Types, NEW e \in [wu : WUs, kind : Kinds], log' = Append(log, e)
    PROVE  /\ DOMAIN log' = 1 .. Len(log) + 1 /\ log'[Len(log) + 1] = e /\ Len(log) + 1 \in Nat
           /\ Len(log') = Len(log) + 1
           /\ \A j \in DOMAIN log : j \in DOMAIN log' /\ log'[j] = log[j]
<1> DEFINE Events == [wu : WUs, kind : Kinds]
<1>1. log \in Seq(Events) /\ e \in Events
  BY DEF Types, RestTypes
<1> HIDE DEF Events
<1> QED BY <1>1

\* What an event appended to main makes of a unit's claim.
LEMMA HeldAfter ==
    ASSUME Types, NEW e \in [wu : WUs, kind : Kinds], log' = Append(log, e), NEW w \in WUs, Held(w)'
    PROVE  /\ ~(e.wu = w /\ e.kind \in LeavesProgress)
           /\ Held(w) \/ (e.wu = w /\ e.kind = "claim")
<1>1. Len(log) \in Nat /\ DOMAIN log = 1 .. Len(log)
  BY DEF Types, RestTypes
<1>2. PICK i \in DOMAIN log' :
          /\ log'[i].wu = w /\ log'[i].kind = "claim"
          /\ \A j \in DOMAIN log' : (i < j /\ log'[j].wu = w) => log'[j].kind \notin LeavesProgress
  BY DEF Held
<1> DEFINE n == Len(log) + 1
<1>3. /\ DOMAIN log' = 1 .. n /\ log'[n] = e /\ n \in Nat
      /\ \A j \in DOMAIN log : j \in DOMAIN log' /\ log'[j] = log[j]
  BY AppendedLog
<1>4. ~(e.wu = w /\ e.kind \in LeavesProgress)
  <2> SUFFICES ASSUME e.wu = w, e.kind \in LeavesProgress PROVE FALSE
    OBVIOUS
  <2>1. i # n
    BY <1>2, <1>3 DEF LeavesProgress
  <2>2. i < n /\ n \in DOMAIN log'
    BY <1>1, <1>2, <1>3, <2>1
  <2> QED BY <1>2, <1>3, <2>2
<1>5. CASE i = n
  BY <1>2, <1>3, <1>4, <1>5
<1>6. CASE i # n
  <2>1. i \in DOMAIN log
    BY <1>1, <1>2, <1>3, <1>6
  <2> QED BY <1>2, <1>3, <1>4, <2>1 DEF Held
<1> QED BY <1>4, <1>5, <1>6

LEMMA LastAfter ==
    ASSUME Types, LastInv, NEW e \in [wu : WUs, kind : Kinds], log' = Append(log, e)
    PROVE  LastInv'
<1>1. Len(log) \in Nat /\ DOMAIN log = 1 .. Len(log)
  BY DEF Types, RestTypes
<1> DEFINE n == Len(log) + 1
<1>2. /\ DOMAIN log' = 1 .. n /\ log'[n] = e /\ n \in Nat
      /\ \A j \in DOMAIN log : j \in DOMAIN log' /\ log'[j] = log[j]
  BY AppendedLog
<1> SUFFICES ASSUME NEW w \in WUs, EventsOf(w)' # {}
             PROVE  \E m \in EventsOf(w)' : \A i \in EventsOf(w)' : m >= i
  BY DEF LastInv
<1>3. EventsOf(w)' \subseteq 1 .. n
  BY <1>2 DEF EventsOf
<1>4. CASE e.wu = w
  <2>1. n \in EventsOf(w)'
    BY <1>1, <1>2, <1>4 DEF EventsOf
  <2>2. \A i \in EventsOf(w)' : n >= i
    BY <1>2, <1>3
  <2> QED BY <2>1, <2>2
<1>5. CASE e.wu # w
  <2>1. EventsOf(w)' = EventsOf(w)
    BY <1>1, <1>2, <1>5 DEF EventsOf
  <2> QED BY <2>1 DEF LastInv
<1> QED BY <1>4, <1>5

LEMMA AlternateAfter ==
    ASSUME Types, ClaimsAlternate, NEW e \in [wu : WUs, kind : Kinds], log' = Append(log, e),
           e.kind = "claim" => ~Held(e.wu)
    PROVE  ClaimsAlternate'
<1>1. Len(log) \in Nat /\ DOMAIN log = 1 .. Len(log)
  BY DEF Types, RestTypes
<1> DEFINE n == Len(log) + 1
<1>2. /\ DOMAIN log' = 1 .. n /\ log'[n] = e /\ n \in Nat
      /\ \A j \in DOMAIN log : j \in DOMAIN log' /\ log'[j] = log[j]
  BY AppendedLog
<1> SUFFICES ASSUME NEW i \in DOMAIN log', NEW j \in DOMAIN log', i < j, log'[i].kind = "claim",
                    log'[j].kind = "claim", log'[i].wu = log'[j].wu
             PROVE  \E k \in i .. j : log'[k].wu = log'[i].wu /\ log'[k].kind \in LeavesProgress
  BY DEF ClaimsAlternate
<1>3. i \in DOMAIN log /\ log'[i] = log[i]
  <2>1. i \in 1 .. n /\ j \in 1 .. n
    BY <1>2
  <2>2. i \in 1 .. Len(log)
    BY <1>1, <2>1
  <2> QED BY <1>1, <1>2, <2>2
<1>4. CASE j = n
  <2>1. ~Held(log[i].wu)
    BY <1>2, <1>3, <1>4
  <2>2. PICK k \in DOMAIN log : i < k /\ log[k].wu = log[i].wu /\ log[k].kind \in LeavesProgress
    BY <1>3, <2>1 DEF Held
  <2>3. k \in i .. j /\ log'[k] = log[k]
    BY <1>1, <1>2, <1>3, <1>4, <2>2
  <2> QED BY <1>3, <2>2, <2>3
<1>5. CASE j # n
  <2>1. j \in DOMAIN log /\ log'[j] = log[j]
    BY <1>1, <1>2, <1>5
  <2>2. PICK k \in i .. j : log[k].wu = log[i].wu /\ log[k].kind \in LeavesProgress
    BY <1>3, <2>1 DEF ClaimsAlternate
  <2>3. k \in DOMAIN log
    BY <1>1, <1>3, <2>1
  <2> QED BY <1>2, <1>3, <2>2, <2>3
<1> QED BY <1>4, <1>5

\* What a commit that lands does to main: it can only make or drop its own unit's claim.
LEMMA LandedMain ==
    ASSUME Inv, ClaimInv, NEW a \in Agents, proc[a].pc = "push", proc[a].at = Len(log),
           ~proc[a].landed, Lands(proc[a])
    PROVE  /\ proc[a].wu \in WUs /\ proc[a].kind \in Kinds
           /\ log' = Append(log, [wu |-> proc[a].wu, kind |-> proc[a].kind])
           /\ [wu |-> proc[a].wu, kind |-> proc[a].kind] \in [wu : WUs, kind : Kinds]
           /\ \A w \in WUs :
                 /\ w # proc[a].wu => yaml'[w].claimedAt = yaml[w].claimedAt
                 /\ yaml'[w].claimedAt \in {yaml[w].claimedAt, 0, proc[a].id}
           /\ proc[a].kind = "claim" => /\ yaml'[proc[a].wu].claimedAt = proc[a].id
                                        /\ ~Held(proc[a].wu) /\ Unlanded(proc[a])
           /\ proc[a].kind = "rollback" =>
                 \A w \in WUs : yaml'[w].claimedAt # proc[a].id
           /\ proc[a].kind = "unblock" =>
                 yaml'[proc[a].wu].claimedAt = yaml[proc[a].wu].claimedAt
<1> DEFINE p == proc[a]
<1>1. Types /\ ShapeInv /\ Sound(p)
  BY DEF Inv, ClaimInv, SoundInv
<1>2. p.wu \in WUs /\ p.kind \in Kinds /\ p.id # 0 /\ p.mine \in Docs
  BY <1>1, RunningFacts
<1>3. yaml \in [WUs -> Docs] /\ yaml' = [yaml EXCEPT ![p.wu] = p.mine]
  BY <1>1 DEF Types, RestTypes, Lands
<1>4. p.base = yaml[p.wu] /\ Change(p) /\ OwnUnit(p) /\ Publishing(p) /\ FreeUnit(p)
  BY <1>1 DEF Sound, Based, Publishing
<1>5. /\ \A w \in WUs : w # p.wu => yaml'[w].claimedAt = yaml[w].claimedAt
      /\ yaml'[p.wu].claimedAt = p.mine.claimedAt
  BY <1>2, <1>3
<1>6. p.mine.claimedAt \in {yaml[p.wu].claimedAt, 0, p.id}
  BY <1>4 DEF Change
<1>7. p.kind = "claim" => p.mine.claimedAt = p.id /\ ~Held(p.wu) /\ Unlanded(p)
  BY <1>4 DEF Change, FreeUnit, Unlanded
<1>8. p.kind = "rollback" => \A w \in WUs : yaml'[w].claimedAt # p.id
  BY <1>2, <1>4, <1>5 DEF Change, OwnUnit
<1>9. p.kind = "unblock" => p.mine.claimedAt = yaml[p.wu].claimedAt
  BY <1>4 DEF Change
<1>10. \A w \in WUs : yaml'[w].claimedAt \in {yaml[w].claimedAt, 0, p.id}
  BY <1>5, <1>6
<1>11. /\ log' = Append(log, [wu |-> p.wu, kind |-> p.kind])
       /\ [wu |-> p.wu, kind |-> p.kind] \in [wu : WUs, kind : Kinds]
  BY <1>2 DEF Lands
<1> HIDE DEF p
<1> QED BY <1>2, <1>5, <1>7, <1>8, <1>9, <1>10, <1>11 DEF p

\* The commands of the others stay sound.
LEMMA OthersStaySound ==
    ASSUME Inv, ClaimInv, NEW a \in Agents, proc[a].pc = "push", proc[a].at = Len(log),
           ~proc[a].landed, Lands(proc[a]), NEW b \in Agents, b # a, proc'[b] = proc[b]
    PROVE  Sound(proc[b])'
<1> DEFINE p == proc[a]
           r == proc[b]
<1>1. /\ Types /\ ShapeInv /\ Sound(r) /\ BaseInv /\ IdInv
      /\ (r.id # 0 => r.id # p.id) /\ Shaped(r)
  BY DEF Inv, ClaimInv, SoundInv, IdInv, ShapeInv
<1>2. /\ p.wu \in WUs /\ p.kind \in Kinds
      /\ log' = Append(log, [wu |-> p.wu, kind |-> p.kind])
      /\ [wu |-> p.wu, kind |-> p.kind] \in [wu : WUs, kind : Kinds]
      /\ \A w \in WUs : /\ w # p.wu => yaml'[w].claimedAt = yaml[w].claimedAt
                        /\ yaml'[w].claimedAt \in {yaml[w].claimedAt, 0, p.id}
      /\ p.kind = "claim" => yaml'[p.wu].claimedAt = p.id /\ Unlanded(p)
      /\ p.kind = "unblock" => yaml'[p.wu].claimedAt = yaml[p.wu].claimedAt
  BY LandedMain
<1>3. r.id # 0 /\ Absent(r) => Absent(r)'
  BY <1>1, <1>2 DEF Absent
<1>4. r.pc # "idle" => r.id # 0 /\ r.wu \in WUs
  BY <1>1 DEF Shaped
<1>5. Unlanded(r) \/ Publishing(r) \/ r.landed => r.id # 0
  BY <1>1, <1>4 DEF Unlanded, Publishing, Sound, Early
<1>6. /\ (Unlanded(r) => Absent(r)') /\ (r.landed /\ r.kind = "rollback" => Absent(r)')
  BY <1>1, <1>3, <1>5 DEF Sound
<1>7. OwnUnit(r)'
  BY <1>1, <1>2 DEF OwnUnit, Sound
<1>8. Based(r)'
  <2>1. Len(log') = Len(log) + 1 /\ Len(log) \in Nat
    BY <1>1, <1>2, AppendedLog DEF Types, RestTypes
  <2>2. r.at \in Nat
    BY <1>1 DEF Types, Procs
  <2>3. r.pc \in {"branchoff", "push"} => r.at <= Len(log)
    BY <1>1 DEF Sound, Based
  <2>4. r.pc \in {"branchoff", "push"} => r.at <= Len(log') /\ r.at # Len(log')
    BY <2>1, <2>2, <2>3
  <2> QED BY <2>4 DEF Based
<1>9. Publishing(r) => Change(r)'
  <2> SUFFICES ASSUME Publishing(r) PROVE Change(r)'
    OBVIOUS
  <2>1. Change(r)
    BY <1>1 DEF Sound
  <2>2. Change(r)' <=> /\ r.kind \notin {"claim", "rollback"} => r.mine.claimedAt = r.base.claimedAt
                       /\ r.kind = "claim" => r.mine.claimedAt = r.id /\ r.base.claimedAt # r.id
                       /\ r.kind = "rollback" => /\ r.mine.claimedAt # r.id
                                                 /\ r.mine.claimedAt \in {0, r.base.claimedAt}
                                                 /\ r.base.claimedAt # r.id => Absent(r)'
    BY DEF Change
  <2> QED BY <1>3, <1>5, <2>1, <2>2 DEF Change
<1>10. FreeUnit(r)'
  <2> SUFFICES ASSUME r.kind = "claim", Publishing(r), yaml'[r.wu].claimedAt = r.base.claimedAt,
                      Held(r.wu)'
               PROVE  FALSE
    BY DEF FreeUnit, Publishing
  <2> DEFINE e == [wu |-> p.wu, kind |-> p.kind]
  <2>1. r.wu \in WUs /\ FreeUnit(r)
    BY <1>1, <1>4 DEF Publishing, Sound
  <2>2. \A w \in WUs : Held(w)' => /\ ~(p.wu = w /\ p.kind \in LeavesProgress)
                                   /\ Held(w) \/ (p.wu = w /\ p.kind = "claim")
    <3>1. e.wu = p.wu /\ e.kind = p.kind /\ log' = Append(log, e) /\ e \in [wu : WUs, kind : Kinds]
      BY <1>2
    <3> HIDE DEF e
    <3>2. \A w \in WUs : Held(w)' => /\ ~(e.wu = w /\ e.kind \in LeavesProgress)
                                     /\ Held(w) \/ (e.wu = w /\ e.kind = "claim")
      BY <1>1, <3>1, HeldAfter
    <3> QED BY <3>1, <3>2
  <2>3. CASE p.wu = r.wu /\ p.kind = "claim"
    <3>1. r.base.claimedAt = p.id /\ Unlanded(p)
      BY <1>2, <2>3
    <3> QED BY <1>1, <3>1 DEF BaseInv, Basing
  <2>4. CASE ~(p.wu = r.wu /\ p.kind = "claim")
    <3>1. Held(r.wu)
      BY <2>1, <2>2, <2>4
    <3>2. yaml'[r.wu].claimedAt = yaml[r.wu].claimedAt
      <4>1. CASE r.wu # p.wu
        BY <1>2, <2>1, <4>1
      <4>2. CASE r.wu = p.wu
        <5>1. p.kind = "unblock"
          BY <1>2, <2>1, <2>2, <2>4, <4>2 DEF LeavesProgress, Kinds
        <5> QED BY <1>2, <4>2, <5>1
      <4> QED BY <4>1, <4>2
    <3> QED BY <2>1, <3>1, <3>2 DEF FreeUnit
  <2> QED BY <2>3, <2>4
<1>11. r.landed => r.pc \in {"push", "rebase"}
  BY <1>1 DEF Sound
<1>12. proc'[b] = r
  OBVIOUS
<1> HIDE DEF p, r
<1> QED BY <1>6, <1>7, <1>8, <1>9, <1>10, <1>11, <1>12 DEF r, Sound

\* A commit lands, and its command goes on without one or waits for an answer that is lost.
LEMMA LandStep ==
    ASSUME Inv, ClaimInv, Inv', NEW a \in Agents, proc[a].pc = "push", proc[a].at = Len(log),
           ~proc[a].landed, Lands(proc[a]), NEW q \in Procs, proc' = [proc EXCEPT ![a] = q],
           used'.commands = used.commands,
           q.id = 0 \/ (q.id = proc[a].id /\ q.wu = proc[a].wu),
           \/ q.pc \notin {"branchoff", "push", "rebase"} /\ ~q.landed /\ ~Unlanded(q)
           \/ q.pc = "push" /\ q.landed /\ q.at = proc[a].at /\ q.kind = proc[a].kind
              /\ q.id = proc[a].id,
           \/ void' = void
           \/ void' = void \cup {proc[a].id} /\ proc[a].kind = "rollback" /\ q.pc = "unlock"
    PROVE  ClaimInv'
<1> DEFINE p == proc[a]
           e == [wu |-> p.wu, kind |-> p.kind]
<1>1. /\ Types /\ ShapeInv /\ IdInv /\ Types' /\ IdInv' /\ ShapeInv'
      /\ SoundInv /\ VoidInv /\ BaseInv /\ FreshInv /\ LastInv
      /\ ClaimsAlternate /\ FailedLeavesNothing
  BY DEF Inv, ClaimInv
<1>2. proc'[a] = q /\ (\A b \in Agents : b # a => proc'[b] = proc[b])
  BY <1>1 DEF Types
<1>3. /\ p.wu \in WUs /\ p.kind \in Kinds /\ log' = Append(log, e)
      /\ e \in [wu : WUs, kind : Kinds] /\ e.wu = p.wu /\ e.kind = p.kind
      /\ \A w \in WUs : /\ w # p.wu => yaml'[w].claimedAt = yaml[w].claimedAt
                        /\ yaml'[w].claimedAt \in {yaml[w].claimedAt, 0, p.id}
      /\ p.kind = "claim" => ~Held(p.wu)
      /\ p.kind = "rollback" => \A w \in WUs : yaml'[w].claimedAt # p.id
  <2>1. e.wu = p.wu /\ e.kind = p.kind
    OBVIOUS
  <2> QED BY <2>1, LandedMain
<1>4. LastInv' /\ ClaimsAlternate'
  <2> HIDE DEF p, e
  <2> QED BY <1>1, <1>3, LastAfter, AlternateAfter
<1>5. Len(log') = Len(log) + 1 /\ Len(log) \in Nat
  <2> HIDE DEF p, e
  <2> QED BY <1>1, <1>3, AppendedLog DEF Types, RestTypes
<1>6. p.id \in Nat /\ p.id # 0 /\ p.id <= used.commands /\ p.id \notin void /\ p.pc = "push"
  <2>1. p \in Procs /\ p.id # 0
    BY <1>1, RunningFacts
  <2> QED BY <1>1, <2>1, IdIsNat DEF IdInv, VoidInv
<1>7. SoundInv'
  <2>1. \A b \in Agents : b # a => Sound(proc[b])'
    BY <1>2, OthersStaySound
  <2>2. Sound(proc[a])'
    <3>1. ~Unlanded(q) /\ ~Publishing(q) /\ (q.landed => q.pc \in {"push", "rebase"})
      BY DEF Unlanded, Publishing, Early
    <3>2. q.landed /\ q.kind = "rollback" => \A w \in WUs : yaml'[w].claimedAt # q.id
      BY <1>3
    <3>3. q.id # 0 => \A w \in WUs : w # q.wu => yaml'[w].claimedAt # q.id
      <4>1. OwnUnit(p)
        BY <1>1 DEF SoundInv, Sound
      <4> QED BY <1>3, <4>1 DEF OwnUnit
    <3>4. q.pc \in {"branchoff", "push"} => q.at <= Len(log') /\ q.landed
      BY <1>5
    <3> QED BY <1>2, <3>1, <3>2, <3>3, <3>4
            DEF Sound, Unlanded, Publishing, Absent, OwnUnit, Based, FreeUnit
  <2> QED BY <2>1, <2>2 DEF SoundInv
<1>8. VoidInv'
  <2> SUFFICES ASSUME NEW b \in Agents, proc'[b].id \in void' PROVE proc'[b].pc \in {"unlock", "unlink"}
    BY DEF VoidInv
  <2>1. proc'[b].id # 0
    <3>1. void' \subseteq Ids
      BY <1>1 DEF Types, RestTypes
    <3> QED BY <3>1, Constants
  <2>2. CASE b = a
    BY <1>2, <1>6, <2>1, <2>2
  <2>3. CASE b # a
    <3>1. proc[b].id # p.id /\ proc'[b] = proc[b]
      BY <1>1, <1>2, <2>1, <2>3 DEF IdInv
    <3> QED BY <1>1, <3>1 DEF VoidInv
  <2> QED BY <2>2, <2>3
<1>9. ~Unlanded(q) /\ ~Basing(q)
  BY DEF Unlanded, Basing, Publishing, Early
<1>10. BaseInv'
  <2> SUFFICES ASSUME NEW b \in Agents, NEW c \in Agents, Unlanded(proc'[b]), Basing(proc'[c])
               PROVE  proc'[c].base.claimedAt # proc'[b].id
    BY DEF BaseInv, Unlanded, Basing, Publishing
  <2>1. proc'[b] = proc[b] /\ proc'[c] = proc[c]
    BY <1>2, <1>9
  <2> QED BY <1>1, <2>1 DEF BaseInv
<1>11. FreshInv'
  <2>1. \A w \in WUs : yaml'[w].claimedAt <= used'.commands
    <3>1. used.commands \in Nat /\ 0 <= used.commands
      BY <1>1, Constants DEF Types, RestTypes
    <3>2. \A w \in WUs : yaml[w].claimedAt <= used.commands
      BY <1>1 DEF FreshInv
    <3> QED BY <1>3, <1>6, <3>1, <3>2
  <2>2. \A v \in void' : v <= used'.commands
    BY <1>1, <1>6 DEF FreshInv
  <2>3. \A b \in Agents : Basing(proc'[b]) => proc'[b].base.claimedAt <= used'.commands
    BY <1>1, <1>2, <1>9 DEF FreshInv
  <2> QED BY <2>1, <2>2, <2>3 DEF FreshInv, Basing, Publishing
<1>12. FailedLeavesNothing'
  <2> SUFFICES ASSUME NEW w \in WUs PROVE yaml'[w].claimedAt \notin void'
    BY DEF FailedLeavesNothing
  <2>1. 0 \notin void /\ p.id \notin void /\ yaml[w].claimedAt \notin void
    BY <1>1, <1>6, Constants DEF Types, RestTypes, FailedLeavesNothing
  <2>2. yaml'[w].claimedAt \notin void
    BY <1>3, <2>1
  <2> QED BY <1>3, <2>2
<1> QED BY <1>4, <1>7, <1>8, <1>10, <1>11, <1>12 DEF ClaimInv

-----------------------------------------------------------------------------
(* The commands, action by action. *)

\* A command without a commit is sound when its claim is nowhere.
LEMMA RestingSound ==
    ASSUME NEW p, NEW q, OwnUnit(p), q.id = 0 \/ (q.id = p.id /\ q.wu = p.wu), ~q.landed,
           q.pc \notin {"branchoff", "push", "rebase"}, Unlanded(q) => Absent(q)
    PROVE  Sound(q) /\ ~Basing(q)
BY DEF Sound, OwnUnit, Publishing, Based, FreeUnit, Basing

LEMMA IdleFacts == /\ Idle.id = 0 /\ Idle.pc = "idle" /\ ~Idle.landed /\ ~Unlanded(Idle)
                   /\ Idle \in Procs
BY IdleType DEF Idle, Unlanded, Publishing

\* A command whose record keeps its number and unit and has no commit.
LEMMA MovesOn ==
    ASSUME Inv, ClaimInv, Inv', NEW a \in Agents, UNCHANGED <<log, yaml>>,
           used'.commands = used.commands, NEW q \in Procs, proc' = [proc EXCEPT ![a] = q],
           q.id = 0 \/ (q.id = proc[a].id /\ q.wu = proc[a].wu), ~q.landed,
           q.pc \notin {"branchoff", "push", "rebase"},
           Unlanded(q) => Unlanded(proc[a]) /\ q.id = proc[a].id,
           \/ void' = void /\ (proc[a].pc \in {"unlock", "unlink"} => q.id = 0 \/ q.pc = "unlink")
           \/ void' = void \cup {proc[a].id} /\ Absent(proc[a]) /\ (q.id = 0 \/ q.pc = "unlock")
    PROVE  ClaimInv'
<1>1. /\ Types /\ Types' /\ Sound(proc[a]) /\ VoidInv
  BY DEF Inv, ClaimInv, SoundInv
<1>2. Unlanded(q) => Absent(q)
  BY <1>1 DEF Sound, Absent
<1>3. Sound(q) /\ ~Basing(q)
  BY <1>1, <1>2, RestingSound DEF Sound
<1>4. q.id \in void' => q.pc \in {"unlock", "unlink"}
  <2>1. 0 \notin void'
    BY <1>1, Constants DEF Types, RestTypes
  <2> QED BY <1>1, <2>1 DEF VoidInv
<1>5. used.commands <= used'.commands
  BY <1>1, Constants DEF Types, RestTypes
<1> HIDE DEF ClaimInv, Inv
<1> QED BY <1>3, <1>4, <1>5, QuietStep

\* The command goes to a point of the lock, or past it.
LEMMA GoesTo ==
    ASSUME Inv, ClaimInv, Inv', NEW a \in Agents, UNCHANGED <<log, yaml>>,
           used'.commands = used.commands,
           proc[a].pc \notin {"idle", "branchoff", "push", "rebase"},
           NEW pc \in PCs \ {"idle", "branchoff", "push", "rebase"},
           proc[a].pc \in {"unlock", "unlink"} => pc = "unlink",
           pc \in ClaimPCs => proc[a].kind = "claim",
           Goto(a, pc),
           pc \in Early => proc[a].pc \in Early,
           void' = void \/ (void' = void \cup {proc[a].id} /\ Unlanded(proc[a]) /\ pc = "unlock")
    PROVE  ClaimInv'
<1> DEFINE q == [proc[a] EXCEPT !.pc = pc]
<1>1. proc[a] \in Procs /\ Shaped(proc[a]) /\ Sound(proc[a])
  BY DEF Inv, ClaimInv, Types, ShapeInv, SoundInv
<1>2. /\ q \in Procs /\ q.id = proc[a].id /\ q.wu = proc[a].wu /\ q.pc = pc
      /\ q.kind = proc[a].kind /\ q.landed = proc[a].landed
  BY <1>1 DEF Procs
<1>3. proc' = [proc EXCEPT ![a] = q]
  BY DEF Goto
<1> HIDE DEF q
<1>4. ~q.landed /\ (Unlanded(q) => Unlanded(proc[a]))
  BY <1>1, <1>2 DEF Sound, Unlanded, Publishing
<1>5. Unlanded(proc[a]) => Absent(proc[a])
  BY <1>1 DEF Sound
<1> HIDE DEF Inv, ClaimInv
<1> QED BY <1>2, <1>3, <1>4, <1>5, MovesOn

LEMMA EndsQuietly ==
    ASSUME Inv, ClaimInv, Inv', NEW a \in Agents, UNCHANGED <<log, yaml>>,
           used'.commands = used.commands, Ends(a),
           void' = void \/ (void' = void \cup {proc[a].id} /\ Unlanded(proc[a]))
    PROVE  ClaimInv'
<1>1. Unlanded(proc[a]) => Absent(proc[a])
  BY DEF ClaimInv, SoundInv, Sound
<1> HIDE DEF Inv, ClaimInv
<1> QED BY <1>1, IdleFacts, MovesOn DEF Ends

Left(p, pc) == [Idle EXCEPT !.pc = pc, !.kind = p.kind, !.wu = p.wu, !.id = p.id]

LEMMA LeftRecord ==
    ASSUME NEW p \in Procs, Shaped(p), p.pc # "idle", NEW pc \in {"worktree", "unlock"}
    PROVE  /\ Left(p, pc) \in Procs /\ Left(p, pc).id = p.id /\ Left(p, pc).wu = p.wu
           /\ Left(p, pc).kind = p.kind /\ Left(p, pc).pc = pc /\ ~Left(p, pc).landed
           /\ ~Unlanded(Left(p, pc))
<1>1. p.kind \in Kinds /\ p.wu \in WUs /\ p.id \in Ids /\ pc \in PCs
  BY DEF Procs, Shaped, PCs
<1>2. /\ Left(p, pc).id = p.id /\ Left(p, pc).wu = p.wu
      /\ Left(p, pc).kind = p.kind /\ Left(p, pc).pc = pc /\ ~Left(p, pc).landed
  BY DEF Left, Idle
<1>3. Left(p, pc) \in Procs
  BY <1>1, IdleType DEF Left, Idle, Procs
<1> QED BY <1>2, <1>3 DEF Unlanded, Publishing, Early

\* The command gives up, or is done with a commit that was in main before.
LEMMA LeavesQuietly ==
    ASSUME Inv, ClaimInv, Inv', NEW a \in Agents, UNCHANGED <<log, yaml>>,
           used'.commands = used.commands, proc[a].pc \in {"fetch", "branchoff", "push", "rebase"},
           Unpublished(a) \/ (Published(a) /\ proc[a].landed)
    PROVE  ClaimInv'
<1> DEFINE p == proc[a]
<1>1. p \in Procs /\ Shaped(p) /\ Sound(p) /\ p.kind \in Kinds /\ p.landed \in BOOLEAN
  BY RunningFacts DEF Inv, ClaimInv, SoundInv
<1>2. p.kind = "claim" /\ ~p.landed => Absent(p)
  BY <1>1 DEF Sound, Unlanded, Publishing, Early
<1>3. p.kind = "rollback" /\ p.landed => Absent(p)
  BY <1>1 DEF Sound
<1>4. \/ Ends(a) /\ void' = void
      \/ \E pc \in {"worktree", "unlock"} :
            /\ proc' = [proc EXCEPT ![a] = Left(p, pc)]
            /\ \/ void' = void
               \/ void' = void \cup {p.id} /\ Absent(p) /\ pc = "unlock"
  <2>1. CASE Unpublished(a)
    BY <1>1, <1>2, <2>1 DEF Unpublished, Leaves, Left, Voids, Kinds
  <2>2. CASE Published(a) /\ p.landed
    BY <1>1, <1>3, <2>2 DEF Published, Leaves, Left, Voids, Kinds
  <2> QED BY <2>1, <2>2
<1>5. CASE Ends(a) /\ void' = void
  BY <1>5, EndsQuietly
<1>6. ASSUME NEW pc \in {"worktree", "unlock"}, proc' = [proc EXCEPT ![a] = Left(p, pc)],
             void' = void \/ (void' = void \cup {p.id} /\ Absent(p) /\ pc = "unlock")
      PROVE  ClaimInv'
  <2>1. /\ Left(p, pc) \in Procs /\ Left(p, pc).id = p.id /\ Left(p, pc).wu = p.wu
        /\ Left(p, pc).pc = pc /\ ~Left(p, pc).landed /\ ~Unlanded(Left(p, pc))
    BY <1>1, LeftRecord
  <2> HIDE DEF Inv, ClaimInv
  <2> QED BY <1>6, <2>1, MovesOn
<1> QED BY <1>4, <1>5, <1>6

-----------------------------------------------------------------------------
LEMMA AcquireKeeps ==
    ASSUME Inv, ClaimInv, Inv', NEW a \in Agents, Acquire(a)
    PROVE  ClaimInv'
<1>1. /\ used'.commands = used.commands /\ UNCHANGED <<log, yaml>>
      /\ proc[a].pc \in {"open", "look", "clear", "write"} \/ Unlock(a) \/ Unlink(a)
  BY DEF Acquire, Open, OpenExists, LookShared, LookStale, LookRefused, Clear, Write, Unlock, Unlink,
         At, repoVars
<1>2. CASE Unlock(a) \/ Unlink(a)
  <2>1. proc[a].pc \in {"unlock", "unlink"} /\ void' = void /\ (Goto(a, "unlink") \/ Ends(a))
    BY <1>2 DEF Unlock, Unlink, Finishes, At
  <2>2. /\ "unlink" \in PCs \ {"idle", "branchoff", "push", "rebase"} /\ "unlink" \notin ClaimPCs
        /\ "unlink" \notin Early
    BY DEF PCs, ClaimPCs, Early
  <2> HIDE DEF Inv, ClaimInv
  <2> QED BY <1>1, <2>1, <2>2, EndsQuietly, GoesTo
<1>3. CASE ~(Unlock(a) \/ Unlink(a))
  <2>1. proc[a].pc \in {"open", "look", "clear", "write"} /\ Unlanded(proc[a])
        /\ proc[a].kind = "claim" /\ proc[a].pc \in Early
    BY <1>1, <1>3 DEF Unlanded, Early, Inv, ShapeInv, Shaped, ClaimPCs
  <2>2. CASE LookRefused(a)
    BY <1>1, <2>1, <2>2, EndsQuietly DEF LookRefused, Voids
  <2>3. CASE ~LookRefused(a)
    <3>1. PICK pc \in {"open", "look", "clear", "write", "branch"} : Goto(a, pc) /\ void' = void
      BY <1>3, <2>3 DEF Acquire, Open, OpenExists, LookShared, LookStale, Clear, Write, cloneVars
    <3>2. pc \in PCs \ {"idle", "branchoff", "push", "rebase"}
      BY DEF PCs
    <3> HIDE DEF Inv, ClaimInv
    <3> QED BY <1>1, <2>1, <3>1, <3>2, GoesTo
  <2> QED BY <2>2, <2>3
<1> QED BY <1>2, <1>3

LEMMA ClaimKeeps ==
    ASSUME Inv, ClaimInv, Inv', NEW a \in Agents, Claim(a)
    PROVE  ClaimInv'
<1>1. /\ UNCHANGED <<log, yaml>> /\ (UNCHANGED used \/ Fault)
      /\ proc[a].pc \in {"branch", "worktree", "branchpush", "setup"}
  BY DEF Claim, CheckBranches, ClaimRefused, AddWorktree, PushBranch, ClaimMade, ClaimFails, At,
         repoVars, FaultUnless
<1>2. /\ proc[a] \in Procs /\ Shaped(proc[a]) /\ proc[a].kind = "claim" /\ proc[a].pc # "idle"
      /\ used'.commands = used.commands
  BY <1>1, CountKept DEF Inv, Types, ShapeInv, Shaped, ClaimPCs, SameCount
<1>3. CASE ClaimRefused(a)
  <2>1. proc[a].pc = "branch" /\ Unlanded(proc[a])
    BY <1>2, <1>3 DEF ClaimRefused, At, Unlanded, Early
  <2>2. /\ "unlock" \in PCs \ {"idle", "branchoff", "push", "rebase"} /\ "unlock" \notin ClaimPCs
        /\ "unlock" \notin Early
    BY DEF PCs, ClaimPCs, Early
  <2> QED BY <1>1, <1>2, <1>3, <2>1, <2>2, GoesTo DEF ClaimRefused, Voids
<1>4. CASE ClaimMade(a)
  BY <1>1, <1>2, <1>4, EndsQuietly DEF ClaimMade
<1>5. CASE AddWorktree(a) \/ PushBranch(a)
  <2>1. PICK pc \in {"branchpush", "setup"} : Goto(a, pc) /\ void' = void
    BY <1>5 DEF AddWorktree, PushBranch
  <2>2. pc \in PCs \ {"idle", "branchoff", "push", "rebase"} /\ pc \notin Early
    BY DEF PCs, Early
  <2> HIDE DEF Inv, ClaimInv
  <2> QED BY <1>1, <1>2, <2>1, <2>2, GoesTo
<1>6. CASE CheckBranches(a) \/ ClaimFails(a)
  <2>1. PICK kind \in {"claim", "rollback"} :
            /\ proc' = [proc EXCEPT ![a] = Fetcher(proc[a], kind)] /\ void' = void
            /\ kind = "claim" => proc[a].pc = "branch"
    BY <1>6 DEF CheckBranches, ClaimFails, Fetching, Fetcher, At, Inv, Types
  <2> DEFINE q == Fetcher(proc[a], kind)
  <2>2. kind \in Kinds
    BY DEF Kinds
  <2>3. /\ q \in Procs /\ q.id = proc[a].id /\ q.wu = proc[a].wu /\ q.pc = "sweep"
        /\ q.kind = kind /\ ~q.landed
    BY <1>2, <2>2, FetcherRecord DEF Fetcher, Procs
  <2> HIDE DEF q
  <2>4. Unlanded(q) => Unlanded(proc[a])
    BY <1>2, <2>1, <2>3 DEF Unlanded, Early
  <2>5. proc' = [proc EXCEPT ![a] = q]
    BY <2>1 DEF q
  <2> HIDE DEF Inv, ClaimInv
  <2> QED BY <1>1, <1>2, <2>1, <2>3, <2>4, <2>5, MovesOn
<1> QED BY <1>3, <1>4, <1>5, <1>6 DEF Claim

LEMMA EditedClaim ==
    ASSUME NEW kind \in Kinds, NEW doc \in Docs, NEW id \in Ids
    PROVE  Edited(kind, doc, id).claimedAt =
               IF kind = "claim" THEN id ELSE IF kind = "rollback" THEN 0 ELSE doc.claimedAt
BY DEF Edited, Docs, Kinds

LEMMA MergedClaim ==
    ASSUME NEW b \in Docs, NEW m \in Docs, NEW t \in Docs
    PROVE  /\ Merged(b, m, t).claimedAt =
                  IF m.claimedAt = b.claimedAt THEN t.claimedAt ELSE m.claimedAt
           /\ ~Clashes(b, m, t) => \/ m.claimedAt = b.claimedAt \/ t.claimedAt = b.claimedAt
                                   \/ m.claimedAt = t.claimedAt
<1>1. "claimedAt" \in DOMAIN b
  BY DEF Docs
<1> QED BY <1>1 DEF Merged, Clashes

\* A commit made on main as it is.
LEMMA CommitSound ==
    ASSUME Inv, ClaimInv, NEW p \in Procs, Shaped(p), p.pc # "idle", ~p.landed, OwnUnit(p),
           p.kind = "claim" => Absent(p), p.kind \in Kinds, p.wu \in WUs, p.id \in Ids,
           Allowed(p.kind, yaml[p.wu], StatusIn(log, p.wu)),
           NEW q, q = Committed(p, "branchoff", Len(log), yaml[p.wu], Edited(p.kind, yaml[p.wu], p.id))
    PROVE  /\ Sound(q) /\ q \in Procs /\ q.id = p.id /\ q.wu = p.wu /\ q.kind = p.kind
           /\ q.pc = "branchoff" /\ q.base = yaml[q.wu] /\ ~q.landed
<1>1. Types /\ LastInv /\ yaml[p.wu] \in Docs /\ Len(log) \in Nat /\ p.id # 0
  BY Constants DEF Inv, ClaimInv, Types, RestTypes
<1> DEFINE mine == Edited(p.kind, yaml[p.wu], p.id)
           base == yaml[p.wu]
<1>2. mine \in Docs /\ base \in Docs
  BY <1>1, EditedType
<1>3. mine.claimedAt = IF p.kind = "claim" THEN p.id
                       ELSE IF p.kind = "rollback" THEN 0 ELSE base.claimedAt
  BY <1>1, EditedClaim
<1>4. q = Committed(p, "branchoff", Len(log), base, mine)
  OBVIOUS
<1>5. p.kind = "claim" => ~Held(p.wu)
  <2> SUFFICES ASSUME p.kind = "claim" PROVE ~Held(p.wu)
    OBVIOUS
  <2>1. StatusIn(log, p.wu) # "in_progress"
    BY DEF Allowed
  <2> QED BY <1>1, <2>1, NotInProgressIsFree
<1>6. base.claimedAt = yaml[p.wu].claimedAt
  OBVIOUS
<1> HIDE DEF mine, base
<1>7. /\ q \in Procs /\ q.id = p.id /\ q.wu = p.wu /\ q.kind = p.kind /\ q.pc = "branchoff"
      /\ q.base = base /\ q.mine = mine /\ q.landed = p.landed /\ q.at = Len(log)
  <2>1. /\ Committed(p, "branchoff", Len(log), base, mine) \in Procs
        /\ Committed(p, "branchoff", Len(log), base, mine).id = p.id
        /\ Committed(p, "branchoff", Len(log), base, mine).kind = p.kind
        /\ Committed(p, "branchoff", Len(log), base, mine).pc = "branchoff"
    BY <1>1, <1>2, CommittedRecord
  <2>2. /\ Committed(p, "branchoff", Len(log), base, mine).wu = p.wu
        /\ Committed(p, "branchoff", Len(log), base, mine).base = base
        /\ Committed(p, "branchoff", Len(log), base, mine).mine = mine
        /\ Committed(p, "branchoff", Len(log), base, mine).landed = p.landed
        /\ Committed(p, "branchoff", Len(log), base, mine).at = Len(log)
    BY DEF Committed, Procs
  <2> QED BY <1>4, <2>1, <2>2, Zenon
<1>8. Publishing(q) /\ OwnUnit(q)
  BY <1>7 DEF Publishing, OwnUnit
<1>9. Based(q)
  BY <1>1, <1>7 DEF Based, base
<1>10. (p.kind = "claim" => Absent(q)) /\ (base.claimedAt # p.id => Absent(q))
  BY <1>1, <1>6, <1>7 DEF Absent, OwnUnit
<1>11. Change(q)
  BY <1>1, <1>3, <1>6, <1>7, <1>10 DEF Change, Absent
<1>12. FreeUnit(q)
  BY <1>5, <1>7 DEF FreeUnit
<1>13. Unlanded(q) => Absent(q)
  BY <1>7, <1>10 DEF Unlanded
<1> QED BY <1>7, <1>8, <1>9, <1>11, <1>12, <1>13 DEF Sound, base

LEMMA ExecuteKeeps ==
    ASSUME Inv, ClaimInv, Inv', NEW a \in Agents, Execute(a), UNCHANGED cloneVars, SameCount
    PROVE  ClaimInv'
<1> DEFINE p == proc[a]
<1>1. p.pc = "fetch"
  BY DEF Execute, At
<1>2. /\ p \in Procs /\ Shaped(p) /\ p.kind \in Kinds /\ p.wu \in WUs /\ p.id \in Ids
      /\ Sound(p) /\ Types /\ VoidInv
  BY <1>1, RunningFacts DEF Inv, ClaimInv, SoundInv
<1>3. ~p.landed /\ OwnUnit(p) /\ (p.kind = "claim" => Unlanded(p) /\ Absent(p))
  BY <1>1, <1>2 DEF Sound, Unlanded, Early
<1>4. /\ Allowed(p.kind, yaml[p.wu], StatusIn(log, p.wu)) /\ UNCHANGED <<log, yaml>> /\ void' = void
      /\ proc' = [proc EXCEPT ![a] =
                     Committed(p, "branchoff", Len(log), yaml[p.wu], Edited(p.kind, yaml[p.wu], p.id))]
  BY DEF Execute, Committed
<1>5. PICK q : q = Committed(p, "branchoff", Len(log), yaml[p.wu], Edited(p.kind, yaml[p.wu], p.id))
  OBVIOUS
<1>6. proc' = [proc EXCEPT ![a] = q]
  BY <1>4, <1>5, Zenon
<1>7. /\ Sound(q) /\ q \in Procs /\ q.id = p.id /\ q.wu = p.wu /\ q.kind = p.kind
      /\ q.pc = "branchoff" /\ q.base = yaml[q.wu] /\ ~q.landed
  BY <1>1, <1>2, <1>3, <1>4, <1>5, CommitSound
<1>8. Unlanded(q) => Unlanded(p) /\ q.id = p.id
  BY <1>3, <1>7 DEF Unlanded
<1>9. q.id \in void' => q.pc \in {"unlock", "unlink"}
  BY <1>1, <1>2, <1>4, <1>7 DEF VoidInv
<1>10. used.commands <= used'.commands /\ q.wu \in WUs /\ q.base.claimedAt = yaml[q.wu].claimedAt
  BY <1>2, <1>7, Constants DEF Types, RestTypes, SameCount
<1> HIDE DEF Inv, ClaimInv
<1> QED BY <1>4, <1>6, <1>7, <1>8, <1>9, <1>10, QuietStep

LEMMA RebaseKeeps ==
    ASSUME Inv, ClaimInv, Inv', NEW a \in Agents, Rebase(a), UNCHANGED cloneVars, SameCount
    PROVE  ClaimInv'
<1> DEFINE p == proc[a]
           theirs == yaml[p.wu]
           mine == IF p.landed THEN theirs ELSE Merged(p.base, p.mine, theirs)
<1>1. p.pc = "rebase"
  BY DEF Rebase, At
<1>2. /\ p \in Procs /\ Shaped(p) /\ p.kind \in Kinds /\ p.wu \in WUs /\ p.id \in Ids
      /\ p.base \in Docs /\ p.mine \in Docs /\ theirs \in Docs /\ p.landed \in BOOLEAN
      /\ Len(log) \in Nat /\ Sound(p) /\ Types /\ VoidInv /\ p.id # 0
  BY <1>1, RunningFacts DEF Inv, ClaimInv, SoundInv
<1>3. /\ p.landed \/ ~Clashes(p.base, p.mine, theirs)
      /\ UNCHANGED <<log, yaml>> /\ void' = void
      /\ proc' = [proc EXCEPT ![a] = Committed(p, "push", Len(log), theirs, mine)]
  BY DEF Rebase, Committed, repoVars
<1>4. PICK q : q = Committed(p, "push", Len(log), theirs, mine)
  OBVIOUS
<1>5. proc' = [proc EXCEPT ![a] = q]
  BY <1>3, <1>4, Zenon
<1>6. mine \in Docs
  BY <1>2, MergedType
<1>7. ~p.landed => mine.claimedAt = IF p.mine.claimedAt = p.base.claimedAt
                                      THEN theirs.claimedAt ELSE p.mine.claimedAt
  BY <1>2, MergedClaim
<1>8. ~p.landed => \/ p.mine.claimedAt = p.base.claimedAt
                   \/ theirs.claimedAt = p.base.claimedAt \/ p.mine.claimedAt = theirs.claimedAt
  BY <1>2, <1>3, MergedClaim
<1>9. theirs = yaml[p.wu]
  OBVIOUS
<1> HIDE DEF mine, theirs
<1>10. /\ q \in Procs /\ q.id = p.id /\ q.wu = p.wu /\ q.kind = p.kind /\ q.pc = "push"
       /\ q.base = theirs /\ q.mine = mine /\ q.landed = p.landed /\ q.at = Len(log)
  <2>1. /\ Committed(p, "push", Len(log), theirs, mine) \in Procs
        /\ Committed(p, "push", Len(log), theirs, mine).id = p.id
        /\ Committed(p, "push", Len(log), theirs, mine).kind = p.kind
        /\ Committed(p, "push", Len(log), theirs, mine).pc = "push"
    BY <1>1, <1>2, <1>6, CommittedRecord
  <2>2. /\ Committed(p, "push", Len(log), theirs, mine).wu = p.wu
        /\ Committed(p, "push", Len(log), theirs, mine).base = theirs
        /\ Committed(p, "push", Len(log), theirs, mine).mine = mine
        /\ Committed(p, "push", Len(log), theirs, mine).landed = p.landed
        /\ Committed(p, "push", Len(log), theirs, mine).at = Len(log)
    BY <1>2 DEF Committed, Procs
  <2> QED BY <1>4, <2>1, <2>2, Zenon
<1>11. /\ Publishing(p) <=> ~p.landed
       /\ Publishing(q) <=> ~p.landed
       /\ Unlanded(p) <=> p.kind = "claim" /\ ~p.landed
       /\ Unlanded(q) <=> p.kind = "claim" /\ ~p.landed
       /\ Absent(p) <=> Absent(q)
  BY <1>1, <1>2, <1>10 DEF Publishing, Unlanded, Absent, Early
<1>12. Unlanded(p) => theirs.claimedAt = p.base.claimedAt
  <2> SUFFICES ASSUME Unlanded(p) PROVE theirs.claimedAt = p.base.claimedAt
    OBVIOUS
  <2>1. p.mine.claimedAt = p.id /\ p.base.claimedAt # p.id /\ Absent(p) /\ ~p.landed
    BY <1>2, <1>11 DEF Sound, Change
  <2>2. theirs.claimedAt # p.id
    BY <1>2, <1>9, <2>1 DEF Absent
  <2> QED BY <1>8, <2>1, <2>2
<1>13. Publishing(q) => Change(q)
  <2> SUFFICES ASSUME ~p.landed PROVE Change(q)
    BY <1>11
  <2>1. Change(p)
    BY <1>2, <1>11 DEF Sound
  <2>2. theirs.claimedAt # p.id => Absent(p)
    BY <1>2, <1>9 DEF Absent, Sound, OwnUnit
  <2>3. p.kind = "claim" => mine.claimedAt = p.id /\ theirs.claimedAt # p.id
    BY <1>2, <1>7, <1>9, <1>11, <2>1 DEF Change, Sound, Absent
  <2>4. p.kind = "rollback" => mine.claimedAt # p.id /\ mine.claimedAt \in {0, theirs.claimedAt}
    BY <1>2, <1>7, <1>9, <2>1 DEF Change, Absent
  <2>5. p.kind \notin {"claim", "rollback"} => mine.claimedAt = theirs.claimedAt
    BY <1>7, <2>1 DEF Change
  <2> QED BY <1>10, <1>11, <2>2, <2>3, <2>4, <2>5 DEF Change
<1>14. FreeUnit(q)
  BY <1>2, <1>9, <1>10, <1>11, <1>12 DEF FreeUnit, Sound
<1>15. Based(q) /\ OwnUnit(q)
  BY <1>2, <1>9, <1>10 DEF Based, OwnUnit, Sound
<1>16. Sound(q)
  BY <1>2, <1>10, <1>11, <1>13, <1>14, <1>15 DEF Sound
<1>17. q.id \in void' => q.pc \in {"unlock", "unlink"}
  BY <1>1, <1>2, <1>3, <1>10 DEF VoidInv
<1>18. used.commands <= used'.commands /\ q.wu \in WUs /\ q.base.claimedAt = yaml[q.wu].claimedAt
  BY <1>2, <1>9, <1>10, Constants DEF Types, RestTypes, SameCount
<1>19. Unlanded(q) => Unlanded(p) /\ q.id = p.id
  BY <1>10, <1>11
<1> HIDE DEF Inv, ClaimInv
<1> QED BY <1>3, <1>5, <1>10, <1>16, <1>17, <1>18, <1>19, QuietStep

\* The commit stays as it is.
LEMMA SameCommitKeeps ==
    ASSUME Inv, ClaimInv, Inv', NEW a \in Agents, UNCHANGED <<log, yaml, void>>, SameCount,
           NEW q \in Procs, proc' = [proc EXCEPT ![a] = q], q.id = proc[a].id,
           q.wu = proc[a].wu, q.kind = proc[a].kind, q.at = proc[a].at, q.base = proc[a].base,
           q.mine = proc[a].mine, q.landed = proc[a].landed,
           \/ proc[a].pc = "push" /\ q.pc = "rebase"
           \/ proc[a].pc = "branchoff" /\ q.pc = "push"
    PROVE  ClaimInv'
<1> DEFINE p == proc[a]
<1>1. /\ p \in Procs /\ Shaped(p) /\ Sound(p) /\ Types /\ VoidInv /\ p.landed \in BOOLEAN
  BY RunningFacts DEF Inv, ClaimInv, SoundInv
<1>2. /\ Publishing(p) <=> Publishing(q)
      /\ Unlanded(p) <=> Unlanded(q)
      /\ Absent(p) <=> Absent(q)
      /\ OwnUnit(p) <=> OwnUnit(q)
      /\ Change(p) <=> Change(q)
      /\ FreeUnit(p) <=> FreeUnit(q)
  BY <1>1 DEF Publishing, Unlanded, Early, Absent, OwnUnit, Change, FreeUnit
<1>3. Sound(q)
  BY <1>1, <1>2 DEF Sound, Based
<1>4. q.id \in void' => q.pc \in {"unlock", "unlink"}
  BY <1>1 DEF VoidInv
<1>5. used.commands <= used'.commands
  BY <1>1, Constants DEF Types, RestTypes, SameCount
<1>6. Basing(q) => Basing(p) /\ q.base = p.base
  BY <1>2 DEF Basing
<1> HIDE DEF Inv, ClaimInv
<1> QED BY <1>2, <1>3, <1>4, <1>5, <1>6, QuietStep

LEMMA RetryKeeps ==
    ASSUME Inv, ClaimInv, Inv', NEW a \in Agents, At(a, "push"), UNCHANGED <<log, yaml, void>>,
           proc[a].tries + 1 < MaxAttempts, SameCount,
           proc' = [proc EXCEPT ![a] = Retried(proc[a], proc[a].tries + 1)]
    PROVE  ClaimInv'
<1> DEFINE p == proc[a]
<1>1. p \in Procs /\ Shaped(p) /\ p.pc = "push" /\ p.tries \in 0 .. MaxAttempts - 1
  BY RunningFacts DEF At, Inv
<1>2. p.tries + 1 \in 0 .. MaxAttempts - 1
  BY <1>1, Constants
<1>3. PICK q : q = Retried(p, p.tries + 1)
  OBVIOUS
<1>4. /\ q \in Procs /\ q.id = p.id /\ q.wu = p.wu /\ q.kind = p.kind /\ q.pc = "rebase"
      /\ q.at = p.at /\ q.base = p.base /\ q.mine = p.mine /\ q.landed = p.landed
  BY <1>1, <1>2, <1>3, RetriedRecord DEF Retried, Procs
<1>5. proc' = [proc EXCEPT ![a] = q]
  BY <1>3, Zenon
<1> HIDE DEF Inv, ClaimInv
<1> QED BY <1>1, <1>4, <1>5, SameCommitKeeps

\* The temporary branch is cleared, or made.
LEMMA TempKeeps ==
    ASSUME Inv, ClaimInv, Inv', NEW a \in Agents, Sweep(a) \/ BranchOff(a), SameCount
    PROVE  ClaimInv'
<1>1. UNCHANGED <<log, yaml, void>> /\ used'.commands = used.commands
  BY DEF Sweep, BranchOff, SameCount
<1>2. CASE Sweep(a)
  <2>1. proc[a].pc = "sweep" /\ Goto(a, "fetch")
    BY <1>2 DEF Sweep, At
  <2>2. /\ "fetch" \in PCs \ {"idle", "branchoff", "push", "rebase"} /\ "fetch" \notin ClaimPCs
        /\ proc[a].pc \in Early
    BY <2>1 DEF PCs, ClaimPCs, Early
  <2> HIDE DEF Inv, ClaimInv
  <2> QED BY <1>1, <2>1, <2>2, GoesTo
<1>3. CASE BranchOff(a)
  <2>1. proc[a].pc = "branchoff" /\ proc[a] \in Procs /\ "push" \in PCs
    BY <1>3 DEF BranchOff, At, Inv, Types, PCs
  <2>2. PICK q : q = [proc[a] EXCEPT !.pc = "push"]
    OBVIOUS
  <2>3. /\ q \in Procs /\ q.id = proc[a].id /\ q.wu = proc[a].wu /\ q.kind = proc[a].kind
        /\ q.at = proc[a].at /\ q.base = proc[a].base /\ q.mine = proc[a].mine
        /\ q.landed = proc[a].landed /\ q.pc = "push"
    BY <2>1, <2>2 DEF Procs
  <2>4. proc' = [proc EXCEPT ![a] = q]
    BY <1>3, <2>2, Zenon DEF BranchOff, Goto
  <2> HIDE DEF Inv, ClaimInv
  <2> QED BY <1>1, <2>1, <2>3, <2>4, SameCommitKeeps
<1> QED BY <1>2, <1>3

LEMMA PushKeeps ==
    ASSUME Inv, ClaimInv, Inv', NEW a \in Agents, Push(a), UNCHANGED cloneVars, SameCount
    PROVE  ClaimInv'
<1> DEFINE p == proc[a]
<1>1. /\ p.pc = "push" /\ p.at = Len(log) /\ Published(a) /\ used'.commands = used.commands
      /\ IF p.landed THEN UNCHANGED <<log, yaml>> ELSE Lands(p)
  BY DEF Push, At, SameCount
<1>2. p \in Procs /\ Shaped(p) /\ p.kind \in Kinds /\ p.pc # "idle"
  BY <1>1, RunningFacts DEF Inv
<1>3. CASE p.landed
  BY <1>1, <1>3, LeavesQuietly
<1>4. CASE ~p.landed
  <2>1. \/ Ends(a) /\ void' = void
        \/ \E pc \in {"worktree", "unlock"} :
              /\ proc' = [proc EXCEPT ![a] = Left(p, pc)]
              /\ \/ void' = void
                 \/ void' = void \cup {p.id} /\ p.kind = "rollback" /\ pc = "unlock"
    BY <1>1, <1>2 DEF Published, Leaves, Left, Voids, Kinds
  <2>2. CASE Ends(a) /\ void' = void
    <3> HIDE DEF Inv, ClaimInv
    <3>1. proc' = [proc EXCEPT ![a] = Idle] /\ Lands(proc[a]) /\ used'.commands = used.commands
      BY <1>1, <1>4, <2>2 DEF Ends
    <3> QED BY <1>1, <1>4, <2>2, <3>1, IdleFacts, LandStep
  <2>3. ASSUME NEW pc \in {"worktree", "unlock"}, proc' = [proc EXCEPT ![a] = Left(p, pc)],
               \/ void' = void
               \/ void' = void \cup {p.id} /\ p.kind = "rollback" /\ pc = "unlock"
        PROVE  ClaimInv'
    <3>1. /\ Left(p, pc) \in Procs /\ Left(p, pc).id = p.id /\ Left(p, pc).wu = p.wu
          /\ Left(p, pc).pc = pc /\ ~Left(p, pc).landed /\ ~Unlanded(Left(p, pc))
      BY <1>2, LeftRecord
    <3>2. Lands(proc[a]) /\ used'.commands = used.commands
      BY <1>1, <1>4
    <3> HIDE DEF Inv, ClaimInv
    <3> QED BY <1>1, <1>4, <2>3, <3>1, <3>2, LandStep
  <2> QED BY <2>1, <2>2, <2>3
<1> QED BY <1>3, <1>4

LEMMA UnansweredKeeps ==
    ASSUME Inv, ClaimInv, Inv', NEW a \in Agents, PushUnanswered(a), UNCHANGED cloneVars, SameCount
    PROVE  ClaimInv'
<1> DEFINE p == proc[a]
<1>1. /\ p.pc = "push" /\ p.at = Len(log) /\ ~p.landed /\ Lands(p) /\ void' = void
      /\ proc' = [proc EXCEPT ![a] = [p EXCEPT !.landed = TRUE]]
  BY DEF PushUnanswered, At
<1>2. p \in Procs /\ used.commands = used'.commands
  BY <1>1, RunningFacts DEF Inv, SameCount
<1>3. PICK q : q = [p EXCEPT !.landed = TRUE]
  OBVIOUS
<1>4. /\ q \in Procs /\ q.id = p.id /\ q.wu = p.wu /\ q.kind = p.kind /\ q.pc = p.pc
      /\ q.at = p.at /\ q.landed
  BY <1>2, <1>3 DEF Procs
<1>5. proc' = [proc EXCEPT ![a] = q]
  BY <1>1, <1>3, Zenon
<1>6. /\ q.pc = "push" /\ q.landed /\ q.at = proc[a].at /\ q.kind = proc[a].kind
      /\ q.id = proc[a].id
  BY <1>1, <1>4
<1>7. q.id = 0 \/ (q.id = proc[a].id /\ q.wu = proc[a].wu)
  BY <1>4
<1> HIDE DEF Inv, ClaimInv, p
<1> QED BY <1>1, <1>2, <1>4, <1>5, <1>6, <1>7, LandStep DEF p

LEMMA PublishKeeps ==
    ASSUME Inv, ClaimInv, Inv', NEW a \in Agents, Publish(a)
    PROVE  ClaimInv'
<1>1. UNCHANGED cloneVars /\ (UNCHANGED used \/ Fault)
  BY DEF Publish, FaultUnless
<1>2. SameCount /\ used'.commands = used.commands
  BY <1>1, CountKept DEF Inv, SameCount
<1>3. CASE PushUnanswered(a)
  BY <1>1, <1>2, <1>3, UnansweredKeeps
<1>4. CASE ExecuteFails(a) \/ RebaseFails(a)
  BY <1>2, <1>4, LeavesQuietly DEF ExecuteFails, RebaseFails, At
<1>5. CASE PushFails(a)
  <2>1. CASE proc[a].tries + 1 < MaxAttempts
    BY <1>2, <1>5, <2>1, RetryKeeps DEF PushFails, Retried
  <2>2. CASE ~(proc[a].tries + 1 < MaxAttempts)
    <3>1. Unpublished(a) /\ UNCHANGED <<log, yaml>> /\ proc[a].pc = "push"
      BY <1>5, <2>2 DEF PushFails, At
    <3> QED BY <1>2, <3>1, LeavesQuietly
  <2> QED BY <2>1, <2>2
<1>6. CASE Execute(a) \/ Push(a) \/ Rebase(a) \/ Sweep(a) \/ BranchOff(a)
  BY <1>1, <1>2, <1>6, ExecuteKeeps, PushKeeps, RebaseKeeps, TempKeeps
<1> QED BY <1>3, <1>4, <1>5, <1>6 DEF Publish

\* The number of a command that starts is new.
LEMMA NewNumber ==
    ASSUME Inv, ClaimInv, NewCommand
    PROVE  /\ used.commands < MaxCommands /\ used.commands \in Nat
           /\ used'.commands = used.commands + 1
           /\ used.commands + 1 \in Ids /\ used.commands + 1 \notin void
           /\ \A w \in WUs : yaml[w].claimedAt # used.commands + 1
<1>1. Types /\ FreshInv /\ used.commands < MaxCommands /\ used'.commands = used.commands + 1
  BY DEF Inv, ClaimInv, NewCommand
<1>2. used.commands \in 0 .. MaxCommands
  BY <1>1 DEF Types, RestTypes
<1>3. used.commands \in Nat /\ used.commands + 1 \in Ids
  BY <1>1, <1>2, Constants DEF Ids
<1>4. used.commands + 1 \notin void
  BY <1>1, <1>3 DEF FreshInv
<1>5. \A w \in WUs : yaml[w].claimedAt # used.commands + 1
  BY <1>1, <1>3 DEF FreshInv
<1> QED BY <1>1, <1>3, <1>4, <1>5

LEMMA StartKeeps ==
    ASSUME Inv, ClaimInv, Inv', NEW a \in Agents, NewCommand, UNCHANGED <<log, yaml, void>>,
           NEW q \in Procs, proc' = [proc EXCEPT ![a] = q], q.id = used.commands + 1,
           Sound(q), ~Basing(q)
    PROVE  ClaimInv'
<1>1. /\ used.commands \in Nat /\ used'.commands = used.commands + 1
      /\ used.commands + 1 \notin void
  BY NewNumber
<1>2. used.commands <= used'.commands
  BY <1>1
<1> HIDE DEF Inv, ClaimInv
<1> QED BY <1>1, <1>2, QuietStep

LEMMA StartClaimKeeps ==
    ASSUME Inv, ClaimInv, Inv', NEW a \in Agents, StartClaim(a)
    PROVE  ClaimInv'
<1>1. NewCommand /\ UNCHANGED <<log, yaml, void>> /\ Types
  BY CommandCounted DEF StartClaim, Inv, repoVars
<1>2. PICK w \in WUs, pc \in {"open", "clear"} :
          proc' = [proc EXCEPT ![a] = Command(w, "claim", pc)]
  BY DEF StartClaim
<1>3. PICK q : q = Command(w, "claim", pc)
  OBVIOUS
<1>4. "claim" \in Kinds /\ pc \in PCs \ {"idle"} /\ used.commands < MaxCommands
  BY <1>1, <1>2, NewNumber DEF Kinds, PCs
<1>5. q \in Procs /\ q.id = used.commands + 1 /\ q.pc = pc /\ ~q.landed
  BY <1>1, <1>3, <1>4, CommandType DEF Command, Idle
<1>6. Absent(q) /\ OwnUnit(q)
  BY <1>1, <1>5, NewNumber DEF Absent, OwnUnit
<1>7. Sound(q) /\ ~Basing(q)
  BY <1>2, <1>5, <1>6 DEF Sound, Publishing, Based, FreeUnit, Basing
<1>8. proc' = [proc EXCEPT ![a] = q]
  BY <1>2, <1>3, Zenon
<1> HIDE DEF Inv, ClaimInv
<1> QED BY <1>1, <1>5, <1>7, <1>8, StartKeeps

LEMMA StartEditKeeps ==
    ASSUME Inv, ClaimInv, Inv', NEW a \in Agents, StartEdit(a) \/ OverrideOwner(a)
    PROVE  ClaimInv'
<1>1. Types /\ NewCommand /\ UNCHANGED <<log, yaml, void>>
  BY EditStarts DEF Inv, repoVars
<1>2. PICK w \in WUs, kind \in {"block", "unblock", "release"} :
          proc' = [proc EXCEPT ![a] = Command(w, kind, "sweep")]
  BY <1>1, EditStarts
<1>3. PICK q : q = Command(w, kind, "sweep")
  OBVIOUS
<1>4. kind \in Kinds /\ "sweep" \in PCs \ {"idle"} /\ "sweep" \notin ClaimPCs
      /\ used.commands < MaxCommands
  BY <1>1, <1>2, NewNumber DEF Kinds, PCs, ClaimPCs
<1>5. /\ q \in Procs /\ q.id = used.commands + 1 /\ q.kind = kind /\ q.pc = "sweep" /\ ~q.landed
  BY <1>1, <1>3, <1>4, CommandType DEF Command, Idle
<1>6. OwnUnit(q)
  BY <1>1, <1>5, NewNumber DEF OwnUnit
<1>7. Sound(q) /\ ~Basing(q)
  BY <1>2, <1>5, <1>6 DEF Sound, Unlanded, Publishing, Based, FreeUnit, Basing
<1>8. proc' = [proc EXCEPT ![a] = q]
  BY <1>2, <1>3, Zenon
<1> HIDE DEF Inv, ClaimInv
<1> QED BY <1>1, <1>5, <1>7, <1>8, StartKeeps

LEMMA StartDoneKeeps ==
    ASSUME Inv, ClaimInv, Inv', NEW a \in Agents, StartDone(a)
    PROVE  ClaimInv'
<1>1. NewCommand /\ UNCHANGED <<log, yaml, void>> /\ Types /\ Home[a] \in Clones
  BY Constants, CommandCounted DEF StartDone, Inv, repoVars
<1>2. PICK w \in WUs :
          /\ local[Home[a]][w] # NoBranch
          /\ proc' = [proc EXCEPT ![a] =
                        [Command(w, "complete", "rebase") EXCEPT
                            !.base = local[Home[a]][w],
                            !.mine = Edited("complete", local[Home[a]][w],
                                            Command(w, "complete", "rebase").id)]]
  BY DEF StartDone
<1>3. PICK p : p = Command(w, "complete", "rebase")
  OBVIOUS
<1>4. PICK doc : doc = local[Home[a]][w]
  OBVIOUS
<1>5. PICK q : q = [p EXCEPT !.base = doc, !.mine = Edited("complete", doc, p.id)]
  OBVIOUS
<1>6. proc' = [proc EXCEPT ![a] = q]
  BY <1>2, <1>3, <1>4, <1>5, Zenon
<1>7. "complete" \in Kinds /\ "rebase" \in PCs \ {"idle"} /\ "rebase" \notin ClaimPCs
      /\ used.commands < MaxCommands
  BY <1>1, NewNumber DEF Kinds, PCs, ClaimPCs
<1>8. /\ p \in Procs /\ p.id = used.commands + 1 /\ p.kind = "complete" /\ p.pc = "rebase"
  BY <1>1, <1>3, <1>7, CommandType
<1>9. doc \in Docs /\ p.id \in Ids
  BY <1>1, <1>2, <1>4, <1>8, NewNumber DEF Types, RestTypes
<1>10. /\ Edited("complete", doc, p.id) \in Docs
       /\ Edited("complete", doc, p.id).claimedAt = doc.claimedAt
  BY <1>7, <1>9, EditedType, EditedClaim
<1>11. /\ q \in Procs /\ q.id = p.id /\ q.kind = p.kind /\ q.pc = p.pc
       /\ q.base = doc /\ q.mine.claimedAt = doc.claimedAt
  BY <1>5, <1>8, <1>9, <1>10 DEF Procs
<1>12. OwnUnit(q) /\ Absent(q)
  BY <1>1, <1>8, <1>11, NewNumber DEF OwnUnit, Absent
<1>13. Change(q)
  BY <1>8, <1>11 DEF Change
<1>14. Sound(q) /\ ~Basing(q)
  BY <1>8, <1>11, <1>12, <1>13 DEF Sound, Unlanded, Early, Based, FreeUnit, Basing
<1>15. q.id = used.commands + 1
  BY <1>8, <1>11
<1> HIDE DEF Inv, ClaimInv
<1> QED BY <1>1, <1>6, <1>11, <1>14, <1>15, StartKeeps

-----------------------------------------------------------------------------
LEMMA InitClaims == Init => ClaimInv
<1> SUFFICES ASSUME Init PROVE ClaimInv
  OBVIOUS
<1>1. /\ log = <<>> /\ void = {} /\ used.commands = 0
      /\ (\A w \in WUs : yaml[w].claimedAt = 0) /\ \A a \in Agents : proc[a] = Idle
  BY DEF Init, NewWU
<1>2. /\ Idle.id = 0 /\ Idle.pc = "idle" /\ ~Idle.landed /\ ~Unlanded(Idle)
      /\ ~Publishing(Idle) /\ ~Basing(Idle)
  BY IdleFacts DEF Publishing, Basing
<1>3. Sound(Idle)
  BY <1>2 DEF Sound, OwnUnit, Based, FreeUnit
<1>4. SoundInv /\ VoidInv /\ BaseInv /\ FreshInv
  BY <1>1, <1>2, <1>3 DEF SoundInv, VoidInv, BaseInv, FreshInv
<1>5. LastInv /\ ClaimsAlternate /\ FailedLeavesNothing
  BY <1>1 DEF LastInv, EventsOf, ClaimsAlternate, FailedLeavesNothing
<1> QED BY <1>4, <1>5 DEF ClaimInv

LEMMA NextClaims == Inv /\ ClaimInv /\ [Next]_vars /\ Inv' => ClaimInv'
<1> SUFFICES ASSUME Inv, ClaimInv, [Next]_vars, Inv' PROVE ClaimInv'
  OBVIOUS
<1>1. ASSUME NEW a \in Agents, Step(a) PROVE ClaimInv'
  BY <1>1, PublishKeeps, AcquireKeeps, ClaimKeeps DEF Step
<1>2. ASSUME NEW a \in Agents, StartClaim(a) \/ StartEdit(a) \/ OverrideOwner(a) \/ StartDone(a)
      PROVE  ClaimInv'
  BY <1>2, StartClaimKeeps, StartEditKeeps, StartDoneKeeps
<1>3. ASSUME NEW a \in Agents, Crash(a) PROVE ClaimInv'
  <2>1. Types /\ Fault /\ Ends(a) /\ UNCHANGED <<log, yaml, void>>
    BY <1>3 DEF Inv, Crash, repoVars
  <2>2. used'.commands = used.commands
    BY <2>1 DEF Fault, Types, RestTypes
  <2> QED BY <2>1, <2>2, EndsQuietly
<1>4. ASSUME NEW c \in Clones, Age(c) \/ \E w \in WUs : DeleteBranch(c, w) PROVE ClaimInv'
  <2>1. Types /\ Fault /\ UNCHANGED <<log, yaml, proc, void>>
    BY <1>4 DEF Inv, Age, DeleteBranch, repoVars
  <2>2. used'.commands = used.commands
    BY <2>1 DEF Fault, Types, RestTypes
  <2> QED BY <2>1, <2>2, StillStep
<1>5. CASE UNCHANGED vars
  BY <1>5, StillStep DEF vars, repoVars
<1> QED BY <1>1, <1>2, <1>3, <1>4, <1>5 DEF Next

\* The inductive invariant of the claims: every base, commit and claimedAt is accounted for.
THEOREM ClaimsInv == Spec => [](Inv /\ ClaimInv)
<1>1. Init => Inv /\ ClaimInv
  BY InitInv, InitClaims
<1>2. Inv /\ ClaimInv /\ [Next]_vars => (Inv /\ ClaimInv)'
  BY NextInv, NextClaims
<1> QED BY <1>1, <1>2, PTL DEF Spec

\* However often commits are rebased and answers lost, two claims of a unit are never on main
\* without an event between them that took it out of in_progress (wu-claim.ts checks only
\* before its first push; micro-worktree-shared.ts rebases without checking).
THEOREM UnitsClaimedInTurn == Spec => []ClaimsAlternate
<1>1. Inv /\ ClaimInv => ClaimsAlternate
  BY DEF ClaimInv
<1> QED BY <1>1, ClaimsInv, PTL

\* A claim that was refused, or failed and was rolled back, is in no unit's YAML on main
\* (rollbackCanonicalClaim), whatever was merged with it.
THEOREM FailedClaimsLeaveNothing == Spec => []FailedLeavesNothing
<1>1. Inv /\ ClaimInv => FailedLeavesNothing
  BY DEF ClaimInv
<1> QED BY <1>1, ClaimsInv, PTL

-----------------------------------------------------------------------------
(* The files of main agree, and its log follows the transition table. *)

Moves(from, to) == to \in Lifecycle!Transitions[from]

\* completedAt tells a finished unit, and no unit is finished twice.
Stamped(doc) == doc.status = "done" <=> doc.completedAt # 0

\* The two files of main say the same of a unit.
AgreeInv == \A w \in WUs \ moot : yaml[w].status = StatusIn(log, w) /\ Stamped(yaml[w])

BranchesStamped ==
    \A c \in Clones, w \in WUs \ moot : local[c][w] # NoBranch => Stamped(local[c][w])

\* The commit changes the status of its base as the table allows.
Changes(p) == p.mine.status = Target[p.kind] /\ Moves(p.base.status, p.mine.status)

\* The commit has the status of its base: the one it was to give, while it was rebased once.
Found(p) ==
    /\ p.mine.status = p.base.status
    /\ p.kind # "complete" /\ p.tries > 0
    /\ p.pc = "rebase" => p.tries > 1
    /\ p.tries = 1 => p.mine.status = Target[p.kind]

Finishing(p) ==
    IF p.kind = "complete"
      THEN p.base.completedAt = 0 /\ p.mine.completedAt = p.id /\ yaml[p.wu].completedAt # p.id
      ELSE p.mine.completedAt = p.base.completedAt

Legal(p) ==
    /\ p.pc \in {"sweep", "fetch"} => p.kind # "complete"
    /\ p.pc = "rebase" /\ p.kind # "complete" => p.tries > 0
    /\ Publishing(p) /\ p.wu \notin moot => (Changes(p) \/ Found(p)) /\ Finishing(p)

LegalInv == \A a \in Agents : Legal(proc[a])

\* No unit was finished by a command that is still to start.
FinishedByStarted == \A w \in WUs \ moot : yaml[w].completedAt <= used.commands

LifeInv == AgreeInv /\ BranchesStamped /\ LegalInv

\* What FollowsTable says of a step.
Following ==
    \A i \in DOMAIN log' \ DOMAIN log :
        LET w == log'[i].wu
            status == StatusIn(log, w)
        IN  \/ w \in moot'
            \/ StatusIn(log', w) \in Lifecycle!Transitions[status] \cup {status}

LEMMA MovesFacts ==
    /\ \A from, to \in Statuses : Moves(from, to) => from # to /\ from # "done"
    /\ \A kind \in Kinds : Target[kind] \in Statuses /\ (Target[kind] = "done" <=> kind = "complete")
BY DEF Moves, Lifecycle!Transitions, Statuses, Kinds, Target

LEMMA EditedFields ==
    ASSUME NEW kind \in Kinds, NEW doc \in Docs, NEW id \in Ids
    PROVE  /\ Edited(kind, doc, id).status = Target[kind]
           /\ Edited(kind, doc, id).completedAt = IF kind = "complete" THEN id ELSE doc.completedAt
BY DEF Edited, Docs, Kinds

LEMMA MergedFields ==
    ASSUME NEW b \in Docs, NEW m \in Docs, NEW t \in Docs, ~Clashes(b, m, t),
           NEW f \in {"status", "completedAt"}
    PROVE  /\ Merged(b, m, t)[f] = IF m[f] = b[f] THEN t[f] ELSE m[f]
           /\ m[f] = b[f] \/ t[f] = b[f] \/ m[f] = t[f]
<1>1. f \in DOMAIN b
  BY DEF Docs
<1> QED BY <1>1 DEF Merged, Clashes

\* The checks of a command, made on main, allow the move it makes.
LEMMA AllowedMoves ==
    ASSUME NEW kind \in Kinds \ {"complete"}, NEW doc \in Docs, Allowed(kind, doc, doc.status)
    PROVE  Moves(doc.status, Target[kind])
BY DEF Allowed, Kinds, Docs, Statuses, Moves, Target, Lifecycle!Transitions

LEMMA RestingLegal ==
    ASSUME NEW q, q.pc \notin {"sweep", "fetch", "branchoff", "push", "rebase"}
    PROVE  Legal(q)
BY DEF Legal, Publishing

\* An event on main: its unit has the status that it sets, the others keep theirs.
LEMMA StatusAfterEvent ==
    ASSUME Types, LastInv, NEW e \in [wu : WUs, kind : Kinds], log' = Append(log, e),
           NEW w \in WUs
    PROVE  StatusIn(log', w) = IF e.wu = w THEN Target[e.kind] ELSE StatusIn(log, w)
<1> DEFINE n == Len(log) + 1
           mine == {i \in DOMAIN log : log[i].wu = w}
           now == {i \in DOMAIN log' : log'[i].wu = w}
<1>1. Len(log) \in Nat /\ DOMAIN log = 1 .. Len(log)
  BY DEF Types, RestTypes
<1>2. /\ DOMAIN log' = 1 .. n /\ log'[n] = e /\ n \in Nat
      /\ \A j \in DOMAIN log : j \in DOMAIN log' /\ log'[j] = log[j]
  BY AppendedLog
<1>3. CASE e.wu = w
  <2>1. n \in now /\ \A i \in now : i \in Nat /\ i <= n
    BY <1>1, <1>2, <1>3
  <2>2. \A x \in now : (\A y \in now : x >= y) <=> x = n
    BY <1>2, <2>1
  <2>3. Max(now) = n
    <3> HIDE DEF now, n
    <3>1. \E x \in now : \A y \in now : x >= y
      BY <2>1, <2>2
    <3>2. Max(now) \in now /\ \A y \in now : Max(now) >= y
      BY <3>1, Zenon DEF Max
    <3> QED BY <2>2, <3>2
  <2> QED BY <1>2, <1>3, <2>1, <2>3 DEF StatusIn
<1>4. CASE e.wu # w
  <2>1. now = mine
    BY <1>1, <1>2, <1>4
  <2>2. CASE mine = {}
    BY <1>4, <2>1, <2>2 DEF StatusIn
  <2>3. CASE mine # {}
    <3>1. mine \subseteq DOMAIN log
      OBVIOUS
    <3>2. Max(mine) \in mine
      <4>1. \E m \in mine : \A i \in mine : m >= i
        BY <2>3 DEF LastInv, EventsOf
      <4> QED BY <4>1, Zenon DEF Max
    <3> QED BY <1>2, <1>4, <2>1, <2>3, <3>1, <3>2 DEF StatusIn
  <2> QED BY <2>2, <2>3
<1> QED BY <1>3, <1>4

-----------------------------------------------------------------------------
LEMMA StaysLegal ==
    ASSUME UNCHANGED <<log, yaml, moot>>, LegalInv,
           \A b \in Agents : proc'[b] = proc[b] \/ Legal(proc'[b])
    PROVE  LegalInv'
<1>1. \A p : Legal(p)' <=> Legal(p)
  BY DEF Legal, Publishing, Changes, Found, Finishing, Moves
<1>2. \A b \in Agents : Legal(proc'[b])
  BY DEF LegalInv
<1> QED BY <1>1, <1>2 DEF LegalInv

\* Main stays as it is: the commands that change remain legal.
LEMMA LifeQuiet ==
    ASSUME LifeInv, UNCHANGED <<log, yaml, moot>>, UNCHANGED local,
           \A b \in Agents : proc'[b] = proc[b] \/ Legal(proc'[b])
    PROVE  LifeInv' /\ UNCHANGED log
<1>1. AgreeInv' /\ BranchesStamped'
  BY DEF LifeInv, AgreeInv, BranchesStamped
<1>2. LegalInv'
  BY StaysLegal DEF LifeInv
<1> QED BY <1>1, <1>2 DEF LifeInv

LEMMA LifeMovesOn ==
    ASSUME Inv, LifeInv, NEW a \in Agents, UNCHANGED <<log, yaml, moot>>, UNCHANGED local,
           NEW q, proc' = [proc EXCEPT ![a] = q], Legal(q)
    PROVE  LifeInv' /\ UNCHANGED log
<1>1. \A b \in Agents : proc'[b] = IF b = a THEN q ELSE proc[b]
  BY DEF Inv, Types
<1> HIDE DEF LifeInv
<1> QED BY <1>1, LifeQuiet

LEMMA IdleLegal == Legal(Idle)
BY RestingLegal DEF Idle

LEMMA LifeGoesTo ==
    ASSUME Inv, LifeInv, NEW a \in Agents, UNCHANGED <<log, yaml, moot>>, UNCHANGED local,
           NEW pc, pc \notin {"sweep", "fetch", "branchoff", "push", "rebase"}, Goto(a, pc) \/ Ends(a)
    PROVE  LifeInv' /\ UNCHANGED log
<1>1. CASE Goto(a, pc)
  <2>1. PICK q : q = [proc[a] EXCEPT !.pc = pc]
    OBVIOUS
  <2>2. q.pc = pc
    BY <2>1 DEF Inv, Types, Procs
  <2>3. proc' = [proc EXCEPT ![a] = q]
    BY <1>1, <2>1, Zenon DEF Goto
  <2> HIDE DEF Inv, LifeInv
  <2> QED BY <2>2, <2>3, RestingLegal, LifeMovesOn
<1>2. CASE Ends(a)
  <2> HIDE DEF Inv, LifeInv
  <2> QED BY <1>2, IdleLegal, LifeMovesOn DEF Ends
<1> QED BY <1>1, <1>2

LEMMA AcquireLegal ==
    ASSUME Inv, LifeInv, NEW a \in Agents, Acquire(a)
    PROVE  LifeInv' /\ UNCHANGED log
<1>1. /\ UNCHANGED <<log, yaml, moot>> /\ UNCHANGED local
      /\ \E pc \in {"open", "look", "clear", "write", "branch", "unlink"} : Goto(a, pc) \/ Ends(a)
  BY DEF Acquire, Open, OpenExists, LookShared, LookStale, LookRefused, Clear, Write, Unlock, Unlink,
         Finishes, cloneVars, repoVars
<1> HIDE DEF Inv, LifeInv
<1> QED BY <1>1, LifeGoesTo

\* The branch that a claim makes has main's YAML.
LEMMA AddWorktreeLegal ==
    ASSUME Inv, LifeInv, NEW a \in Agents, AddWorktree(a)
    PROVE  LifeInv' /\ UNCHANGED log
<1> DEFINE w == proc[a].wu
<1>1. /\ Types /\ UNCHANGED <<log, yaml, moot>> /\ Goto(a, "branchpush") /\ proc[a].pc = "worktree"
      /\ local' = [local EXCEPT ![Home[a]][w] = yaml[w]]
  BY DEF Inv, AddWorktree, At, repoVars
<1>2. w \in WUs /\ Home[a] \in Clones
  BY <1>1, RunningFacts, Constants DEF Inv
<1>3. \A c \in Clones, v \in WUs : local'[c][v] = local[c][v] \/ (v = w /\ local'[c][v] = yaml[w])
  BY <1>1, <1>2 DEF Types, RestTypes
<1>4. BranchesStamped'
  BY <1>1, <1>2, <1>3 DEF BranchesStamped, LifeInv, AgreeInv
<1>5. AgreeInv' /\ log' = log
  BY <1>1 DEF LifeInv, AgreeInv
<1>6. \A b \in Agents : proc'[b] = proc[b] \/ Legal(proc'[b])
  <2>1. \A b \in Agents : b # a => proc'[b] = proc[b]
    BY <1>1 DEF Goto, Types
  <2>2. proc'[a].pc = "branchpush"
    BY <1>1 DEF Goto, Types, Procs
  <2> QED BY <2>1, <2>2, RestingLegal
<1>7. LegalInv'
  BY <1>1, <1>6, StaysLegal DEF LifeInv
<1> QED BY <1>4, <1>5, <1>7 DEF LifeInv

LEMMA ClaimLegal ==
    ASSUME Inv, LifeInv, NEW a \in Agents, Claim(a)
    PROVE  LifeInv' /\ UNCHANGED log
<1>1. CASE AddWorktree(a)
  BY <1>1, AddWorktreeLegal
<1>2. CASE CheckBranches(a) \/ ClaimFails(a)
  <2>1. PICK kind \in {"claim", "rollback"} :
            proc' = [proc EXCEPT ![a] = Fetcher(proc[a], kind)]
    BY <1>2 DEF CheckBranches, ClaimFails, Fetching, Fetcher, Inv, Types
  <2>2. PICK q : q = Fetcher(proc[a], kind)
    OBVIOUS
  <2>3. q.pc = "sweep" /\ q.kind = kind
    BY <2>2 DEF Fetcher, Inv, Types, Procs
  <2>4. Legal(q)
    BY <2>3 DEF Legal, Publishing
  <2>5. proc' = [proc EXCEPT ![a] = q]
    BY <2>1, <2>2, Zenon
  <2>6. UNCHANGED <<log, yaml, moot>> /\ UNCHANGED local
    BY <1>2 DEF CheckBranches, ClaimFails, cloneVars, repoVars
  <2> HIDE DEF Inv, LifeInv
  <2> QED BY <2>4, <2>5, <2>6, LifeMovesOn
<1>3. CASE PushBranch(a) \/ ClaimRefused(a) \/ ClaimMade(a)
  <2>1. /\ UNCHANGED <<log, yaml, moot>> /\ UNCHANGED local
        /\ \E pc \in {"setup", "unlock"} : Goto(a, pc) \/ Ends(a)
    BY <1>3 DEF PushBranch, ClaimRefused, ClaimMade, cloneVars, repoVars
  <2> HIDE DEF Inv, LifeInv
  <2> QED BY <2>1, LifeGoesTo
<1> QED BY <1>1, <1>2, <1>3 DEF Claim

\* A command gives up, or is done with a commit that was in main before.
LEMMA LeavesLegally ==
    ASSUME Inv, LifeInv, NEW a \in Agents, UNCHANGED <<log, yaml, moot>>, UNCHANGED local,
           Published(a) \/ Unpublished(a)
    PROVE  LifeInv' /\ UNCHANGED log
<1>1. \/ Ends(a)
      \/ \E pc \in {"worktree", "unlock"} : proc' = [proc EXCEPT ![a] = Left(proc[a], pc)]
  BY DEF Published, Unpublished, Leaves, Left
<1>2. CASE Ends(a)
  <2> HIDE DEF Inv, LifeInv
  <2> QED BY <1>2, IdleLegal, LifeMovesOn DEF Ends
<1>3. ASSUME NEW pc \in {"worktree", "unlock"}, proc' = [proc EXCEPT ![a] = Left(proc[a], pc)]
      PROVE  LifeInv' /\ UNCHANGED log
  <2>1. Left(proc[a], pc).pc = pc
    BY DEF Left, Idle
  <2>2. Legal(Left(proc[a], pc))
    BY <2>1, RestingLegal
  <2> HIDE DEF Inv, LifeInv
  <2> QED BY <1>3, <2>2, LifeMovesOn
<1> QED BY <1>1, <1>2, <1>3

\* A commit made on main: its checks were made on what it is based on.
LEMMA CommitLegal ==
    ASSUME Inv, LifeInv, NEW p \in Procs, p.kind \in Kinds \ {"complete"}, p.wu \in WUs, p.id \in Ids,
           Allowed(p.kind, yaml[p.wu], StatusIn(log, p.wu)),
           NEW q, q = Committed(p, "branchoff", Len(log), yaml[p.wu],
                                Edited(p.kind, yaml[p.wu], p.id))
    PROVE  Legal(q)
<1> DEFINE base == yaml[p.wu]
           mine == Edited(p.kind, base, p.id)
<1>1. base \in Docs
  BY DEF Inv, Types, RestTypes
<1>2. mine.status = Target[p.kind] /\ mine.completedAt = base.completedAt
  BY <1>1, EditedFields
<1>3. p.wu \notin moot => Moves(base.status, Target[p.kind])
  <2> SUFFICES ASSUME p.wu \notin moot PROVE Moves(base.status, Target[p.kind])
    OBVIOUS
  <2>1. base.status = StatusIn(log, p.wu)
    BY DEF LifeInv, AgreeInv
  <2> QED BY <1>1, <2>1, AllowedMoves
<1> HIDE DEF base, mine
<1>4. q.pc = "branchoff" /\ q.kind = p.kind /\ q.wu = p.wu /\ q.base = base /\ q.mine = mine
  BY DEF Committed, Procs, base, mine
<1> QED BY <1>2, <1>3, <1>4 DEF Legal, Changes, Finishing

LEMMA ExecuteLegal ==
    ASSUME Inv, LifeInv, NEW a \in Agents, Execute(a), UNCHANGED cloneVars
    PROVE  LifeInv' /\ UNCHANGED log
<1> DEFINE p == proc[a]
<1>1. p.pc = "fetch"
  BY DEF Execute, At
<1>2. p \in Procs /\ p.kind \in Kinds /\ p.wu \in WUs /\ p.id \in Ids /\ p.kind # "complete"
  BY <1>1, RunningFacts DEF Inv, LifeInv, LegalInv, Legal
<1>3. /\ Allowed(p.kind, yaml[p.wu], StatusIn(log, p.wu))
      /\ UNCHANGED <<log, yaml, moot>> /\ UNCHANGED local
      /\ proc' = [proc EXCEPT ![a] = Committed(p, "branchoff", Len(log), yaml[p.wu],
                                               Edited(p.kind, yaml[p.wu], p.id))]
  BY DEF Execute, Committed, cloneVars
<1>4. PICK q : q = Committed(p, "branchoff", Len(log), yaml[p.wu],
                             Edited(p.kind, yaml[p.wu], p.id))
  OBVIOUS
<1>5. proc' = [proc EXCEPT ![a] = q]
  BY <1>3, <1>4, Zenon
<1> HIDE DEF Inv, LifeInv
<1>6. Legal(q)
  BY <1>2, <1>3, <1>4, CommitLegal
<1> QED BY <1>3, <1>5, <1>6, LifeMovesOn

\* The temporary branch is cleared, or made.
LEMMA TempLegal ==
    ASSUME Inv, LifeInv, NEW a \in Agents, Sweep(a) \/ BranchOff(a), UNCHANGED cloneVars
    PROVE  LifeInv' /\ UNCHANGED log
<1> DEFINE p == proc[a]
<1>1. UNCHANGED <<log, yaml, moot>> /\ UNCHANGED local /\ p \in Procs /\ Legal(p)
  BY DEF Sweep, BranchOff, cloneVars, Inv, Types, LifeInv, LegalInv
<1>2. PICK pc \in {"fetch", "push"} :
          Goto(a, pc) /\ p.pc = IF pc = "fetch" THEN "sweep" ELSE "branchoff"
  BY DEF Sweep, BranchOff, At
<1>3. PICK q : q = [p EXCEPT !.pc = pc]
  OBVIOUS
<1>4. proc' = [proc EXCEPT ![a] = q]
  BY <1>2, <1>3, Zenon DEF Goto
<1>5. /\ q.pc = pc /\ q.kind = p.kind /\ q.wu = p.wu /\ q.id = p.id /\ q.base = p.base
      /\ q.mine = p.mine /\ q.landed = p.landed /\ q.tries = p.tries
  BY <1>1, <1>3 DEF Procs
<1> HIDE DEF p
<1>6. Legal(q)
  BY <1>1, <1>2, <1>5 DEF Legal, Publishing, Changes, Found, Finishing
<1> HIDE DEF Inv, LifeInv
<1> QED BY <1>1, <1>4, <1>6, LifeMovesOn

LEMMA PushFailsLegal ==
    ASSUME Inv, LifeInv, NEW a \in Agents, PushFails(a), UNCHANGED cloneVars
    PROVE  LifeInv' /\ UNCHANGED log
<1> DEFINE p == proc[a]
<1>1. /\ p.pc = "push" /\ UNCHANGED <<log, yaml, moot>> /\ UNCHANGED local
      /\ p \in Procs /\ p.tries \in Nat /\ Legal(p)
  BY RunningFacts, Constants DEF PushFails, At, cloneVars, Inv, LifeInv, LegalInv
<1>2. CASE p.tries + 1 < MaxAttempts
  <2>1. PICK q : q = Retried(p, p.tries + 1)
    OBVIOUS
  <2>2. proc' = [proc EXCEPT ![a] = q]
    BY <1>2, <2>1, Zenon DEF PushFails, Retried
  <2>3. /\ q.pc = "rebase" /\ q.kind = p.kind /\ q.id = p.id /\ q.wu = p.wu /\ q.base = p.base
        /\ q.mine = p.mine /\ q.landed = p.landed /\ q.tries = p.tries + 1
    BY <1>1, <2>1 DEF Retried, Procs
  <2> HIDE DEF p
  <2>4. Found(p) => Found(q)
    BY <1>1, <2>3 DEF Found
  <2>5. (Changes(p) => Changes(q)) /\ (Finishing(p) => Finishing(q)) /\ q.tries > 0
    BY <1>1, <2>3 DEF Changes, Finishing
  <2>6. Legal(q)
    BY <1>1, <2>3, <2>4, <2>5 DEF Legal, Publishing
  <2> HIDE DEF Inv, LifeInv
  <2> QED BY <1>1, <2>2, <2>6, LifeMovesOn
<1>3. CASE ~(p.tries + 1 < MaxAttempts)
  <2>1. Unpublished(a)
    BY <1>3 DEF PushFails
  <2> HIDE DEF Inv, LifeInv
  <2> QED BY <1>1, <2>1, LeavesLegally
<1> QED BY <1>2, <1>3

\* A commit that is rebased: it still changes the status of its base, which is main's, or main
\* has the commit's status already.
LEMMA RebasedLegal ==
    ASSUME Inv, LifeInv, NEW a \in Agents, proc[a].pc = "rebase", ~proc[a].landed,
           proc[a].wu \notin moot,
           ~Clashes(proc[a].base, proc[a].mine, yaml[proc[a].wu]),
           NEW q, q = Committed(proc[a], "push", Len(log), yaml[proc[a].wu],
                                Merged(proc[a].base, proc[a].mine, yaml[proc[a].wu]))
    PROVE  Legal(q)
<1> DEFINE p == proc[a]
           theirs == yaml[p.wu]
           mine == Merged(p.base, p.mine, theirs)
<1>1. /\ p \in Procs /\ p.kind \in Kinds /\ p.wu \in WUs /\ p.id # 0 /\ p.base \in Docs
      /\ p.mine \in Docs /\ theirs \in Docs /\ p.tries \in Nat
  BY RunningFacts, Constants DEF Inv
<1>2. /\ Changes(p) \/ (Found(p) /\ p.tries > 1)
      /\ Finishing(p) /\ (p.kind # "complete" => p.tries > 0)
  BY <1>1 DEF LifeInv, LegalInv, Legal, Publishing, Found
<1>3. Stamped(theirs) /\ theirs = yaml[p.wu]
  BY <1>1 DEF LifeInv, AgreeInv
<1>4. /\ mine.status = IF p.mine.status = p.base.status THEN theirs.status ELSE p.mine.status
      /\ \/ p.mine.status = p.base.status \/ theirs.status = p.base.status
         \/ p.mine.status = theirs.status
  <2> HIDE DEF p, theirs
  <2>1. /\ mine["status"] = IF p.mine["status"] = p.base["status"]
                             THEN theirs["status"] ELSE p.mine["status"]
        /\ \/ p.mine["status"] = p.base["status"] \/ theirs["status"] = p.base["status"]
           \/ p.mine["status"] = theirs["status"]
    BY <1>1, MergedFields DEF p, theirs
  <2> QED BY <2>1
<1>5. /\ mine.completedAt = IF p.mine.completedAt = p.base.completedAt
                            THEN theirs.completedAt ELSE p.mine.completedAt
      /\ \/ p.mine.completedAt = p.base.completedAt \/ theirs.completedAt = p.base.completedAt
         \/ p.mine.completedAt = theirs.completedAt
  <2> HIDE DEF p, theirs
  <2>1. /\ mine["completedAt"] = IF p.mine["completedAt"] = p.base["completedAt"]
                                  THEN theirs["completedAt"] ELSE p.mine["completedAt"]
        /\ \/ p.mine["completedAt"] = p.base["completedAt"]
           \/ theirs["completedAt"] = p.base["completedAt"]
           \/ p.mine["completedAt"] = theirs["completedAt"]
    BY <1>1, MergedFields DEF p, theirs
  <2> QED BY <2>1
<1>6. q.pc = "push" /\ q.kind = p.kind /\ q.wu = p.wu /\ q.base = theirs /\ q.mine = mine
      /\ q.id = p.id /\ q.tries = p.tries
  BY <1>1 DEF Committed, Procs
<1> HIDE DEF p, theirs, mine
<1>7. Finishing(q)
  BY <1>1, <1>2, <1>3, <1>5, <1>6 DEF Finishing
<1>8. CASE Changes(p)
  <2>1. /\ p.base.status # p.mine.status /\ p.mine.status = Target[p.kind]
        /\ Target[p.kind] = "done" <=> p.kind = "complete"
    <3>1. p.base.status \in Statuses /\ p.mine.status \in Statuses
      BY <1>1 DEF Docs
    <3> QED BY <1>1, <1>8, <3>1, MovesFacts DEF Changes
  <2>2. CASE theirs.status = p.base.status
    <3>1. Changes(q)
      BY <1>4, <1>6, <1>8, <2>1, <2>2 DEF Changes
    <3> QED BY <1>6, <1>7, <3>1 DEF Legal
  <2>3. CASE theirs.status = p.mine.status
    <3>1. p.kind # "complete"
      BY <1>1, <1>2, <1>3, <1>5, <1>6, <1>7, <2>1, <2>3 DEF Stamped, Finishing
    <3>2. Found(q)
      BY <1>2, <1>4, <1>6, <2>1, <2>3, <3>1 DEF Found
    <3> QED BY <1>6, <1>7, <3>2 DEF Legal
  <2> QED BY <1>4, <2>1, <2>2, <2>3
<1>9. CASE Found(p) /\ p.tries > 1
  <2>1. Found(q)
    BY <1>1, <1>4, <1>6, <1>9 DEF Found
  <2> QED BY <1>6, <1>7, <2>1 DEF Legal
<1> QED BY <1>2, <1>8, <1>9

LEMMA RebaseLegal ==
    ASSUME Inv, LifeInv, NEW a \in Agents, Rebase(a), UNCHANGED cloneVars
    PROVE  LifeInv' /\ UNCHANGED log
<1> DEFINE p == proc[a]
           theirs == yaml[p.wu]
           mine == IF p.landed THEN theirs ELSE Merged(p.base, p.mine, theirs)
<1>1. /\ p.pc = "rebase" /\ UNCHANGED <<log, yaml, moot>> /\ UNCHANGED local
      /\ p.landed \/ ~Clashes(p.base, p.mine, theirs)
      /\ p \in Procs /\ p.landed \in BOOLEAN
  BY RunningFacts DEF Rebase, At, cloneVars, Inv
<1>2. PICK q : q = Committed(p, "push", Len(log), theirs, mine)
  OBVIOUS
<1>3. proc' = [proc EXCEPT ![a] = q]
  BY <1>2, Zenon DEF Rebase, Committed
<1>4. q.pc = "push" /\ q.landed = p.landed /\ q.wu = p.wu
  BY <1>1, <1>2 DEF Committed, Procs
<1>5. Legal(q)
  <2>1. CASE p.landed \/ p.wu \in moot
    BY <1>4, <2>1 DEF Legal, Publishing
  <2>2. CASE ~p.landed /\ p.wu \notin moot
    <3>1. q = Committed(p, "push", Len(log), theirs, Merged(p.base, p.mine, theirs))
      BY <1>2, <2>2
    <3> HIDE DEF Inv, LifeInv
    <3> QED BY <1>1, <2>2, <3>1, RebasedLegal
  <2> QED BY <2>1, <2>2
<1> HIDE DEF Inv, LifeInv
<1> QED BY <1>1, <1>3, <1>5, LifeMovesOn

\* What a commit that lands gives its unit, if the unit is not moot then.
LEMMA LandsAgreed ==
    ASSUME Inv, ClaimInv, LifeInv, NEW a \in Agents, proc[a].pc = "push",
           proc[a].at = Len(log), ~proc[a].landed, Lands(proc[a]), proc[a].wu \notin moot'
    PROVE  /\ proc[a].wu \notin moot /\ proc[a].base = yaml[proc[a].wu]
           /\ proc[a].mine.status = Target[proc[a].kind]
           /\ \/ Moves(proc[a].base.status, Target[proc[a].kind])
              \/ proc[a].base.status = Target[proc[a].kind]
           /\ Stamped(proc[a].mine)
           /\ proc[a].mine.completedAt \in {proc[a].id, yaml[proc[a].wu].completedAt}
<1> DEFINE p == proc[a]
<1>1. Types /\ ShapeInv /\ Legal(p) /\ AgreeInv /\ Sound(p) /\ Publishing(p)
  BY DEF Inv, ClaimInv, SoundInv, LifeInv, LegalInv, Publishing
<1>2. /\ p.wu \in WUs /\ p.kind \in Kinds /\ p.id # 0 /\ p.mine \in Docs /\ p.base \in Docs
      /\ p.tries \in Nat
  BY <1>1, RunningFacts, Constants
<1>3. p.wu \notin moot /\ ~(p.tries > 1 /\ p.mine.status = p.base.status)
  BY DEF Lands
<1>4. p.base = yaml[p.wu] /\ Stamped(p.base)
  BY <1>1, <1>2, <1>3 DEF Sound, Based, AgreeInv
<1>5. (Changes(p) \/ Found(p)) /\ Finishing(p)
  BY <1>1, <1>3 DEF Legal
<1> HIDE DEF p
<1>6. /\ p.mine.status = Target[p.kind]
      /\ Moves(p.base.status, Target[p.kind]) \/ p.base.status = Target[p.kind]
  <2>1. CASE Changes(p)
    BY <2>1 DEF Changes
  <2>2. CASE Found(p)
    <3>1. p.tries = 1
      BY <1>2, <1>3, <2>2 DEF Found
    <3> QED BY <2>2, <3>1 DEF Found
  <2> QED BY <1>5, <2>1, <2>2
<1>7. p.mine.completedAt \in {p.id, yaml[p.wu].completedAt}
  BY <1>4, <1>5 DEF Finishing
<1>8. Stamped(p.mine)
  <2>1. /\ p.base.status \in Statuses /\ Target[p.kind] \in Statuses
        /\ Target[p.kind] = "done" <=> p.kind = "complete"
    BY <1>2, MovesFacts DEF Docs
  <2>2. CASE p.kind = "complete"
    BY <1>2, <1>5, <1>6, <2>1, <2>2 DEF Stamped, Finishing
  <2>3. CASE p.kind # "complete"
    <3>1. p.mine.completedAt = p.base.completedAt /\ p.base.status # "done" /\ p.mine.status # "done"
      BY <1>5, <1>6, <2>1, <2>3, MovesFacts DEF Finishing
    <3> QED BY <1>4, <3>1 DEF Stamped
  <2> QED BY <2>2, <2>3
<1> QED BY <1>3, <1>4, <1>6, <1>7, <1>8 DEF p

\* A commit lands: its unit moves along the table, keeps its status, or is moot.
LEMMA LandLegal ==
    ASSUME Inv, ClaimInv, LifeInv, NEW a \in Agents, proc[a].pc = "push",
           proc[a].at = Len(log), ~proc[a].landed, Lands(proc[a]), UNCHANGED local,
           NEW q, proc' = [proc EXCEPT ![a] = q], q.pc \notin {"sweep", "fetch", "rebase"},
           ~Publishing(q)
    PROVE  LifeInv' /\ Following
<1> DEFINE p == proc[a]
           w == p.wu
           e == [wu |-> p.wu, kind |-> p.kind]
<1>1. Types /\ ShapeInv /\ IdInv /\ LastInv /\ AgreeInv
  BY DEF Inv, ClaimInv, LifeInv
<1>2. /\ w \in WUs /\ p.kind \in Kinds /\ p.id # 0 /\ p.mine \in Docs
      /\ e \in [wu : WUs, kind : Kinds] /\ e.wu = w /\ e.kind = p.kind
  BY <1>1, RunningFacts
<1>3. /\ log' = Append(log, e) /\ yaml' = [yaml EXCEPT ![w] = p.mine] /\ yaml \in [WUs -> Docs]
      /\ moot \subseteq moot'
  BY <1>1 DEF Lands, Types, RestTypes
<1>4. w \notin moot' =>
          /\ w \notin moot /\ p.base = yaml[w] /\ p.mine.status = Target[p.kind] /\ Stamped(p.mine)
          /\ Moves(p.base.status, Target[p.kind]) \/ p.base.status = Target[p.kind]
          /\ p.mine.completedAt \in {p.id, yaml[w].completedAt}
  <2> HIDE DEF Inv, ClaimInv, LifeInv
  <2> QED BY LandsAgreed
<1> HIDE DEF e
<1>5. \A v \in WUs : StatusIn(log', v) = IF v = w THEN Target[p.kind] ELSE StatusIn(log, v)
  BY <1>1, <1>2, <1>3, StatusAfterEvent
<1>6. \A v \in WUs : yaml'[v] = IF v = w THEN p.mine ELSE yaml[v]
  BY <1>2, <1>3
<1>7. AgreeInv'
  <2> SUFFICES ASSUME NEW v \in WUs \ moot'
               PROVE  yaml'[v].status = StatusIn(log', v) /\ Stamped(yaml'[v])
    BY DEF AgreeInv, Stamped
  <2>1. CASE v = w
    BY <1>4, <1>5, <1>6, <2>1
  <2>2. CASE v # w
    BY <1>1, <1>3, <1>5, <1>6, <2>2 DEF AgreeInv
  <2> QED BY <2>1, <2>2
<1>8. LegalInv'
  <2> SUFFICES ASSUME NEW b \in Agents PROVE Legal(proc[b])'
    BY DEF LegalInv
  <2>1. proc'[b] = IF b = a THEN q ELSE proc[b]
    BY <1>1 DEF Types
  <2>2. CASE b = a
    BY <2>1, <2>2 DEF Legal, Publishing
  <2>3. CASE b # a
    <3>1. proc'[b] = proc[b] /\ Legal(proc[b])
      BY <2>1, <2>3 DEF LifeInv, LegalInv
    <3>2. ASSUME Publishing(proc[b])
          PROVE  proc[b].id # 0 /\ proc[b].id # p.id /\ proc[b].wu \in WUs
      <4>1. proc[b].pc # "idle"
        BY <3>2 DEF Publishing
      <4> QED BY <1>1, <2>3, <4>1 DEF ShapeInv, Shaped, IdInv
    <3>3. ASSUME Publishing(proc[b]), proc[b].wu \notin moot'
          PROVE  Finishing(proc[b])'
      <4>1. proc[b].wu \notin moot /\ Finishing(proc[b])
        BY <1>3, <3>1, <3>3 DEF Legal
      <4>2. proc[b].kind = "complete" => yaml'[proc[b].wu].completedAt # proc[b].id
        BY <1>4, <1>6, <3>2, <3>3, <4>1 DEF Finishing
      <4> QED BY <3>1, <4>1, <4>2 DEF Finishing
    <3>4. Publishing(proc[b])' <=> Publishing(proc[b])
      BY <3>1 DEF Publishing
    <3>5. /\ Changes(proc[b])' <=> Changes(proc[b])
          /\ Found(proc[b])' <=> Found(proc[b])
      BY <3>1 DEF Changes, Found, Moves
    <3>6. Publishing(proc[b]) /\ proc[b].wu \notin moot'
              => Changes(proc[b]) \/ Found(proc[b])
      BY <1>3, <3>1 DEF Legal
    <3> QED BY <3>1, <3>3, <3>4, <3>5, <3>6 DEF Legal
  <2> QED BY <2>2, <2>3
<1>9. BranchesStamped'
  BY <1>3 DEF LifeInv, BranchesStamped
<1>10. Following
  <2> SUFFICES ASSUME NEW i \in DOMAIN log' \ DOMAIN log, log'[i].wu \notin moot'
               PROVE  StatusIn(log', log'[i].wu) \in
                          Lifecycle!Transitions[StatusIn(log, log'[i].wu)]
                              \cup {StatusIn(log, log'[i].wu)}
    BY DEF Following
  <2>1. log'[i].wu = w
    <3>1. /\ DOMAIN log' = 1 .. Len(log) + 1 /\ log'[Len(log) + 1] = e
          /\ Len(log) \in Nat /\ DOMAIN log = 1 .. Len(log)
      BY <1>1, <1>2, <1>3, AppendedLog DEF Types, RestTypes
    <3>2. i = Len(log) + 1
      BY <3>1
    <3> QED BY <1>2, <3>1, <3>2
  <2>2. StatusIn(log, w) = p.base.status /\ StatusIn(log', w) = Target[p.kind]
    BY <1>1, <1>2, <1>4, <1>5, <2>1 DEF AgreeInv
  <2> QED BY <1>4, <2>1, <2>2 DEF Moves
<1> QED BY <1>7, <1>8, <1>9, <1>10 DEF LifeInv

LEMMA PushLegal ==
    ASSUME Inv, ClaimInv, LifeInv, NEW a \in Agents, Push(a), UNCHANGED cloneVars
    PROVE  LifeInv' /\ (UNCHANGED log \/ Following)
<1>1. proc[a].pc = "push" /\ proc[a].at = Len(log) /\ Published(a) /\ UNCHANGED local
  BY DEF Push, At, cloneVars
<1>2. CASE proc[a].landed
  <2>1. UNCHANGED <<log, yaml, moot>>
    BY <1>2 DEF Push
  <2> HIDE DEF Inv, LifeInv
  <2> QED BY <1>1, <2>1, LeavesLegally
<1>3. CASE ~proc[a].landed
  <2>1. Lands(proc[a])
    BY <1>3 DEF Push
  <2>2. \/ proc' = [proc EXCEPT ![a] = Idle]
        \/ \E pc \in {"worktree", "unlock"} : proc' = [proc EXCEPT ![a] = Left(proc[a], pc)]
    BY <1>1 DEF Published, Leaves, Left, Ends
  <2>3. Idle.pc = "idle" /\ \A pc \in {"worktree", "unlock"} : Left(proc[a], pc).pc = pc
    BY DEF Idle, Left
  <2>4. PICK q : /\ proc' = [proc EXCEPT ![a] = q] /\ q.pc \in {"idle", "worktree", "unlock"}
    BY <2>2, <2>3
  <2>5. q.pc \notin {"sweep", "fetch", "rebase"} /\ ~Publishing(q)
    BY <2>4 DEF Publishing
  <2> HIDE DEF Inv, LifeInv, ClaimInv
  <2> QED BY <1>1, <1>3, <2>1, <2>4, <2>5, LandLegal
<1> QED BY <1>2, <1>3

LEMMA UnansweredLegal ==
    ASSUME Inv, ClaimInv, LifeInv, NEW a \in Agents, PushUnanswered(a), UNCHANGED cloneVars
    PROVE  LifeInv' /\ Following
<1>1. /\ proc[a].pc = "push" /\ proc[a].at = Len(log) /\ ~proc[a].landed /\ Lands(proc[a])
      /\ UNCHANGED local /\ proc[a] \in Procs
  BY RunningFacts DEF PushUnanswered, At, cloneVars, Inv
<1>2. PICK q : q = [proc[a] EXCEPT !.landed = TRUE]
  OBVIOUS
<1>3. proc' = [proc EXCEPT ![a] = q]
  BY <1>2, Zenon DEF PushUnanswered
<1>4. q.pc = "push" /\ q.landed
  BY <1>1, <1>2 DEF Procs
<1>5. ~Publishing(q)
  BY <1>4 DEF Publishing
<1> HIDE DEF Inv, LifeInv, ClaimInv
<1> QED BY <1>1, <1>3, <1>4, <1>5, LandLegal

LEMMA PublishLegal ==
    ASSUME Inv, ClaimInv, LifeInv, NEW a \in Agents, Publish(a)
    PROVE  LifeInv' /\ (UNCHANGED log \/ Following)
<1>1. UNCHANGED cloneVars
  BY DEF Publish
<1>2. CASE Push(a) \/ PushUnanswered(a)
  BY <1>1, <1>2, PushLegal, UnansweredLegal
<1>3. CASE Execute(a) \/ PushFails(a) \/ Rebase(a) \/ Sweep(a) \/ BranchOff(a)
  BY <1>1, <1>3, ExecuteLegal, PushFailsLegal, RebaseLegal, TempLegal
<1>4. CASE ExecuteFails(a) \/ RebaseFails(a)
  <2>1. UNCHANGED <<log, yaml, moot>> /\ UNCHANGED local /\ Unpublished(a)
    BY <1>1, <1>4 DEF ExecuteFails, RebaseFails, cloneVars
  <2> HIDE DEF Inv, LifeInv
  <2> QED BY <2>1, LeavesLegally
<1> HIDE DEF Inv, LifeInv, ClaimInv
<1> QED BY <1>2, <1>3, <1>4 DEF Publish

\* A command that starts is legal.
LEMMA StartLegal ==
    ASSUME Inv, LifeInv, FinishedByStarted, NEW a \in Agents,
           StartClaim(a) \/ StartEdit(a) \/ OverrideOwner(a) \/ StartDone(a)
    PROVE  LifeInv' /\ UNCHANGED log
<1>1. /\ Types /\ UNCHANGED <<log, yaml, moot>> /\ UNCHANGED local /\ used.commands < MaxCommands
      /\ used.commands \in Nat /\ Home[a] \in Clones
  <2>1. Types /\ used.commands \in 0 .. MaxCommands /\ Home[a] \in Clones
    BY Constants DEF Inv, Types, RestTypes
  <2>2. UNCHANGED <<log, yaml, moot>> /\ UNCHANGED local
    BY <2>1, EditStarts DEF StartClaim, StartDone, cloneVars, repoVars
  <2>3. used.commands < MaxCommands
    BY <2>1, CommandCounted DEF StartClaim, StartEdit, StartDone, NewCommand
  <2> QED BY <2>1, <2>2, <2>3, Constants
<1>2. CASE StartClaim(a)
  <2>1. PICK w \in WUs, pc \in {"open", "clear"} :
            proc' = [proc EXCEPT ![a] = Command(w, "claim", pc)]
    BY <1>2 DEF StartClaim
  <2>2. Command(w, "claim", pc).pc = pc
    BY DEF Command, Idle
  <2>3. Legal(Command(w, "claim", pc))
    BY <2>1, <2>2, RestingLegal
  <2> HIDE DEF Inv, LifeInv
  <2> QED BY <1>1, <2>1, <2>3, LifeMovesOn
<1>3. CASE StartEdit(a) \/ OverrideOwner(a)
  <2>1. PICK w \in WUs, kind \in {"block", "unblock", "release"} :
            proc' = [proc EXCEPT ![a] = Command(w, kind, "sweep")]
    BY <1>1, <1>3, EditStarts
  <2>2. Command(w, kind, "sweep").pc = "sweep" /\ Command(w, kind, "sweep").kind # "complete"
    BY DEF Command, Idle
  <2>3. Legal(Command(w, kind, "sweep"))
    BY <2>2 DEF Legal, Publishing
  <2> HIDE DEF Inv, LifeInv
  <2> QED BY <1>1, <2>1, <2>3, LifeMovesOn
<1>4. CASE StartDone(a)
  <2>1. PICK w \in WUs :
            /\ local[Home[a]][w] # NoBranch
            /\ Allowed("complete", local[Home[a]][w], StatusIn(log, w))
            /\ proc' = [proc EXCEPT ![a] =
                          [Command(w, "complete", "rebase") EXCEPT
                              !.base = local[Home[a]][w],
                              !.mine = Edited("complete", local[Home[a]][w],
                                              Command(w, "complete", "rebase").id)]]
    BY <1>4 DEF StartDone
  <2>2. PICK p : p = Command(w, "complete", "rebase")
    OBVIOUS
  <2>3. PICK doc : doc = local[Home[a]][w]
    OBVIOUS
  <2>4. "complete" \in Kinds /\ "rebase" \in PCs \ {"idle"} /\ "rebase" \notin ClaimPCs
    BY DEF Kinds, PCs, ClaimPCs
  <2>5. /\ p \in Procs /\ Shaped(p) /\ p.kind = "complete" /\ p.pc = "rebase" /\ p.wu = w
        /\ p.id = used.commands + 1
    BY <1>1, <2>2, <2>4, CommandType
  <2>6. p.id \in Ids
    BY <2>5 DEF Shaped, Procs
  <2>7. doc \in Docs /\ (w \notin moot => Stamped(doc))
    BY <1>1, <2>1, <2>3 DEF Types, RestTypes, LifeInv, BranchesStamped
  <2>8. Moves(doc.status, "done") /\ Target["complete"] = "done" /\ doc.status \in Statuses
    BY <2>1, <2>3, <2>7 DEF Allowed, Moves, Target, Docs
  <2>9. w \notin moot => doc.completedAt = 0
    BY <2>7, <2>8, MovesFacts DEF Stamped, Statuses
  <2>10. /\ Edited("complete", doc, p.id).status = Target["complete"]
         /\ Edited("complete", doc, p.id).completedAt = p.id
    BY <2>4, <2>6, <2>7, EditedFields
  <2>11. PICK mine : mine = Edited("complete", doc, p.id)
    OBVIOUS
  <2>12. PICK q : q = [p EXCEPT !.base = doc, !.mine = mine]
    OBVIOUS
  <2>13. proc' = [proc EXCEPT ![a] = q]
    BY <2>1, <2>2, <2>3, <2>11, <2>12, Zenon
  <2>14. /\ q.pc = "rebase" /\ q.kind = "complete" /\ q.id = p.id /\ q.base = doc /\ q.mine = mine
         /\ q.wu = w
    BY <2>5, <2>12 DEF Procs
  <2>15. w \notin moot => yaml[w].completedAt # p.id
    <3>1. yaml[w].completedAt \in Nat /\ (w \notin moot => yaml[w].completedAt <= used.commands)
      BY <1>1 DEF Types, RestTypes, Docs, FinishedByStarted
    <3> QED BY <1>1, <2>5, <3>1
  <2>16. Legal(q)
    BY <2>8, <2>9, <2>10, <2>11, <2>14, <2>15 DEF Legal, Changes, Finishing
  <2> HIDE DEF Inv, LifeInv
  <2> QED BY <1>1, <2>13, <2>16, LifeMovesOn
<1> QED BY <1>2, <1>3, <1>4

\* A branch is deleted, a lock grows old, or nothing happens.
LEMMA LifeStill ==
    ASSUME LifeInv, UNCHANGED <<log, yaml, moot>>, UNCHANGED proc,
           \A c \in Clones, w \in WUs : local'[c][w] \in {local[c][w], NoBranch}
    PROVE  LifeInv' /\ UNCHANGED log
<1>1. AgreeInv' /\ BranchesStamped'
  BY DEF LifeInv, AgreeInv, BranchesStamped
<1>2. LegalInv'
  BY StaysLegal DEF LifeInv
<1> QED BY <1>1, <1>2 DEF LifeInv

LEMMA FaultLegal ==
    ASSUME Inv, LifeInv, NEW c \in Clones, Age(c) \/ \E w \in WUs : DeleteBranch(c, w)
    PROVE  LifeInv' /\ UNCHANGED log
<1>1. UNCHANGED <<log, yaml, moot>> /\ UNCHANGED proc
  BY DEF Age, DeleteBranch, repoVars
<1>2. \A d \in Clones, v \in WUs : local'[d][v] \in {local[d][v], NoBranch}
  <2>1. local \in [Clones -> [WUs -> Docs \cup {NoBranch}]]
    BY DEF Inv, Types, RestTypes
  <2> QED BY <2>1 DEF Age, DeleteBranch
<1> HIDE DEF LifeInv
<1> QED BY <1>1, <1>2, LifeStill

\* The count of commands only grows.
LEMMA CountGrows ==
    ASSUME Inv, [Next]_vars
    PROVE  /\ used.commands \in Nat /\ used'.commands \in {used.commands, used.commands + 1}
<1>1. Types /\ used.commands \in 0 .. MaxCommands
  BY DEF Inv, Types, RestTypes
<1>2. \/ UNCHANGED used \/ Fault
      \/ \E a \in Agents : Starts(a) \/ OverrideOwner(a)
  BY DEF Next, vars, Step, Publish, Acquire, Claim, Open, OpenExists, LookShared, LookStale,
     LookRefused, Clear, Write, Unlock, Unlink, CheckBranches, ClaimRefused, AddWorktree, PushBranch,
     ClaimMade, ClaimFails, StartClaim, StartEdit, StartDone, Crash, Age, DeleteBranch, FaultUnless
<1> QED BY <1>1, <1>2, CountKept, CommandCounted, Constants DEF SameCount, NewCommand

\* Main's files change when a commit lands, and only then.
LEMMA OnlyLands ==
    ASSUME [Next]_vars
    PROVE  \/ UNCHANGED <<yaml, moot>>
           \/ \E a \in Agents : /\ proc[a].pc = "push" /\ proc[a].at = Len(log)
                                /\ ~proc[a].landed /\ Lands(proc[a])
<1>1. ASSUME NEW a \in Agents, Publish(a)
      PROVE  \/ UNCHANGED <<yaml, moot>>
             \/ /\ proc[a].pc = "push" /\ proc[a].at = Len(log)
                /\ ~proc[a].landed /\ Lands(proc[a])
  <2>1. CASE Push(a) \/ PushUnanswered(a)
    BY <2>1 DEF Push, PushUnanswered, At
  <2>2. CASE \/ Sweep(a) \/ Execute(a) \/ BranchOff(a) \/ ExecuteFails(a) \/ PushFails(a)
             \/ Rebase(a) \/ RebaseFails(a)
    BY <2>2 DEF Sweep, Execute, BranchOff, ExecuteFails, PushFails, Rebase, RebaseFails
  <2> QED BY <1>1, <2>1, <2>2 DEF Publish
<1>2. ASSUME NEW a \in Agents, Acquire(a) PROVE UNCHANGED <<yaml, moot>>
  BY <1>2 DEF Acquire, Open, OpenExists, LookShared, LookStale, LookRefused, Clear, Write, Unlock,
     Unlink, repoVars
<1>3. ASSUME NEW a \in Agents, Claim(a) PROVE UNCHANGED <<yaml, moot>>
  BY <1>3 DEF Claim, CheckBranches, ClaimRefused, AddWorktree, PushBranch, ClaimMade, ClaimFails,
     repoVars
<1>4. ASSUME NEW a \in Agents, StartClaim(a) \/ StartEdit(a) \/ OverrideOwner(a) \/ StartDone(a)
      PROVE  UNCHANGED <<yaml, moot>>
  BY <1>4 DEF StartClaim, StartEdit, OverrideOwner, Edits, StartDone, repoVars
<1>5. ASSUME NEW a \in Agents, Crash(a) PROVE UNCHANGED <<yaml, moot>>
  BY <1>5 DEF Crash, repoVars
<1>6. ASSUME NEW c \in Clones, Age(c) \/ \E w \in WUs : DeleteBranch(c, w)
      PROVE  UNCHANGED <<yaml, moot>>
  BY <1>6 DEF Age, DeleteBranch, repoVars
<1>7. CASE UNCHANGED vars
  BY <1>7 DEF vars, repoVars
<1> QED BY <1>1, <1>2, <1>3, <1>4, <1>5, <1>6, <1>7 DEF Next, Step

LEMMA FinishedStep ==
    ASSUME Inv, ClaimInv, LifeInv, FinishedByStarted, [Next]_vars
    PROVE  FinishedByStarted'
<1>1. /\ used.commands \in Nat /\ used'.commands \in {used.commands, used.commands + 1}
      /\ Types /\ ShapeInv /\ IdInv /\ \A w \in WUs : yaml[w].completedAt \in Nat
  BY CountGrows DEF Inv, Types, RestTypes, Docs
<1>2. CASE UNCHANGED <<yaml, moot>>
  BY <1>1, <1>2 DEF FinishedByStarted
<1>3. ASSUME NEW a \in Agents, proc[a].pc = "push", proc[a].at = Len(log), ~proc[a].landed,
             Lands(proc[a])
      PROVE  FinishedByStarted'
  <2>1. proc[a].wu \in WUs /\ proc[a].id \in Nat /\ proc[a].id <= used.commands
    BY <1>1, <1>3, RunningFacts, Constants DEF IdInv
  <2>2. /\ \A w \in WUs : w # proc[a].wu => yaml'[w] = yaml[w]
        /\ yaml'[proc[a].wu] = proc[a].mine /\ moot \subseteq moot'
    BY <1>1, <1>3, <2>1 DEF Lands, Types, RestTypes
  <2> SUFFICES ASSUME NEW w \in WUs \ moot' PROVE yaml'[w].completedAt <= used'.commands
    BY DEF FinishedByStarted
  <2>3. yaml[w].completedAt \in Nat /\ yaml[w].completedAt <= used.commands
    BY <1>1, <2>2 DEF FinishedByStarted
  <2>4. yaml'[w].completedAt \in {yaml[w].completedAt, proc[a].id}
    <3>1. CASE w # proc[a].wu
      BY <2>2, <3>1
    <3>2. CASE w = proc[a].wu
      <4>1. proc[a].mine.completedAt \in {proc[a].id, yaml[w].completedAt}
        <5> HIDE DEF Inv, ClaimInv, LifeInv
        <5> QED BY <1>3, <3>2, LandsAgreed
      <4> QED BY <2>2, <3>2, <4>1
    <3> QED BY <3>1, <3>2
  <2> QED BY <1>1, <2>1, <2>3, <2>4
<1> HIDE DEF Inv, ClaimInv, LifeInv
<1> QED BY <1>2, <1>3, OnlyLands

-----------------------------------------------------------------------------
LEMMA InitLife == Init => LifeInv /\ FinishedByStarted
<1> SUFFICES ASSUME Init PROVE LifeInv /\ FinishedByStarted
  OBVIOUS
<1>1. \A w \in WUs : StatusIn(log, w) = "ready"
  BY DEF Init, StatusIn
<1>2. \A w \in WUs : yaml[w].status = "ready" /\ yaml[w].completedAt = 0
  BY DEF Init, NewWU
<1>3. AgreeInv /\ BranchesStamped
  BY <1>1, <1>2 DEF AgreeInv, Stamped, BranchesStamped, Init
<1>4. LegalInv
  BY IdleLegal DEF LegalInv, Init
<1>5. FinishedByStarted
  BY <1>2 DEF FinishedByStarted, Init
<1> QED BY <1>3, <1>4, <1>5 DEF LifeInv

LEMMA NextLife ==
    ASSUME Inv, ClaimInv, LifeInv, FinishedByStarted, [Next]_vars
    PROVE  (LifeInv /\ FinishedByStarted)' /\ [Following]_log
<1>1. ASSUME NEW a \in Agents, Step(a) PROVE LifeInv' /\ [Following]_log
  BY <1>1, PublishLegal, AcquireLegal, ClaimLegal DEF Step
<1>2. ASSUME NEW a \in Agents, StartClaim(a) \/ StartEdit(a) \/ OverrideOwner(a) \/ StartDone(a)
      PROVE  LifeInv' /\ [Following]_log
  BY <1>2, StartLegal
<1>3. ASSUME NEW a \in Agents, Crash(a) PROVE LifeInv' /\ [Following]_log
  <2>1. UNCHANGED <<log, yaml, moot>> /\ UNCHANGED local /\ Ends(a)
    BY <1>3 DEF Crash, cloneVars, repoVars
  <2> HIDE DEF Inv, LifeInv
  <2> QED BY <2>1, IdleLegal, LifeMovesOn DEF Ends
<1>4. ASSUME NEW c \in Clones, Age(c) \/ \E w \in WUs : DeleteBranch(c, w)
      PROVE  LifeInv' /\ [Following]_log
  BY <1>4, FaultLegal
<1>5. ASSUME UNCHANGED vars PROVE LifeInv' /\ [Following]_log
  <2>1. UNCHANGED <<log, yaml, moot>> /\ UNCHANGED proc /\ local' = local
    BY <1>5 DEF vars, cloneVars, repoVars
  <2>2. \A c \in Clones, w \in WUs : local'[c][w] \in {local[c][w], NoBranch}
    BY <2>1
  <2> HIDE DEF LifeInv
  <2> QED BY <2>1, <2>2, LifeStill
<1>6. FinishedByStarted'
  BY FinishedStep
<1> HIDE DEF Inv, ClaimInv, LifeInv, Following
<1> QED BY <1>1, <1>2, <1>3, <1>4, <1>5, <1>6 DEF Next

\* Main's two files say the same of a unit, however many agents, clones and attempts there are,
\* until a commit reached it at its third attempt or later and found the status it was to give.
THEOREM FilesKeepTogether == Spec => []FilesAgree
<1>1. Init => LifeInv /\ FinishedByStarted
  BY InitLife
<1>2. Inv /\ ClaimInv /\ LifeInv /\ FinishedByStarted /\ [Next]_vars
          => (LifeInv /\ FinishedByStarted)'
  BY NextLife
<1>3. LifeInv => FilesAgree
  BY DEF LifeInv, AgreeInv, FilesAgree
<1> QED BY <1>1, <1>2, <1>3, ClaimsInv, PTL DEF Spec

\* Up to such a commit, the units move along TRANSITIONS (state-machine.ts) in main's event log
\* and in no other way, although a rebased commit is not checked again
\* (micro-worktree-shared.ts).
THEOREM UnitsFollowTable == Spec => FollowsTable
<1>1. Init => LifeInv /\ FinishedByStarted
  BY InitLife
<1>2. Inv /\ ClaimInv /\ LifeInv /\ FinishedByStarted /\ [Next]_vars
          => (LifeInv /\ FinishedByStarted)' /\ [Following]_log
  BY NextLife
<1> QED BY <1>1, <1>2, ClaimsInv, PTL DEF Spec, FollowsTable, Following
=============================================================================
