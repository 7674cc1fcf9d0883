-------------------------- MODULE Projection_proofs --------------------------
(***************************************************************************)
(* Proofs, for every log, page size and limit, that projectTaskState's     *)
(* loop computes the closed forms of TaskProjection, and that a caller who *)
(* follows nextCursor gets every event once where stamps never decrease    *)
(* and no page ends inside a timestamp.                                    *)
(***************************************************************************)
EXTENDS ProjectionCheck, FiniteSetTheorems, WellFoundedInduction, TLAPS

\* The events a log may hold.
AnyEvent == [kind : TaskKinds \cup RunKinds, task : {Task}, run : RunIds \cup {0}, req : {0}, ts : Stamps]

\* What the loop makes of a task: its status, its current run, the status of each run.
AnyState ==
    [status : Statuses, current : RunIds \cup {0},
     runs : UNION {[R -> {RunStatusAfter[k] : k \in RunKinds}] : R \in SUBSET (RunIds \cup {0})}]

TypeOK ==
    /\ log \in Seq(AnyEvent)
    /\ loop \in [on : BOOLEAN, state : AnyState, todo : SUBSET Nat]
    /\ walk \in [pc : {"off", "on", "done"}, limit : Nat, cursor : Nat, got : SUBSET Nat,
                 twice : BOOLEAN, seen : Nat]

-----------------------------------------------------------------------------
(* The loop *)

\* The events of the page that the loop has been through, and those of them that set a
\* status, that belong to a run and to run r.
Applied == Page(log, Task) \ loop.todo

StatusApplied == {i \in Applied : log[i].kind \in TaskKinds}

RunApplied == {i \in Applied : log[i].kind \in RunKinds}

OfRun(r) == {i \in RunApplied : log[i].run = r}

\* The loop goes through the page in the sorted order.
InOrder ==
    /\ loop.todo \subseteq Page(log, Task)
    /\ \A i \in Applied, j \in loop.todo : Before(log, i, j)

\* What the closed forms say of the events the loop has been through is its state.
ClosedStatus ==
    loop.state.status = IF StatusApplied = {} THEN "ready"
                        ELSE StatusAfter[log[Latest(log, StatusApplied)].kind]

ClosedCurrent ==
    loop.state.current = IF RunApplied = {} THEN 0 ELSE log[Latest(log, RunApplied)].run

ClosedRuns ==
    loop.state.runs = [r \in {log[i].run : i \in RunApplied} |->
                          RunStatusAfter[log[Latest(log, OfRun(r))].kind]]

LoopInv == loop.on => InOrder /\ ClosedStatus /\ ClosedCurrent /\ ClosedRuns

-----------------------------------------------------------------------------
(* The caller that pages *)

Off == walk.pc = "off" => walk = NoWalk

\* What the caller has was in the file at its last page; where stamps never decrease its
\* cursor is the latest of the stamps it got, and no event came twice.
CursorIsLast ==
    /\ walk.pc # "off" => walk.limit \in Nat \ {0}
    /\ walk.seen <= Len(log)
    /\ walk.got \subseteq {i \in EventsOf(log, Task) : i <= walk.seen}
    /\ walk.pc = "on" /\ walk.cursor # 0 => \E i \in walk.got : log[i].ts = walk.cursor
    /\ FileOrderIsTimeOrder =>
         /\ ~walk.twice
         /\ walk.pc = "on" => \A i \in walk.got : log[i].ts <= walk.cursor

\* Up to its cursor the caller has everything, unless a page ended inside a timestamp.
GotToCursor ==
    FileOrderIsTimeOrder /\ ~StampIsSplit =>
        \A j \in EventsOf(log, Task) :
            j <= walk.seen /\ (walk.pc = "on" => log[j].ts <= walk.cursor) => j \in walk.got

WalkInv == Off /\ CursorIsLast /\ GotToCursor

IInv == TypeOK /\ LoopInv /\ WalkInv

-----------------------------------------------------------------------------
(* Sets of positions *)

\* What comes no earlier than every other position is the latest of them.
LEMMA LatestOfAll ==
    ASSUME NEW l, NEW S, S \subseteq Nat, NEW k \in S, \A i \in S : l[i].ts \in Nat,
           \A j \in S : Before(l, j, k)
    PROVE  Latest(l, S) = k
<1> DEFINE last == {i \in S : \A j \in S : Before(l, j, i)}
<1>1. ASSUME NEW i \in last PROVE i = k
  <2>1. Before(l, k, i) /\ Before(l, i, k)
    OBVIOUS
  <2>2. i \in Nat /\ k \in Nat /\ l[i].ts \in Nat /\ l[k].ts \in Nat
    OBVIOUS
  <2>3. QED BY <2>1, <2>2 DEF Before
<1>2. last = {k}
  BY <1>1
<1>3. QED BY <1>2 DEF Latest, Only

LEMMA Least ==
    ASSUME NEW T \in SUBSET Nat, T # {}
    PROVE  \E n \in T : \A m \in T : n <= m
<1>1. \E n \in T : \A m \in T : <<m, n>> \notin OpToRel(<, Nat)
  BY NatLessThanWellFounded, WFMin
<1>2. \A m, n \in T : <<m, n>> \notin OpToRel(<, Nat) => n <= m
  BY DEF OpToRel
<1>3. QED BY <1>1, <1>2

LEMMA Greatest ==
    ASSUME NEW N \in Nat, NEW T \in SUBSET (1..N), T # {}
    PROVE  \E n \in T : \A m \in T : m <= n
<1> DEFINE D == {N - n : n \in T}
<1>0. \A m \in T : m \in Nat /\ N - m \in Nat
  OBVIOUS
<1>1. D \in SUBSET Nat /\ D # {}
  BY <1>0
<1>2. PICK d \in D : \A e \in D : d <= e
  BY <1>1, Least
<1>3. PICK n \in T : d = N - n
  OBVIOUS
<1>4. \A m \in T : N - m \in D
  OBVIOUS
<1>5. \A m \in T : N - n <= N - m
  BY <1>2, <1>3, <1>4
<1>6. QED BY <1>0, <1>5

\* A page holds some of what it is cut from, and all of it up to its last position.
LEMMA FirstOfFacts ==
    ASSUME NEW N \in Nat, NEW S \in SUBSET (1..N), NEW n \in Nat \ {0}
    PROVE  /\ FirstOf(S, n) \subseteq S
           /\ S # {} => FirstOf(S, n) # {}
           /\ \A i \in FirstOf(S, n), j \in S : j <= i => j \in FirstOf(S, n)
<1>0. \A i \in S : i \in Nat
  OBVIOUS
<1>1. FirstOf(S, n) \subseteq S
  BY DEF FirstOf
<1>2. ASSUME S # {} PROVE FirstOf(S, n) # {}
  <2>1. PICK i \in S : \A j \in S : i <= j
    BY <1>0, <1>2, Least
  <2>2. {j \in S : j < i} = {}
    <3>1. \A j \in S : ~(j < i)
      BY <1>0, <2>1
    <3>2. QED BY <3>1
  <2>3. Cardinality({j \in S : j < i}) < n
    BY <2>2, FS_EmptySet
  <2>4. QED BY <2>3 DEF FirstOf
<1>3. ASSUME NEW i \in FirstOf(S, n), NEW j \in S, j <= i
      PROVE  j \in FirstOf(S, n)
  <2> DEFINE F == {k \in S : k < j}
             G == {k \in S : k < i}
  <2>1. i \in S /\ F \subseteq G
    <3>1. i \in S
      BY <1>1
    <3>2. \A k \in S : k < j => k < i
      BY <1>0, <1>3, <3>1
    <3>3. QED BY <3>1, <3>2
  <2>2. IsFiniteSet(1..N)
    BY FS_Interval
  <2>3. IsFiniteSet(G)
    <3>1. G \subseteq 1..N
      OBVIOUS
    <3>2. QED BY <2>2, <3>1, FS_Subset
  <2>4. IsFiniteSet(F) /\ Cardinality(F) <= Cardinality(G)
    BY <2>1, <2>3, FS_Subset
  <2>5. Cardinality(F) \in Nat /\ Cardinality(G) \in Nat
    BY <2>3, <2>4, FS_CardinalityType
  <2>6. Cardinality(G) < n
    BY DEF FirstOf
  <2>7. Cardinality(F) < n
    BY <2>4, <2>5, <2>6
  <2>8. QED BY <2>7 DEF FirstOf
<1>4. QED BY <1>1, <1>2, <1>3

LEMMA LogFacts ==
    ASSUME TypeOK
    PROVE  /\ Len(log) \in Nat /\ DOMAIN log = 1..Len(log)
           /\ EventsOf(log, Task) = 1..Len(log)
           /\ \A i \in 1..Len(log) : log[i] \in AnyEvent /\ log[i].ts \in Nat \ {0}
<1>1. log \in Seq(AnyEvent)
  BY DEF TypeOK
<1>2. Len(log) \in Nat /\ DOMAIN log = 1..Len(log) /\ \A i \in 1..Len(log) : log[i] \in AnyEvent
  BY <1>1
<1>3. \A e \in AnyEvent : e.task = Task /\ e.ts \in Nat \ {0}
  BY ProjectionAssumption DEF AnyEvent
<1>4. EventsOf(log, Task) = 1..Len(log)
  BY <1>2, <1>3 DEF EventsOf
<1>5. QED BY <1>2, <1>3, <1>4

LEMMA PageFacts ==
    ASSUME TypeOK
    PROVE  Page(log, Task) \subseteq 1..Len(log)
BY LogFacts DEF Page, FirstOf

-----------------------------------------------------------------------------
(* The initial state and the log *)

LEMMA NewStateType == NewState \in AnyState
<1>1. <<>> \in [{} -> {RunStatusAfter[k] : k \in RunKinds}]
  OBVIOUS
<1>2. <<>> \in UNION {[R -> {RunStatusAfter[k] : k \in RunKinds}] : R \in SUBSET (RunIds \cup {0})}
  BY <1>1
<1>3. QED BY <1>2 DEF NewState, AnyState, Statuses

LEMMA InitHolds == Init => IInv
<1> SUFFICES ASSUME Init PROVE IInv
  OBVIOUS
<1>1. log = <<>> /\ loop = NoLoop /\ walk = NoWalk
  BY DEF Init
<1>2. NewState \in AnyState
  BY NewStateType
<1>3. TypeOK
  <2>1. log \in Seq(AnyEvent)
    BY <1>1
  <2>2. loop \in [on : BOOLEAN, state : AnyState, todo : SUBSET Nat]
    BY <1>1, <1>2 DEF NoLoop
  <2>3. QED BY <1>1, <2>1, <2>2 DEF TypeOK, NoWalk
<1>4. LoopInv
  BY <1>1 DEF LoopInv, NoLoop
<1>5. Len(log) = 0 /\ EventsOf(log, Task) = {}
  BY <1>1 DEF EventsOf
<1>6. WalkInv
  BY <1>1, <1>5 DEF WalkInv, Off, CursorIsLast, GotToCursor, NoWalk
<1>7. QED BY <1>3, <1>4, <1>6 DEF IInv

\* A batch is one or two events of the task.
LEMMA BatchFacts ==
    ASSUME NEW b \in Batches
    PROVE  b \in Seq(AnyEvent)
<1>1. PICK ts \in Stamps : b \in
           {<<Event(k, 0, ts)>> : k \in SingleKinds}
           \cup {<<Event(k, r, ts)>> : k \in {"run_paused", "run_failed"}, r \in RunIds}
           \cup {<<Event("task_claimed", 0, ts), Event("run_started", r, ts)>> : r \in RunIds}
           \cup {<<Event("run_succeeded", r, ts), Event("task_completed", 0, ts)>> : r \in RunIds}
  BY DEF Batches
<1>2. \A k \in TaskKinds \cup RunKinds, r \in RunIds \cup {0} : Event(k, r, ts) \in AnyEvent
  BY DEF Event, AnyEvent
<1>3. {"run_paused", "run_failed", "run_started", "run_succeeded"} = RunKinds
  BY DEF RunKinds
<1>4. "task_claimed" \in TaskKinds /\ "task_completed" \in TaskKinds /\ SingleKinds \subseteq TaskKinds
  BY DEF TaskKinds, SingleKinds
<1>5. \A e, f \in AnyEvent : <<e>> \in Seq(AnyEvent) /\ <<e, f>> \in Seq(AnyEvent)
  OBVIOUS
<1>6. CASE b \in {<<Event(k, 0, ts)>> : k \in SingleKinds}
  <2>1. PICK k \in SingleKinds : b = <<Event(k, 0, ts)>>
    BY <1>6
  <2>2. Event(k, 0, ts) \in AnyEvent
    BY <1>2, <1>4
  <2>3. QED BY <1>5, <2>1, <2>2
<1>7. CASE b \in {<<Event(k, r, ts)>> : k \in {"run_paused", "run_failed"}, r \in RunIds}
  <2>1. PICK k \in {"run_paused", "run_failed"}, r \in RunIds : b = <<Event(k, r, ts)>>
    BY <1>7
  <2>2. Event(k, r, ts) \in AnyEvent
    BY <1>2, <1>3
  <2>3. QED BY <1>5, <2>1, <2>2
<1>8. CASE b \in {<<Event("task_claimed", 0, ts), Event("run_started", r, ts)>> : r \in RunIds}
  <2>1. PICK r \in RunIds : b = <<Event("task_claimed", 0, ts), Event("run_started", r, ts)>>
    BY <1>8
  <2>2. Event("task_claimed", 0, ts) \in AnyEvent /\ Event("run_started", r, ts) \in AnyEvent
    BY <1>2, <1>3, <1>4
  <2>3. QED BY <1>5, <2>1, <2>2
<1>9. CASE b \in {<<Event("run_succeeded", r, ts), Event("task_completed", 0, ts)>> : r \in RunIds}
  <2>1. PICK r \in RunIds : b = <<Event("run_succeeded", r, ts), Event("task_completed", 0, ts)>>
    BY <1>9
  <2>2. Event("task_completed", 0, ts) \in AnyEvent /\ Event("run_succeeded", r, ts) \in AnyEvent
    BY <1>2, <1>3, <1>4
  <2>3. QED BY <1>5, <2>1, <2>2
<1>10. QED BY <1>1, <1>6, <1>7, <1>8, <1>9

\* What the caller got does not depend on what is appended behind it.
LEMMA GrowKeeps ==
    ASSUME IInv, NEW b \in Batches, Grow(b)
    PROVE  IInv'
<1>1. TypeOK /\ WalkInv /\ ~loop.on /\ log' = log \o b /\ loop' = loop /\ walk' = walk
  BY DEF IInv, Grow
<1>2. b \in Seq(AnyEvent) /\ log \in Seq(AnyEvent)
  BY <1>1, BatchFacts DEF TypeOK
<1>3. /\ log' \in Seq(AnyEvent)
      /\ Len(log) \in Nat /\ Len(log') \in Nat /\ Len(log) <= Len(log')
      /\ \A i \in 1..Len(log) : log'[i] = log[i]
  BY <1>1, <1>2
<1>4. TypeOK'
  BY <1>1, <1>3 DEF TypeOK
<1>5. LoopInv'
  BY <1>1 DEF LoopInv
<1>6. /\ EventsOf(log, Task) = 1..Len(log) /\ DOMAIN log = 1..Len(log)
      /\ EventsOf(log', Task) = 1..Len(log') /\ DOMAIN log' = 1..Len(log')
  <2>1. EventsOf(log, Task) = 1..Len(log) /\ DOMAIN log = 1..Len(log)
    BY <1>1, LogFacts
  <2>2. \A e \in AnyEvent : e.task = Task
    BY DEF AnyEvent
  <2>3. DOMAIN log' = 1..Len(log') /\ \A i \in 1..Len(log') : log'[i] \in AnyEvent
    BY <1>3
  <2>4. QED BY <2>1, <2>2, <2>3 DEF EventsOf
<1>7. walk.seen \in Nat /\ walk.seen <= Len(log) /\ walk.got \subseteq 1..walk.seen
      /\ 1..walk.seen \subseteq 1..Len(log) /\ \A j \in 1..Len(log') : j <= walk.seen => j \in 1..Len(log)
  <2>1. walk.seen \in Nat /\ walk.seen <= Len(log)
    BY <1>1 DEF TypeOK, WalkInv, CursorIsLast
  <2>2. walk.got \subseteq {i \in 1..Len(log) : i <= walk.seen}
    BY <1>1, <1>6 DEF WalkInv, CursorIsLast
  <2>3. QED BY <1>3, <2>1, <2>2
<1>8. FileOrderIsTimeOrder' => FileOrderIsTimeOrder
  <2>1. 1..Len(log) \subseteq 1..Len(log')
    BY <1>3
  <2>2. QED BY <1>3, <1>6, <2>1 DEF FileOrderIsTimeOrder
<1>9. StampIsSplit => StampIsSplit'
  <2>1. 1..Len(log) \subseteq 1..Len(log')
    BY <1>3
  <2>2. QED BY <1>1, <1>3, <1>6, <1>7, <2>1 DEF StampIsSplit
<1>10. Off'
  BY <1>1 DEF WalkInv, Off
<1>11. CursorIsLast'
  <2>1. \A i \in walk.got : log'[i] = log[i]
    BY <1>3, <1>7
  <2>2. walk.got \subseteq {i \in 1..Len(log') : i <= walk.seen}
    BY <1>3, <1>7
  <2>3. walk.seen <= Len(log')
    BY <1>3, <1>7
  <2>4. QED BY <1>1, <1>6, <1>8, <2>1, <2>2, <2>3 DEF WalkInv, CursorIsLast
<1>12. GotToCursor'
  <2>1. \A j \in 1..Len(log) : log'[j] = log[j]
    BY <1>3
  <2>2. QED BY <1>1, <1>6, <1>7, <1>8, <1>9, <2>1 DEF WalkInv, GotToCursor
<1>13. QED BY <1>4, <1>5, <1>10, <1>11, <1>12 DEF IInv, WalkInv

-----------------------------------------------------------------------------
(* The loop *)

LEMMA ReduceFacts ==
    ASSUME NEW state \in AnyState, NEW e \in AnyEvent
    PROVE  Reduce(state, e) \in AnyState
<1> DEFINE Left == {RunStatusAfter[k] : k \in RunKinds}
           Ids == RunIds \cup {0}
           D == DOMAIN state.runs \cup {e.run}
           runs == [r \in D |-> IF r = e.run THEN RunStatusAfter[e.kind] ELSE state.runs[r]]
<1>1. e.kind \in TaskKinds => StatusAfter[e.kind] \in Statuses
  BY DEF TaskKinds, StatusAfter, Statuses
<1>2. /\ state.status \in Statuses /\ state.current \in Ids
      /\ state.runs \in UNION {[R -> Left] : R \in SUBSET Ids}
      /\ e.run \in Ids
  BY DEF AnyState, AnyEvent
<1>3. PICK R \in SUBSET Ids : state.runs \in [R -> Left]
  BY <1>2
<1>4. e.kind \in RunKinds => runs \in [D -> Left]
  BY <1>3
<1>5. D \in SUBSET Ids
  BY <1>2, <1>3
<1>6. e.kind \in RunKinds => runs \in UNION {[Q -> Left] : Q \in SUBSET Ids}
  BY <1>4, <1>5
<1>7. Reduce(state, e) =
        [status |-> IF e.kind \in TaskKinds THEN StatusAfter[e.kind] ELSE state.status,
         current |-> IF e.kind \in RunKinds THEN e.run ELSE state.current,
         runs |-> IF e.kind \in RunKinds THEN runs ELSE state.runs]
  BY DEF Reduce
<1> HIDE DEF runs, D
<1>8. QED BY <1>1, <1>2, <1>6, <1>7 DEF AnyState

LEMMA BeginLoopKeeps ==
    ASSUME IInv, BeginLoop
    PROVE  IInv'
<1>1. TypeOK /\ WalkInv /\ log' = log /\ walk' = walk
      /\ loop' = [on |-> TRUE, state |-> NewState, todo |-> Page(log, Task)]
  BY DEF IInv, BeginLoop
<1>2. NewState \in AnyState
  BY NewStateType
<1>3. Page(log, Task) \in SUBSET Nat
  BY <1>1, PageFacts, LogFacts
<1>4. TypeOK'
  BY <1>1, <1>2, <1>3 DEF TypeOK
<1>5. Applied' = {} /\ StatusApplied' = {} /\ RunApplied' = {}
  BY <1>1 DEF Applied, StatusApplied, RunApplied
<1>6. InOrder'
  BY <1>1, <1>5 DEF InOrder
<1>7. ClosedStatus' /\ ClosedCurrent'
  BY <1>1, <1>5 DEF ClosedStatus, ClosedCurrent, NewState
<1>8. ClosedRuns'
  <2>1. {log'[i].run : i \in RunApplied'} = {}
    BY <1>5
  <2>2. loop'.state.runs = <<>>
    BY <1>1 DEF NewState
  <2>3. <<>> = [r \in {} |-> RunStatusAfter[log'[Latest(log', OfRun(r)')].kind]]
    OBVIOUS
  <2>4. QED BY <2>1, <2>2, <2>3 DEF ClosedRuns
<1>9. WalkInv'
  BY <1>1 DEF WalkInv, Off, CursorIsLast, GotToCursor, FileOrderIsTimeOrder, StampIsSplit
<1>10. QED BY <1>4, <1>6, <1>7, <1>8, <1>9 DEF IInv, LoopInv

LEMMA EndLoopKeeps ==
    ASSUME IInv, EndLoop
    PROVE  IInv'
<1>1. TypeOK /\ WalkInv /\ log' = log /\ walk' = walk /\ loop' = NoLoop
  BY DEF IInv, EndLoop
<1>2. NoLoop \in [on : BOOLEAN, state : AnyState, todo : SUBSET Nat]
  BY NewStateType DEF NoLoop
<1>3. TypeOK'
  BY <1>1, <1>2 DEF TypeOK
<1>4. LoopInv'
  BY <1>1 DEF LoopInv, NoLoop
<1>5. WalkInv'
  BY <1>1 DEF WalkInv, Off, CursorIsLast, GotToCursor, FileOrderIsTimeOrder, StampIsSplit
<1>6. QED BY <1>3, <1>4, <1>5 DEF IInv

\* One turn: the event it applies comes no earlier than any that was applied before, so
\* it is the latest of those of its sort and of its run.
LEMMA TurnKeeps ==
    ASSUME IInv, Turn
    PROVE  IInv'
<1>1. TypeOK /\ LoopInv /\ WalkInv /\ loop.on /\ log' = log /\ walk' = walk
  BY DEF IInv, Turn
<1>2. PICK i \in loop.todo :
        /\ \A j \in loop.todo : Before(log, i, j)
        /\ loop' = [loop EXCEPT !.state = Reduce(@, log[i]), !.todo = @ \ {i}]
  BY DEF Turn
<1>3. InOrder /\ ClosedStatus /\ ClosedCurrent /\ ClosedRuns
  BY <1>1 DEF LoopInv
<1>4. loop \in [on : BOOLEAN, state : AnyState, todo : SUBSET Nat]
  BY <1>1 DEF TypeOK
<1>5. PICK e : e = log[i]
  OBVIOUS
<1>6. PICK new : new = Reduce(loop.state, e)
  OBVIOUS
<1>7. loop'.on /\ loop'.state = new /\ loop'.todo = loop.todo \ {i}
      /\ loop' \in [on : BOOLEAN, state : {new}, todo : SUBSET Nat]
  BY <1>1, <1>2, <1>4, <1>5, <1>6
<1>8. Page(log, Task) \subseteq 1..Len(log) /\ Len(log) \in Nat
      /\ \A j \in Page(log, Task) : j \in Nat /\ log[j] \in AnyEvent /\ log[j].ts \in Nat
  BY <1>1, PageFacts, LogFacts
<1>9. i \in Page(log, Task) /\ e \in AnyEvent /\ Applied \subseteq Page(log, Task)
  BY <1>2, <1>3, <1>5, <1>8 DEF InOrder, Applied
<1>10. new \in AnyState
  BY <1>4, <1>6, <1>9, ReduceFacts
<1>11. TypeOK'
  BY <1>1, <1>7, <1>10 DEF TypeOK
<1>12. Applied' = Applied \cup {i}
  BY <1>1, <1>3, <1>7, <1>9 DEF Applied, InOrder
<1>13. \A j \in Applied \cup {i} : Before(log, j, i)
  BY <1>2, <1>3 DEF InOrder
<1>14. InOrder'
  BY <1>1, <1>2, <1>3, <1>7, <1>12 DEF InOrder
\* A set of applied events that i joins has i as its latest.
<1>15. ASSUME NEW S, S \subseteq Applied PROVE Latest(log, S \cup {i}) = i
  <2>1. S \cup {i} \subseteq Nat /\ \A j \in S \cup {i} : log[j].ts \in Nat /\ Before(log, j, i)
    BY <1>8, <1>9, <1>13, <1>15
  <2>2. QED BY <2>1, LatestOfAll
<1>16. /\ StatusApplied \subseteq Applied /\ RunApplied \subseteq Applied
       /\ \A r : OfRun(r) \subseteq Applied
  BY DEF StatusApplied, RunApplied, OfRun
<1>17. /\ StatusApplied' = IF e.kind \in TaskKinds THEN StatusApplied \cup {i} ELSE StatusApplied
       /\ RunApplied' = IF e.kind \in RunKinds THEN RunApplied \cup {i} ELSE RunApplied
  BY <1>1, <1>5, <1>12 DEF StatusApplied, RunApplied
<1>18. ClosedStatus'
  <2>1. new.status = IF e.kind \in TaskKinds THEN StatusAfter[e.kind] ELSE loop.state.status
    BY <1>6 DEF Reduce
  <2>2. CASE e.kind \in TaskKinds
    BY <1>1, <1>5, <1>7, <1>15, <1>16, <1>17, <2>1, <2>2 DEF ClosedStatus
  <2>3. CASE e.kind \notin TaskKinds
    BY <1>1, <1>3, <1>7, <1>17, <2>1, <2>3 DEF ClosedStatus
  <2>4. QED BY <2>2, <2>3
<1>19. ClosedCurrent'
  <2>1. new.current = IF e.kind \in RunKinds THEN e.run ELSE loop.state.current
    BY <1>6 DEF Reduce
  <2>2. CASE e.kind \in RunKinds
    BY <1>1, <1>5, <1>7, <1>15, <1>16, <1>17, <2>1, <2>2 DEF ClosedCurrent
  <2>3. CASE e.kind \notin RunKinds
    BY <1>1, <1>3, <1>7, <1>17, <2>1, <2>3 DEF ClosedCurrent
  <2>4. QED BY <2>2, <2>3
<1>20. ClosedRuns'
  <2>1. new.runs = IF e.kind \in RunKinds
                   THEN [r \in DOMAIN loop.state.runs \cup {e.run} |->
                            IF r = e.run THEN RunStatusAfter[e.kind] ELSE loop.state.runs[r]]
                   ELSE loop.state.runs
    BY <1>6 DEF Reduce
  <2> DEFINE ids == {log[j].run : j \in RunApplied}
             ids2 == {log[j].run : j \in RunApplied'}
             last(r) == RunStatusAfter[log[Latest(log, OfRun(r))].kind]
             last2(r) == RunStatusAfter[log[Latest(log, OfRun(r)')].kind]
  <2>2. loop.state.runs = [r \in ids |-> last(r)]
    BY <1>3 DEF ClosedRuns
  <2>3. CASE e.kind \in RunKinds
    <3>1. ids2 = ids \cup {e.run}
      BY <1>5, <1>17, <2>3
    <3>2. OfRun(e.run)' = OfRun(e.run) \cup {i}
      BY <1>1, <1>5, <1>17, <2>3 DEF OfRun
    <3>3. last2(e.run) = RunStatusAfter[e.kind]
      BY <1>5, <1>15, <1>16, <3>2
    <3>4. ASSUME NEW r, r # e.run PROVE OfRun(r)' = OfRun(r)
      BY <1>1, <1>5, <1>17, <2>3, <3>4 DEF OfRun
    <3>5. \A r \in ids : r # e.run => last2(r) = last(r)
      BY <3>4
    <3>6. new.runs = [r \in ids2 |-> IF r = e.run THEN RunStatusAfter[e.kind] ELSE loop.state.runs[r]]
      <4>1. DOMAIN loop.state.runs = ids
        BY <2>2
      <4>2. QED BY <2>1, <2>3, <3>1, <4>1
    <3>7. \A r \in ids2 : last2(r) = IF r = e.run THEN RunStatusAfter[e.kind] ELSE loop.state.runs[r]
      BY <2>2, <3>1, <3>3, <3>5
    <3> HIDE DEF ids2, last2, ids, last
    <3>8. new.runs = [r \in ids2 |-> last2(r)]
      BY <3>6, <3>7
    <3>9. QED BY <1>1, <1>7, <3>8 DEF ClosedRuns, ids2, last2
  <2>4. CASE e.kind \notin RunKinds
    <3>1. \A r : OfRun(r)' = OfRun(r)
      BY <1>1, <1>17, <2>4 DEF OfRun
    <3>2. RunApplied' = RunApplied
      BY <1>17, <2>4
    <3>3. loop'.state.runs = [r \in ids |-> last(r)]
      BY <1>7, <2>1, <2>2, <2>4
    <3>4. QED BY <1>1, <3>1, <3>2, <3>3 DEF ClosedRuns
  <2>5. QED BY <2>3, <2>4
<1>21. WalkInv'
  BY <1>1 DEF WalkInv, Off, CursorIsLast, GotToCursor, FileOrderIsTimeOrder, StampIsSplit
<1>22. QED BY <1>7, <1>11, <1>14, <1>18, <1>19, <1>20, <1>21 DEF IInv, LoopInv

-----------------------------------------------------------------------------
(* The caller that pages *)

LEMMA BeginWalkKeeps ==
    ASSUME IInv, NEW limit \in PageSizes, BeginWalk(limit)
    PROVE  IInv'
<1>1. TypeOK /\ WalkInv /\ ~loop.on /\ log' = log /\ loop' = loop
      /\ walk' = [NoWalk EXCEPT !.pc = "on", !.limit = limit]
  BY DEF IInv, BeginWalk
<1>2. walk' = [pc |-> "on", limit |-> limit, cursor |-> 0, got |-> {}, twice |-> FALSE, seen |-> 0]
  BY <1>1 DEF NoWalk
<1>3. limit \in Nat \ {0}
  BY ProjectionAssumption
<1>4. TypeOK'
  <2>1. walk' \in [pc : {"off", "on", "done"}, limit : Nat, cursor : Nat, got : SUBSET Nat,
                   twice : BOOLEAN, seen : Nat]
    BY <1>2, <1>3
  <2>2. QED BY <1>1, <2>1 DEF TypeOK
<1>5. LoopInv'
  BY <1>1 DEF LoopInv
<1>6. /\ walk'.pc = "on" /\ walk'.limit = limit /\ walk'.cursor = 0
      /\ walk'.got = {} /\ walk'.twice = FALSE /\ walk'.seen = 0
  BY <1>2
<1>7. Off' /\ CursorIsLast'
  <2>1. 0 <= Len(log)
    BY <1>1, LogFacts
  <2>2. QED BY <1>1, <1>3, <1>6, <2>1 DEF Off, CursorIsLast
<1>8. GotToCursor'
  <2>1. \A j \in EventsOf(log, Task) : ~(j <= 0)
    BY <1>1, LogFacts
  <2>2. QED BY <1>1, <1>6, <2>1 DEF GotToCursor
<1>9. QED BY <1>4, <1>5, <1>7, <1>8 DEF IInv, WalkInv

\* After a page nothing is missing behind the cursor it started from: an event that came in
\* since the page before has a stamp no earlier than the cursor; were it the cursor's stamp,
\* that stamp would be split.
LEMMA BehindCursor ==
    ASSUME IInv, NextPage, FileOrderIsTimeOrder, ~StampIsSplit',
           NEW j \in 1..Len(log), ~(log[j].ts > walk.cursor)
    PROVE  j \in walk'.got
<1> DEFINE N == Len(log)
           page == PageAfter(log, Task, walk.cursor, walk.limit)
<1>1. TypeOK /\ CursorIsLast /\ GotToCursor /\ walk.pc = "on" /\ log' = log
  BY DEF IInv, WalkInv, NextPage
<1>2. walk'.got = walk.got \cup page /\ walk'.seen = N
  BY <1>1 DEF TypeOK, NextPage
<1>3. /\ N \in Nat /\ DOMAIN log = 1..N /\ EventsOf(log, Task) = 1..N
      /\ \A i \in 1..N : i \in Nat /\ log[i].ts \in Nat \ {0}
  BY <1>1, LogFacts
<1>4. /\ walk.cursor \in Nat /\ walk.seen \in Nat /\ walk.seen <= N
      /\ walk.got \subseteq 1..N /\ \A i \in walk.got : i <= walk.seen
  BY <1>1, <1>3 DEF TypeOK, CursorIsLast
\* No two events of one stamp, one got and the other not, are there after the page.
<1>5. \A i \in walk.got, k \in 1..N : log[i].ts = log[k].ts => k \in walk'.got
  BY <1>1, <1>2, <1>3 DEF StampIsSplit
<1>6. \A i \in page : log[i].ts > walk.cursor
  BY DEF PageAfter, FirstOf, AfterCursor
<1>7. CASE j <= walk.seen
  <2>1. ~StampIsSplit
    <3> SUFFICES ASSUME NEW i \in walk.got, NEW k \in 1..N, k \notin walk.got,
                        log[i].ts = log[k].ts
                 PROVE  FALSE
      BY <1>3 DEF StampIsSplit
    <3>1. log[i].ts <= walk.cursor /\ i \in 1..N
      BY <1>1, <1>4 DEF CursorIsLast
    <3>2. k \notin page
      BY <1>3, <1>4, <1>6, <3>1
    <3>3. QED BY <1>2, <1>5, <3>2
  <2>2. log[j].ts <= walk.cursor
    BY <1>3, <1>4
  <2>3. j \in walk.got
    BY <1>1, <1>3, <1>7, <2>1, <2>2 DEF GotToCursor
  <2>4. QED BY <1>2, <2>3
<1>8. CASE ~(j <= walk.seen)
  <2>1. walk.cursor # 0
    BY <1>3, <1>4
  <2>2. PICK i \in walk.got : log[i].ts = walk.cursor
    BY <1>1, <2>1 DEF CursorIsLast
  <2>3. i \in 1..N /\ i < j
    BY <1>3, <1>4, <1>8
  <2>4. log[i].ts <= log[j].ts
    BY <1>3, <2>3 DEF FileOrderIsTimeOrder
  <2>5. log[i].ts = log[j].ts
    BY <1>3, <1>4, <2>2, <2>3, <2>4
  <2>6. QED BY <1>5, <2>5
<1>9. QED BY <1>7, <1>8

\* One page: what the caller gets next comes after its cursor, and up to its new cursor it
\* has everything.
LEMMA NextPageKeeps ==
    ASSUME IInv, NextPage
    PROVE  IInv'
<1> DEFINE N == Len(log)
           after == AfterCursor(log, Task, walk.cursor)
           page == PageAfter(log, Task, walk.cursor, walk.limit)
           next == NextCursor(log, Task, walk.cursor, walk.limit)
<1>1. TypeOK /\ LoopInv /\ Off /\ CursorIsLast /\ GotToCursor
      /\ walk.pc = "on" /\ log' = log /\ loop' = loop
      /\ walk' = [walk EXCEPT !.pc = IF next = 0 THEN "done" ELSE "on",
                              !.cursor = next,
                              !.got = @ \cup page,
                              !.twice = @ \/ page \cap walk.got # {},
                              !.seen = N]
  BY DEF IInv, WalkInv, NextPage
<1>2. /\ N \in Nat /\ DOMAIN log = 1..N /\ EventsOf(log, Task) = 1..N
      /\ \A i \in 1..N : i \in Nat /\ log[i].ts \in Nat \ {0}
  BY <1>1, LogFacts
<1>3. walk \in [pc : {"off", "on", "done"}, limit : Nat, cursor : Nat, got : SUBSET Nat,
                twice : BOOLEAN, seen : Nat]
  BY <1>1 DEF TypeOK
<1>4. /\ walk.cursor \in Nat /\ walk.seen \in Nat /\ walk.twice \in BOOLEAN
      /\ walk.limit \in Nat \ {0} /\ walk.seen <= N
      /\ walk.got \subseteq 1..N /\ \A i \in walk.got : i <= walk.seen
  BY <1>1, <1>2, <1>3 DEF CursorIsLast
<1>5. after \subseteq 1..N /\ \A j \in 1..N : j \in after <=> log[j].ts > walk.cursor
  BY <1>2 DEF AfterCursor
<1>6. /\ page \subseteq after
      /\ after # {} => page # {}
      /\ \A i \in page, j \in after : j <= i => j \in page
  <2>1. page = FirstOf(after, walk.limit)
    BY DEF PageAfter
  <2> HIDE DEF page, after
  <2>2. QED BY <1>2, <1>4, <1>5, <2>1, FirstOfFacts
<1> HIDE DEF after, page
\* The cursor is the stamp of the page's last event.
<1>7. ASSUME page # after
      PROVE  \E last \in page : next = log[last].ts /\ \A j \in page : j <= last
  <2>1. page # {} /\ page \subseteq 1..N
    BY <1>5, <1>6, <1>7
  <2>2. \E n \in page : \A m \in page : m <= n
    BY <1>2, <2>1, Greatest
  <2>3. next = log[CHOOSE i \in page : \A j \in page : j <= i].ts
    BY <1>7 DEF next, NextCursor, page, after
  <2>4. QED BY <2>2, <2>3
<1>8. page = after => next = 0
  BY DEF next, NextCursor, page, after
<1>9. next \in Nat /\ (next = 0 <=> page = after)
  BY <1>2, <1>5, <1>6, <1>7, <1>8
<1> HIDE DEF next
<1>10. PICK w : w = walk'
  OBVIOUS
<1>11. /\ w.pc = IF next = 0 THEN "done" ELSE "on"
       /\ w.limit = walk.limit /\ w.cursor = next /\ w.got = walk.got \cup page
       /\ w.twice = (walk.twice \/ page \cap walk.got # {}) /\ w.seen = N
       /\ w \in [pc : {"off", "on", "done"}, limit : Nat, cursor : Nat, got : SUBSET Nat,
                 twice : BOOLEAN, seen : Nat]
  <2>1. page \subseteq Nat
    BY <1>2, <1>5, <1>6
  <2>2. QED BY <1>1, <1>2, <1>3, <1>9, <1>10, <2>1
<1>12. TypeOK'
  BY <1>1, <1>10, <1>11 DEF TypeOK
<1>13. LoopInv'
  BY <1>1 DEF LoopInv, InOrder, ClosedStatus, ClosedCurrent, ClosedRuns, Applied, StatusApplied,
              RunApplied, OfRun
<1>14. Off'
  BY <1>10, <1>11 DEF Off
<1>15. (FileOrderIsTimeOrder)' <=> FileOrderIsTimeOrder
  BY <1>1 DEF FileOrderIsTimeOrder
<1>16. FileOrderIsTimeOrder => page \cap walk.got = {}
  <2>1. FileOrderIsTimeOrder => \A i \in walk.got : ~(log[i].ts > walk.cursor)
    BY <1>1, <1>2, <1>4 DEF CursorIsLast
  <2>2. QED BY <1>5, <1>6, <2>1
<1>17. FileOrderIsTimeOrder => ~w.twice
  BY <1>1, <1>11, <1>16 DEF CursorIsLast
<1>18. w.got \subseteq {i \in EventsOf(log, Task) : i <= w.seen} /\ w.seen <= N
  BY <1>2, <1>4, <1>5, <1>6, <1>11
<1>19. CASE page = after
  <2>1. next = 0 /\ w.pc = "done"
    BY <1>8, <1>11, <1>19
  <2>2. CursorIsLast'
    <3>1. w.limit \in Nat \ {0}
      BY <1>4, <1>11
    <3> HIDE DEF N
    <3>2. QED BY <1>1, <1>10, <1>15, <1>17, <1>18, <2>1, <3>1 DEF CursorIsLast, N
  <2>3. GotToCursor'
    <3> SUFFICES ASSUME FileOrderIsTimeOrder, (~StampIsSplit)', NEW j \in 1..N
                 PROVE  j \in w.got
      BY <1>1, <1>2, <1>10, <1>15 DEF GotToCursor
    <3>1. CASE log[j].ts > walk.cursor
      BY <1>5, <1>11, <1>19, <3>1
    <3>2. CASE ~(log[j].ts > walk.cursor)
      BY <1>10, <3>2, BehindCursor
    <3>3. QED BY <3>1, <3>2
  <2>4. QED BY <1>12, <1>13, <1>14, <2>2, <2>3 DEF IInv, WalkInv
<1>20. CASE page # after
  <2>1. PICK last \in page : next = log[last].ts /\ \A j \in page : j <= last
    BY <1>7, <1>20
  <2>2. w.pc = "on" /\ next # 0 /\ last \in 1..N /\ log[last].ts > walk.cursor
    BY <1>5, <1>6, <1>9, <1>11, <1>20
  <2>3. FileOrderIsTimeOrder => \A i \in w.got : log[i].ts <= next
    <3> SUFFICES ASSUME FileOrderIsTimeOrder, NEW i \in w.got PROVE log[i].ts <= next
      OBVIOUS
    <3>1. CASE i \in walk.got
      <4>1. log[i].ts <= walk.cursor
        BY <1>1, <3>1 DEF CursorIsLast
      <4>2. QED BY <1>2, <1>4, <2>1, <2>2, <3>1, <4>1
    <3>2. CASE i \in page
      <4>1. i \in 1..N /\ i <= last
        BY <1>5, <1>6, <2>1, <3>2
      <4>2. i < last => log[i].ts <= log[last].ts
        BY <1>2, <2>2, <4>1 DEF FileOrderIsTimeOrder
      <4>3. QED BY <1>2, <2>1, <2>2, <4>1, <4>2
    <3>3. QED BY <1>11, <3>1, <3>2
  <2>4. last \in w.got
    BY <1>11, <2>1
  <2>5. CursorIsLast'
    <3>1. w.limit \in Nat \ {0} /\ w.cursor = next
      BY <1>4, <1>11
    <3>2. \E i \in w.got : log[i].ts = w.cursor
      BY <2>1, <2>4, <3>1
    <3>3. QED BY <1>1, <1>10, <1>15, <1>17, <1>18, <2>3, <3>1, <3>2 DEF CursorIsLast
  <2>6. GotToCursor'
    <3> SUFFICES ASSUME FileOrderIsTimeOrder, (~StampIsSplit)', NEW j \in 1..N,
                        log[j].ts <= next
                 PROVE  j \in w.got
      BY <1>1, <1>2, <1>10, <1>11, <1>15, <2>2 DEF GotToCursor
    <3>1. CASE ~(log[j].ts > walk.cursor)
      BY <1>10, <3>1, BehindCursor
    <3>2. CASE log[j].ts > walk.cursor /\ j <= last
      BY <1>5, <1>6, <1>11, <2>1, <3>2
    <3>3. CASE ~(j <= last)
      <4>1. log[last].ts <= log[j].ts
        BY <1>2, <2>2, <3>3 DEF FileOrderIsTimeOrder
      <4>2. log[last].ts = log[j].ts
        BY <1>2, <2>1, <2>2, <4>1
      <4>3. ASSUME j \notin w.got PROVE StampIsSplit'
        <5>1. j \in EventsOf(log', Task) \ walk'.got /\ last \in walk'.got /\ j <= walk'.seen
          <6>1. j \in EventsOf(log, Task) /\ j <= N
            BY <1>2
          <6>2. QED BY <1>1, <1>10, <1>11, <2>4, <4>3, <6>1
        <5>2. log'[last].ts = log'[j].ts
          BY <1>1, <4>2
        <5>3. QED BY <5>1, <5>2 DEF StampIsSplit
      <4>4. QED BY <4>3
    <3>4. QED BY <3>1, <3>2, <3>3
  <2>7. QED BY <1>12, <1>13, <1>14, <2>5, <2>6 DEF IInv, WalkInv
<1>21. QED BY <1>19, <1>20

-----------------------------------------------------------------------------
(* The theorems *)

THEOREM ProjectionInvariant == Spec => []IInv
<1>1. Init => IInv
  BY InitHolds
<1>2. IInv /\ [Next]_vars => IInv'
  <2> SUFFICES ASSUME IInv, [Next]_vars PROVE IInv'
    OBVIOUS
  <2>1. ASSUME NEW b \in Batches, Grow(b) PROVE IInv'
    BY <2>1, GrowKeeps
  <2>2. CASE BeginLoop
    BY <2>2, BeginLoopKeeps
  <2>3. CASE Turn
    BY <2>3, TurnKeeps
  <2>4. CASE EndLoop
    BY <2>4, EndLoopKeeps
  <2>5. ASSUME NEW limit \in PageSizes, BeginWalk(limit) PROVE IInv'
    BY <2>5, BeginWalkKeeps
  <2>6. CASE NextPage
    BY <2>6, NextPageKeeps
  <2>7. CASE UNCHANGED vars
    BY <2>7 DEF vars, IInv, TypeOK, LoopInv, InOrder, ClosedStatus, ClosedCurrent, ClosedRuns,
                Applied, StatusApplied, RunApplied, OfRun, WalkInv, Off, CursorIsLast,
                GotToCursor, FileOrderIsTimeOrder, StampIsSplit
  <2>8. QED BY <2>1, <2>2, <2>3, <2>4, <2>5, <2>6, <2>7 DEF Next
<1>3. QED BY <1>1, <1>2, PTL DEF Spec

\* What the loop has computed when it is through is what the closed forms say, so every
\* theorem about the status of a task is one about projectTaskState.
THEOREM LoopIsClosedForm == Spec => []ProjectionAgrees
<1>1. IInv => ProjectionAgrees
  <2> SUFFICES ASSUME IInv, loop.on, loop.todo = {} PROVE ProjectionAgrees
    BY DEF ProjectionAgrees
  <2>1. ClosedStatus /\ ClosedCurrent /\ ClosedRuns
    BY DEF IInv, LoopInv
  <2>2. Applied = Page(log, Task)
    BY DEF Applied
  <2>3. StatusApplied = StatusEvents(log, Task) /\ RunApplied = RunEvents(log, Task)
        /\ \A r : OfRun(r) = {i \in RunEvents(log, Task) : log[i].run = r}
    BY <2>2 DEF StatusApplied, RunApplied, OfRun, StatusEvents, RunEvents
  <2>4. Status(log, Task) = loop.state.status
    BY <2>1, <2>3 DEF ClosedStatus, Status
  <2>5. CurrentRun(log, Task) = loop.state.current
    BY <2>1, <2>3 DEF ClosedCurrent, CurrentRun
  <2>6. DOMAIN loop.state.runs = {log[i].run : i \in RunEvents(log, Task)}
    BY <2>1, <2>3 DEF ClosedRuns
  <2>7. RunCount(log, Task) = Cardinality(DOMAIN loop.state.runs)
    BY <2>6 DEF RunCount
  <2>8. \A r \in DOMAIN loop.state.runs : RunStatus(log, Task, r) = loop.state.runs[r]
    BY <2>1, <2>3, <2>6 DEF ClosedRuns, RunStatus
  <2>9. QED BY <2>4, <2>5, <2>7, <2>8 DEF ProjectionAgrees
<1>2. QED BY <1>1, ProjectionInvariant, PTL

\* A caller that follows nextCursor gets what was in the file at its last page, each event
\* once, under the two conditions the cursor needs.
THEOREM WalkGetsEachOnce == Spec => []PagingRetrievesAll
<1>1. IInv => PagingRetrievesAll
  <2> SUFFICES ASSUME IInv, walk.pc = "done", FileOrderIsTimeOrder, ~StampIsSplit
               PROVE  /\ walk.got = {i \in EventsOf(log, Task) : i <= walk.seen}
                      /\ ~walk.twice
    BY DEF PagingRetrievesAll
  <2>1. CursorIsLast /\ GotToCursor
    BY DEF IInv, WalkInv
  <2>2. QED BY <2>1 DEF CursorIsLast, GotToCursor
<1>2. QED BY <1>1, ProjectionInvariant, PTL
=============================================================================
