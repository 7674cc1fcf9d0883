---------------------------- MODULE Kernel_proofs ----------------------------
(***************************************************************************)
(* Proofs about the kernel runtime and its event log.  What one replay     *)
(* returns and what the status of a task depends on, for every log and     *)
(* every page size; that the properties of KernelSafety hold of            *)
(* KernelRuntime, for every number of tasks, processes, calls and faults;  *)
(* and that under a host that keeps to the life cycle the log implements   *)
(* TaskLifecycle while no task has more events than a replay returns.      *)
(***************************************************************************)
EXTENDS KernelSafety, KernelSerial, FiniteSetTheorems, WellFoundedInduction, TLAPS

-----------------------------------------------------------------------------
(* The latest event of a page *)

LEMMA LeastNat ==
    ASSUME NEW T \in SUBSET Nat, T # {}
    PROVE  \E n \in T : \A m \in T : n <= m
<1>1. \E n \in T : \A m \in T : <<m, n>> \notin OpToRel(<, Nat)
  BY NatLessThanWellFounded, WFMin
<1>2. \A m, n \in T : <<m, n>> \notin OpToRel(<, Nat) => n <= m
  BY DEF OpToRel
<1>3. QED BY <1>1, <1>2

\* Every log's positions are finitely many, and so are the events of a task.
LEMMA EventsFinite ==
    ASSUME NEW E, NEW l \in Seq(E), NEW t
    PROVE  /\ DOMAIN l = 1..Len(l) /\ Len(l) \in Nat
           /\ EventsOf(l, t) \subseteq 1..Len(l)
           /\ IsFiniteSet(EventsOf(l, t)) /\ Cardinality(EventsOf(l, t)) \in Nat
<1>1. DOMAIN l = 1..Len(l) /\ Len(l) \in Nat
  OBVIOUS
<1>2. EventsOf(l, t) \subseteq 1..Len(l)
  BY <1>1 DEF EventsOf
<1>3. IsFiniteSet(1..Len(l))
  BY <1>1, FS_Interval
<1>4. IsFiniteSet(EventsOf(l, t))
  BY <1>2, <1>3, FS_Subset
<1>5. QED BY <1>1, <1>2, <1>4, FS_CardinalityType

\* A non-empty set of positions has one that comes last in the sorted order.
LEMMA LatestExists ==
    ASSUME NEW l, NEW N \in Nat, \A i \in 1..N : l[i].ts \in Nat,
           NEW S \in SUBSET (1..N), S # {}
    PROVE  \E i \in S : \A j \in S : Before(l, j, i)
<1> DEFINE Last(X) == \E i \in X : \A j \in X : Before(l, j, i)
           Bad == {n \in 0..N : \E X \in SUBSET (1..n) : X # {} /\ ~Last(X)}
<1>1. SUFFICES ASSUME ~Last(S) PROVE FALSE
  OBVIOUS
<1>2. N \in Bad
  BY <1>1
<1>3. PICK n \in Bad : \A m \in Bad : n <= m
  <2>1. Bad \subseteq Nat
    OBVIOUS
  <2>2. QED BY <1>2, <2>1, LeastNat
<1>4. PICK X \in SUBSET (1..n) : X # {} /\ ~Last(X)
  BY <1>3
<1>5. n \in X /\ n \in 1..N
  <2>0. n \in Nat
    BY <1>3
  <2>1. CASE n = 0
    <3>1. 1..n = {}
      BY <2>1
    <3>2. QED BY <1>4, <3>1
  <2>2. CASE n # 0 /\ n \notin X
    <3>1. X \in SUBSET (1..(n - 1)) /\ n - 1 \in 0..N
      BY <1>3, <1>4, <2>2
    <3>2. n - 1 \in Bad
      BY <1>4, <3>1
    <3>3. n <= n - 1
      BY <1>3, <3>2
    <3>4. QED BY <2>0, <3>3
  <2>3. CASE n # 0 /\ n \in X
    BY <1>3, <2>0, <2>3
  <2>4. QED BY <2>1, <2>2, <2>3
<1> DEFINE Y == X \ {n}
<1>6. Y \in SUBSET (1..(n - 1)) /\ n - 1 \in 0..N
  BY <1>3, <1>4, <1>5
<1>7. n - 1 \notin Bad
  BY <1>3, <1>5
<1>8. \A i \in 1..N : Before(l, i, i)
  BY DEF Before
<1>9. CASE Y = {}
  <2>1. X = {n}
    BY <1>5, <1>9
  <2>2. QED BY <1>4, <1>5, <1>8, <2>1
<1>10. CASE Y # {}
  <2>1. Last(Y)
    BY <1>6, <1>7, <1>10
  <2>2. PICK i \in Y : \A j \in Y : Before(l, j, i)
    BY <2>1
  <2>3. i \in 1..N /\ Y \subseteq 1..N /\ i < n
    BY <1>3, <1>4, <1>5, <1>6
  <2>4. CASE Before(l, n, i)
    <3>1. \A j \in X : Before(l, j, i)
      BY <2>2, <2>4
    <3>2. QED BY <1>4, <3>1
  <2>5. CASE ~Before(l, n, i)
    <3>1. l[i].ts <= l[n].ts
      BY <1>5, <2>3, <2>5 DEF Before
    <3>2. \A j \in Y : l[j].ts <= l[i].ts /\ j < n
      BY <2>2, <2>3, <1>6 DEF Before
    <3>3. \A j \in Y : Before(l, j, n)
      BY <1>5, <2>3, <3>1, <3>2 DEF Before
    <3>4. \A j \in X : Before(l, j, n)
      BY <1>5, <1>8, <3>3
    <3>5. QED BY <1>4, <1>5, <3>4
  <2>6. QED BY <2>4, <2>5
<1>11. QED BY <1>9, <1>10

LEMMA LatestIn ==
    ASSUME NEW l, NEW N \in Nat, \A i \in 1..N : l[i].ts \in Nat,
           NEW S \in SUBSET (1..N), S # {}
    PROVE  Latest(l, S) \in S /\ \A j \in S : Before(l, j, Latest(l, S))
<1> DEFINE last == {i \in S : \A j \in S : Before(l, j, i)}
<1>1. last # {}
  BY LatestExists
<1>2. Only(last) \in last
  BY <1>1 DEF Only
<1>3. Latest(l, S) = Only(last)
  BY DEF Latest
<1>4. QED BY <1>2, <1>3

\* Whatever comes no earlier than every other position is the latest one.
LEMMA LatestIs ==
    ASSUME NEW l, NEW N \in Nat, \A i \in 1..N : l[i].ts \in Nat,
           NEW S \in SUBSET (1..N), NEW k \in S, \A j \in S : Before(l, j, k)
    PROVE  Latest(l, S) = k
<1>1. Latest(l, S) \in S /\ Before(l, k, Latest(l, S))
  BY LatestIn
<1>2. Before(l, Latest(l, S), k)
  BY <1>1
<1>3. k \in 1..N /\ Latest(l, S) \in 1..N
  BY <1>1
<1>4. QED BY <1>1, <1>2, <1>3 DEF Before

-----------------------------------------------------------------------------
(* Pages *)

\* A page that has room for all events of a task holds them all.
LEMMA WholePage ==
    ASSUME NEW E, NEW l \in Seq(E), NEW t, Cardinality(EventsOf(l, t)) <= ReplayLimit
    PROVE  Page(l, t) = EventsOf(l, t)
<1> DEFINE S == EventsOf(l, t)
<1>1. IsFiniteSet(S) /\ Cardinality(S) \in Nat /\ S \subseteq 1..Len(l) /\ Len(l) \in Nat
  BY EventsFinite
<1>2. ASSUME NEW i \in S PROVE Cardinality({j \in S : j < i}) < ReplayLimit
  <2> DEFINE F == {j \in S : j < i}
  <2>1. F \in SUBSET (S \ {i})
    BY <1>1
  <2>2. IsFiniteSet(S \ {i}) /\ Cardinality(S \ {i}) = Cardinality(S) - 1
    BY <1>1, FS_RemoveElement
  <2>3. IsFiniteSet(F) /\ Cardinality(F) <= Cardinality(S \ {i})
    BY <2>1, <2>2, FS_Subset
  <2>4. Cardinality(F) \in Nat
    BY <2>3, FS_CardinalityType
  <2>5. QED BY <1>1, <2>2, <2>3, <2>4, ReplayLimitAssumption
<1>3. QED BY <1>2 DEF Page, FirstOf

\* Two logs that agree on t's events project the same status of t.
LEMMA StatusDepends ==
    ASSUME NEW E, NEW l \in Seq(E), NEW m, NEW t,
           \A i \in DOMAIN l : l[i].ts \in Nat,
           EventsOf(l, t) = EventsOf(m, t),
           \A i \in EventsOf(l, t) : l[i] = m[i]
    PROVE  Status(l, t) = Status(m, t)
<1>1. Page(l, t) = Page(m, t) /\ Page(l, t) \subseteq EventsOf(l, t)
  BY DEF Page, FirstOf
<1>2. StatusEvents(l, t) = StatusEvents(m, t) /\ StatusEvents(l, t) \subseteq EventsOf(l, t)
  BY <1>1 DEF StatusEvents
<1> DEFINE S == StatusEvents(l, t)
           last(k) == {i \in S : \A j \in S : Before(k, j, i)}
<1>3. \A i, j \in S : Before(l, j, i) <=> Before(m, j, i)
  BY <1>2 DEF Before
<1>4. last(l) = last(m)
  BY <1>3
<1>5. Latest(l, S) = Latest(m, S)
  BY <1>4 DEF Latest
<1>6. CASE S = {}
  BY <1>2, <1>6 DEF Status
<1>7. CASE S # {}
  <2>1. S \in SUBSET (1..Len(l)) /\ Len(l) \in Nat /\ \A i \in 1..Len(l) : l[i].ts \in Nat
    BY <1>2, EventsFinite
  <2>2. Latest(l, S) \in S
    BY <1>7, <2>1, LatestIn
  <2>3. l[Latest(l, S)] = m[Latest(l, S)]
    BY <1>2, <2>2
  <2>4. QED BY <1>2, <1>5, <1>7, <2>3 DEF Status
<1>8. QED BY <1>6, <1>7

\* Once a task has as many events as a replay returns, nothing appended to the
\* log is ever seen: its status can no longer change (projectTaskState replays
\* without a limit of its own, and replay takes the first 100 events).
THEOREM FullPageFreezes ==
    ASSUME NEW E, NEW l \in Seq(E), NEW b \in Seq(E), NEW t,
           \A i \in DOMAIN l : l[i].ts \in Nat,
           Cardinality(EventsOf(l, t)) >= ReplayLimit
    PROVE  Page(l \o b, t) = Page(l, t) /\ Status(l \o b, t) = Status(l, t)
<1> DEFINE m == l \o b
           S == EventsOf(l, t)
           T == EventsOf(m, t)
<1>1. /\ Len(l) \in Nat /\ DOMAIN l = 1..Len(l)
      /\ m \in Seq(E) /\ Len(m) \in Nat /\ Len(l) <= Len(m) /\ DOMAIN m = 1..Len(m)
      /\ \A i \in 1..Len(l) : m[i] = l[i]
  OBVIOUS
<1> HIDE DEF m
<1>2. S \subseteq T /\ \A i \in T : i \in 1..Len(m) /\ (i \in S <=> i <= Len(l))
  BY <1>1 DEF EventsOf
<1>3. \A i \in S : {j \in T : j < i} = {j \in S : j < i}
  BY <1>1, <1>2 DEF EventsOf
<1>4. ASSUME NEW i \in T, i \notin S PROVE ~(Cardinality({j \in T : j < i}) < ReplayLimit)
  <2> DEFINE F == {j \in T : j < i}
  <2>1. S \in SUBSET F
    BY <1>1, <1>2, <1>4 DEF EventsOf
  <2>2. IsFiniteSet(T)
    BY <1>1, EventsFinite
  <2>3. IsFiniteSet(F)
    BY <2>2, FS_Subset
  <2>4. Cardinality(S) <= Cardinality(F) /\ Cardinality(F) \in Nat /\ Cardinality(S) \in Nat
    BY <2>1, <2>3, FS_Subset, FS_CardinalityType
  <2>5. QED BY <2>4, ReplayLimitAssumption
<1>5. Page(m, t) = Page(l, t)
  BY <1>2, <1>3, <1>4 DEF Page, FirstOf
<1>6. Page(l, t) \subseteq S /\ S \subseteq 1..Len(l)
  BY <1>1 DEF Page, FirstOf, EventsOf
<1> HIDE DEF S, T
<1>7. StatusEvents(m, t) = StatusEvents(l, t) /\ StatusEvents(l, t) \subseteq 1..Len(l)
  BY <1>1, <1>5, <1>6 DEF StatusEvents
<1> DEFINE V == StatusEvents(l, t)
           last(k) == {i \in V : \A j \in V : Before(k, j, i)}
<1>8. \A i, j \in V : Before(l, j, i) <=> Before(m, j, i)
  BY <1>1, <1>7 DEF Before
<1>9. last(l) = last(m)
  BY <1>8
<1>10. Latest(l, V) = Latest(m, V)
  BY <1>9 DEF Latest
<1>11. Status(m, t) = Status(l, t)
  <2>1. CASE V = {}
    BY <1>7, <2>1 DEF Status
  <2>2. CASE V # {}
    <3>1. Latest(l, V) \in V
      BY <1>1, <1>7, <2>2, LatestIn
    <3>2. m[Latest(l, V)] = l[Latest(l, V)]
      BY <1>1, <1>7, <3>1
    <3>3. QED BY <1>7, <1>10, <2>2, <3>2 DEF Status
  <2>3. QED BY <2>1, <2>2
<1>12. QED BY <1>5, <1>11 DEF m

\* A page that holds all of a task's events projects what the latest of its
\* status events says.
LEMMA StatusOfLatest ==
    ASSUME NEW E, NEW l \in Seq(E), NEW t, Cardinality(EventsOf(l, t)) <= ReplayLimit,
           \A i \in DOMAIN l : l[i].ts \in Nat,
           NEW k \in EventsOf(l, t), l[k].kind \in TaskKinds,
           \A j \in EventsOf(l, t) : l[j].kind \in TaskKinds => Before(l, j, k)
    PROVE  Status(l, t) = StatusAfter[l[k].kind]
<1>1. Page(l, t) = EventsOf(l, t)
  BY WholePage
<1>2. DOMAIN l = 1..Len(l) /\ Len(l) \in Nat /\ EventsOf(l, t) \subseteq 1..Len(l)
  BY EventsFinite
<1> DEFINE S == StatusEvents(l, t)
<1>3. k \in S /\ S \in SUBSET (1..Len(l)) /\ \A j \in S : Before(l, j, k)
  BY <1>1, <1>2 DEF StatusEvents
<1>4. Latest(l, S) = k
  BY <1>2, <1>3, LatestIs
<1>5. QED BY <1>3, <1>4 DEF Status

\* A task without events is ready.
LEMMA StatusOfNone ==
    ASSUME NEW l, NEW t, EventsOf(l, t) = {}
    PROVE  Status(l, t) = "ready"
BY DEF Status, StatusEvents, Page, FirstOf

\* A task that has only been created, however often, is ready.
LEMMA StatusOfCreated ==
    ASSUME NEW E, NEW l \in Seq(E), NEW t, \A i \in DOMAIN l : l[i].ts \in Nat,
           \A i \in EventsOf(l, t) : l[i].kind = "task_created"
    PROVE  Status(l, t) = "ready"
<1> DEFINE S == StatusEvents(l, t)
<1>1. S \subseteq EventsOf(l, t)
  BY DEF StatusEvents, Page, FirstOf
<1>2. DOMAIN l = 1..Len(l) /\ Len(l) \in Nat /\ EventsOf(l, t) \subseteq 1..Len(l)
  BY EventsFinite
<1>3. CASE S # {}
  <2>1. Latest(l, S) \in S
    BY <1>1, <1>2, <1>3, LatestIn
  <2>2. QED BY <1>1, <1>3, <2>1 DEF Status, StatusAfter
<1>4. QED BY <1>3 DEF Status

-----------------------------------------------------------------------------
(* Logs and batches *)

\* What appending does to a log: old positions keep their events, the new ones
\* follow.
LEMMA AppendFacts ==
    ASSUME NEW S, NEW l \in Seq(S), NEW b \in Seq(S)
    PROVE  /\ l \o b \in Seq(S)
           /\ Len(l) \in Nat /\ Len(b) \in Nat
           /\ DOMAIN l = 1..Len(l) /\ DOMAIN b = 1..Len(b)
           /\ DOMAIN (l \o b) = 1..(Len(l) + Len(b))
           /\ \A i \in 1..Len(l) : (l \o b)[i] = l[i]
           /\ \A k \in 1..Len(b) : (l \o b)[Len(l) + k] = b[k]
OBVIOUS

\* A call in flight has a task and an operation; one at a given point has an
\* operation that passes there.
Shaped(call) ==
    /\ call.pc = "idle" => call = Idle
    /\ call.pc # "idle" => call.task \in Tasks /\ call.op \in Ops
    /\ call.pc \in {"write", "remove"} => call.op = "create"
    /\ call.pc = "decide" => call.op \in Guarded

CallShape == \A c \in Calls : Shaped(calls[c])

LEMMA OneEvent ==
    ASSUME NEW S, NEW e \in S
    PROVE  /\ <<e>> \in Seq(S) /\ Len(<<e>>) = 1
           /\ \A k \in 1..Len(<<e>>) : k = 1 /\ <<e>>[k] = e
OBVIOUS

LEMMA TwoEvents ==
    ASSUME NEW S, NEW e \in S, NEW f \in S
    PROVE  /\ <<e, f>> \in Seq(S) /\ Len(<<e, f>>) = 2
           /\ \A k \in 1..Len(<<e, f>>) : \/ k = 1 /\ <<e, f>>[k] = e
                                          \/ k = 2 /\ <<e, f>>[k] = f
<1>1. /\ <<e, f>> \in Seq(S) /\ Len(<<e, f>>) = 2
      /\ <<e, f>>[1] = e /\ <<e, f>>[2] = f
  OBVIOUS
<1>2. 1..2 = {1, 2}
  OBVIOUS
<1>3. QED BY <1>1, <1>2

\* Kinds, tasks, stamps and requests of the events each call appends.
LEMMA BatchFacts ==
    ASSUME NEW call \in CallStates, call.task \in Tasks, call.op \in Ops
    PROVE  /\ Batch(call) \in Seq(Events)
           /\ Len(Batch(call)) \in {1, 2}
           /\ call.op \in {"create", "tool", "resolve"} => Len(Batch(call)) = 1
           /\ \A k \in 1..Len(Batch(call)) :
                /\ Batch(call)[k].task = call.task
                /\ Batch(call)[k].ts = call.ts
                /\ Batch(call)[k].kind = "task_created" <=> call.op = "create"
                /\ Batch(call)[k].kind = "task_waiting" <=> call.op = "tool"
                /\ Batch(call)[k].kind = "task_resumed" <=> call.op = "resolve"
                /\ call.op \in {"tool", "resolve"} => Batch(call)[k].req = call.req
<1>0. /\ call.run \in Nat /\ call.req \in Nat
      /\ TaskKinds \cup RunKinds =
           {"task_created", "task_claimed", "task_blocked", "task_unblocked", "task_waiting",
            "task_resumed", "task_completed", "task_released", "run_started", "run_paused",
            "run_failed", "run_succeeded"}
  BY DEF CallStates, TaskKinds, RunKinds
<1>1. CASE call.op = "create"
  <2>1. Batch(call) = <<EventOf(call, "task_created", 0, 0)>>
    BY <1>1 DEF Batch
  <2>2. /\ EventOf(call, "task_created", 0, 0) \in Events
        /\ EventOf(call, "task_created", 0, 0).kind = "task_created"
        /\ EventOf(call, "task_created", 0, 0).task = call.task
        /\ EventOf(call, "task_created", 0, 0).req = 0
        /\ EventOf(call, "task_created", 0, 0).ts = call.ts
    BY <1>0 DEF EventOf, Events, CallStates
  <2>3. QED BY <2>1, <2>2, <1>1, OneEvent
<1>2. CASE call.op = "claim"
  <2>1. Batch(call) = <<EventOf(call, "task_claimed", 0, 0),
                         EventOf(call, "run_started", call.run, 0)>>
    BY <1>2 DEF Batch
  <2>2. /\ EventOf(call, "task_claimed", 0, 0) \in Events
        /\ EventOf(call, "task_claimed", 0, 0).kind = "task_claimed"
        /\ EventOf(call, "task_claimed", 0, 0).task = call.task
        /\ EventOf(call, "task_claimed", 0, 0).req = 0
        /\ EventOf(call, "task_claimed", 0, 0).ts = call.ts
    BY <1>0 DEF EventOf, Events, CallStates
  <2>3. /\ EventOf(call, "run_started", call.run, 0) \in Events
        /\ EventOf(call, "run_started", call.run, 0).kind = "run_started"
        /\ EventOf(call, "run_started", call.run, 0).task = call.task
        /\ EventOf(call, "run_started", call.run, 0).req = 0
        /\ EventOf(call, "run_started", call.run, 0).ts = call.ts
    BY <1>0 DEF EventOf, Events, CallStates
  <2>4. QED BY <2>1, <2>2, <2>3, <1>2, TwoEvents
<1>3. CASE call.op = "block"
  <2>1. Batch(call) = <<EventOf(call, "task_blocked", 0, 0)>>
    BY <1>3 DEF Batch
  <2>2. /\ EventOf(call, "task_blocked", 0, 0) \in Events
        /\ EventOf(call, "task_blocked", 0, 0).kind = "task_blocked"
        /\ EventOf(call, "task_blocked", 0, 0).task = call.task
        /\ EventOf(call, "task_blocked", 0, 0).req = 0
        /\ EventOf(call, "task_blocked", 0, 0).ts = call.ts
    BY <1>0 DEF EventOf, Events, CallStates
  <2>3. QED BY <2>1, <2>2, <1>3, OneEvent
<1>4. CASE call.op = "unblock"
  <2>1. Batch(call) = <<EventOf(call, "task_unblocked", 0, 0)>>
    BY <1>4 DEF Batch
  <2>2. /\ EventOf(call, "task_unblocked", 0, 0) \in Events
        /\ EventOf(call, "task_unblocked", 0, 0).kind = "task_unblocked"
        /\ EventOf(call, "task_unblocked", 0, 0).task = call.task
        /\ EventOf(call, "task_unblocked", 0, 0).req = 0
        /\ EventOf(call, "task_unblocked", 0, 0).ts = call.ts
    BY <1>0 DEF EventOf, Events, CallStates
  <2>3. QED BY <2>1, <2>2, <1>4, OneEvent
<1>5. CASE call.op = "complete"
  <2>1. Batch(call) = <<EventOf(call, "run_succeeded", call.run, 0),
                         EventOf(call, "task_completed", 0, 0)>>
    BY <1>5 DEF Batch
  <2>2. /\ EventOf(call, "run_succeeded", call.run, 0) \in Events
        /\ EventOf(call, "run_succeeded", call.run, 0).kind = "run_succeeded"
        /\ EventOf(call, "run_succeeded", call.run, 0).task = call.task
        /\ EventOf(call, "run_succeeded", call.run, 0).req = 0
        /\ EventOf(call, "run_succeeded", call.run, 0).ts = call.ts
    BY <1>0 DEF EventOf, Events, CallStates
  <2>3. /\ EventOf(call, "task_completed", 0, 0) \in Events
        /\ EventOf(call, "task_completed", 0, 0).kind = "task_completed"
        /\ EventOf(call, "task_completed", 0, 0).task = call.task
        /\ EventOf(call, "task_completed", 0, 0).req = 0
        /\ EventOf(call, "task_completed", 0, 0).ts = call.ts
    BY <1>0 DEF EventOf, Events, CallStates
  <2>4. QED BY <2>1, <2>2, <2>3, <1>5, TwoEvents
<1>6. CASE call.op = "tool"
  <2>1. Batch(call) = <<EventOf(call, "task_waiting", 0, call.req)>>
    BY <1>6 DEF Batch
  <2>2. /\ EventOf(call, "task_waiting", 0, call.req) \in Events
        /\ EventOf(call, "task_waiting", 0, call.req).kind = "task_waiting"
        /\ EventOf(call, "task_waiting", 0, call.req).task = call.task
        /\ EventOf(call, "task_waiting", 0, call.req).req = call.req
        /\ EventOf(call, "task_waiting", 0, call.req).ts = call.ts
    BY <1>0 DEF EventOf, Events, CallStates
  <2>3. QED BY <2>1, <2>2, <1>6, OneEvent
<1>7. CASE call.op = "resolve"
  <2>1. Batch(call) = <<EventOf(call, "task_resumed", 0, call.req)>>
    BY <1>7 DEF Batch
  <2>2. /\ EventOf(call, "task_resumed", 0, call.req) \in Events
        /\ EventOf(call, "task_resumed", 0, call.req).kind = "task_resumed"
        /\ EventOf(call, "task_resumed", 0, call.req).task = call.task
        /\ EventOf(call, "task_resumed", 0, call.req).req = call.req
        /\ EventOf(call, "task_resumed", 0, call.req).ts = call.ts
    BY <1>0 DEF EventOf, Events, CallStates
  <2>3. QED BY <2>1, <2>2, <1>7, OneEvent
<1>8. QED BY <1>1, <1>2, <1>3, <1>4, <1>5, <1>6, <1>7 DEF Ops, Guarded

-----------------------------------------------------------------------------
(* Types *)

Typed == TypeOK /\ CallShape

LEMMA IdleFacts ==
    /\ Idle \in CallStates
    /\ Idle.pc = "idle" /\ Idle.op = "none" /\ Idle.task = NoTask
BY DEF Idle, CallStates

\* Replacing one call by a well-formed one keeps all calls well-formed.
LEMMA SetCall ==
    ASSUME calls \in [Calls -> CallStates], CallShape,
           NEW c \in Calls, NEW new \in CallStates, Shaped(new),
           calls' = [calls EXCEPT ![c] = new]
    PROVE  calls' \in [Calls -> CallStates] /\ CallShape'
BY DEF CallShape, Shaped

\* A call that writes its batch leaves a log of events.
LEMMA BatchTyped ==
    ASSUME Typed, NEW c \in Calls, WriteBatch(c)
    PROVE  /\ calls[c] \in CallStates /\ log \in Seq(Events) /\ log' \in Seq(Events)
           /\ calls[c].task \in Tasks /\ calls[c].op \in Ops
           /\ Batch(calls[c]) \in Seq(Events)
<1>1. calls[c] \in CallStates /\ Shaped(calls[c]) /\ log \in Seq(Events)
  BY DEF Typed, TypeOK, CallShape
<1>2. calls[c].task \in Tasks /\ calls[c].op \in Ops
  BY <1>1 DEF WriteBatch, Shaped
<1>3. Batch(calls[c]) \in Seq(Events)
  BY <1>1, <1>2, BatchFacts
<1>4. log' \in Seq(Events)
  BY <1>1, <1>3, AppendFacts DEF WriteBatch
<1>5. QED BY <1>1, <1>2, <1>3, <1>4

LEMMA TypedInit == Init => Typed
BY IdleFacts DEF Init, Typed, TypeOK, CallShape, Shaped

LEMMA TypedNext == Typed /\ [Next]_vars => Typed'
<1> SUFFICES ASSUME Typed, [Next]_vars PROVE Typed'
  OBVIOUS
<1>0. /\ \A c \in Calls : calls[c] \in CallStates /\ Home[c] \in Procs /\ Shaped(calls[c])
      /\ calls \in [Calls -> CallStates] /\ CallShape /\ Shaped(Idle)
  BY KernelAssumption, IdleFacts DEF Typed, TypeOK, CallShape, Shaped
<1>1. ASSUME NEW c \in Calls, NEW t \in Tasks, CreateOpen(c, t) PROVE Typed'
  <2> DEFINE new == [Idle EXCEPT !.pc = "write", !.op = "create", !.task = t]
  <2>1. new \in CallStates /\ Shaped(new)
    BY IdleFacts DEF CallStates, Ops, Idle, Shaped
  <2> HIDE DEF new
  <2>2. calls' = [calls EXCEPT ![c] = new] /\ begun' \in Nat
    BY <1>1 DEF CreateOpen, Begin, new, Typed, TypeOK
  <2>3. calls' \in [Calls -> CallStates] /\ CallShape'
    BY <2>1, <2>2, <1>0, SetCall
  <2>4. QED BY <1>1, <2>2, <2>3 DEF Typed, TypeOK, CreateOpen
<1>2. ASSUME NEW c \in Calls, CreateWrite(c) PROVE Typed'
  <2>1. PICK ts \in Now : /\ clock' = ts
                          /\ calls' = [calls EXCEPT ![c] = [@ EXCEPT !.pc = "append", !.ts = ts]]
    BY <1>2 DEF CreateWrite
  <2> DEFINE new == [calls[c] EXCEPT !.pc = "append", !.ts = ts]
  <2>2. ts \in Nat
    BY DEF Now, Typed, TypeOK
  <2>3. calls[c].op = "create" /\ calls[c].task \in Tasks
    BY <1>2, <1>0 DEF CreateWrite, Shaped
  <2>4. new \in CallStates /\ Shaped(new)
    BY <2>2, <2>3, <1>0 DEF CallStates, Shaped, Ops
  <2>5. calls' = [calls EXCEPT ![c] = new]
    BY <2>1
  <2> HIDE DEF new
  <2>6. calls' \in [Calls -> CallStates] /\ CallShape'
    BY <2>4, <2>5, <1>0, SetCall
  <2>7. QED BY <1>2, <2>1, <2>2, <2>3, <2>6 DEF Typed, TypeOK, CreateWrite
<1>3. ASSUME NEW c \in Calls, CreateWriteFails(c) PROVE Typed'
  <2> DEFINE new == [calls[c] EXCEPT !.pc = "remove"]
  <2>1. calls[c].op = "create" /\ calls[c].task \in Tasks
    BY <1>3, <1>0 DEF CreateWriteFails, Shaped
  <2>2. new \in CallStates /\ Shaped(new)
    BY <2>1, <1>0 DEF CallStates, Shaped, Ops
  <2>3. calls' = [calls EXCEPT ![c] = new]
    BY <1>3 DEF CreateWriteFails
  <2> HIDE DEF new
  <2>4. calls' \in [Calls -> CallStates] /\ CallShape'
    BY <2>2, <2>3, <1>0, SetCall
  <2>5. QED BY <1>3, <2>4 DEF Typed, TypeOK, CreateWriteFails, Fails
<1>4. ASSUME NEW c \in Calls, CreateRemove(c) PROVE Typed'
  <2>1. calls' \in [Calls -> CallStates] /\ CallShape'
    BY <1>4, <1>0, IdleFacts, SetCall DEF CreateRemove, Return
  <2>2. calls[c].task \in Tasks
    BY <1>4, <1>0 DEF CreateRemove, Shaped
  <2>3. QED BY <1>4, <2>1, <2>2 DEF Typed, TypeOK, CreateRemove
<1>5. ASSUME NEW c \in Calls, NEW t \in Tasks, NEW op \in Guarded, Read(c, op, t) PROVE Typed'
  <2>1. PICK r \in (IF op = "complete" THEN StartedRuns(t) ELSE {0}) :
           Begin(c, [Idle EXCEPT !.pc = "decide", !.op = op, !.task = t, !.run = r])
    BY <1>5 DEF Read
  <2>2. r \in Nat
    <3>1. \A i \in DOMAIN log : log[i] \in Events
      BY DEF Typed, TypeOK
    <3>2. \A s \in StartedRuns(t) : s \in Nat
      BY <3>1 DEF StartedRuns, EventsOf, Events
    <3>3. CASE op = "complete"
      BY <3>2, <3>3
    <3>4. CASE op # "complete"
      BY <3>4
    <3>5. QED BY <3>3, <3>4
  <2> DEFINE new == [Idle EXCEPT !.pc = "decide", !.op = op, !.task = t, !.run = r]
  <2>3. new \in CallStates /\ Shaped(new)
    BY <2>2 DEF CallStates, Ops, Idle, Shaped
  <2> HIDE DEF new
  <2>4. calls' = [calls EXCEPT ![c] = new] /\ begun' \in Nat
    BY <2>1 DEF Begin, new, Typed, TypeOK
  <2>5. calls' \in [Calls -> CallStates] /\ CallShape'
    BY <2>3, <2>4, <1>0, SetCall
  <2>6. QED BY <1>5, <2>4, <2>5 DEF Typed, TypeOK, Read
<1>6. ASSUME NEW c \in Calls, Decide(c) PROVE Typed'
  <2>1. PICK ts \in Now \cup CallerStamps :
          /\ clock' = IF ts \in Now THEN ts ELSE clock
          /\ IF calls[c].op = "claim"
             THEN /\ lastRun' = lastRun + 1
                  /\ calls' = [calls EXCEPT ![c] = [@ EXCEPT !.pc = "append", !.ts = ts, !.run = lastRun + 1]]
             ELSE /\ calls' = [calls EXCEPT ![c] = [@ EXCEPT !.pc = "append", !.ts = ts]]
                  /\ UNCHANGED lastRun
    BY <1>6 DEF Decide
  <2>2. ts \in Nat /\ clock' \in Nat /\ lastRun' \in Nat
    BY <2>1, KernelAssumption DEF Now, Typed, TypeOK
  <2>3. calls[c].op \in Guarded /\ calls[c].task \in Tasks /\ lastRun \in Nat
    BY <1>6, <1>0 DEF Decide, Shaped, Typed, TypeOK
  <2> DEFINE new == IF calls[c].op = "claim"
                    THEN [calls[c] EXCEPT !.pc = "append", !.ts = ts, !.run = lastRun + 1]
                    ELSE [calls[c] EXCEPT !.pc = "append", !.ts = ts]
  <2>4. new \in CallStates /\ Shaped(new)
    <3>1. calls[c] \in CallStates
      BY <1>0
    <3>2. [calls[c] EXCEPT !.pc = "append", !.ts = ts, !.run = lastRun + 1] \in CallStates
      <4>1. \A n \in Nat : [calls[c] EXCEPT !.pc = "append", !.ts = ts, !.run = n] \in CallStates
        BY <3>1, <2>2 DEF CallStates
      <4>2. lastRun + 1 \in Nat
        BY <2>3
      <4>3. QED BY <4>1, <4>2
    <3>3. [calls[c] EXCEPT !.pc = "append", !.ts = ts] \in CallStates
      BY <3>1, <2>2 DEF CallStates
    <3>4. new \in CallStates
      BY <3>2, <3>3
    <3>5. Shaped([calls[c] EXCEPT !.pc = "append", !.ts = ts, !.run = lastRun + 1])
      BY <3>1, <2>3 DEF CallStates, Shaped, Ops
    <3>6. Shaped([calls[c] EXCEPT !.pc = "append", !.ts = ts])
      BY <3>1, <2>3 DEF CallStates, Shaped, Ops
    <3>7. QED BY <3>4, <3>5, <3>6
  <2>5. calls' = [calls EXCEPT ![c] = new]
    BY <2>1
  <2> HIDE DEF new
  <2>6. calls' \in [Calls -> CallStates] /\ CallShape'
    BY <2>4, <2>5, <1>0, SetCall
  <2>7. QED BY <1>6, <2>2, <2>6 DEF Typed, TypeOK, Decide
<1>7. ASSUME NEW c \in Calls, Refuse(c) PROVE Typed'
  <2>1. calls' \in [Calls -> CallStates] /\ CallShape'
    BY <1>7, <1>0, IdleFacts, SetCall DEF Refuse, Return
  <2>2. QED BY <1>7, <2>1 DEF Typed, TypeOK, Refuse
<1>8. ASSUME NEW c \in Calls, NEW t \in Tasks, RequestApproval(c, t) PROVE Typed'
  <2>1. PICK ts \in Now :
          /\ clock' = ts
          /\ Begin(c, [Idle EXCEPT !.pc = "append", !.op = "tool", !.task = t,
                                   !.req = lastReq + 1, !.ts = ts])
    BY <1>8 DEF RequestApproval
  <2> DEFINE new == [Idle EXCEPT !.pc = "append", !.op = "tool", !.task = t,
                                 !.req = lastReq + 1, !.ts = ts]
  <2>2. ts \in Nat /\ lastReq + 1 \in Nat
    BY DEF Now, Typed, TypeOK
  <2>3. new \in CallStates /\ Shaped(new)
    BY <2>2 DEF CallStates, Ops, Idle, Shaped
  <2> HIDE DEF new
  <2>4. calls' = [calls EXCEPT ![c] = new] /\ begun' \in Nat /\ clock' \in Nat
    BY <2>1, <2>2 DEF Begin, new, Typed, TypeOK
  <2>5. calls' \in [Calls -> CallStates] /\ CallShape'
    BY <2>3, <2>4, <1>0, SetCall
  <2>6. pending' \in [Procs -> SUBSET [req : Nat, task : Tasks]]
    BY <1>8, <1>0, <2>2 DEF Typed, TypeOK, RequestApproval
  <2>7. QED BY <1>8, <2>2, <2>4, <2>5, <2>6 DEF Typed, TypeOK, RequestApproval
<1>9. ASSUME NEW c \in Calls, NEW a \in pending[Home[c]], ResolveApproval(c, a) PROVE Typed'
  <2>1. PICK ts \in Now :
          /\ clock' = ts
          /\ Begin(c, [Idle EXCEPT !.pc = "append", !.op = "resolve", !.task = a.task,
                                   !.req = a.req, !.ts = ts])
    BY <1>9 DEF ResolveApproval
  <2> DEFINE new == [Idle EXCEPT !.pc = "append", !.op = "resolve", !.task = a.task,
                                 !.req = a.req, !.ts = ts]
  <2>2. ts \in Nat /\ a.task \in Tasks /\ a.req \in Nat
    BY <1>0 DEF Now, Typed, TypeOK
  <2>3. new \in CallStates /\ Shaped(new)
    BY <2>2 DEF CallStates, Ops, Idle, Shaped
  <2> HIDE DEF new
  <2>4. calls' = [calls EXCEPT ![c] = new] /\ begun' \in Nat /\ clock' \in Nat
    BY <2>1, <2>2 DEF Begin, new, Typed, TypeOK
  <2>5. calls' \in [Calls -> CallStates] /\ CallShape'
    BY <2>3, <2>4, <1>0, SetCall
  <2>6. pending' \in [Procs -> SUBSET [req : Nat, task : Tasks]]
    BY <1>9, <1>0 DEF Typed, TypeOK, ResolveApproval
  <2>7. QED BY <1>9, <2>4, <2>5, <2>6 DEF Typed, TypeOK, ResolveApproval
<1>10. ASSUME NEW c \in Calls, AppendBatch(c) PROVE Typed'
  <2>1. log' \in Seq(Events)
    BY <1>10, BatchTyped DEF AppendBatch
  <2>2. calls' \in [Calls -> CallStates] /\ CallShape'
    BY <1>10, <1>0, IdleFacts, SetCall DEF AppendBatch, Return
  <2>3. QED BY <1>10, <2>1, <2>2 DEF Typed, TypeOK, AppendBatch
<1>11. ASSUME NEW c \in Calls, AppendFails(c) PROVE Typed'
  <2> DEFINE new == IF calls[c].op = "create" THEN [calls[c] EXCEPT !.pc = "remove"] ELSE Idle
  <2>1. new \in CallStates /\ Shaped(new)
    BY <1>11, <1>0, IdleFacts DEF AppendFails, CallStates, Shaped
  <2>2. calls' = [calls EXCEPT ![c] = new]
    BY <1>11 DEF AppendFails, Return
  <2> HIDE DEF new
  <2>3. calls' \in [Calls -> CallStates] /\ CallShape'
    BY <2>1, <2>2, <1>0, SetCall
  <2>4. QED BY <1>11, <2>3 DEF Typed, TypeOK, AppendFails, Fails
<1>12. ASSUME NEW p \in Procs, Crash(p) PROVE Typed'
  <2>1. calls' \in [Calls -> CallStates] /\ CallShape'
    BY <1>12, <1>0, IdleFacts DEF CallShape, Crash
  <2>2. \A c \in Calls : calls[c].op = "create" => calls[c].task \in Tasks
    BY <1>0, IdleFacts DEF Shaped
  <2>3. abandoned' \subseteq Tasks
    BY <1>12, <2>2 DEF Crash, Typed, TypeOK
  <2>4. QED BY <1>12, <2>1, <2>3 DEF Typed, TypeOK, Crash
<1>13. ASSUME NEW c \in Calls, CreateFailsLate(c) PROVE Typed'
  <2> DEFINE new == [calls[c] EXCEPT !.pc = "remove"]
  <2>1. log' \in Seq(Events) /\ calls[c].task \in Tasks
    BY <1>13, BatchTyped DEF CreateFailsLate
  <2>2. new \in CallStates /\ Shaped(new)
    BY <1>13, <1>0, <2>1 DEF CreateFailsLate, CallStates, Shaped, Ops
  <2>3. calls' = [calls EXCEPT ![c] = new]
    BY <1>13 DEF CreateFailsLate
  <2> HIDE DEF new
  <2>4. calls' \in [Calls -> CallStates] /\ CallShape'
    BY <2>2, <2>3, <1>0, SetCall
  <2>5. QED BY <1>13, <2>1, <2>4 DEF Typed, TypeOK, CreateFailsLate, Fails
<1>16. ASSUME NEW c \in Calls, Abandon(c)
       PROVE  calls' \in [Calls -> CallStates] /\ CallShape' /\ failures' \in Nat
  <2>1. calls' = [calls EXCEPT ![c] = Idle]
    BY <1>16 DEF Abandon, Return
  <2>2. calls' \in [Calls -> CallStates] /\ CallShape'
    BY <2>1, <1>0, IdleFacts, SetCall
  <2>3. failures' \in Nat
    BY <1>16 DEF Abandon, Fails, Typed, TypeOK
  <2>4. QED BY <2>2, <2>3
<1>17. ASSUME NEW c \in Calls, CreateCloseFails(c) PROVE Typed'
  <2>1. calls[c].task \in Tasks /\ Abandon(c)
    BY <1>17, <1>0 DEF CreateCloseFails, Shaped
  <2>2. calls' \in [Calls -> CallStates] /\ CallShape' /\ failures' \in Nat
    BY <2>1, <1>16
  <2>3. spec' \in [Tasks -> {"absent", "partial", "written"}]
    BY <1>17, <2>1 DEF CreateCloseFails, Typed, TypeOK
  <2>4. QED BY <2>1, <2>2, <2>3 DEF Typed, TypeOK, Abandon
<1>18. ASSUME NEW c \in Calls, CreateRemoveFails(c) PROVE Typed'
  <2>1. calls[c].task \in Tasks /\ Abandon(c) /\ spec' = spec
    BY <1>18, <1>0 DEF CreateRemoveFails, Shaped
  <2>2. calls' \in [Calls -> CallStates] /\ CallShape' /\ failures' \in Nat
    BY <2>1, <1>16
  <2>3. QED BY <2>1, <2>2 DEF Typed, TypeOK, Abandon
<1>14. CASE UNCHANGED vars
  BY <1>14 DEF vars, Typed, TypeOK, CallShape
<1>15. QED
  BY <1>1, <1>2, <1>3, <1>4, <1>5, <1>6, <1>7, <1>8, <1>9, <1>10, <1>11, <1>12, <1>13, <1>14,
     <1>17, <1>18
  DEF Next, CreateStep, GuardedStep, ApprovalStep

\* The runtime's state always has its types (TypeOK of the run kernel_safety).
THEOREM TypeCorrect == Spec => []TypeOK
<1>1. Spec => []Typed
  BY TypedInit, TypedNext, PTL DEF Spec
<1>2. QED BY <1>1, PTL DEF Typed

-----------------------------------------------------------------------------
(* What an append does to the log *)

LEMMA Appended ==
    ASSUME Typed, NEW c \in Calls, WriteBatch(c)
    PROVE  /\ calls[c].task \in Tasks /\ calls[c].op \in Ops
           /\ Len(log) \in Nat /\ Len(log') \in Nat /\ Len(log) < Len(log')
           /\ DOMAIN log = 1..Len(log) /\ DOMAIN log' = 1..Len(log')
           /\ calls[c].op \in {"create", "tool", "resolve"} => Len(log') = Len(log) + 1
           /\ \A i \in 1..Len(log) : log'[i] = log[i]
           /\ \A i \in (Len(log) + 1)..Len(log') :
                /\ log'[i].task = calls[c].task
                /\ log'[i].ts = calls[c].ts
                /\ log'[i].kind = "task_created" <=> calls[c].op = "create"
                /\ log'[i].kind = "task_waiting" <=> calls[c].op = "tool"
                /\ log'[i].kind = "task_resumed" <=> calls[c].op = "resolve"
                /\ calls[c].op \in {"tool", "resolve"} => log'[i].req = calls[c].req
<1> DEFINE b == Batch(calls[c])
<1>1. calls[c] \in CallStates /\ log \in Seq(Events)
  BY BatchTyped
<1>2. calls[c].task \in Tasks /\ calls[c].op \in Ops
  BY BatchTyped
<1>3. /\ b \in Seq(Events)
      /\ Len(b) \in {1, 2}
      /\ calls[c].op \in {"create", "tool", "resolve"} => Len(b) = 1
      /\ \A k \in 1..Len(b) :
                /\ b[k].task = calls[c].task
                /\ b[k].ts = calls[c].ts
                /\ b[k].kind = "task_created" <=> calls[c].op = "create"
                /\ b[k].kind = "task_waiting" <=> calls[c].op = "tool"
                /\ b[k].kind = "task_resumed" <=> calls[c].op = "resolve"
                /\ calls[c].op \in {"tool", "resolve"} => b[k].req = calls[c].req
  BY <1>1, <1>2, BatchFacts
<1>4. log' = log \o b
  BY DEF WriteBatch
<1> HIDE DEF b
<1>5. /\ log' \in Seq(Events)
      /\ Len(log) \in Nat /\ Len(b) \in Nat
      /\ DOMAIN log = 1..Len(log)
      /\ DOMAIN log' = 1..(Len(log) + Len(b))
      /\ \A i \in 1..Len(log) : log'[i] = log[i]
      /\ \A k \in 1..Len(b) : log'[Len(log) + k] = b[k]
  BY <1>1, <1>3, <1>4, AppendFacts
<1>6. Len(log') = Len(log) + Len(b) /\ DOMAIN log' = 1..Len(log')
  BY <1>1, <1>3, <1>4, <1>5
<1>7. \A i \in (Len(log) + 1)..Len(log') :
        /\ i - Len(log) \in 1..Len(b)
        /\ log'[i] = b[i - Len(log)]
  BY <1>5, <1>6
<1>8. ASSUME NEW i \in (Len(log) + 1)..Len(log')
      PROVE  /\ log'[i].task = calls[c].task
             /\ log'[i].ts = calls[c].ts
             /\ log'[i].kind = "task_created" <=> calls[c].op = "create"
             /\ log'[i].kind = "task_waiting" <=> calls[c].op = "tool"
             /\ log'[i].kind = "task_resumed" <=> calls[c].op = "resolve"
             /\ calls[c].op \in {"tool", "resolve"} => log'[i].req = calls[c].req
  BY <1>3, <1>7
<1>9. Len(log') \in Nat /\ Len(log) < Len(log')
      /\ (calls[c].op \in {"create", "tool", "resolve"} => Len(log') = Len(log) + 1)
  <2>1. Len(b) >= 1
    BY <1>3
  <2>2. Len(log') \in Nat /\ Len(log) < Len(log')
    BY <1>5, <1>6, <2>1
  <2>3. QED BY <1>3, <1>6, <2>2
<1>10. QED BY <1>2, <1>5, <1>6, <1>8, <1>9

LEMMA LogEvents ==
    Typed => \A i \in DOMAIN log : log[i].task \in Tasks /\ log[i].ts \in Nat /\ log[i].req \in Nat
<1>1. Typed => \A i \in DOMAIN log : log[i] \in Events
  BY DEF Typed, TypeOK
<1>2. QED BY <1>1 DEF Events

\* The log of a task without a call that appends to it does not change.
LEMMA OthersUntouched ==
    ASSUME Typed, NEW c \in Calls, WriteBatch(c), NEW t \in Tasks, calls[c].task # t
    PROVE  /\ EventsOf(log', t) = EventsOf(log, t)
           /\ \A i \in EventsOf(log, t) : log'[i] = log[i]
BY Appended DEF EventsOf

\* Deciding a call changes neither its operation nor its task nor its request.
LEMMA Decided ==
    ASSUME Typed, NEW c \in Calls, Decide(c)
    PROVE  /\ calls[c].op \in Guarded /\ calls'[c].pc = "append"
           /\ calls'[c].op = calls[c].op /\ calls'[c].task = calls[c].task
           /\ calls'[c].req = calls[c].req
           /\ \A d \in Calls : d # c => calls'[d] = calls[d]
<1>0. calls \in [Calls -> CallStates] /\ calls[c] \in CallStates /\ calls[c].op \in Guarded
  BY DEF Typed, TypeOK, CallShape, Shaped, Decide
<1>1. PICK ts \in Now \cup CallerStamps :
         IF calls[c].op = "claim"
         THEN calls' = [calls EXCEPT ![c] = [@ EXCEPT !.pc = "append", !.ts = ts, !.run = lastRun + 1]]
         ELSE calls' = [calls EXCEPT ![c] = [@ EXCEPT !.pc = "append", !.ts = ts]]
  BY DEF Decide
<1>2. CASE calls[c].op = "claim"
  <2>1. calls'[c] = [calls[c] EXCEPT !.pc = "append", !.ts = ts, !.run = lastRun + 1]
    BY <1>0, <1>1, <1>2
  <2>2. QED BY <1>0, <1>1, <1>2, <2>1 DEF CallStates
<1>3. CASE calls[c].op # "claim"
  <2>1. calls'[c] = [calls[c] EXCEPT !.pc = "append", !.ts = ts]
    BY <1>0, <1>1, <1>3
  <2>2. QED BY <1>0, <1>1, <1>3, <2>1 DEF CallStates
<1>4. QED BY <1>2, <1>3

-----------------------------------------------------------------------------
(* Specs and their task_created events *)

\* One call at most creates t, and while it does there is a file.  Without a late
\* failure there is one event at most, logged when the call ends, and the file is
\* written.  A file has an event, or a call that is creating the task, or was left
\* behind by one that could not clear up.
CreateInv ==
    \A t \in Tasks :
        /\ \A c, d \in Creating(t) : c = d
        /\ \A c \in Creating(t) :
              /\ spec[t] # "absent"
              /\ calls[c].pc = "append" => spec[t] = "written"
        /\ late = 0 =>
              /\ Created(t) # {} => spec[t] = "written" /\ Creating(t) = {}
              /\ \A i, j \in Created(t) : i = j
        /\ spec[t] # "absent" => Created(t) # {} \/ Creating(t) # {} \/ t \in abandoned

LEMMA CreateInit == Init => CreateInv
BY DEF Init, CreateInv, Creating, Created, EventsOf, Idle

\* Steps that leave files, creation events and creating calls alone.
LEMMA CreateFrame ==
    ASSUME CreateInv, spec' = spec, abandoned' = abandoned, late' = late,
           \A t \in Tasks : Created(t)' = Created(t),
           \A c \in Calls : calls[c].op = "create" \/ calls'[c].op = "create" => calls'[c] = calls[c]
    PROVE  CreateInv'
<1>1. \A t \in Tasks : Creating(t)' = Creating(t)
  BY DEF Creating
<1>2. \A t \in Tasks : \A c \in Creating(t) : calls'[c] = calls[c]
  BY DEF Creating
<1>3. QED BY <1>1, <1>2 DEF CreateInv

\* An append adds a creation event exactly when a create call makes it.
LEMMA CreatedAppended ==
    ASSUME Typed, NEW c \in Calls, WriteBatch(c), NEW t \in Tasks
    PROVE  /\ calls[c].op = "create" /\ calls[c].task = t =>
                 Created(t)' = Created(t) \cup {Len(log) + 1}
           /\ calls[c].op # "create" \/ calls[c].task # t => Created(t)' = Created(t)
BY Appended DEF Created, EventsOf

LEMMA CreateNext == Typed /\ CreateInv /\ [Next]_vars => CreateInv'
<1> SUFFICES ASSUME Typed, CreateInv, [Next]_vars PROVE CreateInv'
  OBVIOUS
<1>0. /\ \A c \in Calls : Shaped(calls[c]) /\ calls[c] \in CallStates
      /\ calls \in [Calls -> CallStates]
      /\ spec \in [Tasks -> {"absent", "partial", "written"}] /\ late \in Nat
      /\ Idle.op # "create" /\ Idle.op = "none" /\ Idle.pc = "idle"
  BY IdleFacts DEF Typed, TypeOK, CallShape
<1>1. ASSUME NEW c \in Calls, NEW t \in Tasks, CreateOpen(c, t) PROVE CreateInv'
  <2>1. Creating(t) = {} /\ (late = 0 => Created(t) = {})
    BY <1>1 DEF CreateOpen, CreateInv
  <2>2. /\ calls'[c].op = "create" /\ calls'[c].task = t /\ calls'[c].pc = "write"
        /\ \A d \in Calls : d # c => calls'[d] = calls[d]
        /\ calls[c] = Idle
    BY <1>1, <1>0 DEF CreateOpen, Begin, Idle
  <2>3. Creating(t)' = {c} /\ \A u \in Tasks : u # t => Creating(u)' = Creating(u)
    BY <2>1, <2>2, <1>0 DEF Creating
  <2>4. \A u \in Tasks : Created(u)' = Created(u)
    BY <1>1 DEF CreateOpen, Created
  <2>5. spec'[t] = "partial" /\ \A u \in Tasks : u # t => spec'[u] = spec[u]
    BY <1>1, <1>0 DEF CreateOpen
  <2>6. abandoned' = abandoned /\ late' = late
    BY <1>1 DEF CreateOpen
  <2>7. \A u \in Tasks : u # t => \A d \in Creating(u) : calls'[d] = calls[d]
    BY <2>2, <1>0 DEF Creating
  <2>8. QED BY <2>1, <2>2, <2>3, <2>4, <2>5, <2>6, <2>7 DEF CreateInv
<1>2. ASSUME NEW c \in Calls, CreateWrite(c) PROVE CreateInv'
  <2>0. calls[c].task \in Tasks /\ calls[c].op = "create"
    BY <1>2, <1>0 DEF CreateWrite, Shaped
  <2>1. PICK t \in Tasks : t = calls[c].task /\ calls[c].op = "create"
    BY <2>0
  <2>2. /\ calls'[c].op = "create" /\ calls'[c].task = t
        /\ \A d \in Calls : d # c => calls'[d] = calls[d]
    BY <1>2, <1>0, <2>1 DEF CreateWrite, CallStates
  <2>3. \A u \in Tasks : Creating(u)' = Creating(u) /\ Created(u)' = Created(u)
    BY <1>2, <2>1, <2>2 DEF CreateWrite, Creating, Created
  <2>4. spec'[t] = "written" /\ \A u \in Tasks : u # t => spec'[u] = spec[u]
    BY <1>2, <1>0, <2>1 DEF CreateWrite
  <2>5. c \in Creating(t) /\ abandoned' = abandoned /\ late' = late
    BY <1>2, <2>1 DEF Creating, CreateWrite
  <2>6. \A u \in Tasks : u # t => \A d \in Creating(u) : calls'[d] = calls[d]
    BY <2>1, <2>2 DEF Creating
  <2>7. QED BY <2>1, <2>3, <2>4, <2>5, <2>6 DEF CreateInv
<1>3. ASSUME NEW c \in Calls, CreateWriteFails(c) PROVE CreateInv'
  <2>1. calls[c].op = "create" /\ calls'[c].op = "create" /\ calls'[c].pc = "remove"
        /\ calls'[c].task = calls[c].task /\ \A d \in Calls : d # c => calls'[d] = calls[d]
    BY <1>3, <1>0 DEF CreateWriteFails, Shaped, CallStates
  <2>2. \A u \in Tasks : Creating(u)' = Creating(u) /\ Created(u)' = Created(u)
    BY <1>3, <2>1 DEF CreateWriteFails, Creating, Created
  <2>3. spec' = spec /\ abandoned' = abandoned /\ late' = late
    BY <1>3 DEF CreateWriteFails
  <2>4. QED BY <2>1, <2>2, <2>3 DEF CreateInv, Creating
<1>4. ASSUME NEW c \in Calls, CreateRemove(c) PROVE CreateInv'
  <2>0. calls[c].task \in Tasks /\ calls[c].op = "create"
    BY <1>4, <1>0 DEF CreateRemove, Shaped
  <2>1. PICK t \in Tasks : t = calls[c].task /\ calls[c].op = "create"
    BY <2>0
  <2>2. calls'[c] = Idle /\ \A d \in Calls : d # c => calls'[d] = calls[d]
    BY <1>4, <1>0 DEF CreateRemove, Return
  <2>3. Creating(t) = {c} /\ (late = 0 => Created(t) = {})
    BY <2>1 DEF CreateInv, Creating
  <2>4. Creating(t)' = {} /\ \A u \in Tasks : u # t => Creating(u)' = Creating(u)
    BY <2>1, <2>2, <2>3, <1>0 DEF Creating
  <2>5. \A u \in Tasks : Created(u)' = Created(u)
    BY <1>4 DEF CreateRemove, Created
  <2>6. spec'[t] = "absent" /\ \A u \in Tasks : u # t => spec'[u] = spec[u]
    BY <1>4, <1>0, <2>1 DEF CreateRemove
  <2>7. \A u \in Tasks : u # t => \A d \in Creating(u) : calls'[d] = calls[d]
    BY <2>1, <2>2 DEF Creating
  <2>8. abandoned' = abandoned /\ late' = late
    BY <1>4 DEF CreateRemove
  <2>9. QED BY <2>1, <2>3, <2>4, <2>5, <2>6, <2>7, <2>8 DEF CreateInv
<1>5. ASSUME NEW c \in Calls, NEW t \in Tasks, NEW op \in Guarded, Read(c, op, t) PROVE CreateInv'
  <2>1. calls[c] = Idle /\ calls'[c].op = op /\ \A d \in Calls : d # c => calls'[d] = calls[d]
    BY <1>5, <1>0 DEF Read, Begin, Idle
  <2>2. op # "create"
    BY DEF Guarded
  <2>3. QED BY <1>5, <1>0, <2>1, <2>2, CreateFrame DEF Read, Created
<1>6. ASSUME NEW c \in Calls, Decide(c) PROVE CreateInv'
  <2>1. calls[c].op \in Guarded
    BY <1>6, <1>0 DEF Decide, Shaped
  <2>2. calls'[c].op = calls[c].op /\ \A d \in Calls : d # c => calls'[d] = calls[d]
    BY <1>6, Decided
  <2>3. QED BY <1>6, <2>1, <2>2, CreateFrame DEF Decide, Created, Guarded
<1>7. ASSUME NEW c \in Calls, Refuse(c) PROVE CreateInv'
  <2>1. calls[c].op # "create" /\ calls'[c] = Idle /\ \A d \in Calls : d # c => calls'[d] = calls[d]
    BY <1>7, <1>0 DEF Refuse, Return
  <2>2. QED BY <1>7, <1>0, <2>1, CreateFrame DEF Refuse, Created
<1>8. ASSUME NEW c \in Calls, NEW t \in Tasks, RequestApproval(c, t) PROVE CreateInv'
  <2>1. calls[c] = Idle /\ calls'[c].op = "tool" /\ \A d \in Calls : d # c => calls'[d] = calls[d]
    BY <1>8, <1>0 DEF RequestApproval, Begin, Idle
  <2>2. QED BY <1>8, <1>0, <2>1, CreateFrame DEF RequestApproval, Created
<1>9. ASSUME NEW c \in Calls, NEW a \in pending[Home[c]], ResolveApproval(c, a) PROVE CreateInv'
  <2>1. calls[c] = Idle /\ calls'[c].op = "resolve" /\ \A d \in Calls : d # c => calls'[d] = calls[d]
    BY <1>9, <1>0 DEF ResolveApproval, Begin, Idle
  <2>2. QED BY <1>9, <1>0, <2>1, CreateFrame DEF ResolveApproval, Created
<1>10. ASSUME NEW c \in Calls, AppendBatch(c) PROVE CreateInv'
  <2>1. calls'[c] = Idle /\ \A d \in Calls : d # c => calls'[d] = calls[d]
    BY <1>10, <1>0 DEF AppendBatch, Return
  <2>2. /\ spec' = spec /\ abandoned' = abandoned /\ late' = late
        /\ calls[c].pc = "append" /\ WriteBatch(c)
    BY <1>10 DEF AppendBatch, WriteBatch
  <2>3. CASE calls[c].op # "create"
    <3>1. \A t \in Tasks : Created(t)' = Created(t)
      BY <2>2, <2>3, CreatedAppended
    <3>2. QED BY <1>0, <2>1, <2>2, <2>3, <3>1, CreateFrame
  <2>4. CASE calls[c].op = "create"
    <3>0. calls[c].task \in Tasks
      BY <2>2, Appended
    <3>1. PICK t \in Tasks : t = calls[c].task
      BY <3>0
    <3>2. Creating(t) = {c} /\ (late = 0 => Created(t) = {}) /\ spec[t] = "written"
      BY <2>2, <2>4, <3>1 DEF CreateInv, Creating
    <3>3. Creating(t)' = {} /\ \A u \in Tasks : u # t => Creating(u)' = Creating(u)
      BY <2>1, <2>4, <3>1, <3>2, <1>0 DEF Creating
    <3>4. /\ Created(t)' = Created(t) \cup {Len(log) + 1}
          /\ \A u \in Tasks : u # t => Created(u)' = Created(u)
      BY <2>2, <2>4, <3>1, CreatedAppended
    <3>5. \A u \in Tasks : u # t => \A d \in Creating(u) : calls'[d] = calls[d]
      BY <2>1, <3>1 DEF Creating
    <3>6. QED BY <2>2, <3>1, <3>2, <3>3, <3>4, <3>5 DEF CreateInv
  <2>5. QED BY <2>3, <2>4
<1>11. ASSUME NEW c \in Calls, AppendFails(c) PROVE CreateInv'
  <2>1. \A d \in Calls : d # c => calls'[d] = calls[d]
    BY <1>11, <1>0 DEF AppendFails, Return
  <2>2. spec' = spec /\ abandoned' = abandoned /\ late' = late
    BY <1>11 DEF AppendFails
  <2>3. \A u \in Tasks : Created(u)' = Created(u)
    BY <1>11 DEF AppendFails, Created
  <2>4. CASE calls[c].op # "create"
    <3>1. calls'[c] = Idle
      BY <1>11, <1>0, <2>4 DEF AppendFails, Return
    <3>2. QED BY <1>0, <2>1, <2>2, <2>3, <2>4, <3>1, CreateFrame
  <2>5. CASE calls[c].op = "create"
    <3>1. /\ calls'[c].op = "create" /\ calls'[c].pc = "remove"
          /\ calls'[c].task = calls[c].task
      BY <1>11, <1>0, <2>5 DEF AppendFails, CallStates
    <3>2. \A u \in Tasks : Creating(u)' = Creating(u)
      BY <2>1, <2>5, <3>1 DEF Creating
    <3>3. QED BY <2>1, <2>2, <2>3, <3>1, <3>2 DEF CreateInv, Creating
  <2>6. QED BY <2>4, <2>5
<1>12. ASSUME NEW p \in Procs, Crash(p) PROVE CreateInv'
  <2>1. \A d \in Calls : calls'[d] = Idle \/ calls'[d] = calls[d]
    BY <1>12 DEF Crash
  <2>2. \A u \in Tasks : Creating(u)' \subseteq Creating(u)
                       /\ \A d \in Creating(u)' : calls'[d] = calls[d]
    BY <2>1, <1>0 DEF Creating
  <2>3. spec' = spec /\ \A u \in Tasks : Created(u)' = Created(u)
    BY <1>12 DEF Crash, Created
  <2>4. late' = late /\ \A u \in Tasks : u \in abandoned => u \in abandoned'
    BY <1>12 DEF Crash
  <2>5. \A u \in Tasks : \A d \in Creating(u) : d \in Creating(u)' \/ u \in abandoned'
    BY <1>12, <2>1, <1>0 DEF Crash, Creating
  <2>6. QED BY <2>2, <2>3, <2>4, <2>5 DEF CreateInv
<1>13. ASSUME NEW c \in Calls, CreateFailsLate(c) PROVE CreateInv'
  <2>1. /\ calls[c].op = "create" /\ calls'[c].op = "create" /\ calls'[c].pc = "remove"
        /\ calls'[c].task = calls[c].task /\ \A d \in Calls : d # c => calls'[d] = calls[d]
    BY <1>13, <1>0 DEF CreateFailsLate, CallStates
  <2>2. \A u \in Tasks : Creating(u)' = Creating(u)
    BY <2>1 DEF Creating
  <2>3. spec' = spec /\ abandoned' = abandoned /\ late' # 0
    BY <1>13, <1>0 DEF CreateFailsLate
  <2>4. \A u \in Tasks : Created(u) \subseteq Created(u)'
    BY <1>13, CreatedAppended DEF CreateFailsLate
  <2>5. QED BY <2>1, <2>2, <2>3, <2>4 DEF CreateInv, Creating
<1>16. ASSUME NEW c \in Calls, Abandon(c), calls[c].pc \in {"write", "remove"},
              \A u \in Tasks : u # calls[c].task => spec'[u] = spec[u]
       PROVE  CreateInv'
  <2>0. calls[c].task \in Tasks /\ calls[c].op = "create"
    BY <1>16, <1>0 DEF Shaped
  <2>1. PICK t \in Tasks : t = calls[c].task /\ calls[c].op = "create"
    BY <2>0
  <2>2. calls'[c] = Idle /\ \A d \in Calls : d # c => calls'[d] = calls[d]
    BY <1>16, <1>0 DEF Abandon, Return
  <2>3. Creating(t) = {c} /\ (late = 0 => Created(t) = {})
    BY <2>1 DEF CreateInv, Creating
  <2>4. Creating(t)' = {} /\ \A u \in Tasks : u # t => Creating(u)' = Creating(u)
    BY <2>1, <2>2, <2>3, <1>0 DEF Creating
  <2>5. \A u \in Tasks : Created(u)' = Created(u)
    BY <1>16 DEF Abandon, Created
  <2>6. \A u \in Tasks : u # t => \A d \in Creating(u) : calls'[d] = calls[d]
    BY <2>1, <2>2 DEF Creating
  <2>7. t \in abandoned' /\ late' = late /\ \A u \in Tasks : u \in abandoned => u \in abandoned'
    BY <1>16, <2>1 DEF Abandon
  <2>8. \A u \in Tasks : u # t => spec'[u] = spec[u]
    BY <1>16, <2>1
  <2>9. QED BY <2>3, <2>4, <2>5, <2>6, <2>7, <2>8 DEF CreateInv
<1>17. ASSUME NEW c \in Calls, CreateCloseFails(c) PROVE CreateInv'
  <2>1. calls[c].task \in Tasks
    BY <1>17, <1>0 DEF CreateCloseFails, Shaped
  <2>2. \A u \in Tasks : u # calls[c].task => spec'[u] = spec[u]
    BY <1>17, <1>0, <2>1 DEF CreateCloseFails
  <2>3. QED BY <1>16, <1>17, <2>2 DEF CreateCloseFails
<1>18. ASSUME NEW c \in Calls, CreateRemoveFails(c) PROVE CreateInv'
  BY <1>16, <1>18 DEF CreateRemoveFails
<1>14. CASE UNCHANGED vars
  BY <1>14, CreateFrame DEF vars, Created
<1>15. QED
  BY <1>1, <1>2, <1>3, <1>4, <1>5, <1>6, <1>7, <1>8, <1>9, <1>10, <1>11, <1>12, <1>13, <1>14,
     <1>17, <1>18
  DEF Next, CreateStep, GuardedStep, ApprovalStep

LEMMA SpecCreates == Spec => [](Typed /\ CreateInv)
BY TypedInit, TypedNext, CreateInit, CreateNext, PTL DEF Spec

\* No task is created twice (CreatedOnce): of the calls that race for a task's
\* file one opens it, and it appends its event once.
THEOREM OneCreation == Spec => []CreatedOnce
<1>1. CreateInv => CreatedOnce
  BY DEF CreateInv, CreatedOnce
<1>2. QED BY <1>1, SpecCreates, PTL

\* A logged creation has its file (CreatedHasSpec): a file is removed only by the
\* call that opened it, and only a late failure logs the creation before that.
THEOREM CreationHasSpec == Spec => []CreatedHasSpec
<1>1. CreateInv => CreatedHasSpec
  BY DEF CreateInv, CreatedHasSpec
<1>2. QED BY <1>1, SpecCreates, PTL

\* A file without event and without creator was left by a creation whose process died,
\* whose close failed or whose clean-up failed (OnlyAbandonedOrphans).
THEOREM OrphansAreAbandoned == Spec => []OnlyAbandonedOrphans
<1>1. CreateInv => OnlyAbandonedOrphans
  BY DEF CreateInv, OnlyAbandonedOrphans, Orphaned
<1>2. QED BY <1>1, SpecCreates, PTL

-----------------------------------------------------------------------------
(* Events need a spec *)

\* While nothing fails, no file is removed: a task that a call works on, that an
\* approval waits for or that has events keeps its written file.
FilesStay ==
    failures = 0 =>
        /\ \A c \in Calls : calls[c].pc # "remove"
        /\ \A c \in Calls : calls[c].pc \in {"decide", "append"} => spec[calls[c].task] = "written"
        /\ \A p \in Procs : \A a \in pending[p] : spec[a.task] = "written"
        /\ \A i \in DOMAIN log : spec[log[i].task] = "written"

LEMMA FilesStayInit == Init => FilesStay
BY DEF Init, FilesStay, Idle

LEMMA FilesStayNext == Typed /\ FilesStay /\ [Next]_vars => FilesStay'
<1> SUFFICES ASSUME Typed, FilesStay, [Next]_vars PROVE FilesStay'
  OBVIOUS
<1>0. /\ \A c \in Calls : Shaped(calls[c]) /\ calls[c] \in CallStates /\ Home[c] \in Procs
      /\ calls \in [Calls -> CallStates] /\ pending \in [Procs -> SUBSET [req : Nat, task : Tasks]]
      /\ spec \in [Tasks -> {"absent", "partial", "written"}] /\ failures \in Nat
      /\ Idle.pc = "idle" /\ \A i \in DOMAIN log : log[i].task \in Tasks
  BY IdleFacts, KernelAssumption, LogEvents DEF Typed, TypeOK, CallShape
<1>1. ASSUME NEW c \in Calls, NEW t \in Tasks, CreateOpen(c, t) PROVE FilesStay'
  <2>1. /\ calls'[c].pc = "write" /\ \A d \in Calls : d # c => calls'[d] = calls[d]
        /\ \A u \in Tasks : spec[u] = "written" => spec'[u] = "written"
    BY <1>1, <1>0 DEF CreateOpen, Begin, Idle
  <2>2. \A d \in Calls : calls[d].pc \in {"decide", "append"} => calls[d].task \in Tasks
    BY <1>0 DEF Shaped
  <2>3. QED BY <1>1, <1>0, <2>1, <2>2 DEF FilesStay, CreateOpen
<1>2. ASSUME NEW c \in Calls, CreateWrite(c) PROVE FilesStay'
  <2>1. /\ calls'[c].pc = "append" /\ calls'[c].task = calls[c].task /\ calls[c].task \in Tasks
        /\ \A d \in Calls : d # c => calls'[d] = calls[d]
    BY <1>2, <1>0 DEF CreateWrite, CallStates, Shaped
  <2>2. spec'[calls[c].task] = "written" /\ \A u \in Tasks : spec[u] = "written" => spec'[u] = "written"
    BY <1>2, <1>0, <2>1 DEF CreateWrite
  <2>3. \A d \in Calls : calls[d].pc \in {"decide", "append"} => calls[d].task \in Tasks
    BY <1>0 DEF Shaped
  <2>4. QED BY <1>2, <1>0, <2>1, <2>2, <2>3 DEF FilesStay, CreateWrite
<1>3. ASSUME NEW c \in Calls, CreateWriteFails(c) PROVE FilesStay'
  BY <1>3, <1>0 DEF FilesStay, Fails, CreateWriteFails
<1>4. ASSUME NEW c \in Calls, CreateRemove(c) PROVE FilesStay'
  BY <1>4, <1>0 DEF FilesStay, CreateRemove
<1>5. ASSUME NEW c \in Calls, NEW t \in Tasks, NEW op \in Guarded, Read(c, op, t) PROVE FilesStay'
  <2>1. /\ calls'[c].pc = "decide" /\ calls'[c].task = t /\ spec[t] = "written"
        /\ \A d \in Calls : d # c => calls'[d] = calls[d]
    BY <1>5, <1>0 DEF Read, Begin, Idle
  <2>2. QED BY <1>5, <2>1 DEF FilesStay, Read
<1>6. ASSUME NEW c \in Calls, Decide(c) PROVE FilesStay'
  <2>1. /\ calls[c].pc = "decide" /\ calls'[c].pc = "append" /\ calls'[c].task = calls[c].task
        /\ \A d \in Calls : d # c => calls'[d] = calls[d]
    BY <1>6, Decided DEF Decide
  <2>2. log' = log /\ spec' = spec /\ pending' = pending /\ failures' = failures
    BY <1>6 DEF Decide
  <2>3. QED BY <2>1, <2>2 DEF FilesStay
<1>7. ASSUME NEW c \in Calls, Refuse(c) PROVE FilesStay'
  BY <1>7, <1>0 DEF FilesStay, Refuse, Return
<1>8. ASSUME NEW c \in Calls, NEW t \in Tasks, RequestApproval(c, t) PROVE FilesStay'
  <2>1. /\ calls'[c].pc = "append" /\ calls'[c].task = t
        /\ \A d \in Calls : d # c => calls'[d] = calls[d]
    BY <1>8, <1>0 DEF RequestApproval, Begin, Idle
  <2>2. \A p \in Procs : \A a \in pending'[p] : a \in pending[p] \/ a.task = t
    BY <1>8, <1>0 DEF RequestApproval
  <2>3. \E i \in DOMAIN log : log[i].task = t
    BY <1>8 DEF RequestApproval, StartedRuns, EventsOf
  <2>4. QED BY <1>8, <2>1, <2>2, <2>3 DEF FilesStay, RequestApproval
<1>9. ASSUME NEW c \in Calls, NEW a \in pending[Home[c]], ResolveApproval(c, a) PROVE FilesStay'
  <2>1. /\ calls'[c].pc = "append" /\ calls'[c].task = a.task
        /\ \A d \in Calls : d # c => calls'[d] = calls[d]
    BY <1>9, <1>0 DEF ResolveApproval, Begin, Idle
  <2>2. \A p \in Procs : pending'[p] \subseteq pending[p]
    BY <1>9, <1>0 DEF ResolveApproval
  <2>3. QED BY <1>9, <1>0, <2>1, <2>2 DEF FilesStay, ResolveApproval
<1>10. ASSUME NEW c \in Calls, AppendBatch(c) PROVE FilesStay'
  <2>1. calls'[c] = Idle /\ \A d \in Calls : d # c => calls'[d] = calls[d]
    BY <1>10, <1>0 DEF AppendBatch, Return
  <2>2. \A i \in DOMAIN log' : \/ i \in DOMAIN log /\ log'[i] = log[i]
                              \/ log'[i].task = calls[c].task
    BY <1>10, Appended DEF AppendBatch
  <2>3. spec' = spec /\ pending' = pending /\ failures' = failures /\ calls[c].pc = "append"
    BY <1>10 DEF AppendBatch, WriteBatch
  <2>4. QED BY <1>0, <2>1, <2>2, <2>3 DEF FilesStay
<1>11. ASSUME NEW c \in Calls, AppendFails(c) PROVE FilesStay'
  BY <1>11, <1>0 DEF FilesStay, Fails, AppendFails
<1>12. ASSUME NEW p \in Procs, Crash(p) PROVE FilesStay'
  <2>1. \A d \in Calls : calls'[d] = Idle \/ calls'[d] = calls[d]
    BY <1>12 DEF Crash
  <2>2. \A q \in Procs : pending'[q] \subseteq pending[q]
    BY <1>12, <1>0 DEF Crash
  <2>3. QED BY <1>12, <1>0, <2>1, <2>2 DEF FilesStay, Crash
<1>13. ASSUME NEW c \in Calls, CreateFailsLate(c) PROVE FilesStay'
  BY <1>13, <1>0 DEF FilesStay, Fails, CreateFailsLate
<1>16. ASSUME NEW c \in Calls, CreateCloseFails(c) \/ CreateRemoveFails(c) PROVE FilesStay'
  BY <1>16, <1>0 DEF FilesStay, Fails, Abandon, CreateCloseFails, CreateRemoveFails
<1>14. CASE UNCHANGED vars
  BY <1>14 DEF vars, FilesStay
<1>15. QED
  BY <1>1, <1>2, <1>3, <1>4, <1>5, <1>6, <1>7, <1>8, <1>9, <1>10, <1>11, <1>12, <1>13, <1>14,
     <1>16
  DEF Next, CreateStep, GuardedStep, ApprovalStep

\* While no write fails, a task with events has its file (EventsHaveSpec).
THEOREM EventsNeedSpec == Spec => []EventsHaveSpec
<1>1. FilesStay => EventsHaveSpec
  BY DEF FilesStay, EventsHaveSpec, EventsOf
<1>2. Spec => [](Typed /\ FilesStay)
  BY TypedInit, TypedNext, FilesStayInit, FilesStayNext, PTL DEF Spec
<1>3. QED BY <1>1, <1>2, PTL

-----------------------------------------------------------------------------
(* done *)

LEMMA SettledStays ==
    ASSUME Typed, [Next]_vars, NEW t \in Tasks
    PROVE  SettledStep(t)
<1> SUFFICES ASSUME Settled(t),
                    ~ \E c \in Calls : calls[c] = Idle /\ calls'[c].op = "tool" /\ calls'[c].task = t
             PROVE  Settled(t)'
  BY DEF SettledStep
<1>0. /\ \A c \in Calls : Shaped(calls[c]) /\ calls[c] \in CallStates /\ Home[c] \in Procs
      /\ calls \in [Calls -> CallStates] /\ pending \in [Procs -> SUBSET [req : Nat, task : Tasks]]
      /\ spec \in [Tasks -> {"absent", "partial", "written"}] /\ log \in Seq(Events)
      /\ Idle.task # t /\ \A i \in DOMAIN log : log[i].ts \in Nat
  BY IdleFacts, KernelAssumption, LogEvents DEF Typed, TypeOK, CallShape
<1>1. /\ Status(log, t) = "done" /\ spec[t] # "absent"
      /\ \A c \in Calls : calls[c].task # t
      /\ \A p \in Procs : \A a \in pending[p] : a.task # t
  BY DEF Settled
<1>2. ASSUME log' = log, spec'[t] # "absent", \A p \in Procs : pending'[p] \subseteq pending[p],
             \A c \in Calls : calls'[c].task # t
      PROVE  Settled(t)'
  BY <1>1, <1>2 DEF Settled
<1>3. ASSUME NEW c \in Calls, NEW u \in Tasks, CreateOpen(c, u) PROVE Settled(t)'
  <2>1. u # t /\ spec'[t] = spec[t]
    BY <1>0, <1>1, <1>3 DEF CreateOpen
  <2>2. \A d \in Calls : calls'[d].task # t
    BY <1>0, <1>1, <1>3, <2>1 DEF CreateOpen, Begin, Idle
  <2>3. QED BY <1>1, <1>2, <1>3, <2>1, <2>2 DEF CreateOpen
<1>4. ASSUME NEW c \in Calls, CreateWrite(c) PROVE Settled(t)'
  <2>1. spec'[t] = spec[t] /\ calls'[c].task = calls[c].task /\ \A d \in Calls : d # c => calls'[d] = calls[d]
    BY <1>0, <1>1, <1>4 DEF CreateWrite, CallStates
  <2>2. QED BY <1>1, <1>2, <1>4, <2>1 DEF CreateWrite
<1>5. ASSUME NEW c \in Calls, CreateWriteFails(c) PROVE Settled(t)'
  <2>1. calls'[c].task = calls[c].task /\ \A d \in Calls : d # c => calls'[d] = calls[d]
    BY <1>0, <1>5 DEF CreateWriteFails, CallStates
  <2>2. QED BY <1>1, <1>2, <1>5, <2>1 DEF CreateWriteFails
<1>6. ASSUME NEW c \in Calls, CreateRemove(c) PROVE Settled(t)'
  <2>1. spec'[t] = spec[t] /\ calls'[c] = Idle /\ \A d \in Calls : d # c => calls'[d] = calls[d]
    BY <1>0, <1>1, <1>6 DEF CreateRemove, Return
  <2>2. QED BY <1>0, <1>1, <1>2, <1>6, <2>1 DEF CreateRemove
<1>7. ASSUME NEW c \in Calls, NEW u \in Tasks, NEW op \in Guarded, Read(c, op, u) PROVE Settled(t)'
  <2>1. u # t
    BY <1>1, <1>7 DEF Read, CanMove, AllowedTransitions, Target, Guarded
  <2>2. \A d \in Calls : calls'[d].task # t
    BY <1>0, <1>1, <1>7, <2>1 DEF Read, Begin, Idle
  <2>3. QED BY <1>1, <1>2, <1>7, <2>2 DEF Read
<1>8. ASSUME NEW c \in Calls, Decide(c) PROVE Settled(t)'
  <2>1. log' = log /\ spec' = spec /\ pending' = pending
    BY <1>8 DEF Decide
  <2>2. QED BY <1>1, <1>2, <1>8, <2>1, Decided
<1>9. ASSUME NEW c \in Calls, Refuse(c) PROVE Settled(t)'
  BY <1>0, <1>1, <1>2, <1>9 DEF Refuse, Return
<1>10. ASSUME NEW c \in Calls, NEW u \in Tasks, RequestApproval(c, u) PROVE Settled(t)'
  <2>1. /\ calls[c] = Idle /\ calls'[c].op = "tool" /\ calls'[c].task = u
        /\ \A d \in Calls : d # c => calls'[d] = calls[d]
    BY <1>0, <1>10 DEF RequestApproval, Begin, Idle
  <2>2. u # t
    BY <2>1
  <2>3. \A p \in Procs : \A a \in pending'[p] : a \in pending[p] \/ a.task = u
    BY <1>0, <1>10 DEF RequestApproval
  <2>4. log' = log /\ spec' = spec
    BY <1>10 DEF RequestApproval
  <2>5. QED BY <1>1, <2>1, <2>2, <2>3, <2>4 DEF Settled
<1>11. ASSUME NEW c \in Calls, NEW a \in pending[Home[c]], ResolveApproval(c, a) PROVE Settled(t)'
  <2>1. /\ calls'[c].task = a.task
        /\ \A d \in Calls : d # c => calls'[d] = calls[d]
    BY <1>0, <1>11 DEF ResolveApproval, Begin, Idle
  <2>2. a.task # t /\ \A p \in Procs : pending'[p] \subseteq pending[p]
    BY <1>0, <1>1, <1>11 DEF ResolveApproval
  <2>3. QED BY <1>1, <1>2, <1>11, <2>1, <2>2 DEF ResolveApproval
<1>12. ASSUME NEW c \in Calls, AppendBatch(c) PROVE Settled(t)'
  <2>1. calls'[c] = Idle /\ \A d \in Calls : d # c => calls'[d] = calls[d]
    BY <1>0, <1>12 DEF AppendBatch, Return
  <2>2. spec' = spec /\ pending' = pending
    BY <1>12 DEF AppendBatch
  <2>3. Status(log', t) = Status(log, t)
    BY <1>0, <1>1, <1>12, OthersUntouched, StatusDepends DEF AppendBatch
  <2>4. QED BY <1>0, <1>1, <2>1, <2>2, <2>3 DEF Settled
<1>13. ASSUME NEW c \in Calls, AppendFails(c) PROVE Settled(t)'
  <2>1. /\ calls'[c] = Idle \/ calls'[c].task = calls[c].task
        /\ \A d \in Calls : d # c => calls'[d] = calls[d]
    BY <1>0, <1>13 DEF AppendFails, Return, CallStates
  <2>2. QED BY <1>0, <1>1, <1>2, <1>13, <2>1 DEF AppendFails
<1>14. ASSUME NEW p \in Procs, Crash(p) PROVE Settled(t)'
  <2>1. \A d \in Calls : calls'[d] = Idle \/ calls'[d] = calls[d]
    BY <1>14 DEF Crash
  <2>2. \A q \in Procs : pending'[q] \subseteq pending[q]
    BY <1>0, <1>14 DEF Crash
  <2>3. QED BY <1>0, <1>1, <1>2, <1>14, <2>1, <2>2 DEF Crash
<1>15. ASSUME NEW c \in Calls, CreateFailsLate(c) PROVE Settled(t)'
  <2>1. calls'[c].task = calls[c].task /\ \A d \in Calls : d # c => calls'[d] = calls[d]
    BY <1>0, <1>15 DEF CreateFailsLate, CallStates
  <2>2. spec' = spec /\ pending' = pending
    BY <1>15 DEF CreateFailsLate
  <2>3. Status(log', t) = Status(log, t)
    BY <1>0, <1>1, <1>15, OthersUntouched, StatusDepends DEF CreateFailsLate
  <2>4. QED BY <1>1, <2>1, <2>2, <2>3 DEF Settled
<1>18. ASSUME NEW c \in Calls, CreateCloseFails(c) PROVE Settled(t)'
  <2>1. spec'[t] = spec[t] /\ calls'[c] = Idle /\ \A d \in Calls : d # c => calls'[d] = calls[d]
    BY <1>0, <1>1, <1>18 DEF CreateCloseFails, Abandon, Return
  <2>2. QED BY <1>0, <1>1, <1>2, <1>18, <2>1 DEF CreateCloseFails, Abandon
<1>19. ASSUME NEW c \in Calls, CreateRemoveFails(c) PROVE Settled(t)'
  <2>1. calls'[c] = Idle /\ \A d \in Calls : d # c => calls'[d] = calls[d]
    BY <1>0, <1>19 DEF CreateRemoveFails, Abandon, Return
  <2>2. QED BY <1>0, <1>1, <1>2, <1>19, <2>1 DEF CreateRemoveFails, Abandon
<1>16. CASE UNCHANGED vars
  BY <1>1, <1>2, <1>16 DEF vars
<1>17. QED
  BY <1>3, <1>4, <1>5, <1>6, <1>7, <1>8, <1>9, <1>10, <1>11, <1>12, <1>13, <1>14, <1>15, <1>16,
     <1>18, <1>19
  DEF Next, CreateStep, GuardedStep, ApprovalStep

\* A done task that nothing under way concerns stays as it is until a tool call
\* stops for an approval in its name (DoneSettles).
THEOREM DoneStaysSettled == Spec => DoneSettles
<1>1. Typed /\ [Next]_vars => [\A t \in Tasks : SettledStep(t)]_vars
  BY SettledStays
<1>2. Spec => []Typed
  BY TypedInit, TypedNext, PTL DEF Spec
<1>3. QED BY <1>1, <1>2, PTL DEF Spec, DoneSettles

-----------------------------------------------------------------------------
(* Approvals *)


WaitAt(i) == log[i].kind = "task_waiting"

ResumeAt(i) == log[i].kind = "task_resumed"

\* A pending approval is one of those given out, its task has not been resumed
\* for it, and a wait logged for it is of the same task.
PendingSound ==
    \A p \in Procs : \A a \in pending[p] :
        /\ a.req \in 1..lastReq
        /\ \A i \in DOMAIN log : ResumeAt(i) => log[i].req # a.req
        /\ \A i \in DOMAIN log : WaitAt(i) /\ log[i].req = a.req => log[i].task = a.task

PendingOnce ==
    \A p, q \in Procs : \A a \in pending[p], b \in pending[q] : a.req = b.req => a = b /\ p = q

\* A call that is resolving an approval has taken it out of the pending ones,
\* its wait is logged, nothing has resumed the task for it and no other call will.
ResolvesSound ==
    \A c \in Calls : calls[c].op = "resolve" =>
        /\ calls[c].req \in 1..lastReq
        /\ \A i \in DOMAIN log : ResumeAt(i) => log[i].req # calls[c].req
        /\ \E j \in DOMAIN log : WaitAt(j) /\ log[j].req = calls[c].req /\ log[j].task = calls[c].task
        /\ \A p \in Procs : \A a \in pending[p] : a.req # calls[c].req
        /\ \A d \in Calls : calls[d].op = "resolve" /\ calls[d].req = calls[c].req => d = c

\* A call that is about to log a wait is the only one to do so.
AsksSound ==
    \A c \in Calls : calls[c].op = "tool" =>
        /\ calls[c].req \in 1..lastReq
        /\ \A i \in DOMAIN log : WaitAt(i) \/ ResumeAt(i) => log[i].req # calls[c].req
        /\ \A p \in Procs : \A a \in pending[p] : a.req = calls[c].req => a.task = calls[c].task
        /\ \A d \in Calls : calls[d].op = "tool" /\ calls[d].req = calls[c].req => d = c

LoggedSound ==
    /\ \A i \in DOMAIN log : WaitAt(i) \/ ResumeAt(i) => log[i].req \in 1..lastReq
    /\ \A i, k \in DOMAIN log : ResumeAt(i) /\ ResumeAt(k) /\ log[i].req = log[k].req => i = k
    /\ \A i \in DOMAIN log : ResumeAt(i) =>
          \E j \in DOMAIN log : j < i /\ WaitAt(j) /\ log[j].req = log[i].req /\ log[j].task = log[i].task

ApprovalInv == PendingSound /\ PendingOnce /\ ResolvesSound /\ AsksSound /\ LoggedSound

LEMMA ApprovalInit == Init => ApprovalInv
BY DEF Init, ApprovalInv, PendingSound, PendingOnce, ResolvesSound, AsksSound, LoggedSound, Idle

\* Steps that log no wait and no resumption, give out no request, and at most
\* forget approvals and calls.
LEMMA ApprovalFrame ==
    ASSUME ApprovalInv, lastReq' = lastReq,
           \A p \in Procs : pending'[p] \subseteq pending[p],
           \A c \in Calls : calls'[c].op \in {"tool", "resolve"} => calls'[c] = calls[c],
           \A i \in DOMAIN log : i \in DOMAIN log' /\ log'[i] = log[i],
           \A i \in DOMAIN log' : i \in DOMAIN log \/ log'[i].kind \notin {"task_waiting", "task_resumed"}
    PROVE  ApprovalInv'
<1>1. PendingSound'
  BY DEF ApprovalInv, PendingSound, WaitAt, ResumeAt
<1>2. PendingOnce'
  BY DEF ApprovalInv, PendingOnce
<1>3. ResolvesSound'
  <2> SUFFICES ASSUME NEW c \in Calls, calls'[c].op = "resolve"
               PROVE  (/\ calls[c].req \in 1..lastReq
                       /\ \A i \in DOMAIN log : ResumeAt(i) => log[i].req # calls[c].req
                       /\ \E j \in DOMAIN log : WaitAt(j) /\ log[j].req = calls[c].req
                                                /\ log[j].task = calls[c].task
                       /\ \A p \in Procs : \A a \in pending[p] : a.req # calls[c].req
                       /\ \A d \in Calls : calls[d].op = "resolve" /\ calls[d].req = calls[c].req => d = c)'
    BY DEF ResolvesSound
  <2>1. calls'[c] = calls[c] /\ calls[c].op = "resolve"
    OBVIOUS
  <2>2. \E j \in DOMAIN log : WaitAt(j) /\ log[j].req = calls[c].req /\ log[j].task = calls[c].task
    BY <2>1 DEF ApprovalInv, ResolvesSound
  <2>3. (\E j \in DOMAIN log : WaitAt(j) /\ log[j].req = calls[c].req /\ log[j].task = calls[c].task)'
    BY <2>1, <2>2 DEF WaitAt
  <2>4. \A d \in Calls : calls'[d].op = "resolve" /\ calls'[d].req = calls'[c].req => d = c
    BY <2>1 DEF ApprovalInv, ResolvesSound
  <2>5. \A i \in DOMAIN log' : (ResumeAt(i) => log[i].req # calls[c].req)'
    BY <2>1 DEF ApprovalInv, ResolvesSound, ResumeAt
  <2>6. QED BY <2>1, <2>3, <2>4, <2>5 DEF ApprovalInv, ResolvesSound
<1>4. AsksSound'
  BY DEF ApprovalInv, AsksSound, WaitAt, ResumeAt
<1>5. LoggedSound'
  BY DEF ApprovalInv, LoggedSound, WaitAt, ResumeAt
<1>6. QED BY <1>1, <1>2, <1>3, <1>4, <1>5 DEF ApprovalInv

LEMMA ApprovalNext == Typed /\ ApprovalInv /\ [Next]_vars => ApprovalInv'
<1> SUFFICES ASSUME Typed, ApprovalInv, [Next]_vars PROVE ApprovalInv'
  OBVIOUS
<1>0. /\ \A c \in Calls : Shaped(calls[c]) /\ calls[c] \in CallStates /\ Home[c] \in Procs
      /\ calls \in [Calls -> CallStates] /\ pending \in [Procs -> SUBSET [req : Nat, task : Tasks]]
      /\ lastReq \in Nat /\ Idle.op = "none"
  BY IdleFacts, KernelAssumption DEF Typed, TypeOK, CallShape
<1>1. ASSUME NEW c \in Calls, NEW t \in Tasks, CreateOpen(c, t) PROVE ApprovalInv'
  <2>1. calls'[c].op = "create" /\ \A d \in Calls : d # c => calls'[d] = calls[d]
    BY <1>0, <1>1 DEF CreateOpen, Begin, Idle
  <2>2. QED BY <1>1, <2>1, ApprovalFrame DEF CreateOpen
<1>2. ASSUME NEW c \in Calls, CreateWrite(c) PROVE ApprovalInv'
  <2>1. calls'[c].op = "create" /\ \A d \in Calls : d # c => calls'[d] = calls[d]
    BY <1>0, <1>2 DEF CreateWrite, CallStates, Shaped
  <2>2. QED BY <1>2, <2>1, ApprovalFrame DEF CreateWrite
<1>3. ASSUME NEW c \in Calls, CreateWriteFails(c) PROVE ApprovalInv'
  <2>1. calls'[c].op = "create" /\ \A d \in Calls : d # c => calls'[d] = calls[d]
    BY <1>0, <1>3 DEF CreateWriteFails, CallStates, Shaped
  <2>2. QED BY <1>3, <2>1, ApprovalFrame DEF CreateWriteFails
<1>4. ASSUME NEW c \in Calls, CreateRemove(c) PROVE ApprovalInv'
  <2>1. calls'[c] = Idle /\ \A d \in Calls : d # c => calls'[d] = calls[d]
    BY <1>0, <1>4 DEF CreateRemove, Return
  <2>2. QED BY <1>0, <1>4, <2>1, ApprovalFrame DEF CreateRemove
<1>5. ASSUME NEW c \in Calls, NEW t \in Tasks, NEW op \in Guarded, Read(c, op, t) PROVE ApprovalInv'
  <2>1. calls'[c].op = op /\ \A d \in Calls : d # c => calls'[d] = calls[d]
    BY <1>0, <1>5 DEF Read, Begin, Idle
  <2>2. op \notin {"tool", "resolve"}
    BY DEF Guarded
  <2>3. QED BY <1>5, <2>1, <2>2, ApprovalFrame DEF Read
<1>6. ASSUME NEW c \in Calls, Decide(c) PROVE ApprovalInv'
  <2>1. calls'[c].op \notin {"tool", "resolve"} /\ \A d \in Calls : d # c => calls'[d] = calls[d]
    BY <1>6, Decided DEF Guarded
  <2>2. QED BY <1>6, <2>1, ApprovalFrame DEF Decide
<1>7. ASSUME NEW c \in Calls, Refuse(c) PROVE ApprovalInv'
  <2>1. calls'[c] = Idle /\ \A d \in Calls : d # c => calls'[d] = calls[d]
    BY <1>0, <1>7 DEF Refuse, Return
  <2>2. QED BY <1>0, <1>7, <2>1, ApprovalFrame DEF Refuse
<1>8. ASSUME NEW c \in Calls, NEW t \in Tasks, RequestApproval(c, t) PROVE ApprovalInv'
  <2>1. /\ calls'[c].op = "tool" /\ calls'[c].req = lastReq + 1 /\ calls'[c].task = t
        /\ \A d \in Calls : d # c => calls'[d] = calls[d]
    BY <1>0, <1>8 DEF RequestApproval, Begin, Idle
  <2>2. /\ log' = log /\ lastReq' = lastReq + 1
        /\ pending' = [pending EXCEPT ![Home[c]] = @ \cup {[req |-> lastReq + 1, task |-> t]}]
    BY <1>8 DEF RequestApproval
  <2>3. \A p \in Procs : \A a \in pending'[p] :
           a \in pending[p] \/ (p = Home[c] /\ a = [req |-> lastReq + 1, task |-> t])
    BY <1>0, <2>2
  <2>4. \A r \in 1..lastReq : r \in 1..lastReq' /\ r # lastReq + 1
    BY <1>0, <2>2
  <2>5. lastReq + 1 \in 1..lastReq'
    BY <1>0, <2>2
  <2>6. PendingSound'
    BY <2>2, <2>3, <2>4, <2>5 DEF ApprovalInv, PendingSound, LoggedSound, WaitAt, ResumeAt
  <2>7. PendingOnce'
    <3> SUFFICES ASSUME NEW p \in Procs, NEW q \in Procs, NEW a \in pending'[p], NEW b \in pending'[q],
                        a.req = b.req
                 PROVE  a = b /\ p = q
      BY DEF PendingOnce
    <3>1. CASE a \in pending[p] /\ b \in pending[q]
      BY <3>1 DEF ApprovalInv, PendingOnce
    <3>2. CASE a \notin pending[p] \/ b \notin pending[q]
      BY <2>3, <2>4, <3>2 DEF ApprovalInv, PendingSound
    <3>3. QED BY <3>1, <3>2
  <2>8. ResolvesSound'
    <3> SUFFICES ASSUME NEW e \in Calls, calls'[e].op = "resolve"
                 PROVE  (/\ calls[e].req \in 1..lastReq
                         /\ \A i \in DOMAIN log : ResumeAt(i) => log[i].req # calls[e].req
                         /\ \E j \in DOMAIN log : WaitAt(j) /\ log[j].req = calls[e].req
                                                  /\ log[j].task = calls[e].task
                         /\ \A p \in Procs : \A a \in pending[p] : a.req # calls[e].req
                         /\ \A d \in Calls : calls[d].op = "resolve" /\ calls[d].req = calls[e].req => d = e)'
      BY DEF ResolvesSound
    <3>1. e # c /\ calls'[e] = calls[e] /\ calls[e].op = "resolve"
      BY <2>1
    <3>2. /\ calls[e].req \in 1..lastReq
          /\ \A i \in DOMAIN log : ResumeAt(i) => log[i].req # calls[e].req
          /\ \E j \in DOMAIN log : WaitAt(j) /\ log[j].req = calls[e].req /\ log[j].task = calls[e].task
          /\ \A p \in Procs : \A a \in pending[p] : a.req # calls[e].req
          /\ \A d \in Calls : calls[d].op = "resolve" /\ calls[d].req = calls[e].req => d = e
      BY <3>1 DEF ApprovalInv, ResolvesSound
    <3>3. \A d \in Calls : calls'[d].op = "resolve" => calls'[d] = calls[d]
      BY <2>1
    <3>4. QED BY <2>2, <2>3, <2>4, <3>1, <3>2, <3>3 DEF WaitAt, ResumeAt
  <2>9. AsksSound'
    <3> SUFFICES ASSUME NEW e \in Calls, calls'[e].op = "tool"
                 PROVE  (/\ calls[e].req \in 1..lastReq
                         /\ \A i \in DOMAIN log : WaitAt(i) \/ ResumeAt(i) => log[i].req # calls[e].req
                         /\ \A p \in Procs : \A a \in pending[p] : a.req = calls[e].req => a.task = calls[e].task
                         /\ \A d \in Calls : calls[d].op = "tool" /\ calls[d].req = calls[e].req => d = e)'
      BY DEF AsksSound
    <3>1. CASE e = c
      <4>1. \A i \in DOMAIN log : WaitAt(i) \/ ResumeAt(i) => log[i].req # lastReq + 1
        BY <2>4 DEF ApprovalInv, LoggedSound
      <4>2. \A p \in Procs : \A a \in pending[p] : a.req # lastReq + 1
        BY <2>4 DEF ApprovalInv, PendingSound
      <4>3. \A d \in Calls : calls[d].op = "tool" => calls[d].req # lastReq + 1
        BY <2>4 DEF ApprovalInv, AsksSound
      <4>4. QED BY <2>1, <2>2, <2>3, <2>5, <3>1, <4>1, <4>2, <4>3 DEF WaitAt, ResumeAt
    <3>2. CASE e # c
      <4>1. calls'[e] = calls[e] /\ calls[e].op = "tool"
        BY <2>1, <3>2
      <4>2. /\ calls[e].req \in 1..lastReq
            /\ \A i \in DOMAIN log : WaitAt(i) \/ ResumeAt(i) => log[i].req # calls[e].req
            /\ \A p \in Procs : \A a \in pending[p] : a.req = calls[e].req => a.task = calls[e].task
            /\ \A d \in Calls : calls[d].op = "tool" /\ calls[d].req = calls[e].req => d = e
        BY <4>1 DEF ApprovalInv, AsksSound
      <4>3. QED BY <2>1, <2>2, <2>3, <2>4, <4>1, <4>2 DEF WaitAt, ResumeAt
    <3>3. QED BY <3>1, <3>2
  <2>10. LoggedSound'
    BY <2>2, <2>4 DEF ApprovalInv, LoggedSound, WaitAt, ResumeAt
  <2>11. QED BY <2>6, <2>7, <2>8, <2>9, <2>10 DEF ApprovalInv
<1>9. ASSUME NEW c \in Calls, NEW a \in pending[Home[c]], ResolveApproval(c, a) PROVE ApprovalInv'
  <2>1. /\ calls'[c].op = "resolve" /\ calls'[c].req = a.req /\ calls'[c].task = a.task
        /\ \A d \in Calls : d # c => calls'[d] = calls[d]
    BY <1>0, <1>9 DEF ResolveApproval, Begin, Idle
  <2>2. /\ log' = log /\ lastReq' = lastReq
        /\ pending' = [pending EXCEPT ![Home[c]] = @ \ {a}]
    BY <1>9 DEF ResolveApproval
  <2>3. \A p \in Procs : \A b \in pending'[p] : b \in pending[p] /\ (p # Home[c] \/ b # a)
    BY <1>0, <2>2
  <2>4. \A p \in Procs : \A b \in pending'[p] : b.req # a.req
    BY <1>0, <2>3 DEF ApprovalInv, PendingOnce
  <2>5. PendingSound' /\ PendingOnce'
    BY <2>2, <2>3 DEF ApprovalInv, PendingSound, PendingOnce, WaitAt, ResumeAt
  <2>6. ResolvesSound'
    <3> SUFFICES ASSUME NEW e \in Calls, calls'[e].op = "resolve"
                 PROVE  (/\ calls[e].req \in 1..lastReq
                         /\ \A i \in DOMAIN log : ResumeAt(i) => log[i].req # calls[e].req
                         /\ \E j \in DOMAIN log : WaitAt(j) /\ log[j].req = calls[e].req
                                                  /\ log[j].task = calls[e].task
                         /\ \A p \in Procs : \A b \in pending[p] : b.req # calls[e].req
                         /\ \A d \in Calls : calls[d].op = "resolve" /\ calls[d].req = calls[e].req => d = e)'
      BY DEF ResolvesSound
    <3>0. Home[c] \in Procs /\ \A d \in Calls : calls[d].op = "resolve" => calls[d].req # a.req
      BY <1>0 DEF ApprovalInv, ResolvesSound
    <3>1. CASE e = c
      <4>1. a.req \in 1..lastReq /\ \A i \in DOMAIN log : ResumeAt(i) => log[i].req # a.req
        BY <3>0 DEF ApprovalInv, PendingSound
      <4>2. PICK j \in DOMAIN log : log[j].kind = "task_waiting" /\ log[j].req = a.req
        BY <1>9 DEF ResolveApproval
      <4>3. log[j].task = a.task
        BY <3>0, <4>2 DEF ApprovalInv, PendingSound, WaitAt
      <4>4. \E k \in DOMAIN log' : log'[k].kind = "task_waiting" /\ log'[k].req = calls'[e].req
                                     /\ log'[k].task = calls'[e].task
        BY <2>1, <2>2, <3>1, <4>2, <4>3
      <4>5. QED BY <2>1, <2>2, <2>4, <3>0, <3>1, <4>1, <4>4 DEF WaitAt, ResumeAt
    <3>2. CASE e # c
      <4>1. calls'[e] = calls[e] /\ calls[e].op = "resolve"
        BY <2>1, <3>2
      <4>2. /\ calls[e].req \in 1..lastReq
            /\ \A i \in DOMAIN log : ResumeAt(i) => log[i].req # calls[e].req
            /\ \E j \in DOMAIN log : WaitAt(j) /\ log[j].req = calls[e].req /\ log[j].task = calls[e].task
            /\ \A p \in Procs : \A b \in pending[p] : b.req # calls[e].req
            /\ \A d \in Calls : calls[d].op = "resolve" /\ calls[d].req = calls[e].req => d = e
        BY <4>1 DEF ApprovalInv, ResolvesSound
      <4>3. calls[e].req # a.req
        BY <3>0, <4>1
      <4>4. QED BY <2>1, <2>2, <2>3, <4>1, <4>2, <4>3 DEF WaitAt, ResumeAt
    <3>3. QED BY <3>1, <3>2
  <2>7. AsksSound'
    <3>1. \A d \in Calls : calls'[d].op = "tool" => calls'[d] = calls[d]
      BY <2>1
    <3>2. QED BY <2>2, <2>3, <3>1 DEF ApprovalInv, AsksSound, WaitAt, ResumeAt
  <2>8. LoggedSound'
    BY <2>2 DEF ApprovalInv, LoggedSound, WaitAt, ResumeAt
  <2>9. QED BY <2>5, <2>6, <2>7, <2>8 DEF ApprovalInv
<1>10. ASSUME NEW c \in Calls, AppendBatch(c) PROVE ApprovalInv'
  <2>1. calls'[c] = Idle /\ \A d \in Calls : d # c => calls'[d] = calls[d]
    BY <1>0, <1>10 DEF AppendBatch, Return
  <2>2. pending' = pending /\ lastReq' = lastReq /\ WriteBatch(c)
    BY <1>10 DEF AppendBatch
  <2>3. /\ Len(log) \in Nat /\ DOMAIN log = 1..Len(log) /\ DOMAIN log' = 1..Len(log')
        /\ \A i \in DOMAIN log : i \in DOMAIN log' /\ log'[i] = log[i]
    BY <2>2, Appended
  <2>4. CASE calls[c].op \notin {"tool", "resolve"}
    <3>1. \A i \in DOMAIN log' :
             i \in DOMAIN log \/ log'[i].kind \notin {"task_waiting", "task_resumed"}
      BY <2>4, <2>2, Appended
    <3>2. QED BY <1>0, <2>1, <2>2, <2>3, <3>1, ApprovalFrame
  <2> DEFINE n == Len(log) + 1
             r == calls[c].req
  <2>5. ASSUME calls[c].op \in {"tool", "resolve"}
        PROVE  /\ DOMAIN log' = (1..Len(log)) \cup {n} /\ n \notin DOMAIN log
               /\ log'[n].req = r /\ log'[n].task = calls[c].task
               /\ log'[n].kind = IF calls[c].op = "tool" THEN "task_waiting" ELSE "task_resumed"
    <3>1. Len(log') = Len(log) + 1 /\ Len(log) \in Nat
      BY <2>5, <2>2, Appended
    <3>2. n \in (Len(log) + 1)..Len(log')
      BY <3>1
    <3>3. log'[n].kind = "task_waiting" <=> calls[c].op = "tool"
      BY <3>2, <2>2, Appended
    <3>4. log'[n].kind = "task_resumed" <=> calls[c].op = "resolve"
      BY <3>2, <2>2, Appended
    <3>5. log'[n].req = r /\ log'[n].task = calls[c].task
      BY <2>5, <3>2, <2>2, Appended
    <3>6. DOMAIN log' = (1..Len(log)) \cup {n} /\ n \notin DOMAIN log
      BY <2>3, <3>1
    <3>7. QED BY <2>5, <3>3, <3>4, <3>5, <3>6
  <2>6. ASSUME calls[c].op = "tool" PROVE ApprovalInv'
    <3> HIDE DEF n, r
    <3>0. PICK m, q : m = n /\ q = r
      OBVIOUS
    <3>1. /\ DOMAIN log' = DOMAIN log \cup {m} /\ m \notin DOMAIN log /\ log'[m].req = q
          /\ log'[m].task = calls[c].task /\ log'[m].kind = "task_waiting"
          /\ \A i \in DOMAIN log : log'[i] = log[i]
      BY <2>3, <2>5, <2>6, <3>0
    <3>2. /\ calls[c].req = q /\ q \in 1..lastReq
          /\ \A i \in DOMAIN log : WaitAt(i) \/ ResumeAt(i) => log[i].req # q
          /\ \A p \in Procs : \A a \in pending[p] : a.req = q => a.task = calls[c].task
          /\ \A d \in Calls : calls[d].op = "tool" /\ d # c => calls[d].req # q
      BY <2>6, <3>0 DEF ApprovalInv, AsksSound, r
    <3>3. \A d \in Calls : calls[d].op = "resolve" => calls[d].req # q
      BY <3>2 DEF ApprovalInv, ResolvesSound
    <3>4. \A d \in Calls : calls'[d].op \in {"tool", "resolve"} => d # c /\ calls'[d] = calls[d]
      BY <1>0, <2>1
    <3>5. PendingSound'
      BY <2>2, <3>1, <3>2 DEF ApprovalInv, PendingSound, WaitAt, ResumeAt
    <3>6. PendingOnce'
      BY <2>2 DEF ApprovalInv, PendingOnce
    <3>7. ResolvesSound'
      <4> SUFFICES ASSUME NEW e \in Calls, calls'[e].op = "resolve"
                   PROVE  (/\ calls[e].req \in 1..lastReq
                           /\ \A i \in DOMAIN log : ResumeAt(i) => log[i].req # calls[e].req
                           /\ \E j \in DOMAIN log : WaitAt(j) /\ log[j].req = calls[e].req
                                                    /\ log[j].task = calls[e].task
                           /\ \A p \in Procs : \A a \in pending[p] : a.req # calls[e].req
                           /\ \A d \in Calls : calls[d].op = "resolve" /\ calls[d].req = calls[e].req => d = e)'
        BY DEF ResolvesSound
      <4>1. calls'[e] = calls[e] /\ calls[e].op = "resolve"
        BY <3>4
      <4>2. /\ calls[e].req \in 1..lastReq
            /\ \A i \in DOMAIN log : ResumeAt(i) => log[i].req # calls[e].req
            /\ \E j \in DOMAIN log : WaitAt(j) /\ log[j].req = calls[e].req /\ log[j].task = calls[e].task
            /\ \A p \in Procs : \A a \in pending[p] : a.req # calls[e].req
            /\ \A d \in Calls : calls[d].op = "resolve" /\ calls[d].req = calls[e].req => d = e
        BY <4>1 DEF ApprovalInv, ResolvesSound
      <4>3. QED BY <2>2, <3>1, <3>4, <4>1, <4>2 DEF WaitAt, ResumeAt
    <3>8. AsksSound'
      BY <2>2, <3>1, <3>2, <3>4 DEF ApprovalInv, AsksSound, WaitAt, ResumeAt
    <3>9. LoggedSound'
      BY <2>2, <3>1, <3>2 DEF ApprovalInv, LoggedSound, WaitAt, ResumeAt
    <3>10. QED BY <3>5, <3>6, <3>7, <3>8, <3>9 DEF ApprovalInv
  <2>7. ASSUME calls[c].op = "resolve" PROVE ApprovalInv'
    <3> HIDE DEF n, r
    <3>0. PICK m, q : m = n /\ q = r
      OBVIOUS
    <3>1. /\ DOMAIN log' = DOMAIN log \cup {m} /\ m \notin DOMAIN log /\ log'[m].req = q
          /\ log'[m].task = calls[c].task /\ log'[m].kind = "task_resumed"
          /\ \A i \in DOMAIN log : log'[i] = log[i] /\ i < m
      <4>1. \A i \in DOMAIN log : i < m
        BY <2>3, <3>0 DEF n
      <4>2. QED BY <2>3, <2>5, <2>7, <3>0, <4>1
    <3>2. /\ calls[c].req = q /\ q \in 1..lastReq
          /\ \A i \in DOMAIN log : ResumeAt(i) => log[i].req # q
          /\ \E j \in DOMAIN log : WaitAt(j) /\ log[j].req = q /\ log[j].task = calls[c].task
          /\ \A p \in Procs : \A a \in pending[p] : a.req # q
          /\ \A d \in Calls : calls[d].op = "resolve" /\ d # c => calls[d].req # q
      BY <2>7, <3>0 DEF ApprovalInv, ResolvesSound, r
    <3>3. \A d \in Calls : calls[d].op = "tool" => calls[d].req # q
      BY <3>2 DEF ApprovalInv, AsksSound
    <3>4. \A d \in Calls : calls'[d].op \in {"tool", "resolve"} => d # c /\ calls'[d] = calls[d]
      BY <1>0, <2>1
    <3>5. PendingSound'
      BY <2>2, <3>1, <3>2 DEF ApprovalInv, PendingSound, WaitAt, ResumeAt
    <3>6. PendingOnce'
      BY <2>2 DEF ApprovalInv, PendingOnce
    <3>7. ResolvesSound'
      <4> SUFFICES ASSUME NEW e \in Calls, calls'[e].op = "resolve"
                   PROVE  (/\ calls[e].req \in 1..lastReq
                           /\ \A i \in DOMAIN log : ResumeAt(i) => log[i].req # calls[e].req
                           /\ \E j \in DOMAIN log : WaitAt(j) /\ log[j].req = calls[e].req
                                                    /\ log[j].task = calls[e].task
                           /\ \A p \in Procs : \A a \in pending[p] : a.req # calls[e].req
                           /\ \A d \in Calls : calls[d].op = "resolve" /\ calls[d].req = calls[e].req => d = e)'
        BY DEF ResolvesSound
      <4>1. calls'[e] = calls[e] /\ calls[e].op = "resolve" /\ calls[e].req # q
        BY <3>2, <3>4
      <4>2. /\ calls[e].req \in 1..lastReq
            /\ \A i \in DOMAIN log : ResumeAt(i) => log[i].req # calls[e].req
            /\ \E j \in DOMAIN log : WaitAt(j) /\ log[j].req = calls[e].req /\ log[j].task = calls[e].task
            /\ \A p \in Procs : \A a \in pending[p] : a.req # calls[e].req
            /\ \A d \in Calls : calls[d].op = "resolve" /\ calls[d].req = calls[e].req => d = e
        BY <4>1 DEF ApprovalInv, ResolvesSound
      <4>3. QED BY <2>2, <3>1, <3>4, <4>1, <4>2 DEF WaitAt, ResumeAt
    <3>8. AsksSound'
      BY <2>2, <3>1, <3>3, <3>4 DEF ApprovalInv, AsksSound, WaitAt, ResumeAt
    <3>9. LoggedSound'
      BY <2>2, <3>1, <3>2 DEF ApprovalInv, LoggedSound, WaitAt, ResumeAt
    <3>10. QED BY <3>5, <3>6, <3>7, <3>8, <3>9 DEF ApprovalInv
  <2>8. QED BY <2>4, <2>6, <2>7
<1>11. ASSUME NEW c \in Calls, AppendFails(c) PROVE ApprovalInv'
  <2>1. calls'[c].op \notin {"tool", "resolve"} /\ \A d \in Calls : d # c => calls'[d] = calls[d]
    BY <1>0, <1>11 DEF AppendFails, Return, CallStates
  <2>2. QED BY <1>11, <2>1, ApprovalFrame DEF AppendFails
<1>12. ASSUME NEW p \in Procs, Crash(p) PROVE ApprovalInv'
  <2>1. \A d \in Calls : calls'[d] = Idle \/ calls'[d] = calls[d]
    BY <1>12 DEF Crash
  <2>2. \A q \in Procs : pending'[q] \subseteq pending[q]
    BY <1>0, <1>12 DEF Crash
  <2>3. QED BY <1>0, <1>12, <2>1, <2>2, ApprovalFrame DEF Crash
<1>13. ASSUME NEW c \in Calls, CreateFailsLate(c) PROVE ApprovalInv'
  <2>1. /\ calls[c].op = "create" /\ calls'[c].op = "create"
        /\ \A d \in Calls : d # c => calls'[d] = calls[d]
    BY <1>0, <1>13 DEF CreateFailsLate, CallStates
  <2>2. pending' = pending /\ lastReq' = lastReq /\ WriteBatch(c)
    BY <1>13 DEF CreateFailsLate
  <2>3. /\ \A i \in DOMAIN log : i \in DOMAIN log' /\ log'[i] = log[i]
        /\ \A i \in DOMAIN log' :
              i \in DOMAIN log \/ log'[i].kind \notin {"task_waiting", "task_resumed"}
    BY <2>1, <2>2, Appended
  <2>4. QED BY <2>1, <2>2, <2>3, ApprovalFrame
<1>16. ASSUME NEW c \in Calls, CreateCloseFails(c) \/ CreateRemoveFails(c) PROVE ApprovalInv'
  <2>1. Abandon(c)
    BY <1>16 DEF CreateCloseFails, CreateRemoveFails
  <2>2. calls'[c] = Idle /\ \A d \in Calls : d # c => calls'[d] = calls[d]
    BY <1>0, <2>1 DEF Abandon, Return
  <2>3. QED BY <1>0, <2>1, <2>2, ApprovalFrame DEF Abandon
<1>14. CASE UNCHANGED vars
  BY <1>14, ApprovalFrame DEF vars
<1>15. QED
  BY <1>1, <1>2, <1>3, <1>4, <1>5, <1>6, <1>7, <1>8, <1>9, <1>10, <1>11, <1>12, <1>13, <1>14,
     <1>16
  DEF Next, CreateStep, GuardedStep, ApprovalStep

LEMMA SpecApproves == Spec => [](Typed /\ ApprovalInv)
BY TypedInit, TypedNext, ApprovalInit, ApprovalNext, PTL DEF Spec

\* An approval resumes its task at most once, after the wait it answers and for
\* the task that waits (ResumedOnce).
THEOREM ApprovalResumesOnce == Spec => []ResumedOnce
<1>1. ApprovalInv => ResumedOnce
  BY DEF ApprovalInv, LoggedSound, ResumedOnce, Resumes, Waits, WaitAt, ResumeAt
<1>2. QED BY <1>1, SpecApproves, PTL

-----------------------------------------------------------------------------
(* Answering a wait *)

Calm == crashes = 0 /\ failures = 0

\* While nothing goes wrong, a call about to log a wait has its approval pending,
\* and so has every logged wait until a call takes it out to resume the task.
AnswerInv ==
    Calm =>
        /\ \A c \in Calls : calls[c].op = "tool" =>
              \E p \in Procs : \E a \in pending[p] : a.req = calls[c].req
        /\ \A i \in DOMAIN log : WaitAt(i) =>
              \/ \E p \in Procs : \E a \in pending[p] : a.req = log[i].req
              \/ \E c \in Calls : calls[c].op = "resolve" /\ calls[c].req = log[i].req
              \/ \E k \in DOMAIN log : ResumeAt(k) /\ log[k].req = log[i].req

LEMMA AnswerInit == Init => AnswerInv
BY DEF Init, AnswerInv, Idle

\* Steps that neither log nor touch an approval.
LEMMA AnswerFrame ==
    ASSUME AnswerInv, log' = log, pending' = pending, Calm' => Calm,
           \A c \in Calls : calls[c].op \in {"tool", "resolve"} \/ calls'[c].op \in {"tool", "resolve"}
                            => calls'[c] = calls[c]
    PROVE  AnswerInv'
<1> SUFFICES ASSUME Calm' PROVE AnswerInv'
  BY DEF AnswerInv
<1>1. \A c \in Calls : calls'[c].op = "tool" =>
        \E p \in Procs : \E a \in pending'[p] : a.req = calls'[c].req
  BY DEF AnswerInv
<1>2. ASSUME NEW i \in DOMAIN log', (WaitAt(i))'
      PROVE  (\/ \E p \in Procs : \E a \in pending[p] : a.req = log[i].req
              \/ \E c \in Calls : calls[c].op = "resolve" /\ calls[c].req = log[i].req
              \/ \E k \in DOMAIN log : ResumeAt(k) /\ log[k].req = log[i].req)'
  <2>1. i \in DOMAIN log /\ WaitAt(i)
    BY <1>2 DEF WaitAt
  <2>2. \/ \E p \in Procs : \E a \in pending[p] : a.req = log[i].req
        \/ \E c \in Calls : calls[c].op = "resolve" /\ calls[c].req = log[i].req
        \/ \E k \in DOMAIN log : ResumeAt(k) /\ log[k].req = log[i].req
    BY <2>1 DEF AnswerInv
  <2>3. QED BY <2>2 DEF ResumeAt
<1>3. QED BY <1>1, <1>2 DEF AnswerInv

LEMMA AnswerNext == Typed /\ ApprovalInv /\ AnswerInv /\ [Next]_vars => AnswerInv'
<1> SUFFICES ASSUME Typed, ApprovalInv, AnswerInv, [Next]_vars PROVE AnswerInv'
  OBVIOUS
<1>0. /\ \A c \in Calls : Shaped(calls[c]) /\ calls[c] \in CallStates /\ Home[c] \in Procs
      /\ calls \in [Calls -> CallStates] /\ pending \in [Procs -> SUBSET [req : Nat, task : Tasks]]
      /\ lastReq \in Nat /\ crashes \in Nat /\ failures \in Nat /\ Idle.op = "none"
  BY IdleFacts, KernelAssumption DEF Typed, TypeOK, CallShape
<1>1. ASSUME NEW c \in Calls, NEW t \in Tasks, CreateOpen(c, t) PROVE AnswerInv'
  <2>1. calls[c] = Idle /\ calls'[c].op = "create" /\ \A d \in Calls : d # c => calls'[d] = calls[d]
    BY <1>0, <1>1 DEF CreateOpen, Begin, Idle
  <2>2. QED BY <1>0, <1>1, <2>1, AnswerFrame DEF CreateOpen, Calm
<1>2. ASSUME NEW c \in Calls, CreateWrite(c) PROVE AnswerInv'
  <2>1. calls[c].op = "create" /\ calls'[c].op = "create" /\ \A d \in Calls : d # c => calls'[d] = calls[d]
    BY <1>0, <1>2 DEF CreateWrite, CallStates, Shaped
  <2>2. QED BY <1>2, <2>1, AnswerFrame DEF CreateWrite, Calm
<1>3. ASSUME NEW c \in Calls, CreateWriteFails(c) PROVE AnswerInv'
  BY <1>0, <1>3 DEF CreateWriteFails, Fails, AnswerInv, Calm
<1>4. ASSUME NEW c \in Calls, CreateRemove(c) PROVE AnswerInv'
  <2>1. calls[c].op = "create" /\ calls'[c] = Idle /\ \A d \in Calls : d # c => calls'[d] = calls[d]
    BY <1>0, <1>4 DEF CreateRemove, Return, Shaped
  <2>2. QED BY <1>0, <1>4, <2>1, AnswerFrame DEF CreateRemove, Calm
<1>5. ASSUME NEW c \in Calls, NEW t \in Tasks, NEW op \in Guarded, Read(c, op, t) PROVE AnswerInv'
  <2>1. calls[c] = Idle /\ calls'[c].op = op /\ \A d \in Calls : d # c => calls'[d] = calls[d]
    BY <1>0, <1>5 DEF Read, Begin, Idle
  <2>2. op \notin {"tool", "resolve"}
    BY DEF Guarded
  <2>3. QED BY <1>0, <1>5, <2>1, <2>2, AnswerFrame DEF Read, Calm
<1>6. ASSUME NEW c \in Calls, Decide(c) PROVE AnswerInv'
  <2>1. /\ calls[c].op \notin {"tool", "resolve"} /\ calls'[c].op = calls[c].op
        /\ \A d \in Calls : d # c => calls'[d] = calls[d]
    BY <1>6, Decided DEF Guarded
  <2>2. QED BY <1>6, <2>1, AnswerFrame DEF Decide, Calm
<1>7. ASSUME NEW c \in Calls, Refuse(c) PROVE AnswerInv'
  <2>1. /\ calls[c].op \notin {"tool", "resolve"} /\ calls'[c] = Idle
        /\ \A d \in Calls : d # c => calls'[d] = calls[d]
    BY <1>0, <1>7 DEF Refuse, Return
  <2>2. QED BY <1>0, <1>7, <2>1, AnswerFrame DEF Refuse, Calm
<1>8. ASSUME NEW c \in Calls, NEW t \in Tasks, RequestApproval(c, t) PROVE AnswerInv'
  <2>1. /\ calls[c] = Idle /\ calls'[c].op = "tool" /\ calls'[c].req = lastReq + 1
        /\ \A d \in Calls : d # c => calls'[d] = calls[d]
    BY <1>0, <1>8 DEF RequestApproval, Begin, Idle
  <2>2. log' = log /\ crashes' = crashes /\ failures' = failures
    BY <1>8 DEF RequestApproval
  <2>3. /\ \A p \in Procs : pending[p] \subseteq pending'[p]
        /\ [req |-> lastReq + 1, task |-> t] \in pending'[Home[c]]
    BY <1>0, <1>8 DEF RequestApproval
  <2>4. Calm' => \A d \in Calls : calls'[d].op = "tool" =>
                   \E p \in Procs : \E a \in pending'[p] : a.req = calls'[d].req
    <3> SUFFICES ASSUME Calm', NEW d \in Calls, calls'[d].op = "tool"
                 PROVE  \E p \in Procs : \E a \in pending'[p] : a.req = calls'[d].req
      OBVIOUS
    <3>1. CASE d = c
      <4>1. [req |-> lastReq + 1, task |-> t].req = calls'[d].req
        BY <2>1, <3>1
      <4>2. QED BY <1>0, <2>3, <4>1
    <3>2. CASE d # c
      BY <2>1, <2>2, <2>3, <3>2 DEF AnswerInv, Calm
    <3>3. QED BY <3>1, <3>2
  <2>5. ASSUME Calm', NEW i \in DOMAIN log, WaitAt(i)
        PROVE  \/ \E p \in Procs : \E a \in pending'[p] : a.req = log'[i].req
               \/ \E d \in Calls : calls'[d].op = "resolve" /\ calls'[d].req = log'[i].req
               \/ \E k \in DOMAIN log' : log'[k].kind = "task_resumed" /\ log'[k].req = log'[i].req
    <3>1. \/ \E p \in Procs : \E a \in pending[p] : a.req = log[i].req
          \/ \E d \in Calls : calls[d].op = "resolve" /\ calls[d].req = log[i].req
          \/ \E k \in DOMAIN log : ResumeAt(k) /\ log[k].req = log[i].req
      BY <2>2, <2>5 DEF AnswerInv, Calm
    <3>2. \A d \in Calls : calls[d].op = "resolve" => calls'[d] = calls[d]
      BY <1>0, <2>1
    <3>3. QED BY <2>2, <2>3, <3>1, <3>2 DEF ResumeAt
  <2>6. QED BY <2>2, <2>4, <2>5 DEF AnswerInv, WaitAt, ResumeAt
<1>9. ASSUME NEW c \in Calls, NEW a \in pending[Home[c]], ResolveApproval(c, a) PROVE AnswerInv'
  <2>1. /\ calls[c] = Idle /\ calls'[c].op = "resolve" /\ calls'[c].req = a.req
        /\ \A d \in Calls : d # c => calls'[d] = calls[d]
    BY <1>0, <1>9 DEF ResolveApproval, Begin, Idle
  <2>2. log' = log /\ crashes' = crashes /\ failures' = failures
    BY <1>9 DEF ResolveApproval
  <2>3. \A p \in Procs : \A b \in pending[p] : b # a => b \in pending'[p]
    BY <1>0, <1>9 DEF ResolveApproval
  <2>4. \A d \in Calls : calls[d].op = "tool" => calls[d].req # a.req
    BY <1>9 DEF ResolveApproval, ApprovalInv, AsksSound, WaitAt
  <2>5. Calm' => \A d \in Calls : calls'[d].op = "tool" =>
                   \E p \in Procs : \E b \in pending'[p] : b.req = calls'[d].req
    <3> SUFFICES ASSUME Calm', NEW d \in Calls, calls'[d].op = "tool"
                 PROVE  \E p \in Procs : \E b \in pending'[p] : b.req = calls'[d].req
      OBVIOUS
    <3>1. calls'[d] = calls[d] /\ calls[d].op = "tool" /\ Calm
      BY <2>1, <2>2 DEF Calm
    <3>2. PICK p \in Procs : \E b \in pending[p] : b.req = calls[d].req
      BY <3>1 DEF AnswerInv
    <3>3. QED BY <2>3, <2>4, <3>1, <3>2
  <2>6. ASSUME Calm', NEW i \in DOMAIN log, WaitAt(i)
        PROVE  \/ \E p \in Procs : \E b \in pending'[p] : b.req = log'[i].req
               \/ \E d \in Calls : calls'[d].op = "resolve" /\ calls'[d].req = log'[i].req
               \/ \E k \in DOMAIN log' : log'[k].kind = "task_resumed" /\ log'[k].req = log'[i].req
    <3>1. \/ \E p \in Procs : \E b \in pending[p] : b.req = log[i].req
          \/ \E d \in Calls : calls[d].op = "resolve" /\ calls[d].req = log[i].req
          \/ \E k \in DOMAIN log : ResumeAt(k) /\ log[k].req = log[i].req
      BY <2>2, <2>6 DEF AnswerInv, Calm
    <3>2. \A d \in Calls : calls[d].op = "resolve" => calls'[d] = calls[d]
      BY <1>0, <2>1
    <3>3. CASE \E p \in Procs : \E b \in pending[p] : b.req = log[i].req
      BY <2>1, <2>2, <2>3, <3>3
    <3>4. QED BY <2>2, <3>1, <3>2, <3>3 DEF ResumeAt
  <2>7. QED BY <2>2, <2>5, <2>6 DEF AnswerInv, WaitAt, ResumeAt
<1>10. ASSUME NEW c \in Calls, AppendBatch(c) PROVE AnswerInv'
  <2>1. calls'[c] = Idle /\ \A d \in Calls : d # c => calls'[d] = calls[d]
    BY <1>0, <1>10 DEF AppendBatch, Return
  <2>2. pending' = pending /\ crashes' = crashes /\ failures' = failures /\ WriteBatch(c)
    BY <1>10 DEF AppendBatch
  <2>3. /\ DOMAIN log = 1..Len(log) /\ DOMAIN log' = 1..Len(log')
        /\ Len(log) \in Nat /\ Len(log') \in Nat
        /\ \A i \in DOMAIN log : i \in DOMAIN log' /\ log'[i] = log[i]
    BY <2>2, Appended
  <2>4. \A i \in DOMAIN log' : i \in DOMAIN log \/
           /\ log'[i].kind = "task_waiting" <=> calls[c].op = "tool"
           /\ log'[i].kind = "task_resumed" <=> calls[c].op = "resolve"
           /\ calls[c].op \in {"tool", "resolve"} => log'[i].req = calls[c].req
    BY <2>2, Appended
  <2>5. calls[c].op = "resolve" => \E k \in DOMAIN log' : k \notin DOMAIN log
    <3>1. Len(log) < Len(log')
      BY <2>2, Appended
    <3>2. Len(log) + 1 \in 1..Len(log') /\ Len(log) + 1 \notin 1..Len(log)
      BY <2>3, <3>1
    <3>3. QED BY <2>3, <3>2
  <2>6. Calm' => \A d \in Calls : calls'[d].op = "tool" =>
                   \E p \in Procs : \E b \in pending'[p] : b.req = calls'[d].req
    BY <1>0, <2>1, <2>2 DEF AnswerInv, Calm
  <2>7. ASSUME Calm', NEW i \in DOMAIN log', log'[i].kind = "task_waiting"
        PROVE  \/ \E p \in Procs : \E b \in pending'[p] : b.req = log'[i].req
               \/ \E d \in Calls : calls'[d].op = "resolve" /\ calls'[d].req = log'[i].req
               \/ \E k \in DOMAIN log' : log'[k].kind = "task_resumed" /\ log'[k].req = log'[i].req
    <3>0. Calm
      BY <2>2, <2>7 DEF Calm
    <3>1. CASE i \notin DOMAIN log
      <4>1. calls[c].op = "tool" /\ log'[i].req = calls[c].req
        BY <2>4, <2>7, <3>1
      <4>2. QED BY <2>2, <3>0, <4>1 DEF AnswerInv
    <3>2. CASE i \in DOMAIN log
      <4>1. WaitAt(i) /\ log'[i] = log[i]
        BY <2>3, <2>7, <3>2 DEF WaitAt
      <4>2. \/ \E p \in Procs : \E b \in pending[p] : b.req = log[i].req
            \/ \E d \in Calls : calls[d].op = "resolve" /\ calls[d].req = log[i].req
            \/ \E k \in DOMAIN log : ResumeAt(k) /\ log[k].req = log[i].req
        BY <3>0, <3>2, <4>1 DEF AnswerInv
      <4>3. CASE \E p \in Procs : \E b \in pending[p] : b.req = log[i].req
        BY <2>2, <4>1, <4>3
      <4>4. CASE \E k \in DOMAIN log : ResumeAt(k) /\ log[k].req = log[i].req
        BY <2>3, <4>1, <4>4 DEF ResumeAt
      <4>5. ASSUME NEW d \in Calls, calls[d].op = "resolve", calls[d].req = log[i].req
            PROVE  \/ \E e \in Calls : calls'[e].op = "resolve" /\ calls'[e].req = log'[i].req
                   \/ \E k \in DOMAIN log' : log'[k].kind = "task_resumed" /\ log'[k].req = log'[i].req
        <5>1. CASE d # c
          BY <2>1, <4>1, <4>5, <5>1
        <5>2. CASE d = c
          <6>1. PICK k \in DOMAIN log' : k \notin DOMAIN log
            BY <2>5, <4>5, <5>2
          <6>2. QED BY <2>4, <4>1, <4>5, <5>2, <6>1
        <5>3. QED BY <5>1, <5>2
      <4>6. QED BY <4>2, <4>3, <4>4, <4>5
    <3>3. QED BY <3>1, <3>2
  <2>8. QED BY <2>6, <2>7 DEF AnswerInv, WaitAt, ResumeAt
<1>11. ASSUME NEW c \in Calls, AppendFails(c) PROVE AnswerInv'
  BY <1>0, <1>11 DEF AppendFails, Fails, AnswerInv, Calm
<1>12. ASSUME NEW p \in Procs, Crash(p) PROVE AnswerInv'
  BY <1>0, <1>12 DEF Crash, AnswerInv, Calm
<1>13. ASSUME NEW c \in Calls, CreateFailsLate(c) PROVE AnswerInv'
  BY <1>0, <1>13 DEF CreateFailsLate, Fails, AnswerInv, Calm
<1>16. ASSUME NEW c \in Calls, CreateCloseFails(c) \/ CreateRemoveFails(c) PROVE AnswerInv'
  BY <1>0, <1>16 DEF CreateCloseFails, CreateRemoveFails, Abandon, Fails, AnswerInv, Calm
<1>14. CASE UNCHANGED vars
  BY <1>14, AnswerFrame DEF vars, Calm
<1>15. QED
  BY <1>1, <1>2, <1>3, <1>4, <1>5, <1>6, <1>7, <1>8, <1>9, <1>10, <1>11, <1>12, <1>13, <1>14,
     <1>16
  DEF Next, CreateStep, GuardedStep, ApprovalStep

\* Until something fails or crashes, a task that waits can be resumed
\* (WaitIsAnswerable).
THEOREM WaitsAreAnswerable == Spec => []WaitIsAnswerable
<1>1. AnswerInv => WaitIsAnswerable
  BY DEF AnswerInv, Calm, WaitIsAnswerable, Waits, Resumes, WaitAt, ResumeAt
<1>2. Spec => [](Typed /\ ApprovalInv /\ AnswerInv)
  BY TypedInit, TypedNext, ApprovalInit, ApprovalNext, AnswerInit, AnswerNext, PTL DEF Spec
<1>3. QED BY <1>1, <1>2, PTL

-----------------------------------------------------------------------------
(* One call at a time: the invariant of KernelSerial *)

\* File order is time order, and a call that is about to append has the latest stamp.
LogSorted ==
    /\ \A i, j \in DOMAIN log : i < j => log[i].ts <= log[j].ts
    /\ \A i \in DOMAIN log : log[i].ts <= clock
    /\ \A c \in Calls : calls[c].pc = "append" => calls[c].ts = clock

OneCall == \A c, d \in Calls : calls[c] # Idle /\ calls[d] # Idle => c = d

\* Events and calls other than a creation come after the task's file; what a call
\* that creates a task finds logged of it are creations that failed late.
FilesFirst ==
    /\ \A i \in DOMAIN log : log[i].kind # "task_created" => spec[log[i].task] = "written"
    /\ \A c \in Calls : calls[c].op \notin {"create", "none"} => spec[calls[c].task] = "written"
    /\ \A c \in Calls : calls[c].op = "create" =>
          \A i \in DOMAIN log : log[i].task = calls[c].task => log[i].kind = "task_created"

\* What a call asserted when it began still holds: nothing has been logged since.
GuardsHold ==
    \A c \in Calls :
        /\ calls[c].op \in Guarded => CanMove(Status(log, calls[c].task), Target[calls[c].op])
        /\ calls[c].op = "tool" => Status(log, calls[c].task) = "active"
        /\ calls[c].op = "resolve" => Status(log, calls[c].task) = "waiting"

SerialInv == LogSorted /\ OneCall /\ FilesFirst /\ GuardsHold

LEMMA SerialInit == Init => SerialInv
<1> SUFFICES ASSUME Init PROVE SerialInv
  OBVIOUS
<1>1. log = <<>> /\ \A c \in Calls : calls[c] = Idle
  BY DEF Init
<1>2. Idle.op = "none" /\ Idle.pc = "idle"
  BY IdleFacts
<1>3. QED BY <1>1, <1>2 DEF SerialInv, LogSorted, OneCall, FilesFirst, GuardsHold, Guarded

-----------------------------------------------------------------------------
(* What an append does to the status of its task *)

\* Each batch has one event that sets a status, and it sets the one wanted.
LEMMA BatchStatus ==
    ASSUME NEW call, call.op \in Ops
    PROVE  \E k \in 1..Len(Batch(call)) :
              /\ Batch(call)[k].kind \in TaskKinds
              /\ StatusAfter[Batch(call)[k].kind] = Wanted(call)
              /\ \A j \in 1..Len(Batch(call)) : Batch(call)[j].kind \in TaskKinds => j = k
<1>1. CASE call.op = "create"
  BY <1>1 DEF Batch, EventOf, Wanted, Guarded, TaskKinds, StatusAfter
<1>2. CASE call.op = "claim"
  BY <1>2 DEF Batch, EventOf, Wanted, Guarded, Target, TaskKinds, StatusAfter
<1>3. CASE call.op = "block"
  BY <1>3 DEF Batch, EventOf, Wanted, Guarded, Target, TaskKinds, StatusAfter
<1>4. CASE call.op = "unblock"
  BY <1>4 DEF Batch, EventOf, Wanted, Guarded, Target, TaskKinds, StatusAfter
<1>5. CASE call.op = "complete"
  BY <1>5 DEF Batch, EventOf, Wanted, Guarded, Target, TaskKinds, StatusAfter
<1>6. CASE call.op = "tool"
  BY <1>6 DEF Batch, EventOf, Wanted, Guarded, TaskKinds, StatusAfter
<1>7. CASE call.op = "resolve"
  BY <1>7 DEF Batch, EventOf, Wanted, Guarded, TaskKinds, StatusAfter
<1>8. QED BY <1>1, <1>2, <1>3, <1>4, <1>5, <1>6, <1>7 DEF Ops, Guarded

LEMMA EffectSeen ==
    ASSUME Typed, Typed', LogSorted, NEW c \in Calls, WriteBatch(c),
           Cardinality(EventsOf(log', calls[c].task)) <= ReplayLimit
    PROVE  Status(log', calls[c].task) = Wanted(calls[c])
<1> DEFINE b == Batch(calls[c])
           t == calls[c].task
           n == Len(log)
<1>0. /\ log \in Seq(Events) /\ log' \in Seq(Events) /\ calls[c] \in CallStates
      /\ \A i \in DOMAIN log' : log'[i].ts \in Nat
  <2>1. log \in Seq(Events) /\ log' \in Seq(Events) /\ calls[c] \in CallStates
    BY DEF Typed, TypeOK
  <2>2. \A i \in DOMAIN log' : log'[i] \in Events
    BY <2>1
  <2>3. QED BY <2>1, <2>2 DEF Events
<1>1. /\ t \in Tasks /\ calls[c].op \in Ops /\ n \in Nat /\ Len(log') \in Nat
      /\ DOMAIN log = 1..n /\ DOMAIN log' = 1..Len(log') /\ n < Len(log')
      /\ \A i \in 1..n : log'[i] = log[i]
      /\ \A i \in (n + 1)..Len(log') : log'[i].task = t /\ log'[i].ts = calls[c].ts
  BY Appended
<1>2. b \in Seq(Events) /\ log' = log \o b
  BY BatchTyped DEF WriteBatch
<1>3. PICK k \in 1..Len(b) : /\ b[k].kind \in TaskKinds /\ StatusAfter[b[k].kind] = Wanted(calls[c])
                            /\ \A j \in 1..Len(b) : b[j].kind \in TaskKinds => j = k
  BY <1>1, BatchStatus
<1>4. /\ Len(b) \in Nat /\ Len(log') = n + Len(b)
      /\ \A j \in 1..Len(b) : log'[n + j] = b[j]
  BY <1>0, <1>2, AppendFacts
<1> HIDE DEF b
<1>5. PICK m \in (n + 1)..Len(log') : m = n + k /\ log'[m] = b[k]
  BY <1>1, <1>3, <1>4
<1>6. \A i \in (n + 1)..Len(log') : log'[i].kind \in TaskKinds => i = m
  <2> SUFFICES ASSUME NEW i \in (n + 1)..Len(log'), log'[i].kind \in TaskKinds PROVE i = m
    OBVIOUS
  <2>1. PICK j \in 1..Len(b) : i = n + j
    <3>1. i - n \in 1..Len(b) /\ i = n + (i - n)
      BY <1>1, <1>4
    <3>2. QED BY <3>1
  <2>2. b[j].kind \in TaskKinds
    BY <1>4, <2>1
  <2>3. QED BY <1>3, <1>5, <2>1, <2>2
<1>7. m \in EventsOf(log', t) /\ log'[m].kind \in TaskKinds
  BY <1>1, <1>3, <1>5 DEF EventsOf
<1>8. ASSUME NEW j \in EventsOf(log', t), log'[j].kind \in TaskKinds PROVE Before(log', j, m)
  <2>1. j \in 1..Len(log') /\ m \in 1..Len(log') /\ n < m
    BY <1>1 DEF EventsOf
  <2>2. CASE j \in (n + 1)..Len(log')
    BY <1>0, <1>1, <1>6, <1>8, <2>1, <2>2 DEF Before
  <2>3. CASE j \in 1..n
    <3>1. log'[j].ts <= clock /\ j < m
      BY <1>1, <2>1, <2>3 DEF LogSorted
    <3>2. log'[m].ts = clock
      BY <1>1 DEF LogSorted, WriteBatch
    <3>3. log'[j].ts \in Nat /\ log'[m].ts \in Nat
      BY <1>0, <1>1, <2>1
    <3>4. QED BY <2>1, <2>3, <3>1, <3>2, <3>3 DEF Before
  <2>4. QED BY <1>1, <2>1, <2>2, <2>3
<1>9. Status(log', t) = StatusAfter[log'[m].kind]
  BY <1>0, <1>7, <1>8, StatusOfLatest
<1>10. QED BY <1>3, <1>5, <1>9

-----------------------------------------------------------------------------
(* The invariant *)

\* Steps that leave the log alone and keep the calls in flight what they are.
LEMMA SerialFrame ==
    ASSUME Typed, SerialInv, log' = log, clock' \in Nat, clock <= clock',
           \A c \in Calls : calls'[c].pc = "append" => calls'[c].ts = clock',
           \A c \in Calls : \/ calls'[c] = Idle
                          \/ /\ calls[c] # Idle
                             /\ calls'[c].op = calls[c].op /\ calls'[c].task = calls[c].task,
           \A c \in Calls : calls'[c].op \notin {"create", "none"} =>
                              spec'[calls[c].task] = spec[calls[c].task],
           \A i \in DOMAIN log : log[i].kind # "task_created" =>
                                    spec'[log[i].task] = spec[log[i].task]
    PROVE  SerialInv'
<1>0. Idle.op = "none" /\ Idle.op \notin Guarded /\ clock \in Nat /\ \A i \in DOMAIN log : log[i].ts \in Nat
  BY IdleFacts, LogEvents DEF Typed, TypeOK, Guarded
<1>1. LogSorted'
  <2>1. \A i \in DOMAIN log' : log'[i].ts <= clock'
    BY <1>0 DEF SerialInv, LogSorted
  <2>2. QED BY <2>1 DEF SerialInv, LogSorted
<1>2. OneCall'
  BY DEF SerialInv, OneCall
<1>3. FilesFirst'
  BY <1>0 DEF SerialInv, FilesFirst
<1>4. GuardsHold'
  <2> SUFFICES ASSUME NEW c \in Calls
               PROVE  /\ calls'[c].op \in Guarded => CanMove(Status(log', calls'[c].task), Target[calls'[c].op])
                      /\ calls'[c].op = "tool" => Status(log', calls'[c].task) = "active"
                      /\ calls'[c].op = "resolve" => Status(log', calls'[c].task) = "waiting"
    BY DEF GuardsHold
  <2>1. CASE calls'[c] = Idle
    BY <1>0, <2>1
  <2>2. CASE calls'[c].op = calls[c].op /\ calls'[c].task = calls[c].task
    BY <2>2 DEF SerialInv, GuardsHold
  <2>3. QED BY <2>1, <2>2
<1>5. QED BY <1>1, <1>2, <1>3, <1>4 DEF SerialInv

\* A call that begins alone, with its task's file in place and its guard true.
LEMMA SerialBegins ==
    ASSUME Typed, SerialInv, log' = log, clock' \in Nat, clock <= clock', NEW c \in Calls,
           calls[c] = Idle,
           calls'[c] # Idle, \A d \in Calls : d # c => calls'[d] = calls[d],
           \A d \in Calls : calls'[d].pc = "append" => calls'[d].ts = clock',
           \A d, e \in Calls : calls'[d] # Idle /\ calls'[e] # Idle => d = e,
           \A i \in DOMAIN log : log[i].kind # "task_created" =>
                                    spec'[log[i].task] = spec[log[i].task],
           IF calls'[c].op = "create"
           THEN \A i \in DOMAIN log : log[i].task = calls'[c].task => log[i].kind = "task_created"
           ELSE spec'[calls'[c].task] = "written",
           calls'[c].op \in Guarded => CanMove(Status(log, calls'[c].task), Target[calls'[c].op]),
           calls'[c].op = "tool" => Status(log, calls'[c].task) = "active",
           calls'[c].op = "resolve" => Status(log, calls'[c].task) = "waiting"
    PROVE  SerialInv'
<1>0. Idle.op = "none" /\ Idle.op \notin Guarded /\ clock \in Nat /\ \A i \in DOMAIN log : log[i].ts \in Nat
  BY IdleFacts, LogEvents DEF Typed, TypeOK, Guarded
<1>1. \A d \in Calls : d = c \/ calls'[d] = Idle
  OBVIOUS
<1>2. LogSorted'
  <2>1. \A i \in DOMAIN log' : log'[i].ts <= clock'
    BY <1>0 DEF SerialInv, LogSorted
  <2>2. QED BY <2>1 DEF SerialInv, LogSorted
<1>3. OneCall'
  BY DEF OneCall
<1>4. FilesFirst'
  BY <1>0, <1>1 DEF SerialInv, FilesFirst
<1>5. GuardsHold'
  <2> SUFFICES ASSUME NEW d \in Calls
               PROVE  /\ calls'[d].op \in Guarded => CanMove(Status(log', calls'[d].task), Target[calls'[d].op])
                      /\ calls'[d].op = "tool" => Status(log', calls'[d].task) = "active"
                      /\ calls'[d].op = "resolve" => Status(log', calls'[d].task) = "waiting"
    BY DEF GuardsHold
  <2>1. CASE calls'[d] = Idle
    BY <1>0, <2>1
  <2>2. CASE d = c
    BY <2>2
  <2>3. QED BY <1>1, <2>1, <2>2
<1>6. QED BY <1>2, <1>3, <1>4, <1>5 DEF SerialInv

\* What a call that runs alone appends keeps the log sorted.
LEMMA SortedAppend ==
    ASSUME Typed, LogSorted, NEW c \in Calls, WriteBatch(c)
    PROVE  /\ \A i \in DOMAIN log' : log'[i].ts <= clock
           /\ \A i, j \in DOMAIN log' : i < j => log'[i].ts <= log'[j].ts
<1>1. /\ Len(log) \in Nat /\ Len(log') \in Nat /\ clock \in Nat
      /\ DOMAIN log = 1..Len(log) /\ DOMAIN log' = 1..Len(log')
      /\ \A i \in 1..Len(log) : log'[i] = log[i]
      /\ \A i \in (Len(log) + 1)..Len(log') : log'[i].ts = calls[c].ts
  BY Appended DEF Typed, TypeOK
<1>2. calls[c].ts = clock
  BY DEF WriteBatch, LogSorted
<1>3. ASSUME NEW i \in DOMAIN log'
      PROVE  \/ i \in DOMAIN log /\ log'[i] = log[i]
             \/ i > Len(log) /\ log'[i].ts = clock
  <2>1. i \in 1..Len(log) \/ i \in (Len(log) + 1)..Len(log')
    BY <1>1
  <2>2. CASE i \in 1..Len(log)
    BY <1>1, <2>2
  <2>3. CASE i \in (Len(log) + 1)..Len(log')
    <3>1. log'[i].ts = clock
      BY <1>1, <1>2, <2>3
    <3>2. i > Len(log)
      BY <1>1, <2>3
    <3>3. QED BY <3>1, <3>2
  <2>4. QED BY <2>1, <2>2, <2>3
<1>4. \A i \in DOMAIN log' : log'[i].ts <= clock
  BY <1>1, <1>3 DEF LogSorted
<1>5. ASSUME NEW i \in DOMAIN log', NEW j \in DOMAIN log', i < j
      PROVE  log'[i].ts <= log'[j].ts
  <2>1. CASE log'[j].ts = clock
    BY <1>4, <2>1
  <2>2. CASE j \in DOMAIN log /\ log'[j] = log[j]
    <3>1. i \in DOMAIN log /\ log'[i] = log[i]
      BY <1>1, <1>5, <2>2
    <3>2. QED BY <1>5, <2>2, <3>1 DEF LogSorted
  <2>3. QED BY <1>3, <2>1, <2>2
<1>6. QED BY <1>4, <1>5

LEMMA SerialKept ==
    ASSUME Typed, CreateInv, ApprovalInv, SerialInv, SerialNext
    PROVE  SerialInv'
<1>0. /\ \A c \in Calls : Shaped(calls[c]) /\ calls[c] \in CallStates /\ Home[c] \in Procs
      /\ calls \in [Calls -> CallStates] /\ pending \in [Procs -> SUBSET [req : Nat, task : Tasks]]
      /\ spec \in [Tasks -> {"absent", "partial", "written"}]
      /\ clock \in Nat /\ Idle.op = "none" /\ Idle.pc = "idle"
      /\ \A i \in DOMAIN log : log[i].task \in Tasks /\ log[i].ts \in Nat
  BY IdleFacts, KernelAssumption, LogEvents DEF Typed, TypeOK, CallShape
<1>1. /\ \A c, d \in Calls : calls'[c] # Idle /\ calls'[d] # Idle => c = d
      /\ \A c \in Calls : calls'[c].pc = "append" => calls'[c].ts = clock'
      /\ \A c \in Calls : calls[c] = Idle /\ calls'[c].op = "tool" => Status(log, calls'[c].task) = "active"
      /\ \A c \in Calls : calls[c] = Idle /\ calls'[c].op = "resolve" => Status(log, calls'[c].task) = "waiting"
  BY DEF SerialNext, OneAtATime, RuntimeStamps, ToolsWhileActive, ResolvesWhileWaiting, Starts
<1>2. ASSUME NEW c \in Calls, NEW t \in Tasks, CreateOpen(c, t) PROVE SerialInv'
  <2>1. /\ calls[c] = Idle /\ calls'[c].op = "create" /\ calls'[c].task = t /\ calls'[c].pc = "write"
        /\ \A d \in Calls : d # c => calls'[d] = calls[d]
    BY <1>0, <1>2 DEF CreateOpen, Begin, Idle
  <2>2. \A i \in DOMAIN log : log[i].task = t => log[i].kind = "task_created"
    BY <1>2 DEF CreateOpen, SerialInv, FilesFirst
  <2>3. log' = log /\ clock' = clock /\ \A u \in Tasks : u # t => spec'[u] = spec[u]
    BY <1>0, <1>2 DEF CreateOpen
  <2>4. calls'[c] # Idle
    BY <1>0, <2>1
  <2>5. QED BY <1>0, <1>1, <2>1, <2>2, <2>3, <2>4, SerialBegins DEF Guarded
<1>3. ASSUME NEW c \in Calls, CreateWrite(c) PROVE SerialInv'
  <2>1. /\ calls[c].op = "create" /\ calls'[c].op = "create" /\ calls'[c].task = calls[c].task
        /\ \A d \in Calls : d # c => calls'[d] = calls[d]
    BY <1>0, <1>3 DEF CreateWrite, CallStates, Shaped
  <2>2. \A i \in DOMAIN log : log[i].task = calls[c].task => log[i].kind = "task_created"
    BY <2>1 DEF SerialInv, FilesFirst
  <2>3. log' = log /\ clock' \in Nat /\ clock <= clock'
        /\ \A u \in Tasks : u # calls[c].task => spec'[u] = spec[u]
    BY <1>0, <1>3 DEF CreateWrite, Now
  <2>4. \A d \in Calls : d # c => calls[d] = Idle
    BY <1>0, <2>1 DEF SerialInv, OneCall
  <2>5. calls[c] # Idle
    BY <1>0, <2>1
  <2>6. QED BY <1>0, <1>1, <2>1, <2>2, <2>3, <2>4, <2>5, SerialFrame
<1>4. ASSUME NEW c \in Calls, CreateWriteFails(c) PROVE SerialInv'
  <2>1. /\ calls[c].op = "create" /\ calls'[c].op = calls[c].op /\ calls'[c].task = calls[c].task
        /\ \A d \in Calls : d # c => calls'[d] = calls[d]
    BY <1>0, <1>4 DEF CreateWriteFails, CallStates, Shaped
  <2>2. log' = log /\ clock' = clock /\ spec' = spec
    BY <1>4 DEF CreateWriteFails
  <2>3. calls[c] # Idle
    BY <1>0, <2>1
  <2>4. QED BY <1>0, <1>1, <2>1, <2>2, <2>3, SerialFrame
<1>5. ASSUME NEW c \in Calls, CreateRemove(c) PROVE SerialInv'
  <2>1. calls[c].op = "create" /\ calls'[c] = Idle /\ \A d \in Calls : d # c => calls'[d] = calls[d]
    BY <1>0, <1>5 DEF CreateRemove, Return, Shaped
  <2>2. \A i \in DOMAIN log : log[i].task = calls[c].task => log[i].kind = "task_created"
    BY <2>1 DEF SerialInv, FilesFirst
  <2>3. log' = log /\ clock' = clock /\ \A u \in Tasks : u # calls[c].task => spec'[u] = spec[u]
    BY <1>0, <1>5 DEF CreateRemove
  <2>4. \A d \in Calls : calls'[d] = Idle
    BY <1>0, <2>1 DEF SerialInv, OneCall
  <2>5. QED BY <1>0, <1>1, <2>1, <2>2, <2>3, <2>4, SerialFrame
<1>6. ASSUME NEW c \in Calls, NEW t \in Tasks, NEW op \in Guarded, Read(c, op, t) PROVE SerialInv'
  <2>1. /\ calls[c] = Idle /\ calls'[c].op = op /\ calls'[c].task = t /\ calls'[c].pc = "decide"
        /\ \A d \in Calls : d # c => calls'[d] = calls[d]
    BY <1>0, <1>6 DEF Read, Begin, Idle
  <2>2. op \notin {"create", "tool", "resolve"}
    BY DEF Guarded
  <2>3. /\ log' = log /\ clock' = clock /\ spec' = spec /\ spec[t] = "written"
        /\ CanMove(Status(log, t), Target[op])
    BY <1>6 DEF Read
  <2>4. calls'[c] # Idle
    BY <1>0, <2>1
  <2>5. QED BY <1>0, <1>1, <2>1, <2>2, <2>3, <2>4, SerialBegins
<1>7. ASSUME NEW c \in Calls, Decide(c) PROVE SerialInv'
  <2>1. /\ calls'[c].op = calls[c].op /\ calls'[c].task = calls[c].task
        /\ \A d \in Calls : d # c => calls'[d] = calls[d]
    BY <1>7, Decided
  <2>2. log' = log /\ clock' \in Nat /\ clock <= clock' /\ spec' = spec
    BY <1>0, <1>7 DEF Decide, Now
  <2>3. calls[c] # Idle
    BY <1>0, <1>7 DEF Decide
  <2>4. QED BY <1>0, <1>1, <2>1, <2>2, <2>3, SerialFrame
<1>8. ASSUME NEW c \in Calls, Refuse(c) PROVE SerialInv'
  <2>1. calls'[c] = Idle /\ \A d \in Calls : d # c => calls'[d] = calls[d]
    BY <1>0, <1>8 DEF Refuse, Return
  <2>2. log' = log /\ clock' = clock /\ spec' = spec
    BY <1>8 DEF Refuse
  <2>3. QED BY <1>0, <1>1, <2>1, <2>2, SerialFrame
<1>9. ASSUME NEW c \in Calls, NEW t \in Tasks, RequestApproval(c, t) PROVE SerialInv'
  <2>1. /\ calls[c] = Idle /\ calls'[c].op = "tool" /\ calls'[c].task = t
        /\ \A d \in Calls : d # c => calls'[d] = calls[d]
    BY <1>0, <1>9 DEF RequestApproval, Begin, Idle
  <2>2. log' = log /\ clock' \in Nat /\ clock <= clock' /\ spec' = spec
    BY <1>0, <1>9 DEF RequestApproval, Now
  <2>3. spec[t] = "written"
    <3>1. PICK i \in DOMAIN log : log[i].task = t /\ log[i].kind = "run_started"
      BY <1>9 DEF RequestApproval, StartedRuns, EventsOf
    <3>2. QED BY <3>1 DEF SerialInv, FilesFirst
  <2>4. calls'[c] # Idle /\ "tool" \notin Guarded
    BY <1>0, <2>1 DEF Guarded
  <2>5. QED BY <1>0, <1>1, <2>1, <2>2, <2>3, <2>4, SerialBegins
<1>10. ASSUME NEW c \in Calls, NEW a \in pending[Home[c]], ResolveApproval(c, a) PROVE SerialInv'
  <2>1. /\ calls[c] = Idle /\ calls'[c].op = "resolve" /\ calls'[c].task = a.task
        /\ \A d \in Calls : d # c => calls'[d] = calls[d]
    BY <1>0, <1>10 DEF ResolveApproval, Begin, Idle
  <2>2. log' = log /\ clock' \in Nat /\ clock <= clock' /\ spec' = spec
    BY <1>0, <1>10 DEF ResolveApproval, Now
  <2>3. spec[a.task] = "written"
    <3>1. PICK i \in DOMAIN log : log[i].kind = "task_waiting" /\ log[i].req = a.req
      BY <1>10 DEF ResolveApproval
    <3>2. log[i].task = a.task
      BY <1>0, <3>1 DEF ApprovalInv, PendingSound, WaitAt
    <3>3. QED BY <3>1, <3>2 DEF SerialInv, FilesFirst
  <2>4. calls'[c] # Idle /\ "resolve" \notin Guarded
    BY <1>0, <2>1 DEF Guarded
  <2>5. QED BY <1>0, <1>1, <2>1, <2>2, <2>3, <2>4, SerialBegins
<1>11. ASSUME NEW c \in Calls, AppendBatch(c) PROVE SerialInv'
  <2>1. /\ clock' = clock /\ spec' = spec /\ WriteBatch(c) /\ calls[c].pc = "append"
        /\ calls'[c] = Idle /\ \A d \in Calls : d # c => calls'[d] = calls[d]
    BY <1>0, <1>11 DEF AppendBatch, WriteBatch, Return
  <2>2. \A d \in Calls : calls'[d] = Idle
    BY <1>0, <2>1 DEF SerialInv, OneCall
  <2>3. /\ calls[c].task \in Tasks /\ calls[c].op \in Ops
        /\ \A i \in DOMAIN log' : (i \in DOMAIN log /\ log'[i] = log[i]) \/ log'[i].task = calls[c].task
    BY <2>1, Appended
  <2>4. LogSorted'
    BY <1>0, <2>1, <2>2, SortedAppend DEF SerialInv, LogSorted
  <2>5. spec[calls[c].task] = "written"
    <3>1. CASE calls[c].op = "create"
      BY <2>1, <2>3, <3>1 DEF CreateInv, Creating
    <3>2. CASE calls[c].op # "create"
      BY <2>3, <3>2 DEF SerialInv, FilesFirst, Ops, Guarded
    <3>3. QED BY <3>1, <3>2
  <2>6. FilesFirst'
    BY <1>0, <2>1, <2>2, <2>3, <2>5 DEF SerialInv, FilesFirst
  <2>7. OneCall' /\ GuardsHold'
    BY <1>0, <2>2 DEF OneCall, GuardsHold, Guarded
  <2>8. QED BY <2>4, <2>6, <2>7 DEF SerialInv
<1>12. ASSUME NEW c \in Calls, AppendFails(c) PROVE SerialInv'
  <2>1. /\ calls'[c] = Idle \/ (calls'[c].op = calls[c].op /\ calls'[c].task = calls[c].task)
        /\ \A d \in Calls : d # c => calls'[d] = calls[d]
    BY <1>0, <1>12 DEF AppendFails, Return, CallStates
  <2>2. log' = log /\ clock' = clock /\ spec' = spec
    BY <1>12 DEF AppendFails
  <2>3. calls[c] # Idle
    BY <1>0, <1>12 DEF AppendFails
  <2>4. QED BY <1>0, <1>1, <2>1, <2>2, <2>3, SerialFrame
<1>13. ASSUME NEW p \in Procs, Crash(p) PROVE SerialInv'
  <2>1. \A d \in Calls : calls'[d] = Idle \/ calls'[d] = calls[d]
    BY <1>13 DEF Crash
  <2>2. log' = log /\ clock' = clock /\ spec' = spec
    BY <1>13 DEF Crash
  <2>3. QED BY <1>0, <1>1, <2>1, <2>2, SerialFrame
<1>14. ASSUME NEW c \in Calls, CreateFailsLate(c) PROVE SerialInv'
  <2>1. /\ clock' = clock /\ spec' = spec /\ WriteBatch(c) /\ calls[c].pc = "append"
        /\ calls[c].op = "create" /\ calls'[c].op = "create" /\ calls'[c].pc = "remove"
        /\ calls'[c].task = calls[c].task /\ \A d \in Calls : d # c => calls'[d] = calls[d]
    BY <1>0, <1>14 DEF CreateFailsLate, WriteBatch, CallStates
  <2>2. \A d \in Calls : d # c => calls'[d] = Idle
    BY <1>0, <2>1 DEF SerialInv, OneCall
  <2>3. \A i \in DOMAIN log' : (i \in DOMAIN log /\ log'[i] = log[i]) \/ log'[i].kind = "task_created"
    BY <2>1, Appended
  <2>4. LogSorted'
    BY <1>0, <2>1, <2>2, SortedAppend DEF SerialInv, LogSorted
  <2>5. FilesFirst'
    BY <1>0, <2>1, <2>2, <2>3 DEF SerialInv, FilesFirst
  <2>6. OneCall' /\ GuardsHold'
    BY <1>0, <2>1, <2>2 DEF OneCall, GuardsHold, Guarded
  <2>7. QED BY <2>4, <2>5, <2>6 DEF SerialInv
<1>16. ASSUME NEW c \in Calls, CreateCloseFails(c) PROVE SerialInv'
  <2>1. calls[c].op = "create" /\ calls'[c] = Idle /\ \A d \in Calls : d # c => calls'[d] = calls[d]
    BY <1>0, <1>16 DEF CreateCloseFails, Abandon, Return, Shaped
  <2>2. \A i \in DOMAIN log : log[i].task = calls[c].task => log[i].kind = "task_created"
    BY <2>1 DEF SerialInv, FilesFirst
  <2>3. log' = log /\ clock' = clock /\ \A u \in Tasks : u # calls[c].task => spec'[u] = spec[u]
    BY <1>0, <1>16 DEF CreateCloseFails, Abandon
  <2>4. \A d \in Calls : calls'[d] = Idle
    BY <1>0, <2>1 DEF SerialInv, OneCall
  <2>5. QED BY <1>0, <1>1, <2>1, <2>2, <2>3, <2>4, SerialFrame
<1>17. ASSUME NEW c \in Calls, CreateRemoveFails(c) PROVE SerialInv'
  <2>1. calls'[c] = Idle /\ \A d \in Calls : d # c => calls'[d] = calls[d]
    BY <1>0, <1>17 DEF CreateRemoveFails, Abandon, Return
  <2>2. log' = log /\ clock' = clock /\ spec' = spec
    BY <1>17 DEF CreateRemoveFails, Abandon
  <2>3. QED BY <1>0, <1>1, <2>1, <2>2, SerialFrame
<1>15. QED
  BY <1>2, <1>3, <1>4, <1>5, <1>6, <1>7, <1>8, <1>9, <1>10, <1>11, <1>12, <1>13, <1>14,
     <1>16, <1>17
  DEF SerialNext, Next, CreateStep, GuardedStep, ApprovalStep

LEMMA SerialFrozen ==
    ASSUME Typed, SerialInv, UNCHANGED vars
    PROVE  SerialInv'
<1>1. clock \in Nat
  BY DEF Typed, TypeOK
<1>2. \A c \in Calls : calls[c].pc = "append" => calls[c].ts = clock
  BY DEF SerialInv, LogSorted
<1>3. QED BY <1>1, <1>2, SerialFrame DEF vars

KernelInv == Typed /\ CreateInv /\ ApprovalInv /\ SerialInv

LEMMA SerialInductive == SerialSpec => []KernelInv
<1>1. Init => KernelInv
  BY TypedInit, CreateInit, ApprovalInit, SerialInit DEF KernelInv
<1>2. KernelInv /\ [SerialNext]_vars => KernelInv'
  <2> SUFFICES ASSUME KernelInv, [SerialNext]_vars PROVE KernelInv'
    OBVIOUS
  <2>1. [Next]_vars
    BY DEF SerialNext
  <2>2. Typed' /\ CreateInv' /\ ApprovalInv'
    BY <2>1, TypedNext, CreateNext, ApprovalNext DEF KernelInv
  <2>3. SerialInv'
    BY SerialKept, SerialFrozen DEF KernelInv
  <2>4. QED BY <2>2, <2>3 DEF KernelInv
<1>3. QED BY <1>1, <1>2, PTL DEF SerialSpec

-----------------------------------------------------------------------------
(* The log implements the life cycle *)

\* The log changes only where a call appends to it.
LEMMA OnlyAppends ==
    Next => log' = log \/ \E c \in Calls : WriteBatch(c)
BY DEF Next, CreateStep, GuardedStep, ApprovalStep, CreateOpen, CreateWrite, CreateWriteFails,
       CreateCloseFails, CreateRemove, CreateRemoveFails, Abandon, Read, Decide, Refuse, RequestApproval, ResolveApproval, AppendBatch, AppendFails,
       CreateFailsLate, Crash

\* A call that appends had a right to the status it sets, unless it is a creation,
\* which sets the status a task has that has at most been created.
LEMMA AppendIsLegal ==
    ASSUME KernelInv, NEW c \in Calls, WriteBatch(c)
    PROVE  /\ calls[c].task \in Tasks /\ Wanted(calls[c]) \in Statuses
           /\ \/ CanMove(Status(log, calls[c].task), Wanted(calls[c]))
              \/ Status(log, calls[c].task) = Wanted(calls[c])
<1>1. calls[c].task \in Tasks /\ calls[c].op \in Ops
  BY Appended DEF KernelInv
<1>2. CASE calls[c].op \in Guarded
  <2>1. Wanted(calls[c]) = Target[calls[c].op]
    BY <1>2 DEF Wanted, Guarded
  <2>2. CanMove(Status(log, calls[c].task), Wanted(calls[c]))
    BY <1>2, <2>1 DEF KernelInv, SerialInv, GuardsHold
  <2>3. Wanted(calls[c]) \in Statuses
    BY <1>2, <2>1 DEF Guarded, Target, Statuses
  <2>4. QED BY <1>1, <2>2, <2>3
<1>3. CASE calls[c].op = "create"
  <2>1. \A i \in EventsOf(log, calls[c].task) : log[i].kind = "task_created"
    BY <1>3 DEF KernelInv, SerialInv, FilesFirst, EventsOf
  <2>2. log \in Seq(Events) /\ \A i \in DOMAIN log : log[i].ts \in Nat
    BY LogEvents DEF KernelInv, Typed, TypeOK
  <2>3. Status(log, calls[c].task) = "ready"
    BY <2>1, <2>2, StatusOfCreated
  <2>4. QED BY <1>1, <1>3, <2>3 DEF Wanted, Guarded, Statuses
<1>4. CASE calls[c].op = "tool"
  BY <1>1, <1>4 DEF KernelInv, SerialInv, GuardsHold, Wanted, Guarded, Statuses, CanMove, AllowedTransitions
<1>5. CASE calls[c].op = "resolve"
  BY <1>1, <1>5 DEF KernelInv, SerialInv, GuardsHold, Wanted, Guarded, Statuses, CanMove, AllowedTransitions
<1>6. QED BY <1>1, <1>2, <1>3, <1>4, <1>5 DEF Ops

LEMMA StepImplements ==
    ASSUME KernelInv, KernelInv', [SerialNext]_vars, WithinPage'
    PROVE  LegalStep /\ EffectStep
<1>1. CASE log' = log
  BY <1>1 DEF LegalStep, EffectStep, StatusMap
<1>2. ASSUME NEW c \in Calls, WriteBatch(c) PROVE LegalStep /\ EffectStep
  <2> DEFINE t == calls[c].task
  <2>1. t \in Tasks /\ Wanted(calls[c]) \in Statuses
        /\ (CanMove(Status(log, t), Wanted(calls[c])) \/ Status(log, t) = Wanted(calls[c]))
    BY <1>2, AppendIsLegal
  <2>2. Cardinality(EventsOf(log', t)) <= ReplayLimit
    BY <2>1 DEF WithinPage
  <2>3. Status(log', t) = Wanted(calls[c])
    BY <1>2, <2>2, EffectSeen DEF KernelInv, SerialInv
  <2>4. \A u \in Tasks : u # t => Status(log', u) = Status(log, u)
    <3>1. log \in Seq(Events) /\ \A i \in DOMAIN log : log[i].ts \in Nat
      BY LogEvents DEF KernelInv, Typed, TypeOK
    <3>2. QED BY <1>2, <3>1, OthersUntouched, StatusDepends DEF KernelInv
  <2>5. LegalStep
    <3>1. CASE Status(log, t) = Wanted(calls[c])
      <4>1. \A u \in Tasks : Status(log', u) = Status(log, u)
        BY <2>3, <2>4, <3>1
      <4>2. QED BY <4>1 DEF LegalStep, StatusMap
    <3>2. CASE CanMove(Status(log, t), Wanted(calls[c]))
      <4> PICK u \in Tasks, to \in Statuses : u = t /\ to = Wanted(calls[c])
        BY <2>1
      <4>1. StatusMap' = [StatusMap EXCEPT ![u] = to]
        BY <2>3, <2>4 DEF StatusMap
      <4>2. StatusMap[u] = Status(log, u)
        BY DEF StatusMap
      <4>3. QED BY <3>2, <4>1, <4>2 DEF LegalStep
    <3>3. QED BY <2>1, <3>1, <3>2
  <2>6. EffectStep
    <3>1. ASSUME NEW d \in Calls, calls[d].pc = "append" PROVE d = c
      <4>1. calls[c] # Idle /\ calls[d] # Idle
        BY <1>2, <3>1, IdleFacts DEF WriteBatch
      <4>2. QED BY <4>1 DEF KernelInv, SerialInv, OneCall
    <3>2. QED BY <2>3, <3>1 DEF EffectStep
  <2>7. QED BY <2>5, <2>6
<1>3. CASE UNCHANGED vars
  BY <1>1, <1>3 DEF vars
<1>4. QED BY <1>1, <1>2, <1>3, OnlyAppends DEF SerialNext

\* The projected statuses move along the life cycle table (ImplementsLifecycle).
THEOREM SerialImplements == SerialSpec => ImplementsLifecycle
<1>1. KernelInv /\ KernelInv' /\ [SerialNext]_vars => [WithinPage' => LegalStep]_vars
  BY StepImplements
<1>2. QED BY <1>1, SerialInductive, PTL DEF SerialSpec, ImplementsLifecycle

\* A call that has appended is seen to have set its status (EffectIsSeen).
THEOREM SerialEffects == SerialSpec => EffectIsSeen
<1>1. KernelInv /\ KernelInv' /\ [SerialNext]_vars => [WithinPage' => EffectStep]_vars
  BY StepImplements
<1>2. QED BY <1>1, SerialInductive, PTL DEF SerialSpec, EffectIsSeen

\* While no task outgrows a page, the kernel refines the abstract life cycle
\* (RefinesLifecycle).
THEOREM SerialRefines == SerialSpec /\ []WithinPage => RefinesLifecycle
<1>1. Init => Lifecycle!Init
  <2> SUFFICES ASSUME Init PROVE Lifecycle!Init
    OBVIOUS
  <2>1. \A t \in Tasks : EventsOf(log, t) = {}
    BY DEF Init, EventsOf
  <2>2. \A t \in Tasks : Status(log, t) = "ready"
    BY <2>1, StatusOfNone
  <2>3. QED BY <2>2 DEF Lifecycle!Init, StatusMap
<1>2. KernelInv /\ KernelInv' /\ [SerialNext]_vars /\ WithinPage' => [Lifecycle!Next]_StatusMap
  <2> SUFFICES ASSUME KernelInv, KernelInv', [SerialNext]_vars, WithinPage'
               PROVE  [Lifecycle!Next]_StatusMap
    OBVIOUS
  <2>1. LegalStep
    BY StepImplements
  <2>2. ASSUME NEW t \in Tasks, NEW to \in Statuses, CanMove(StatusMap[t], to),
               StatusMap' = [StatusMap EXCEPT ![t] = to]
        PROVE  Lifecycle!Next
    <3>1. to \in DOMAIN Lifecycle!Allowed
      BY DEF Statuses, Lifecycle!Allowed
    <3>2. to \in Lifecycle!Allowed[StatusMap[t]]
      BY <2>2 DEF CanMove, AllowedTransitions, Lifecycle!Allowed
    <3>3. QED BY <2>2, <3>1, <3>2 DEF Lifecycle!Next, Lifecycle!Move
  <2>3. QED BY <2>1, <2>2 DEF LegalStep
<1>3. QED BY <1>1, <1>2, SerialInductive, PTL DEF SerialSpec, RefinesLifecycle, Lifecycle!Spec
=============================================================================
