------------------------ MODULE TaskScheduler_proofs -------------------------
(***************************************************************************)
(* TaskScheduler for every set of tasks, lanes, priorities and limits.     *)
(***************************************************************************)
EXTENDS TaskScheduler, FiniteSetTheorems, TLAPS

Waiting(l) == {id \in TaskIds : dequeuedByTask[id] = l}

\* The entries in the queue came before the next one.
Numbered ==
    /\ \A e \in queue : e.sequence < sequenceCounter
    /\ \A l \in Lanes, p \in Priorities : outUpTo[l][p] <= sequenceCounter

\* The tasks handed out count with the active ones: the former were all handed
\* out while the latter were below the limit.
Reserved ==
    /\ Cardinality(HandedOut) <= peak
    /\ \A l \in Lanes : Limit[l] > 0 =>
          \/ activeByLane[l] + Cardinality(Waiting(l)) < Limit[l] + peak
          \/ activeByLane[l] + Cardinality(Waiting(l)) = 0

SchedulerInv == TypeOK /\ Numbered /\ Reserved /\ CountsMatch /\ FirstInFirstOut

-----------------------------------------------------------------------------
(* The sets that are counted *)

\* Every set of tasks that is counted is finite, so its size is a number.
LEMMA CountsAreNumbers ==
    ASSUME NEW S \in SUBSET TaskIds
    PROVE  IsFiniteSet(S) /\ Cardinality(S) \in Nat
<1>1. IsFiniteSet(S)
    BY SchedulerAssumption, FS_Subset
<1>2. QED BY <1>1, FS_CardinalityType

\* A set of tasks is not larger than one that contains it.
LEMMA CountsGrow ==
    ASSUME NEW S \in SUBSET TaskIds, NEW T \in SUBSET S
    PROVE  Cardinality(T) <= Cardinality(S)
<1>1. IsFiniteSet(S)
    BY CountsAreNumbers
<1>2. QED BY <1>1, FS_Subset

-----------------------------------------------------------------------------
(* The type invariant *)

LEMMA InitTypes == Init => TypeOK
<1>1. SUFFICES ASSUME Init PROVE TypeOK
    OBVIOUS
<1>2. outUpTo \in [Lanes -> [Priorities -> Nat]]
  <2>1. [p \in Priorities |-> 0] \in [Priorities -> Nat]
    OBVIOUS
  <2>2. QED BY <1>1, <2>1 DEF Init
<1>3. restarted \in BOOLEAN /\ queue \subseteq Entries
    BY <1>1 DEF Init
<1>4. /\ sequenceCounter \in Nat /\ peak \in Nat
      /\ activeByLane \in [Lanes -> Nat]
      /\ activeByTask \in [TaskIds -> Lanes \cup {NoLane}]
      /\ dequeuedByTask \in [TaskIds -> Lanes \cup {NoLane}]
    BY <1>1 DEF Init
<1>5. QED BY <1>2, <1>3, <1>4 DEF TypeOK

\* The scheduler's state keeps its types whatever its host calls.
THEOREM SchedulerTypes == Spec => []TypeOK
<1>1. Init => TypeOK
    BY InitTypes
<1>2. TypeOK /\ [Next]_vars => TypeOK'
  <2>0. SUFFICES ASSUME TypeOK, [Next]_vars PROVE TypeOK'
    OBVIOUS
  <2>1. ASSUME NEW id \in TaskIds, NEW l \in Lanes, NEW p \in Priorities, Enqueue(id, l, p)
        PROVE  TypeOK'
    BY <2>0, <2>1 DEF Enqueue, TypeOK, Entries
  <2>2. ASSUME Dequeue PROVE TypeOK'
    <3>1. PICK e \in queue :
             /\ queue' = queue \ {e}
             /\ dequeuedByTask' = [dequeuedByTask EXCEPT ![e.task_id] = e.lane_id]
             /\ peak' = IF Cardinality(HandedOut') > peak THEN Cardinality(HandedOut') ELSE peak
             /\ outUpTo' = [outUpTo EXCEPT ![e.lane_id][e.priority] = e.sequence + 1]
             /\ UNCHANGED <<sequenceCounter, activeByLane, activeByTask, restarted>>
      BY <2>2 DEF Dequeue
    <3>2. e \in Entries
      BY <2>0, <3>1 DEF TypeOK
    <3>3. Cardinality(HandedOut') \in Nat
      <4>1. HandedOut' \in SUBSET TaskIds
        BY DEF HandedOut
      <4>2. QED BY <4>1, CountsAreNumbers
    <3>4. outUpTo' \in [Lanes -> [Priorities -> Nat]]
      BY <2>0, <3>1, <3>2 DEF TypeOK, Entries
    <3>5. QED BY <2>0, <3>1, <3>2, <3>3, <3>4 DEF TypeOK, Entries
  <2>3. ASSUME NEW id \in TaskIds, MarkStarted(id) PROVE TypeOK'
    BY <2>0, <2>3 DEF MarkStarted, TypeOK
  <2>4. ASSUME NEW id \in TaskIds, MarkCompleted(id) PROVE TypeOK'
    BY <2>0, <2>4 DEF MarkCompleted, TypeOK
  <2>5. CASE UNCHANGED vars
    BY <2>0, <2>5 DEF vars, TypeOK
  <2>6. QED BY <2>0, <2>1, <2>2, <2>3, <2>4, <2>5 DEF Next
<1>3. QED BY <1>1, <1>2, PTL DEF Spec

-----------------------------------------------------------------------------
(* The invariant *)

LEMMA SchedulerInvHolds == Spec => []SchedulerInv
<1>1. Init => SchedulerInv
  <2>0. SUFFICES ASSUME Init PROVE SchedulerInv
    OBVIOUS
  <2>1. TypeOK
    BY <2>0, InitTypes
  <2>2. HandedOut = {} /\ \A l \in Lanes : Waiting(l) = {} /\ Active(l) = {}
    BY <2>0, SchedulerAssumption DEF Init, HandedOut, Waiting, Active
  <2>3. Cardinality({}) = 0
    BY FS_EmptySet
  <2>4. Numbered /\ FirstInFirstOut
    BY <2>0 DEF Init, Numbered, FirstInFirstOut
  <2>5. \A l \in Lanes : activeByLane[l] = 0
    BY <2>0 DEF Init
  <2>6. Cardinality(HandedOut) = 0 /\ \A l \in Lanes : Cardinality(Waiting(l)) = 0 /\ Cardinality(Active(l)) = 0
    BY <2>2, <2>3
  <2>7. Reserved
    BY <2>0, <2>5, <2>6 DEF Init, Reserved
  <2>8. CountsMatch
    BY <2>5, <2>6 DEF CountsMatch
  <2>9. QED BY <2>1, <2>4, <2>7, <2>8 DEF SchedulerInv
<1>2. TypeOK' /\ SchedulerInv /\ [Next]_vars => SchedulerInv'
  <2>0. SUFFICES ASSUME TypeOK', SchedulerInv, [Next]_vars PROVE SchedulerInv'
    OBVIOUS
  <2>c. /\ Cardinality(HandedOut) \in Nat /\ Cardinality(HandedOut') \in Nat
        /\ \A l \in Lanes : /\ Cardinality(Waiting(l)) \in Nat /\ Cardinality(Waiting(l)') \in Nat
                            /\ Cardinality(Active(l)) \in Nat /\ Cardinality(Active(l)') \in Nat
                            /\ IsFiniteSet(Waiting(l)) /\ IsFiniteSet(Active(l))
    BY CountsAreNumbers DEF HandedOut, Waiting, Active
  <2>t. TypeOK
    BY <2>0 DEF SchedulerInv
  <2>1. ASSUME NEW id \in TaskIds, NEW l \in Lanes, NEW p \in Priorities, Enqueue(id, l, p)
        PROVE  SchedulerInv'
    <3>1. Numbered'
      BY <2>0, <2>t, <2>1 DEF SchedulerInv, Numbered, Enqueue, TypeOK, Entries
    <3>2. FirstInFirstOut'
      BY <2>0, <2>t, <2>1 DEF SchedulerInv, Numbered, FirstInFirstOut, Enqueue, TypeOK, Entries
    <3>3. Reserved' /\ CountsMatch'
      BY <2>0, <2>1 DEF SchedulerInv, Reserved, CountsMatch, Enqueue, HandedOut, Waiting, Active
    <3>4. QED BY <2>0, <3>1, <3>2, <3>3 DEF SchedulerInv
  <2>2. ASSUME Dequeue PROVE SchedulerInv'
    <3>1. PICK e \in queue :
             /\ canStartInLane(e.lane_id)
             /\ \A f \in queue : canStartInLane(f.lane_id) => f = e \/ Sooner(e, f)
             /\ queue' = queue \ {e}
             /\ dequeuedByTask' = [dequeuedByTask EXCEPT ![e.task_id] = e.lane_id]
             /\ peak' = IF Cardinality(HandedOut') > peak THEN Cardinality(HandedOut') ELSE peak
             /\ outUpTo' = [outUpTo EXCEPT ![e.lane_id][e.priority] = e.sequence + 1]
             /\ UNCHANGED <<sequenceCounter, activeByLane, activeByTask, restarted>>
      BY <2>2 DEF Dequeue
    <3>2. e \in Entries
      BY <2>t, <3>1 DEF TypeOK
    <3>3. \A l \in Lanes, p \in Priorities :
             outUpTo'[l][p] = IF l = e.lane_id /\ p = e.priority THEN e.sequence + 1 ELSE outUpTo[l][p]
      BY <2>t, <3>1, <3>2 DEF TypeOK, Entries
    <3>4. Numbered'
      BY <2>0, <2>t, <3>1, <3>2, <3>3 DEF SchedulerInv, Numbered, TypeOK, Entries
    <3>5. FirstInFirstOut'
      <4>1. SUFFICES ASSUME NEW f \in queue, f # e
                     PROVE  f.sequence >= outUpTo'[f.lane_id][f.priority]
        BY <3>1 DEF FirstInFirstOut
      <4>2. f \in Entries
        BY <2>t DEF TypeOK
      <4>3. CASE f.lane_id = e.lane_id /\ f.priority = e.priority
        <5>1. Sooner(e, f)
          BY <3>1, <4>1, <4>3
        <5>2. e.sequence < f.sequence
          <6>1. e.priority \in Nat
            BY <3>2, SchedulerAssumption DEF Entries
          <6>2. QED BY <4>3, <5>1, <6>1 DEF Sooner
        <5>3. QED BY <3>2, <3>3, <4>2, <4>3, <5>2 DEF Entries
      <4>4. CASE ~(f.lane_id = e.lane_id /\ f.priority = e.priority)
        BY <2>0, <3>3, <4>2, <4>4 DEF SchedulerInv, FirstInFirstOut, Entries
      <4>5. QED BY <4>3, <4>4
    <3>6. Reserved'
      <4>1. peak' >= peak /\ peak' >= Cardinality(HandedOut')
        BY <2>c, <2>t, <3>1 DEF TypeOK
      <4>n. /\ peak \in Nat /\ peak' \in Nat
            /\ \A l \in Lanes : /\ Limit[l] \in Nat /\ activeByLane[l] \in Nat /\ activeByLane'[l] = activeByLane[l]
                                /\ Cardinality(Waiting(l)) \in Nat /\ Cardinality(Waiting(l)') \in Nat
            /\ Cardinality(HandedOut') \in Nat
        BY <2>c, <2>t, <2>0, <3>1, SchedulerAssumption DEF TypeOK
      <4>2. ASSUME NEW l \in Lanes, Limit[l] > 0
            PROVE  \/ activeByLane'[l] + Cardinality(Waiting(l)') < Limit[l] + peak'
                   \/ activeByLane'[l] + Cardinality(Waiting(l)') = 0
        <5>1. CASE l = e.lane_id
          <6>1. activeByLane[l] < Limit[l]
            BY <3>1, <4>2, <5>1, SchedulerAssumption DEF canStartInLane
          <6>2. Waiting(l)' \in SUBSET HandedOut' /\ HandedOut' \in SUBSET TaskIds
            BY SchedulerAssumption DEF Waiting, HandedOut
          <6>3. Cardinality(Waiting(l)') <= Cardinality(HandedOut')
            BY <6>2, CountsGrow
          <6>4. QED BY <4>n, <4>1, <6>1, <6>3
        <5>2. CASE l # e.lane_id
          <6>1. Waiting(l)' \in SUBSET Waiting(l) /\ Waiting(l) \in SUBSET TaskIds
            BY <2>t, <3>1, <3>2, <5>2 DEF Waiting, TypeOK, Entries
          <6>2. Cardinality(Waiting(l)') <= Cardinality(Waiting(l))
            BY <6>1, CountsGrow
          <6>3. \/ activeByLane[l] + Cardinality(Waiting(l)) < Limit[l] + peak
                \/ activeByLane[l] + Cardinality(Waiting(l)) = 0
            BY <2>0, <4>2 DEF SchedulerInv, Reserved
          <6>4. QED BY <4>n, <4>1, <6>2, <6>3
        <5>3. QED BY <5>1, <5>2
      <4>3. QED BY <4>1, <4>2 DEF Reserved
    <3>7. CountsMatch'
      BY <2>0, <3>1 DEF SchedulerInv, CountsMatch, Active
    <3>8. QED BY <2>0, <3>4, <3>5, <3>6, <3>7 DEF SchedulerInv
  <2>3. ASSUME NEW id \in TaskIds, MarkStarted(id) PROVE SchedulerInv'
    <3> DEFINE k == dequeuedByTask[id]
    <3>1. /\ k \in Lanes
          /\ activeByLane' = [activeByLane EXCEPT ![k] = @ + 1]
          /\ activeByTask' = [activeByTask EXCEPT ![id] = k]
          /\ dequeuedByTask' = [dequeuedByTask EXCEPT ![id] = NoLane]
          /\ restarted' = (restarted \/ activeByTask[id] # NoLane)
          /\ UNCHANGED <<queue, sequenceCounter, peak, outUpTo>>
      BY <2>t, <2>3 DEF MarkStarted, TypeOK
    <3>2. Numbered' /\ FirstInFirstOut'
      BY <2>0, <3>1 DEF SchedulerInv, Numbered, FirstInFirstOut
    <3>3. Reserved'
      <4>1. HandedOut' \in SUBSET HandedOut /\ HandedOut \in SUBSET TaskIds
        BY <2>t, <3>1 DEF HandedOut, TypeOK
      <4>2. Cardinality(HandedOut') <= peak'
        <5>1. Cardinality(HandedOut') <= Cardinality(HandedOut)
          BY <4>1, CountsGrow
        <5>2. QED BY <2>0, <2>c, <2>t, <3>1, <5>1 DEF SchedulerInv, Reserved, TypeOK
      <4>3. ASSUME NEW l \in Lanes
            PROVE  activeByLane'[l] + Cardinality(Waiting(l)') = activeByLane[l] + Cardinality(Waiting(l))
        <5>1. Waiting(l)' = Waiting(l) \ {id}
          BY <2>t, <3>1, SchedulerAssumption DEF Waiting, TypeOK
        <5>2. Cardinality(Waiting(l)') =
                 IF id \in Waiting(l) THEN Cardinality(Waiting(l)) - 1 ELSE Cardinality(Waiting(l))
          BY <2>c, <5>1, FS_RemoveElement
        <5>3. id \in Waiting(l) <=> l = k
          BY DEF Waiting
        <5>4. activeByLane'[l] = IF l = k THEN activeByLane[l] + 1 ELSE activeByLane[l]
          BY <2>t, <3>1 DEF TypeOK
        <5>5. QED BY <2>c, <2>t, <5>2, <5>3, <5>4 DEF TypeOK
      <4>4. QED BY <2>0, <3>1, <4>2, <4>3 DEF SchedulerInv, Reserved
    <3>4. CountsMatch'
      <4>1. SUFFICES ASSUME NEW l \in Lanes
                     PROVE  /\ activeByLane'[l] >= Cardinality(Active(l)')
                            /\ ~restarted' => activeByLane'[l] = Cardinality(Active(l)')
        BY DEF CountsMatch
      <4>2. /\ activeByLane[l] >= Cardinality(Active(l))
            /\ ~restarted => activeByLane[l] = Cardinality(Active(l))
        BY <2>0 DEF SchedulerInv, CountsMatch
      <4>3. CASE l = k
        <5>1. Active(l)' = Active(l) \cup {id}
          BY <2>t, <3>1, <4>3 DEF Active, TypeOK
        <5>2. Cardinality(Active(l)') =
                 IF id \in Active(l) THEN Cardinality(Active(l)) ELSE Cardinality(Active(l)) + 1
          BY <2>c, <5>1, FS_AddElement
        <5>3. activeByLane'[l] = activeByLane[l] + 1
          BY <2>t, <3>1, <4>3 DEF TypeOK
        <5>4. id \in Active(l) => restarted'
          BY <3>1, SchedulerAssumption DEF Active
        <5>5. restarted => restarted'
          BY <3>1
        <5>6. QED BY <2>c, <2>t, <4>2, <5>2, <5>3, <5>4, <5>5 DEF TypeOK
      <4>4. CASE l # k
        <5>1. Active(l)' = Active(l) \ {id}
          BY <2>t, <3>1, <4>4 DEF Active, TypeOK
        <5>2. Cardinality(Active(l)') =
                 IF id \in Active(l) THEN Cardinality(Active(l)) - 1 ELSE Cardinality(Active(l))
          BY <2>c, <5>1, FS_RemoveElement
        <5>3. activeByLane'[l] = activeByLane[l]
          BY <2>t, <3>1, <4>4 DEF TypeOK
        <5>4. id \in Active(l) => restarted'
          BY <3>1, SchedulerAssumption DEF Active
        <5>5. restarted => restarted'
          BY <3>1
        <5>6. QED BY <2>c, <2>t, <4>2, <5>2, <5>3, <5>4, <5>5 DEF TypeOK
      <4>5. QED BY <4>3, <4>4
    <3>5. QED BY <2>0, <3>2, <3>3, <3>4 DEF SchedulerInv
  <2>4. ASSUME NEW id \in TaskIds, MarkCompleted(id) PROVE SchedulerInv'
    <3> DEFINE k == activeByTask[id]
    <3>1. /\ k \in Lanes
          /\ activeByTask' = [activeByTask EXCEPT ![id] = NoLane]
          /\ activeByLane' = [activeByLane EXCEPT ![k] = IF @ > 0 THEN @ - 1 ELSE 0]
          /\ UNCHANGED <<queue, sequenceCounter, dequeuedByTask, peak, restarted, outUpTo>>
      BY <2>t, <2>4 DEF MarkCompleted, TypeOK
    <3>2. Numbered' /\ FirstInFirstOut'
      BY <2>0, <3>1 DEF SchedulerInv, Numbered, FirstInFirstOut
    <3>3. ASSUME NEW l \in Lanes
          PROVE  activeByLane'[l] = IF l = k /\ activeByLane[l] > 0 THEN activeByLane[l] - 1 ELSE activeByLane[l]
      BY <2>t, <3>1, <3>3 DEF TypeOK
    <3>4. Reserved'
      <4>1. HandedOut' = HandedOut /\ \A l \in Lanes : Waiting(l)' = Waiting(l)
        BY <3>1 DEF HandedOut, Waiting
      <4>2. \A l \in Lanes : activeByLane[l] \in Nat /\ activeByLane'[l] \in Nat /\ activeByLane'[l] <= activeByLane[l]
        BY <2>t, <2>0, <3>3 DEF TypeOK
      <4>3. peak \in Nat /\ peak' = peak
        BY <2>t, <3>1 DEF TypeOK
      <4>4. QED BY <2>0, <2>c, <4>1, <4>2, <4>3, SchedulerAssumption DEF SchedulerInv, Reserved
    <3>5. CountsMatch'
      <4>1. SUFFICES ASSUME NEW l \in Lanes
                     PROVE  /\ activeByLane'[l] >= Cardinality(Active(l)')
                            /\ ~restarted' => activeByLane'[l] = Cardinality(Active(l)')
        BY DEF CountsMatch
      <4>2. /\ activeByLane[l] >= Cardinality(Active(l))
            /\ ~restarted => activeByLane[l] = Cardinality(Active(l))
        BY <2>0 DEF SchedulerInv, CountsMatch
      <4>3. Active(l)' = Active(l) \ {id}
        BY <2>t, <3>1, SchedulerAssumption DEF Active, TypeOK
      <4>4. id \in Active(l) <=> l = k
        BY DEF Active
      <4>5. Cardinality(Active(l)') =
               IF l = k THEN Cardinality(Active(l)) - 1 ELSE Cardinality(Active(l))
        BY <2>c, <4>3, <4>4, FS_RemoveElement
      <4>6. QED BY <2>c, <2>t, <3>1, <3>3, <4>2, <4>5 DEF TypeOK
    <3>6. QED BY <2>0, <3>2, <3>4, <3>5 DEF SchedulerInv
  <2>5. CASE UNCHANGED vars
    BY <2>0, <2>5 DEF vars, SchedulerInv, TypeOK, Numbered, Reserved, CountsMatch, FirstInFirstOut,
                      HandedOut, Waiting, Active
  <2>6. QED BY <2>0, <2>1, <2>2, <2>3, <2>4, <2>5 DEF Next
<1>3. QED BY <1>1, <1>2, SchedulerTypes, PTL DEF Spec

-----------------------------------------------------------------------------
(* What it says *)

\* The counts of active tasks are right as long as no task is started twice,
\* and never too low.
THEOREM CountsAreRight == Spec => []CountsMatch
<1>1. SchedulerInv => CountsMatch
    BY DEF SchedulerInv
<1>2. QED BY <1>1, SchedulerInvHolds, PTL

\* A lane goes over its limit only by tasks that were handed out at once.
THEOREM OverrunIsBounded == Spec => []OverrunBounded
<1>1. SchedulerInv => OverrunBounded
  <2>1. SUFFICES ASSUME SchedulerInv, NEW l \in Lanes, Limit[l] > 0
                 PROVE  activeByLane[l] < Limit[l] + peak \/ activeByLane[l] = 0
    BY DEF OverrunBounded
  <2>2. Cardinality(Waiting(l)) \in Nat
    BY CountsAreNumbers DEF Waiting
  <2>3. QED BY <2>1, <2>2, SchedulerAssumption DEF SchedulerInv, Reserved, TypeOK
<1>2. QED BY <1>1, SchedulerInvHolds, PTL

\* A lane's tasks of one priority leave the queue in the order they came.
THEOREM OrderIsKept == Spec => []FirstInFirstOut
<1>1. SchedulerInv => FirstInFirstOut
    BY DEF SchedulerInv
<1>2. QED BY <1>1, SchedulerInvHolds, PTL
=============================================================================
