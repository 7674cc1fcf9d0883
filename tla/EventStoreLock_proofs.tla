------------------------ MODULE EventStoreLock_proofs ------------------------
(***************************************************************************)
(* The event store's lock, for every number of processes, appends, retries, *)
(* crashes and failures.                                                   *)
(***************************************************************************)
EXTENDS EventStoreLock, TLAPS

InFlight(c) == calls[c].pc # "idle"

\* An append in flight is its process's and has a number of its own, smaller
\* than those to come; one that looks at the lock has an attempt left.
Numbered ==
    /\ begun <= MaxBatches
    /\ \A c \in Calls : ~InFlight(c) => calls[c] = Idle
    /\ \A c \in Calls : InFlight(c) => calls[c].batch \in 1..begun /\ Home[c] \in alive
    /\ \A c, d \in Calls : InFlight(c) /\ InFlight(d) /\ calls[c].batch = calls[d].batch => c = d
    /\ \A c \in Calls : calls[c].pc \in {"inspect", "remove"} => calls[c].tries < MaxRetries

Typed == TypeOK /\ Numbered

LEMMA GotoFacts ==
    ASSUME TypeOK, NEW c \in Calls, NEW pc \in PcValues, Goto(c, pc)
    PROVE  /\ calls' \in [Calls -> [pc : PcValues, batch : Nat, tries : 0..MaxRetries]]
           /\ calls'[c].pc = pc /\ calls'[c].batch = calls[c].batch /\ calls'[c].tries = calls[c].tries
           /\ \A d \in Calls : d # c => calls'[d] = calls[d]
BY DEF TypeOK, Goto

LEMMA FinishFacts ==
    ASSUME TypeOK, NEW c \in Calls, Finish(c)
    PROVE  /\ calls' \in [Calls -> [pc : PcValues, batch : Nat, tries : 0..MaxRetries]]
           /\ calls'[c] = Idle /\ calls'[c].pc = "idle"
           /\ \A d \in Calls : d # c => calls'[d] = calls[d]
<1>1. Idle \in [pc : PcValues, batch : Nat, tries : 0..MaxRetries] /\ Idle.pc = "idle"
  BY LockAssumption DEF Idle, PcValues
<1>2. QED BY <1>1 DEF TypeOK, Finish

LEMMA RetryFacts ==
    ASSUME TypeOK, NEW c \in Calls, Retry(c), calls[c].tries < MaxRetries
    PROVE  /\ calls' \in [Calls -> [pc : PcValues, batch : Nat, tries : 0..MaxRetries]]
           /\ calls'[c].pc = "open" /\ calls'[c].batch = calls[c].batch
           /\ calls'[c].tries = calls[c].tries + 1
           /\ \A d \in Calls : d # c => calls'[d] = calls[d]
<1>1. calls \in [Calls -> [pc : PcValues, batch : Nat, tries : 0..MaxRetries]]
  BY DEF TypeOK
<1>2. calls[c].tries + 1 \in 0..MaxRetries /\ "open" \in PcValues
  BY <1>1, LockAssumption DEF PcValues
<1>3. QED BY <1>1, <1>2 DEF Retry

\* A step of an append that stays in flight.
LEMMA NumberedStays ==
    ASSUME Numbered, NEW c \in Calls, InFlight(c), calls'[c].pc # "idle",
           calls'[c].batch = calls[c].batch, \A d \in Calls : d # c => calls'[d] = calls[d],
           calls'[c].pc \in {"inspect", "remove"} => calls'[c].tries < MaxRetries,
           begun' = begun, alive' = alive
    PROVE  Numbered'
<1>1. \A d \in Calls : /\ InFlight(d)' <=> InFlight(d)
                      /\ calls'[d].batch = calls[d].batch
  BY DEF InFlight
<1>2. \A d \in Calls : ~InFlight(d)' => calls'[d] = Idle
  BY <1>1 DEF Numbered
<1>3. \A d \in Calls : InFlight(d)' => calls'[d].batch \in 1..begun' /\ Home[d] \in alive'
  BY <1>1 DEF Numbered
<1>4. \A d, e \in Calls : InFlight(d)' /\ InFlight(e)' /\ calls'[d].batch = calls'[e].batch => d = e
  BY <1>1 DEF Numbered
<1>5. \A d \in Calls : calls'[d].pc \in {"inspect", "remove"} => calls'[d].tries < MaxRetries
  BY DEF Numbered
<1>6. QED BY <1>2, <1>3, <1>4, <1>5 DEF Numbered

\* A step of one append: the others' calls stay, it keeps its batch or ends.
LEMMA TypedNext == Typed /\ [Next]_vars => Typed'
<1> SUFFICES ASSUME Typed, [Next]_vars PROVE Typed'
  OBVIOUS
<1>0. /\ TypeOK /\ Numbered /\ begun \in Nat /\ failures \in Nat /\ log \in Seq(Nat) /\ lock.batch \in Nat
      /\ \A c \in Calls : Home[c] \in Procs /\ calls[c].batch \in Nat /\ calls[c].tries \in 0..MaxRetries
      /\ MaxBatches \in Nat /\ MaxRetries \in Nat /\ 0 < MaxRetries
      /\ Idle.pc = "idle"
  BY LockAssumption DEF Typed, TypeOK, Idle
<1>1. ASSUME NEW c \in Calls, Begin(c) PROVE Typed'
  <2> DEFINE new == [pc |-> "open", batch |-> begun + 1, tries |-> 0]
  <2>1. new \in [pc : PcValues, batch : Nat, tries : 0..MaxRetries]
    BY <1>0 DEF PcValues
  <2>2. calls' = [calls EXCEPT ![c] = new]
    BY <1>1 DEF Begin
  <2>3. new.pc = "open" /\ new.batch = begun + 1
    OBVIOUS
  <2> HIDE DEF new
  <2>4. /\ calls' \in [Calls -> [pc : PcValues, batch : Nat, tries : 0..MaxRetries]]
        /\ calls'[c].pc = "open" /\ calls'[c].batch = begun + 1
        /\ \A d \in Calls : d # c => calls'[d] = calls[d]
    BY <1>0, <2>1, <2>2, <2>3 DEF TypeOK
  <2>5. begun' = begun + 1 /\ begun + 1 \in 1..begun' /\ begun' \in Nat /\ begun' <= MaxBatches
        /\ (\A n \in 1..begun : n \in 1..begun' /\ n # begun + 1)
    BY <1>0, <1>1 DEF Begin
  <2>6. foundDead' \in [Calls -> Nat]
    BY <1>0, <1>1 DEF Begin, TypeOK
  <2>7. TypeOK'
    BY <1>1, <2>4, <2>5, <2>6, <1>0 DEF TypeOK, Begin
  <2>8. Numbered'
    BY <1>1, <2>4, <2>5, <1>0 DEF Numbered, InFlight, Begin
  <2>9. QED BY <2>7, <2>8 DEF Typed
<1>2. ASSUME NEW c \in Calls, Open(c) PROVE Typed'
  <2>1. calls' \in [Calls -> [pc : PcValues, batch : Nat, tries : 0..MaxRetries]]
        /\ calls'[c].pc = "stamp" /\ calls'[c].batch = calls[c].batch
        /\ \A d \in Calls : d # c => calls'[d] = calls[d]
    BY <1>0, <1>2, GotoFacts DEF Open, PcValues
  <2>2. TypeOK'
    BY <1>0, <1>2, <2>1 DEF TypeOK, Open
  <2>3. Numbered'
    BY <1>0, <1>2, <2>1, NumberedStays DEF InFlight, Open, At
  <2>4. QED BY <2>2, <2>3 DEF Typed
<1>3. ASSUME NEW c \in Calls, OpenBusy(c) PROVE Typed'
  <2>1. CASE calls[c].tries < MaxRetries
    <3>1. /\ calls' \in [Calls -> [pc : PcValues, batch : Nat, tries : 0..MaxRetries]]
          /\ calls'[c].pc = "inspect" /\ calls'[c].batch = calls[c].batch
          /\ calls'[c].tries = calls[c].tries
          /\ \A d \in Calls : d # c => calls'[d] = calls[d]
      BY <1>0, <1>3, <2>1, GotoFacts DEF OpenBusy, PcValues
    <3>2. TypeOK'
      BY <1>0, <1>3, <2>1, <3>1 DEF TypeOK, OpenBusy
    <3>3. Numbered'
      BY <1>0, <1>3, <2>1, <3>1, NumberedStays DEF InFlight, OpenBusy, At
    <3>4. QED BY <3>2, <3>3 DEF Typed
  <2>2. CASE ~(calls[c].tries < MaxRetries)
    <3>1. /\ calls' \in [Calls -> [pc : PcValues, batch : Nat, tries : 0..MaxRetries]]
          /\ calls'[c] = Idle /\ \A d \in Calls : d # c => calls'[d] = calls[d]
      BY <1>0, <1>3, <2>2, FinishFacts DEF OpenBusy
    <3>2. TypeOK'
      BY <1>0, <1>3, <2>2, <3>1 DEF TypeOK, OpenBusy
    <3>3. Numbered'
      BY <1>0, <1>3, <3>1 DEF Numbered, InFlight, OpenBusy
    <3>4. QED BY <3>2, <3>3 DEF Typed
  <2>3. QED BY <2>1, <2>2
<1>4. ASSUME NEW c \in Calls, Stamp(c) PROVE Typed'
  <2>1. /\ calls' \in [Calls -> [pc : PcValues, batch : Nat, tries : 0..MaxRetries]]
        /\ calls'[c].pc = "write" /\ calls'[c].batch = calls[c].batch
        /\ \A d \in Calls : d # c => calls'[d] = calls[d]
    BY <1>0, <1>4, GotoFacts DEF Stamp, PcValues
  <2>2. lock' \in [batch : Nat, owner : Procs \cup {NoPid}, pid : Procs \cup {NoPid}]
    BY <1>0, <1>4 DEF TypeOK, Stamp
  <2>3. TypeOK'
    BY <1>0, <1>4, <2>1, <2>2 DEF TypeOK, Stamp
  <2>4. Numbered'
    BY <1>0, <1>4, <2>1, NumberedStays DEF InFlight, Stamp, At
  <2>5. QED BY <2>3, <2>4 DEF Typed
<1>5. ASSUME NEW c \in Calls, Write(c) PROVE Typed'
  <2>1. /\ calls' \in [Calls -> [pc : PcValues, batch : Nat, tries : 0..MaxRetries]]
        /\ calls'[c].pc = "release" /\ calls'[c].batch = calls[c].batch
        /\ \A d \in Calls : d # c => calls'[d] = calls[d]
    BY <1>0, <1>5, GotoFacts DEF Write, PcValues
  <2>2. log' \in Seq(Nat)
    BY <1>0, <1>5 DEF Write
  <2>3. TypeOK'
    BY <1>0, <1>5, <2>1, <2>2 DEF TypeOK, Write
  <2>4. Numbered'
    BY <1>0, <1>5, <2>1, NumberedStays DEF InFlight, Write, At
  <2>5. QED BY <2>3, <2>4 DEF Typed
<1>6. ASSUME NEW c \in Calls, StampOrWriteFails(c) PROVE Typed'
  <2>1. /\ calls' \in [Calls -> [pc : PcValues, batch : Nat, tries : 0..MaxRetries]]
        /\ calls'[c].pc = "abort" /\ calls'[c].batch = calls[c].batch
        /\ \A d \in Calls : d # c => calls'[d] = calls[d]
    BY <1>0, <1>6, GotoFacts DEF StampOrWriteFails, PcValues
  <2>2. TypeOK'
    BY <1>0, <1>6, <2>1 DEF TypeOK, StampOrWriteFails, Fails
  <2>3. Numbered'
    BY <1>0, <1>6, <2>1, NumberedStays DEF InFlight, StampOrWriteFails, At
  <2>4. QED BY <2>2, <2>3 DEF Typed
<1>7. ASSUME NEW c \in Calls, Finish(c), UNCHANGED <<alive, begun, log, refused, foundDead>>,
             lock' \in {lock, NoLock}, failures' \in Nat, acked' \subseteq Nat
      PROVE  Typed'
  <2>1. /\ calls' \in [Calls -> [pc : PcValues, batch : Nat, tries : 0..MaxRetries]]
        /\ calls'[c] = Idle /\ \A d \in Calls : d # c => calls'[d] = calls[d]
    BY <1>0, <1>7, FinishFacts
  <2>2. TypeOK'
    BY <1>0, <1>7, <2>1 DEF TypeOK, NoLock
  <2>3. Numbered'
    BY <1>0, <1>7, <2>1 DEF Numbered, InFlight
  <2>4. QED BY <2>2, <2>3 DEF Typed
<1>8. ASSUME NEW c \in Calls, Release(c) \/ Abort(c) PROVE Typed'
  <2>1. acked' \subseteq Nat /\ failures' \in Nat
    BY <1>0, <1>8 DEF Release, Abort, TypeOK
  <2>2. QED BY <1>7, <1>8, <2>1 DEF Release, Abort
<1>9. ASSUME NEW c \in Calls, CleanupFails(c) \/ RecoverFails(c) PROVE Typed'
  <2>1. acked' \subseteq Nat
    BY <1>0, <1>9 DEF CleanupFails, RecoverFails, TypeOK
  <2>2. failures' \in Nat
    BY <1>0, <1>9 DEF CleanupFails, RecoverFails, Fails
  <2>3. lock' \in {lock, NoLock}
    BY <1>9 DEF CleanupFails, RecoverFails
  <2>4. QED BY <1>7, <1>9, <2>1, <2>2, <2>3 DEF CleanupFails, RecoverFails
<1>10. ASSUME NEW c \in Calls, Retry(c), calls[c].pc \in {"inspect", "remove"}, lock' \in {lock, NoLock},
              UNCHANGED <<log, alive, begun, acked, refused, failures, foundDead>>
       PROVE  Typed'
  <2>1. calls[c].tries < MaxRetries
    BY <1>0, <1>10 DEF Numbered
  <2>2. /\ calls' \in [Calls -> [pc : PcValues, batch : Nat, tries : 0..MaxRetries]]
        /\ calls'[c].pc = "open" /\ calls'[c].batch = calls[c].batch
        /\ \A d \in Calls : d # c => calls'[d] = calls[d]
    BY <1>0, <1>10, <2>1, RetryFacts
  <2>3. TypeOK'
    BY <1>0, <1>10, <2>2 DEF TypeOK, NoLock
  <2>4. Numbered'
    BY <1>0, <1>10, <2>2, NumberedStays DEF InFlight
  <2>5. QED BY <2>3, <2>4 DEF Typed
<1>11. ASSUME NEW c \in Calls, InspectLive(c) \/ Remove(c) PROVE Typed'
  BY <1>10, <1>11 DEF InspectLive, Remove, At
<1>12. ASSUME NEW c \in Calls, InspectDead(c) PROVE Typed'
  <2>1. /\ calls' \in [Calls -> [pc : PcValues, batch : Nat, tries : 0..MaxRetries]]
        /\ calls'[c].pc = "remove" /\ calls'[c].batch = calls[c].batch
        /\ calls'[c].tries = calls[c].tries
        /\ \A d \in Calls : d # c => calls'[d] = calls[d]
    BY <1>0, <1>12, GotoFacts DEF InspectDead, PcValues
  <2>2. TypeOK'
    BY <1>0, <1>12, <2>1 DEF TypeOK, InspectDead
  <2>3. Numbered'
    <3>1. calls[c].tries < MaxRetries
      BY <1>0, <1>12 DEF Numbered, InspectDead, At
    <3>2. QED BY <1>0, <1>12, <2>1, <3>1, NumberedStays DEF InFlight, InspectDead, At
  <2>4. QED BY <2>2, <2>3 DEF Typed
<1>13. ASSUME NEW p \in Procs, Crash(p) PROVE Typed'
  <2>1. \A c \in Calls : calls'[c] = IF Home[c] = p THEN Idle ELSE calls[c]
    BY <1>13 DEF Crash
  <2>2. Idle \in [pc : PcValues, batch : Nat, tries : 0..MaxRetries]
    BY <1>0 DEF Idle, PcValues
  <2>3. TypeOK'
    BY <1>0, <1>13, <2>2 DEF TypeOK, Crash
  <2>4. Numbered'
    BY <1>0, <1>13, <2>1 DEF Numbered, InFlight, Crash
  <2>5. QED BY <2>3, <2>4 DEF Typed
<1>14. CASE UNCHANGED vars
  BY <1>0, <1>14 DEF vars, Typed, TypeOK, Numbered, InFlight
<1>15. QED
  BY <1>1, <1>2, <1>3, <1>4, <1>5, <1>6, <1>8, <1>9, <1>11, <1>12, <1>13, <1>14
  DEF Next, Advance

LEMMA TypedInit == Init => Typed
<1>1. Idle \in [pc : PcValues, batch : Nat, tries : 0..MaxRetries] /\ Idle.pc = "idle"
  BY LockAssumption DEF Idle, PcValues
<1>2. QED BY <1>1, LockAssumption DEF Init, Typed, TypeOK, Numbered, InFlight, NoLock

LEMMA SpecTyped == Spec => []Typed
BY TypedInit, TypedNext, PTL DEF Spec

\* The lock's state always has its types (TypeOK).
THEOREM LockTypeCorrect == Spec => []TypeOK
BY SpecTyped, PTL DEF Typed

-----------------------------------------------------------------------------
(* What a step does to one append *)

\* The calls of a step by c: the others stay, c keeps its batch or ends.
LEMMA StepOfOne ==
    ASSUME Typed, NEW c \in Calls,
           Advance(c) \/ StampOrWriteFails(c) \/ CleanupFails(c) \/ RecoverFails(c)
    PROVE  /\ InFlight(c) /\ \A d \in Calls : d # c => calls'[d] = calls[d]
           /\ calls'[c] = Idle \/ (calls'[c].pc # "idle" /\ calls'[c].batch = calls[c].batch)
           /\ alive' = alive /\ begun' = begun /\ foundDead' = foundDead
<1>0. TypeOK /\ calls \in [Calls -> [pc : PcValues, batch : Nat, tries : 0..MaxRetries]]
  BY DEF Typed, TypeOK
<1>1. CASE Open(c)
  BY <1>0, <1>1 DEF Open, Goto, At, InFlight
<1>2. CASE OpenBusy(c)
  BY <1>0, <1>2 DEF OpenBusy, Goto, Finish, At, InFlight
<1>3. CASE Stamp(c)
  BY <1>0, <1>3 DEF Stamp, Goto, At, InFlight
<1>4. CASE Write(c)
  BY <1>0, <1>4 DEF Write, Goto, At, InFlight
<1>5. CASE Release(c) \/ Abort(c)
  BY <1>0, <1>5 DEF Release, Abort, Finish, At, InFlight
<1>6. CASE InspectLive(c) \/ Remove(c)
  BY <1>0, <1>6 DEF InspectLive, Remove, Retry, At, InFlight
<1>7. CASE InspectDead(c)
  BY <1>0, <1>7 DEF InspectDead, Goto, At, InFlight
<1>8. CASE StampOrWriteFails(c)
  BY <1>0, <1>8 DEF StampOrWriteFails, Goto, At, InFlight
<1>9. CASE CleanupFails(c) \/ RecoverFails(c)
  BY <1>0, <1>9 DEF CleanupFails, RecoverFails, Finish, At, InFlight
<1>10. QED BY <1>1, <1>2, <1>3, <1>4, <1>5, <1>6, <1>7, <1>8, <1>9 DEF Advance

-----------------------------------------------------------------------------
(* Exclusion *)

\* While all processes live, the lock at the path is that of every call that
\* holds one, and nobody removes another's.
Exclusive ==
    alive = Procs =>
        /\ \A c \in Holders : lock.batch = calls[c].batch
        /\ \A c \in Calls : calls[c].pc # "remove"

LEMMA ExclusiveNext == Typed /\ Exclusive /\ [Next]_vars => Exclusive'
<1> SUFFICES ASSUME Typed, Exclusive, [Next]_vars, alive' = Procs
             PROVE  /\ \A c \in Calls : calls'[c].pc \in {"stamp", "write", "release", "abort"} =>
                                           lock'.batch = calls'[c].batch
                    /\ \A c \in Calls : calls'[c].pc # "remove"
  BY DEF Exclusive, Holders
<1>0. /\ TypeOK /\ calls \in [Calls -> [pc : PcValues, batch : Nat, tries : 0..MaxRetries]]
      /\ lock.pid \in Procs \cup {NoPid} /\ alive \subseteq Procs /\ Idle.pc = "idle"
      /\ \A c, d \in Calls : InFlight(c) /\ InFlight(d) /\ calls[c].batch = calls[d].batch => c = d
      /\ \A c \in Calls : InFlight(c) => calls[c].batch # 0
  BY DEF Typed, TypeOK, Numbered, Idle
<1>1. alive = Procs /\ ~ \E p \in Procs : Crash(p)
  <2>1. \A p \in Procs : ~Crash(p)
    BY <1>0 DEF Crash
  <2>2. CASE UNCHANGED vars
    BY <2>1, <2>2 DEF vars
  <2>3. ASSUME NEW c \in Calls, Begin(c) PROVE alive' = alive
    BY <2>3 DEF Begin
  <2>4. QED BY <2>1, <2>2, <2>3, StepOfOne DEF Next
<1>2. /\ \A c \in Calls : calls[c].pc \in {"stamp", "write", "release", "abort"} => lock.batch = calls[c].batch
      /\ \A c \in Calls : calls[c].pc # "remove"
      /\ ~NamesTheDead
  BY <1>0, <1>1 DEF Exclusive, Holders, NamesTheDead
<1>3. ASSUME NEW c \in Calls, Begin(c) PROVE Exclusive'
  <2>1. calls'[c].pc = "open" /\ lock' = lock /\ \A d \in Calls : d # c => calls'[d] = calls[d]
    BY <1>0, <1>3 DEF Begin
  <2>2. QED BY <1>2, <2>1 DEF Exclusive, Holders
<1>4. ASSUME NEW c \in Calls, Open(c) PROVE Exclusive'
  <2>1. /\ calls'[c].pc = "stamp" /\ calls'[c].batch = calls[c].batch /\ lock'.batch = calls[c].batch
        /\ \A d \in Calls : d # c => calls'[d] = calls[d]
    BY <1>0, <1>4 DEF Open, Goto
  <2>2. \A d \in Calls : calls[d].pc \notin {"stamp", "write", "release", "abort"}
    BY <1>0, <1>2, <1>4 DEF Open, NoLock, InFlight
  <2>3. QED BY <1>2, <2>1, <2>2 DEF Exclusive, Holders
<1>5. ASSUME NEW c \in Calls, Stamp(c) \/ Write(c) \/ StampOrWriteFails(c) PROVE Exclusive'
  <2>1. /\ calls[c].pc \in {"stamp", "write"} /\ calls'[c].pc \in {"write", "release", "abort"}
        /\ calls'[c].batch = calls[c].batch /\ \A d \in Calls : d # c => calls'[d] = calls[d]
    BY <1>0, <1>5 DEF Stamp, Write, StampOrWriteFails, Goto, At
  <2>2. lock'.batch = lock.batch
    BY <1>0, <1>5 DEF Stamp, Write, StampOrWriteFails, TypeOK
  <2>3. QED BY <1>2, <2>1, <2>2 DEF Exclusive, Holders
<1>6. ASSUME NEW c \in Calls, Release(c) \/ Abort(c) \/ CleanupFails(c) PROVE Exclusive'
  <2>1. /\ calls[c].pc \in {"release", "abort"} /\ calls'[c] = Idle
        /\ \A d \in Calls : d # c => calls'[d] = calls[d]
    BY <1>0, <1>6 DEF Release, Abort, CleanupFails, Finish, At
  <2>2. \A d \in Calls : d # c => calls[d].pc \notin {"stamp", "write", "release", "abort"}
    BY <1>0, <1>2, <2>1 DEF InFlight
  <2>3. QED BY <1>0, <1>2, <2>1, <2>2 DEF Exclusive, Holders
<1>7. ASSUME NEW c \in Calls, OpenBusy(c) \/ InspectLive(c) \/ InspectDead(c) \/ Remove(c) \/ RecoverFails(c)
      PROVE  Exclusive'
  <2>1. /\ calls'[c].pc \in {"inspect", "open", "idle"} /\ lock' = lock
        /\ \A d \in Calls : d # c => calls'[d] = calls[d]
    BY <1>0, <1>2, <1>7 DEF OpenBusy, InspectLive, InspectDead, Remove, RecoverFails, Goto, Finish, Retry, At
  <2>2. QED BY <1>2, <2>1 DEF Exclusive, Holders
<1>8. CASE UNCHANGED vars
  BY <1>2, <1>8 DEF vars
<1>9. QED
  BY <1>1, <1>3, <1>4, <1>5, <1>6, <1>7, <1>8 DEF Next, Advance, Exclusive, Holders

\* Until a process dies one append at a time holds the lock (ExclusionUntilCrash).
THEOREM LockExcludes == Spec => []ExclusionUntilCrash
<1>1. Init => Exclusive
  BY DEF Init, Exclusive, Holders, Idle
<1>2. Typed /\ Exclusive => ExclusionUntilCrash
  BY DEF Typed, Numbered, InFlight, Exclusive, ExclusionUntilCrash, Holders
<1>3. QED BY <1>1, <1>2, TypedInit, TypedNext, ExclusiveNext, PTL DEF Spec

-----------------------------------------------------------------------------
(* The log *)

Logged(b) == \E i \in DOMAIN log : log[i] = b

\* A batch is logged by the one append that has it, between its write and its
\* return, and never once it was refused.
LogFollowsCalls ==
    /\ \A i \in DOMAIN log : log[i] \in 1..begun
    /\ refused \subseteq 1..begun
    /\ \A c \in Calls : calls[c].pc \in {"open", "inspect", "remove", "stamp", "write"} =>
                           ~Logged(calls[c].batch)
    /\ \A c \in Calls : calls[c].pc = "release" => Logged(calls[c].batch)
    /\ \A c \in Calls : InFlight(c) => calls[c].batch \notin refused

\* A step of c that leaves log and refused as they are.
LEMMA LogStays ==
    ASSUME LogFollowsCalls, NEW c \in Calls, log' = log, refused' = refused, begun' = begun,
           \A d \in Calls : d # c => calls'[d] = calls[d],
           \/ calls'[c].pc = "idle"
           \/ /\ InFlight(c) /\ calls'[c].batch = calls[c].batch /\ calls'[c].pc # "release"
              /\ \/ calls'[c].pc = "abort"
                 \/ calls[c].pc \in {"open", "inspect", "remove", "stamp", "write"}
    PROVE  LogFollowsCalls'
BY DEF LogFollowsCalls, InFlight, Logged

LEMMA LogNext == Typed /\ LogFollowsCalls /\ [Next]_vars => LogFollowsCalls'
<1> SUFFICES ASSUME Typed, LogFollowsCalls, [Next]_vars PROVE LogFollowsCalls'
  OBVIOUS
<1>0. /\ TypeOK /\ Numbered /\ calls \in [Calls -> [pc : PcValues, batch : Nat, tries : 0..MaxRetries]]
      /\ begun \in Nat /\ log \in Seq(Nat) /\ Idle.pc = "idle"
  BY DEF Typed, TypeOK, Idle
<1>1. ASSUME NEW c \in Calls, Begin(c) PROVE LogFollowsCalls'
  <2>1. /\ calls'[c].pc = "open" /\ calls'[c].batch = begun + 1
        /\ \A d \in Calls : d # c => calls'[d] = calls[d]
    BY <1>0, <1>1 DEF Begin
  <2>2. /\ log' = log /\ refused' = refused
        /\ begun + 1 \notin 1..begun /\ \A n \in 1..begun : n \in 1..begun'
    BY <1>0, <1>1 DEF Begin
  <2>3. ~Logged(begun + 1) /\ begun + 1 \notin refused
    BY <2>2 DEF LogFollowsCalls, Logged
  <2>4. /\ \A i \in DOMAIN log' : log'[i] \in 1..begun'
        /\ refused' \subseteq 1..begun'
    BY <2>2 DEF LogFollowsCalls
  <2>5. /\ \A d \in Calls : calls'[d].pc \in {"open", "inspect", "remove", "stamp", "write"} =>
                               ~Logged(calls'[d].batch)
        /\ \A d \in Calls : calls'[d].pc = "release" => Logged(calls'[d].batch)
        /\ \A d \in Calls : calls'[d].pc # "idle" => calls'[d].batch \notin refused
    BY <2>1, <2>3 DEF LogFollowsCalls, InFlight
  <2>6. QED BY <2>2, <2>4, <2>5 DEF LogFollowsCalls, InFlight, Logged
<1>2. ASSUME NEW c \in Calls, Write(c) PROVE LogFollowsCalls'
  <2>1. /\ calls[c].pc = "write" /\ calls'[c].pc = "release" /\ calls'[c].batch = calls[c].batch
        /\ \A d \in Calls : d # c => calls'[d] = calls[d]
        /\ begun' = begun /\ refused' = refused
    BY <1>0, <1>2 DEF Write, Goto, At
  <2>2. /\ log' = Append(log, calls[c].batch) /\ calls[c].batch \in 1..begun
    BY <1>0, <1>2, <2>1 DEF Write, Numbered, InFlight
  <2>3. \A i \in DOMAIN log' : log'[i] = calls[c].batch \/ (i \in DOMAIN log /\ log'[i] = log[i])
    BY <1>0, <2>2
  <2>4. /\ \A i \in DOMAIN log : i \in DOMAIN log' /\ log'[i] = log[i]
        /\ Len(log) + 1 \in DOMAIN log' /\ log'[Len(log) + 1] = calls[c].batch
    BY <1>0, <2>2
  <2>6. \A d \in Calls : InFlight(d) /\ d # c => calls[d].batch # calls[c].batch
    BY <1>0, <2>1 DEF Numbered, InFlight
  <2>7. \A i \in DOMAIN log' : log'[i] \in 1..begun'
    BY <2>1, <2>2, <2>3 DEF LogFollowsCalls
  <2>8. \A d \in Calls : calls'[d].pc \in {"open", "inspect", "remove", "stamp", "write"} =>
                            ~Logged(calls[d].batch)'
    <3>1. ASSUME NEW d \in Calls, d # c, calls[d].pc \in {"open", "inspect", "remove", "stamp", "write"}
          PROVE  ~Logged(calls[d].batch) /\ calls[d].batch # calls[c].batch
      BY <2>6, <3>1 DEF LogFollowsCalls, InFlight
    <3>2. QED BY <2>1, <2>3, <3>1 DEF Logged
  <2>9. \A d \in Calls : calls'[d].pc = "release" => Logged(calls[d].batch)'
    BY <2>1, <2>4 DEF LogFollowsCalls, Logged
  <2>10. \A d \in Calls : InFlight(d)' => calls'[d].batch \notin refused'
    BY <2>1 DEF LogFollowsCalls, InFlight
  <2>11. refused' \subseteq 1..begun'
    BY <2>1 DEF LogFollowsCalls
  <2>12. QED BY <2>7, <2>8, <2>9, <2>10, <2>11 DEF LogFollowsCalls
<1>3. ASSUME NEW c \in Calls, OpenBusy(c) PROVE LogFollowsCalls'
  <2>1. CASE calls[c].tries < MaxRetries
    <3>1. /\ InFlight(c) /\ calls[c].pc = "open" /\ calls'[c].pc = "inspect"
          /\ calls'[c].batch = calls[c].batch /\ \A d \in Calls : d # c => calls'[d] = calls[d]
          /\ log' = log /\ refused' = refused /\ begun' = begun
      BY <1>0, <1>3, <2>1 DEF OpenBusy, Goto, At, InFlight
    <3>2. QED BY <3>1, LogStays
  <2>2. CASE ~(calls[c].tries < MaxRetries)
    <3>1. /\ calls'[c] = Idle /\ \A d \in Calls : d # c => calls'[d] = calls[d]
          /\ refused' = refused \cup {calls[c].batch} /\ log' = log /\ begun' = begun
      BY <1>0, <1>3, <2>2 DEF OpenBusy, Finish
    <3>2. InFlight(c)
      BY <1>3 DEF OpenBusy, At, InFlight
    <3>3. /\ calls[c].batch \in 1..begun
          /\ \A d \in Calls : InFlight(d) /\ d # c => calls[d].batch # calls[c].batch
      BY <1>0, <3>2 DEF Numbered
    <3>4. QED BY <1>0, <3>1, <3>3 DEF LogFollowsCalls, InFlight, Logged
  <2>3. QED BY <2>1, <2>2
<1>4. ASSUME NEW c \in Calls, Open(c) \/ Stamp(c) \/ StampOrWriteFails(c) PROVE LogFollowsCalls'
  BY <1>0, <1>4, LogStays DEF Open, Stamp, StampOrWriteFails, Goto, At, InFlight
<1>5. ASSUME NEW c \in Calls, Release(c) \/ Abort(c) \/ CleanupFails(c) \/ RecoverFails(c)
      PROVE  LogFollowsCalls'
  BY <1>0, <1>5, LogStays DEF Release, Abort, CleanupFails, RecoverFails, Finish
<1>6. ASSUME NEW c \in Calls, InspectLive(c) \/ Remove(c) PROVE LogFollowsCalls'
  BY <1>0, <1>6, LogStays DEF InspectLive, Remove, Retry, At, InFlight
<1>7. ASSUME NEW c \in Calls, InspectDead(c) PROVE LogFollowsCalls'
  BY <1>0, <1>7, LogStays DEF InspectDead, Goto, At, InFlight
<1>8. ASSUME NEW p \in Procs, Crash(p) PROVE LogFollowsCalls'
  <2>1. \A c \in Calls : calls'[c].pc = "idle" \/ calls'[c] = calls[c]
    BY <1>0, <1>8 DEF Crash
  <2>2. log' = log /\ refused' = refused /\ begun' = begun
    BY <1>8 DEF Crash
  <2>3. QED BY <2>1, <2>2 DEF LogFollowsCalls, InFlight, Logged
<1>9. CASE UNCHANGED vars
  BY <1>9 DEF vars, LogFollowsCalls, InFlight, Logged
<1>10. QED
  BY <1>1, <1>2, <1>3, <1>4, <1>5, <1>6, <1>7, <1>8, <1>9 DEF Next, Advance

\* A step is a write, a return, a refusal or nothing to the abstract log.
LEMMA LogStep ==
    Typed /\ LogFollowsCalls /\ [Next]_vars => [AppendLog!Next]_<<log, acked, refused>>
<1> SUFFICES ASSUME Typed, LogFollowsCalls, [Next]_vars
             PROVE  AppendLog!Next \/ (log' = log /\ acked' = acked /\ refused' = refused)
  OBVIOUS
<1>0. \A c \in Calls : InFlight(c) => calls[c].batch \in 1..MaxBatches
  BY LockAssumption DEF Typed, TypeOK, Numbered
<1>1. ASSUME NEW c \in Calls, Write(c) PROVE AppendLog!Write(calls[c].batch) /\ InFlight(c)
  BY <1>1 DEF Write, At, InFlight, LogFollowsCalls, Logged, AppendLog!Write, AppendLog!Logged
<1>2. ASSUME NEW c \in Calls, Release(c) PROVE AppendLog!Return(calls[c].batch) /\ InFlight(c)
  BY <1>2 DEF Release, At, InFlight, LogFollowsCalls, Logged, AppendLog!Return, AppendLog!Logged
<1>3. ASSUME NEW c \in Calls, OpenBusy(c), refused' # refused
      PROVE  AppendLog!Refuse(calls[c].batch) /\ InFlight(c)
  BY <1>3 DEF OpenBusy, At, InFlight, LogFollowsCalls, Logged, AppendLog!Refuse, AppendLog!Logged
<1>4. ASSUME NEW c \in Calls, OpenBusy(c) PROVE log' = log /\ acked' = acked
  BY <1>4 DEF OpenBusy
<1>5. ASSUME NEW c \in Calls,
             \/ Begin(c) \/ Open(c) \/ Stamp(c) \/ Abort(c) \/ InspectLive(c) \/ InspectDead(c)
             \/ Remove(c) \/ StampOrWriteFails(c) \/ CleanupFails(c) \/ RecoverFails(c)
      PROVE  log' = log /\ acked' = acked /\ refused' = refused
  BY <1>5 DEF Begin, Open, Stamp, Abort, InspectLive, InspectDead, Remove, StampOrWriteFails,
              CleanupFails, RecoverFails
<1>6. ASSUME NEW p \in Procs, Crash(p) PROVE log' = log /\ acked' = acked /\ refused' = refused
  BY <1>6 DEF Crash
<1>7. CASE UNCHANGED vars
  BY <1>7 DEF vars
<1>8. QED
  BY <1>0, <1>1, <1>2, <1>3, <1>4, <1>5, <1>6, <1>7 DEF Next, Advance, AppendLog!Next

LEMMA LogInit == Init => LogFollowsCalls /\ AppendLog!Init
BY DEF Init, LogFollowsCalls, InFlight, Idle, AppendLog!Init

\* The log keeps what appendAll promises (ImplementsAppend): a batch is written
\* once, before its append returns, and never when it was refused the lock.
THEOREM LockImplements == Spec => ImplementsAppend
BY LogInit, LogNext, LogStep, TypedInit, TypedNext, PTL DEF Spec, ImplementsAppend, AppendLog!Spec

-----------------------------------------------------------------------------
(* Locks of the dead *)

\* A lock is that of an append that has begun and holds no pid but its creator's.
LockIsOwned ==
    /\ lock # NoLock => lock.batch \in 1..begun
    /\ lock.pid \in {NoPid, lock.owner}
    /\ \A d \in Calls : InFlight(d) /\ calls[d].batch = lock.batch => Home[d] = lock.owner

\* Nobody is in flight with the lock that c found of a dead process; while it is
\* at the path its owner is dead, and c has not used up an attempt on it.
FoundIsDead(c) ==
    foundDead[c] # 0 =>
        /\ foundDead[c] \in 1..begun
        /\ \A d \in Calls : InFlight(d) => calls[d].batch # foundDead[c]
        /\ lock.batch = foundDead[c] =>
              lock.owner \notin alive /\ (lock.pid # NoPid => calls[c].tries = 0)

DeadLocks == LockIsOwned /\ \A c \in Calls : InFlight(c) => FoundIsDead(c)

\* A step that creates and stamps no lock and begins no append.
LEMMA DeadLocksStay ==
    ASSUME Typed, DeadLocks, lock' \in {lock, NoLock}, begun' = begun, foundDead' = foundDead,
           alive' \subseteq alive,
           \A d \in Calls : InFlight(d)' => InFlight(d) /\ calls'[d].batch = calls[d].batch,
           \A d \in Calls : InFlight(d)' =>
               calls'[d].tries = calls[d].tries \/ lock' = NoLock \/ ~NamesTheDead
    PROVE  DeadLocks'
<1>0. /\ lock.owner \in Procs \cup {NoPid} /\ alive \subseteq Procs /\ NoPid \notin Procs
      /\ NoLock.batch = 0 /\ NoLock.pid = NoPid /\ NoLock.owner = NoPid /\ begun \in Nat
      /\ \A d \in Calls : InFlight(d) => calls[d].batch # 0
  BY LockAssumption DEF Typed, TypeOK, Numbered, NoLock
<1>1. LockIsOwned'
  <2>1. (lock # NoLock => lock.batch \in 1..begun)'
    BY DEF DeadLocks, LockIsOwned, NoLock
  <2>2. (lock.pid \in {NoPid, lock.owner})'
    BY <1>0 DEF DeadLocks, LockIsOwned
  <2>3. \A d \in Calls : InFlight(d)' /\ calls'[d].batch = lock'.batch => Home[d] = lock'.owner
    BY <1>0 DEF DeadLocks, LockIsOwned
  <2>4. QED BY <2>1, <2>2, <2>3 DEF LockIsOwned
<1>2. ASSUME NEW c \in Calls, InFlight(c)', foundDead[c] # 0
      PROVE  FoundIsDead(c)'
  <2>1. FoundIsDead(c) /\ LockIsOwned
    BY <1>2 DEF DeadLocks
  <2>2. foundDead'[c] \in 1..begun' /\ \A d \in Calls : InFlight(d)' => calls'[d].batch # foundDead'[c]
    BY <1>2, <2>1 DEF FoundIsDead
  <2>3. ASSUME lock'.batch = foundDead[c]
        PROVE  lock'.owner \notin alive' /\ (lock'.pid # NoPid => calls'[c].tries = 0)
    <3>1. lock' = lock /\ lock' # NoLock
      BY <1>0, <1>2, <2>3
    <3>2. lock.owner \notin alive /\ (lock.pid # NoPid => calls[c].tries = 0)
      BY <1>2, <2>1, <2>3, <3>1 DEF FoundIsDead
    <3>3. lock.pid # NoPid => NamesTheDead
      BY <2>1, <3>2 DEF LockIsOwned, NamesTheDead
    <3>4. QED BY <1>2, <3>1, <3>2, <3>3
  <2>4. QED BY <2>2, <2>3 DEF FoundIsDead
<1>3. ASSUME NEW c \in Calls, InFlight(c)' PROVE FoundIsDead(c)'
  BY <1>2, <1>3 DEF FoundIsDead
<1>4. QED BY <1>1, <1>3 DEF DeadLocks

LEMMA DeadLocksNext == Typed /\ DeadLocks /\ [Next]_vars => DeadLocks'
<1> SUFFICES ASSUME Typed, DeadLocks, [Next]_vars PROVE DeadLocks'
  OBVIOUS
<1>0. /\ TypeOK /\ Numbered /\ calls \in [Calls -> [pc : PcValues, batch : Nat, tries : 0..MaxRetries]]
      /\ lock \in [batch : Nat, owner : Procs \cup {NoPid}, pid : Procs \cup {NoPid}]
      /\ foundDead \in [Calls -> Nat] /\ begun \in Nat /\ Idle.pc = "idle"
      /\ NoPid \notin Procs /\ alive \subseteq Procs /\ LockIsOwned
      /\ NoLock.batch = 0 /\ NoLock.pid = NoPid /\ NoLock.owner = NoPid
      /\ \A c \in Calls : InFlight(c) => FoundIsDead(c)
  BY LockAssumption DEF Typed, TypeOK, Idle, NoLock, DeadLocks
<1>1. ASSUME NEW c \in Calls, Begin(c) PROVE DeadLocks'
  <2>1. /\ calls'[c].pc = "open" /\ calls'[c].batch = begun + 1 /\ calls'[c].tries = 0
        /\ \A d \in Calls : d # c => calls'[d] = calls[d]
    BY <1>0, <1>1 DEF Begin
  <2>2. /\ lock' = lock /\ alive' = alive /\ begun' = begun + 1
        /\ foundDead'[c] = IF lock.owner \in alive THEN 0 ELSE lock.batch
        /\ \A d \in Calls : d # c => foundDead'[d] = foundDead[d]
    BY <1>0, <1>1 DEF Begin
  <2>3. begun + 1 \notin 1..begun /\ begun + 1 # 0 /\ \A n \in 1..begun : n \in 1..(begun + 1)
    BY <1>0
  <2>4. lock.batch # begun + 1
    BY <1>0, <2>3 DEF LockIsOwned
  <2>5. LockIsOwned'
    <3>1. (lock # NoLock => lock.batch \in 1..begun)' /\ (lock.pid \in {NoPid, lock.owner})'
      BY <1>0, <2>2, <2>3 DEF LockIsOwned, NoLock
    <3>2. \A d \in Calls : InFlight(d)' /\ calls'[d].batch = lock'.batch => Home[d] = lock'.owner
      BY <1>0, <2>1, <2>2, <2>4 DEF LockIsOwned, InFlight
    <3>3. QED BY <3>1, <3>2 DEF LockIsOwned
  <2>6. ASSUME NEW d \in Calls, InFlight(d)', d # c PROVE FoundIsDead(d)'
    <3>1. FoundIsDead(d) /\ foundDead'[d] = foundDead[d] /\ calls'[d] = calls[d]
      BY <1>0, <2>1, <2>2, <2>6 DEF InFlight
    <3>2. foundDead[d] # 0 => \A e \in Calls : InFlight(e)' => calls'[e].batch # foundDead[d]
      BY <2>1, <2>3, <3>1 DEF FoundIsDead, InFlight
    <3>3. QED BY <2>2, <2>3, <3>1, <3>2 DEF FoundIsDead
  <2>7. FoundIsDead(c)'
    <3>1. SUFFICES ASSUME foundDead'[c] # 0 PROVE FoundIsDead(c)'
      BY DEF FoundIsDead
    <3>2. foundDead'[c] = lock.batch /\ lock.owner \notin alive
      BY <2>2, <3>1
    <3>3. lock.batch \in 1..begun
      BY <1>0, <3>1, <3>2 DEF LockIsOwned
    <3>4. \A d \in Calls : InFlight(d) => calls[d].batch # lock.batch
      BY <1>0, <3>2 DEF LockIsOwned, Numbered
    <3>5. \A d \in Calls : InFlight(d)' => calls'[d].batch # lock.batch
      BY <2>1, <2>4, <3>4 DEF InFlight
    <3>6. QED BY <2>1, <2>2, <2>3, <3>2, <3>3, <3>5 DEF FoundIsDead
  <2>8. QED BY <2>5, <2>6, <2>7 DEF DeadLocks
<1>2. ASSUME NEW c \in Calls, Open(c) PROVE DeadLocks'
  <2>1. /\ calls[c].pc = "open" /\ calls'[c].pc = "stamp" /\ calls'[c].batch = calls[c].batch
        /\ calls'[c].tries = calls[c].tries /\ \A d \in Calls : d # c => calls'[d] = calls[d]
    BY <1>0, <1>2 DEF Open, Goto, At
  <2>2. /\ lock'.batch = calls[c].batch /\ lock'.owner = Home[c] /\ lock'.pid = NoPid
        /\ alive' = alive /\ begun' = begun /\ foundDead' = foundDead
    BY <1>2 DEF Open
  <2>3. InFlight(c) /\ calls[c].batch \in 1..begun
    BY <1>0, <2>1 DEF Numbered, InFlight
  <2>4. /\ \A d \in Calls : InFlight(d)' <=> InFlight(d)
        /\ \A d \in Calls : calls'[d].batch = calls[d].batch
    BY <2>1 DEF InFlight
  <2>5. LockIsOwned'
    BY <1>0, <2>2, <2>3, <2>4 DEF LockIsOwned, Numbered
  <2>6. ASSUME NEW d \in Calls, InFlight(d)' PROVE FoundIsDead(d)'
    <3>1. FoundIsDead(d)
      BY <1>0, <2>4, <2>6
    <3>2. foundDead[d] # 0 => lock'.batch # foundDead[d]
      BY <2>2, <2>3, <3>1 DEF FoundIsDead
    <3>3. QED BY <2>2, <2>4, <3>1, <3>2 DEF FoundIsDead
  <2>7. QED BY <2>5, <2>6 DEF DeadLocks
<1>3. ASSUME NEW c \in Calls, Stamp(c) PROVE DeadLocks'
  <2>1. /\ InFlight(c) /\ calls'[c].pc = "write" /\ calls'[c].batch = calls[c].batch
        /\ calls'[c].tries = calls[c].tries /\ \A d \in Calls : d # c => calls'[d] = calls[d]
    BY <1>0, <1>3 DEF Stamp, Goto, At, InFlight
  <2>2. CASE lock.batch # calls[c].batch
    <3>1. /\ lock' = lock /\ begun' = begun /\ foundDead' = foundDead /\ alive' = alive
      BY <1>3, <2>2 DEF Stamp
    <3>2. /\ \A d \in Calls : InFlight(d)' => InFlight(d) /\ calls'[d].batch = calls[d].batch
          /\ \A d \in Calls : calls'[d].tries = calls[d].tries
      BY <2>1 DEF InFlight
    <3>3. QED BY <3>1, <3>2, DeadLocksStay
  <2>3. CASE lock.batch = calls[c].batch
    <3>1. /\ lock'.batch = lock.batch /\ lock'.owner = lock.owner /\ lock'.pid = Home[c]
          /\ begun' = begun /\ foundDead' = foundDead /\ alive' = alive
      BY <1>0, <1>3, <2>3 DEF Stamp
    <3>2. Home[c] = lock.owner /\ lock.batch \in 1..begun
      BY <1>0, <2>1, <2>3 DEF LockIsOwned, Numbered
    <3>3. /\ \A d \in Calls : InFlight(d)' <=> InFlight(d)
          /\ \A d \in Calls : calls'[d].batch = calls[d].batch
      BY <2>1 DEF InFlight
    <3>4. LockIsOwned'
      BY <1>0, <3>1, <3>2, <3>3 DEF LockIsOwned
    <3>5. ASSUME NEW d \in Calls, InFlight(d)' PROVE FoundIsDead(d)'
      <4>1. FoundIsDead(d)
        BY <1>0, <3>3, <3>5
      <4>2. foundDead[d] # 0 => lock.batch # foundDead[d]
        BY <2>1, <2>3, <4>1 DEF FoundIsDead
      <4>3. QED BY <3>1, <3>3, <4>1, <4>2 DEF FoundIsDead
    <3>6. QED BY <3>4, <3>5 DEF DeadLocks
  <2>4. QED BY <2>2, <2>3
<1>4. ASSUME NEW c \in Calls, Advance(c) \/ StampOrWriteFails(c) \/ CleanupFails(c) \/ RecoverFails(c),
             ~Open(c), ~Stamp(c)
      PROVE  DeadLocks'
  <2>1. /\ \A d \in Calls : d # c => calls'[d] = calls[d]
        /\ calls'[c] = Idle \/ (InFlight(c) /\ calls'[c].batch = calls[c].batch)
        /\ alive' = alive /\ begun' = begun /\ foundDead' = foundDead
    BY <1>4, StepOfOne DEF Typed
  <2>2. \A d \in Calls : InFlight(d)' => InFlight(d) /\ calls'[d].batch = calls[d].batch
    BY <1>0, <2>1 DEF InFlight
  <2>3. lock' \in {lock, NoLock}
    BY <1>4 DEF Advance, OpenBusy, Write, Release, Abort, InspectLive, InspectDead, Remove,
                StampOrWriteFails, CleanupFails, RecoverFails
  <2>4. calls'[c] = Idle \/ calls'[c].tries = calls[c].tries \/ lock' = NoLock \/ ~NamesTheDead
    <3>1. CASE OpenBusy(c)
      BY <1>0, <3>1 DEF OpenBusy, Goto, Finish
    <3>2. CASE Write(c) \/ InspectDead(c) \/ StampOrWriteFails(c)
      BY <1>0, <3>2 DEF Write, InspectDead, StampOrWriteFails, Goto
    <3>3. CASE InspectLive(c) \/ Remove(c) \/ Release(c) \/ Abort(c)
      BY <3>3 DEF InspectLive, Remove, Release, Abort
    <3>4. CASE CleanupFails(c) \/ RecoverFails(c)
      BY <1>0, <3>4 DEF CleanupFails, RecoverFails, Finish
    <3>5. QED BY <1>4, <3>1, <3>2, <3>3, <3>4 DEF Advance
  <2>5. QED
    BY <1>0, <2>1, <2>2, <2>3, <2>4, DeadLocksStay DEF InFlight
<1>5. ASSUME NEW p \in Procs, Crash(p) PROVE DeadLocks'
  <2>1. \A c \in Calls : calls'[c].pc = "idle" \/ calls'[c] = calls[c]
    BY <1>0, <1>5 DEF Crash
  <2>2. lock' = lock /\ begun' = begun /\ foundDead' = foundDead /\ alive' \subseteq alive
    BY <1>5 DEF Crash
  <2>3. QED BY <2>1, <2>2, DeadLocksStay DEF InFlight
<1>6. CASE UNCHANGED vars
  <2>1. calls' = calls /\ lock' = lock /\ begun' = begun /\ foundDead' = foundDead /\ alive' = alive
    BY <1>6 DEF vars
  <2>2. QED BY <2>1, DeadLocksStay DEF InFlight
<1>7. QED
  BY <1>1, <1>2, <1>3, <1>4, <1>5, <1>6 DEF Next

LEMMA RefusedNext == Typed /\ DeadLocks /\ LogFollowsCalls /\ [Next]_vars => [RefusedStep]_vars
<1> SUFFICES ASSUME Typed, DeadLocks, LogFollowsCalls, Next,
                    NEW c \in Calls, calls[c].batch \in refused' \ refused
             PROVE  lock.batch # foundDead[c] \/ lock.pid = NoPid
  BY DEF RefusedStep, vars
<1>1. PICK d \in Calls : OpenBusy(d) /\ refused' # refused
  <2>1. ASSUME NEW d \in Calls,
               \/ Begin(d) \/ Open(d) \/ Stamp(d) \/ Write(d) \/ Release(d) \/ Abort(d)
               \/ InspectLive(d) \/ InspectDead(d) \/ Remove(d)
               \/ StampOrWriteFails(d) \/ CleanupFails(d) \/ RecoverFails(d)
        PROVE  refused' = refused
    BY <2>1 DEF Begin, Open, Stamp, Write, Release, Abort, InspectLive, InspectDead, Remove,
                StampOrWriteFails, CleanupFails, RecoverFails
  <2>2. ASSUME NEW p \in Procs, Crash(p) PROVE refused' = refused
    BY <2>2 DEF Crash
  <2>3. QED BY <2>1, <2>2 DEF Next, Advance
<1>2. /\ lock # NoLock /\ InFlight(d) /\ ~(calls[d].tries < MaxRetries)
      /\ calls[c].batch = calls[d].batch
  BY <1>1 DEF OpenBusy, At, InFlight
<1>3. c = d
  BY <1>2 DEF Typed, Numbered, InFlight, Idle
<1>4. lock.batch # 0 /\ calls[c].tries # 0
  BY <1>2, <1>3, LockAssumption DEF DeadLocks, LockIsOwned
<1>5. FoundIsDead(c)
  BY <1>2, <1>3 DEF DeadLocks
<1>6. QED BY <1>4, <1>5 DEF FoundIsDead

\* No append is refused on account of a lock whose owner had written its pid and
\* was dead when the append began (NotRefusedByTheDead).
THEOREM DeadLocksAreRecovered == Spec => NotRefusedByTheDead
<1>1. Init => DeadLocks
  BY LockAssumption DEF Init, DeadLocks, LockIsOwned, NoLock, InFlight, Idle
<1>2. QED
  BY <1>1, LogInit, LogNext, TypedInit, TypedNext, DeadLocksNext, RefusedNext, PTL
  DEF Spec, NotRefusedByTheDead
=============================================================================
