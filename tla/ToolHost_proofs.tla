--------------------------- MODULE ToolHost_proofs ----------------------------
(***************************************************************************)
(* Proofs about ToolHost over the evidence store, for any number of        *)
(* processes, calls and faults.                                            *)
(*                                                                         *)
(* Inv: the types, and that an append that has found the lock free holds   *)
(* it until it is through, so no segment appears between its choice of a   *)
(* segment's name and its rename; no trace on disk is lost.                *)
(*                                                                         *)
(* EvidenceInv: what the traces on disk and in the indexes are good for.   *)
(* It rests on three facts.  A process that has appended nothing counts    *)
(* only segments it has read (Covered), so its read covers the disk.  An   *)
(* open call that a start-up has found stays accounted for until its       *)
(* finish is on disk (Reconciling).  Nobody can have seen the start of a   *)
(* call, and made up a finish for it, before the lock that the start was   *)
(* written under is given back and its process has indexed it (Shown).     *)
(***************************************************************************)
EXTENDS ToolHost, TLAPS

InAppend(w) == writes[w].pc \in {"rotate", "unlock"}

LockInv ==
    \A w \in Writers : /\ InAppend(w) => lock = w
                       /\ WriteAt(w, "rotate") => writes[w].rotated = Len(segs) + 1

HasTrace(w) == ~WriteAt(w, "none") => writes[w].trace \in Traces

TraceInv == \A w \in Writers : HasTrace(w)

StoreInv == EvidenceTypeOK /\ LockInv /\ TraceInv

Inv == TypeOK /\ LockInv /\ TraceInv

Writes == [pc : {"none", "lock", "rotate", "unlock", "return"},
           trace : Traces \cup {NoTrace}, rotated : Nat]

Stores == [index : SUBSET Traces, known : SUBSET Calls, bucket : SUBSET Traces,
           cursor : Nat, count : Nat]

ReadPCs == {"none", "first", "list", "whole", "delta"}

-----------------------------------------------------------------------------
(* Operators. *)

LEMMA AppendFacts ==
    ASSUME NEW S, NEW s \in Seq(S), NEW x \in S
    PROVE  /\ Append(s, x) \in Seq(S)
           /\ Len(Append(s, x)) = Len(s) + 1 /\ Len(s) \in Nat
           /\ \A i \in DOMAIN s : i \in DOMAIN Append(s, x) /\ Append(s, x)[i] = s[i]
OBVIOUS

LEMMA RangeType == ASSUME NEW S, NEW s \in Seq(S) PROVE Range(s) \subseteq S
BY DEF Range

LEMMA HomesAreProcs == ASSUME NEW w \in Writers PROVE HomeOf(w) \in Procs
BY EvidenceAssumption DEF Writers, HomeOf

LEMMA StartedType == ASSUME NEW c \in Calls PROVE Started(c) \in Traces /\ Finished(c) \in Traces
BY DEF Started, Finished, Traces

\* What is indexed are traces and their calls.
LEMMA IndexedType ==
    ASSUME NEW s \in Stores, NEW T \in SUBSET Traces
    PROVE  Indexed(s, T) \in Stores
<1> DEFINE fresh == T \ s.index
           calledOf == {t.call : t \in {u \in fresh : u.kind = "started"}}
           known == s.known \cup calledOf
           inBucket == {t \in fresh : t.call \in known}
<1>1. fresh \subseteq Traces /\ inBucket \subseteq Traces
  OBVIOUS
<1>2. calledOf \subseteq Calls
  BY <1>1 DEF Traces
<1>3. /\ s.index \cup fresh \in SUBSET Traces
      /\ known \in SUBSET Calls
      /\ s.bucket \cup inBucket \in SUBSET Traces
  BY <1>1, <1>2 DEF Stores
<1>4. Indexed(s, T) = [s EXCEPT !.index = s.index \cup fresh, !.known = known,
                                !.bucket = s.bucket \cup inBucket]
  BY Zenon DEF Indexed
<1> HIDE DEF fresh, calledOf, known, inBucket
<1> QED BY <1>3, <1>4 DEF Stores

\* Segments hold traces.
LEMMA SegmentsType ==
    ASSUME segs \in Seq(Seq(Traces)), NEW n \in Nat
    PROVE  SegmentLines(n) \subseteq Traces /\ Len(segs) \in Nat
<1>1. Len(segs) \in Nat
  OBVIOUS
<1>2. ASSUME NEW i \in (n + 1)..Len(segs) PROVE Range(segs[i]) \subseteq Traces
  <2>1. segs[i] \in Seq(Traces)
    BY <1>1
  <2> QED BY <2>1, RangeType
<1> QED BY <1>1, <1>2 DEF SegmentLines

LEMMA LinesType ==
    ASSUME segs \in Seq(Seq(Traces)), active \in Seq(Traces)
    PROVE  Lines \subseteq Traces /\ Len(active) \in Nat /\ Range(active) \subseteq Traces
<1>1. ASSUME NEW i \in DOMAIN segs PROVE Range(segs[i]) \subseteq Traces
  <2>1. segs[i] \in Seq(Traces)
    OBVIOUS
  <2> QED BY <2>1, RangeType
<1>2. Range(active) \subseteq Traces
  BY RangeType
<1>3. Lines \subseteq Traces
  <2> SUFFICES ASSUME NEW t \in Lines PROVE t \in Traces
    OBVIOUS
  <2>1. CASE t \in Range(active)
    BY <1>2, <2>1
  <2>2. CASE t \in UNION {Range(segs[i]) : i \in DOMAIN segs}
    BY <1>1, <2>2, Zenon
  <2> QED BY <2>1, <2>2, Zenon DEF Lines
<1>4. Len(active) \in Nat
  OBVIOUS
<1> QED BY <1>2, <1>3, <1>4

LEMMA CaughtUpType ==
    ASSUME active \in Seq(Traces), NEW s \in Stores
    PROVE  CaughtUp(s) \in Stores
<1>1. s.cursor \in Nat /\ Len(active) \in Nat
  BY DEF Stores
<1>2. CASE Len(active) > s.cursor
  <2> DEFINE new == SubSeq(active, s.cursor + 1, Len(active))
  <2>1. new \in Seq(Traces)
    BY <1>1
  <2>2. Range(new) \subseteq Traces
    BY <2>1, RangeType
  <2>3. Indexed(s, Range(new)) \in Stores
    BY <2>2, IndexedType
  <2>4. CaughtUp(s) = [Indexed(s, Range(new)) EXCEPT !.cursor = Len(active)]
    BY <1>2, Zenon DEF CaughtUp
  <2> HIDE DEF new
  <2> QED BY <1>1, <2>3, <2>4 DEF Stores
<1>3. CASE ~(Len(active) > s.cursor)
  BY <1>3 DEF CaughtUp
<1> QED BY <1>2, <1>3
-----------------------------------------------------------------------------
(* The steps of the store. *)

LEMMA StoreTypes ==
    EvidenceTypeOK <=>
        /\ segs \in Seq(Seq(Traces)) /\ active \in Seq(Traces)
        /\ lock \in Writers \cup {NoOne, Orphan}
        /\ store \in [Procs -> Stores]
        /\ reads \in [Procs -> ReadPCs]
        /\ writes \in [Writers -> Writes]
BY DEF EvidenceTypeOK, Stores, ReadPCs, Writes

\* A step of a read touches the process's index and its own progress only.
LEMMA ReadStep ==
    ASSUME StoreInv, UNCHANGED <<segs, active, lock, writes>>,
           store' \in [Procs -> Stores], reads' \in [Procs -> ReadPCs]
    PROVE  StoreInv' /\ KeepsTraces
<1>1. EvidenceTypeOK'
  BY DEF StoreInv, EvidenceTypeOK, Stores, ReadPCs
<1>2. LockInv'
  BY DEF StoreInv, LockInv, InAppend, WriteAt
<1>3. KeepsTraces
  <2>1. Len(segs) \in Nat
    BY StoreTypes DEF StoreInv
  <2>2. Lines' = Lines
    BY DEF Lines
  <2> QED BY <2>1, <2>2 DEF KeepsTraces
<1>4. TraceInv'
  BY DEF StoreInv, TraceInv, HasTrace, WriteAt
<1> QED BY <1>1, <1>2, <1>3, <1>4 DEF StoreInv

\* A step of an append that leaves the files alone.
LEMMA WriteMove ==
    ASSUME StoreInv, segs' = segs, active' = active, reads' = reads,
           lock' \in Writers \cup {NoOne, Orphan}, store' \in [Procs -> Stores],
           writes' \in [Writers -> Writes],
           \A v \in Writers : /\ writes'[v].pc \in {"rotate", "unlock"} => writes'[v] = writes[v] /\ lock' = lock
                              /\ writes'[v].pc # "none" => writes'[v].trace \in Traces
    PROVE  StoreInv' /\ KeepsTraces
<1>1. EvidenceTypeOK'
  BY DEF StoreInv, EvidenceTypeOK, Stores, ReadPCs, Writes
<1>2. LockInv'
  <2> SUFFICES ASSUME NEW v \in Writers, InAppend(v)'
               PROVE  lock' = v /\ (WriteAt(v, "rotate")' => writes'[v].rotated = Len(segs') + 1)
    BY DEF LockInv, InAppend, WriteAt
  <2>1. InAppend(v) /\ writes'[v] = writes[v] /\ lock' = lock
    BY DEF InAppend
  <2> QED BY <2>1 DEF StoreInv, LockInv, WriteAt
<1>3. KeepsTraces
  <2>1. Len(segs) \in Nat
    BY StoreTypes DEF StoreInv
  <2>2. Lines' = Lines
    BY DEF Lines
  <2> QED BY <2>1, <2>2 DEF KeepsTraces
<1>4. TraceInv'
  BY DEF TraceInv, HasTrace, WriteAt
<1> QED BY <1>1, <1>2, <1>3, <1>4 DEF StoreInv

LEMMA AppendTraceStep ==
    ASSUME StoreInv, NEW w \in Writers, NEW t \in Traces, AppendTrace(w, t),
           UNCHANGED <<segs, active, lock, store, reads>>
    PROVE  StoreInv' /\ KeepsTraces
<1>0. /\ segs \in Seq(Seq(Traces)) /\ active \in Seq(Traces)
      /\ lock \in Writers \cup {NoOne, Orphan}
      /\ store \in [Procs -> Stores] /\ reads \in [Procs -> ReadPCs]
      /\ writes \in [Writers -> Writes]
      /\ LockInv /\ TraceInv
  BY StoreTypes DEF StoreInv
<1> USE <1>0
<1>1. writes' = [writes EXCEPT ![w] = [pc |-> "lock", trace |-> t, rotated |-> 0]]
  BY DEF AppendTrace
<1>2. writes' \in [Writers -> Writes]
  BY <1>1 DEF Writes
<1>3. \A v \in Writers : /\ writes'[v].pc \in {"rotate", "unlock"} => writes'[v] = writes[v] /\ lock' = lock
                         /\ writes'[v].pc # "none" => writes'[v].trace \in Traces
  BY <1>1 DEF InAppend, TraceInv, HasTrace, WriteAt
<1>4. lock' \in Writers \cup {NoOne, Orphan} /\ store' \in [Procs -> Stores]
  OBVIOUS
<1>5. segs' = segs /\ active' = active /\ reads' = reads
  OBVIOUS
<1> QED BY <1>2, <1>3, <1>4, <1>5, WriteMove

LEMMA WriteEndsStep ==
    ASSUME StoreInv, NEW w \in Writers, GiveUp(w) \/ WriteFails(w)
    PROVE  StoreInv' /\ KeepsTraces
<1>0. /\ segs \in Seq(Seq(Traces)) /\ active \in Seq(Traces)
      /\ lock \in Writers \cup {NoOne, Orphan}
      /\ store \in [Procs -> Stores] /\ reads \in [Procs -> ReadPCs]
      /\ writes \in [Writers -> Writes]
      /\ LockInv /\ TraceInv
  BY StoreTypes DEF StoreInv
<1> USE <1>0
<1>1. writes' = [writes EXCEPT ![w] = NoWrite] /\ UNCHANGED <<segs, active, lock, store, reads>>
  BY DEF GiveUp, WriteFails
<1>2. writes' \in [Writers -> Writes]
  BY <1>1 DEF Writes, NoWrite
<1>3. \A v \in Writers : /\ writes'[v].pc \in {"rotate", "unlock"} => writes'[v] = writes[v] /\ lock' = lock
                         /\ writes'[v].pc # "none" => writes'[v].trace \in Traces
  BY <1>1 DEF InAppend, NoWrite, TraceInv, HasTrace, WriteAt
<1>4. lock' \in Writers \cup {NoOne, Orphan} /\ store' \in [Procs -> Stores]
  BY <1>1
<1>5. segs' = segs /\ active' = active /\ reads' = reads
  BY <1>1
<1> QED BY <1>2, <1>3, <1>4, <1>5, WriteMove

LEMMA ReturnStep ==
    ASSUME StoreInv, NEW w \in Writers, Return(w)
    PROVE  StoreInv' /\ KeepsTraces
<1>0. /\ segs \in Seq(Seq(Traces)) /\ active \in Seq(Traces)
      /\ lock \in Writers \cup {NoOne, Orphan}
      /\ store \in [Procs -> Stores] /\ reads \in [Procs -> ReadPCs]
      /\ writes \in [Writers -> Writes]
      /\ LockInv /\ TraceInv
  BY StoreTypes DEF StoreInv
<1> USE <1>0
<1>1. writes' = [writes EXCEPT ![w] = NoWrite] /\ UNCHANGED <<segs, active, lock, reads>>
  BY DEF Return
<1>2. writes' \in [Writers -> Writes]
  BY <1>1 DEF Writes, NoWrite
<1>3. \A v \in Writers : /\ writes'[v].pc \in {"rotate", "unlock"} => writes'[v] = writes[v] /\ lock' = lock
                         /\ writes'[v].pc # "none" => writes'[v].trace \in Traces
  BY <1>1 DEF InAppend, NoWrite, TraceInv, HasTrace, WriteAt
<1>4. store' \in [Procs -> Stores]
  <2>1. Len(active) \in Nat
    OBVIOUS
  <2>2. [store EXCEPT ![HomeOf(w)].cursor = Len(active)] \in [Procs -> Stores]
    BY <2>1, HomesAreProcs DEF Stores
  <2> QED BY <2>2 DEF Return
<1>5. segs' = segs /\ active' = active /\ reads' = reads /\ lock' \in Writers \cup {NoOne, Orphan}
  BY <1>1
<1> QED BY <1>2, <1>3, <1>4, <1>5, WriteMove

\* A free lock is taken, so nobody else is in an append.
LEMMA WriteStepKeeps ==
    ASSUME StoreInv, NEW w \in Writers, Write(w)
    PROVE  StoreInv' /\ KeepsTraces
<1>0. /\ segs \in Seq(Seq(Traces)) /\ active \in Seq(Traces)
      /\ lock \in Writers \cup {NoOne, Orphan}
      /\ store \in [Procs -> Stores] /\ reads \in [Procs -> ReadPCs]
      /\ writes \in [Writers -> Writes]
      /\ LockInv /\ TraceInv
  BY StoreTypes DEF StoreInv
<1> USE <1>0
<1>1. /\ WriteAt(w, "lock") /\ lock = NoOne /\ lock' = w
      /\ active' = Append(active, writes[w].trace)
      /\ UNCHANGED <<segs, store, reads>>
  BY DEF Write
<1>2. writes[w].trace \in Traces
  BY <1>1 DEF TraceInv, HasTrace, WriteAt
<1>3. active' \in Seq(Traces)
  BY <1>1, <1>2, AppendFacts
<1>4. Len(segs) + 1 \in Nat
  OBVIOUS
<1>5. PICK pc \in {"unlock", "rotate"}, r \in Nat :
          /\ writes' = [writes EXCEPT ![w].pc = pc, ![w].rotated = r]
          /\ pc = "rotate" => r = Len(segs) + 1
  BY <1>4 DEF Write
<1>6. writes' \in [Writers -> Writes]
  BY <1>5 DEF Writes
<1>7. \A v \in Writers : v # w => writes'[v] = writes[v]
  BY <1>5
<1>8. EvidenceTypeOK'
  BY <1>1, <1>3, <1>6 DEF EvidenceTypeOK, Stores, ReadPCs, Writes
<1>9. LockInv'
  <2>1. ASSUME NEW v \in Writers, v # w PROVE ~InAppend(v) /\ writes'[v] = writes[v]
    BY <1>1, <1>7, <2>1, EvidenceAssumption DEF LockInv, Writers
  <2>2. writes'[w].pc = "rotate" => writes'[w].rotated = Len(segs) + 1
    BY <1>5 DEF Writes
  <2> QED BY <1>1, <2>1, <2>2 DEF LockInv, InAppend, WriteAt
<1>11. TraceInv'
  BY <1>1, <1>2, <1>5, <1>7 DEF TraceInv, HasTrace, WriteAt, Writes
<1>10. KeepsTraces
  <2>1. Range(active) \subseteq Range(active')
    BY <1>1, <1>2, AppendFacts DEF Range
  <2>2. Lines \subseteq Lines'
    BY <1>1, <2>1 DEF Lines
  <2> QED BY <1>1, <1>4, <2>2 DEF KeepsTraces
<1> QED BY <1>8, <1>9, <1>10, <1>11 DEF StoreInv

\* The new segment comes after all others.
LEMMA RotateStep ==
    ASSUME StoreInv, NEW w \in Writers, Rotate(w)
    PROVE  StoreInv' /\ KeepsTraces
<1>0. /\ segs \in Seq(Seq(Traces)) /\ active \in Seq(Traces)
      /\ lock \in Writers \cup {NoOne, Orphan}
      /\ store \in [Procs -> Stores] /\ reads \in [Procs -> ReadPCs]
      /\ writes \in [Writers -> Writes]
      /\ LockInv /\ TraceInv
  BY StoreTypes DEF StoreInv
<1> USE <1>0
<1> PICK n : n = Len(segs) + 1
  OBVIOUS
<1>1. /\ WriteAt(w, "rotate") /\ active' = <<>>
      /\ writes' = [writes EXCEPT ![w].pc = "unlock"]
      /\ UNCHANGED <<lock, store, reads>>
  BY DEF Rotate
<1>2. writes[w].rotated = n /\ lock = w
  BY <1>1 DEF LockInv, InAppend, WriteAt
<1>3. segs' = [i \in 1..n |-> IF i = n THEN active ELSE segs[i]]
  <2>1. DOMAIN segs \cup {n} = 1..n
    OBVIOUS
  <2> QED BY <1>2, <2>1, Zenon DEF Rotate
<1>4. /\ segs' \in Seq(Seq(Traces)) /\ Len(segs') = n
      /\ segs'[n] = active
      /\ \A i \in DOMAIN segs : i \in DOMAIN segs' /\ segs'[i] = segs[i]
      /\ n \in DOMAIN segs' /\ n \in Nat
  BY <1>3
<1>5. active' \in Seq(Traces)
  BY <1>1
<1>6. writes' \in [Writers -> Writes]
  BY <1>1 DEF Writes
<1>7. EvidenceTypeOK'
  BY <1>1, <1>4, <1>5, <1>6 DEF EvidenceTypeOK, Stores, ReadPCs, Writes
<1>8. LockInv'
  <2>1. ASSUME NEW v \in Writers, v # w PROVE ~InAppend(v) /\ writes'[v] = writes[v]
    BY <1>1, <1>2, <2>1 DEF LockInv
  <2>2. writes'[w].pc = "unlock"
    BY <1>1 DEF Writes
  <2> QED BY <1>1, <1>2, <2>1, <2>2 DEF LockInv, InAppend, WriteAt
<1>10. TraceInv'
  BY <1>1 DEF TraceInv, HasTrace, WriteAt, Writes
<1>9. KeepsTraces
  <2>1. ASSUME NEW i \in DOMAIN segs PROVE Range(segs[i]) \subseteq Lines'
    BY <1>4, Zenon DEF Lines
  <2>2. Range(active) \subseteq Lines'
    BY <1>4, Zenon DEF Lines
  <2>3. Lines \subseteq Lines'
    <3> SUFFICES ASSUME NEW t \in Lines PROVE t \in Lines'
      OBVIOUS
    <3>1. CASE t \in Range(active)
      BY <2>2, <3>1
    <3>2. CASE t \in UNION {Range(segs[i]) : i \in DOMAIN segs}
      BY <2>1, <3>2, Zenon
    <3> QED BY <3>1, <3>2, Zenon DEF Lines
  <2> QED BY <1>4, <2>3 DEF KeepsTraces
<1> QED BY <1>7, <1>8, <1>9, <1>10 DEF StoreInv

LEMMA UnlockStep ==
    ASSUME StoreInv, NEW w \in Writers, Unlock(w)
    PROVE  StoreInv' /\ KeepsTraces
<1>0. /\ segs \in Seq(Seq(Traces)) /\ active \in Seq(Traces)
      /\ lock \in Writers \cup {NoOne, Orphan}
      /\ store \in [Procs -> Stores] /\ reads \in [Procs -> ReadPCs]
      /\ writes \in [Writers -> Writes]
      /\ LockInv /\ TraceInv
  BY StoreTypes DEF StoreInv
<1> USE <1>0
<1>1. /\ WriteAt(w, "unlock") /\ lock' = NoOne
      /\ writes' = [writes EXCEPT ![w].pc = "return"]
      /\ UNCHANGED <<segs, active, reads>>
  BY DEF Unlock
<1>2. writes' \in [Writers -> Writes]
  BY <1>1 DEF Writes
<1>3. \A v \in Writers : /\ writes'[v].pc \in {"rotate", "unlock"} => writes'[v] = writes[v] /\ lock' = lock
                         /\ writes'[v].pc # "none" => writes'[v].trace \in Traces
  BY <1>1 DEF InAppend, LockInv, WriteAt, Writes, TraceInv, HasTrace
<1>4. store' \in [Procs -> Stores]
  <2> PICK p \in Procs : p = HomeOf(w)
    BY HomesAreProcs
  <2>1. {writes[w].trace} \subseteq Traces
    BY <1>1 DEF WriteAt, TraceInv, HasTrace
  <2> PICK s \in Stores : s = Indexed(store[p], {writes[w].trace})
    BY <2>1, IndexedType
  <2>2. [s EXCEPT !.count = @ + 1, !.cursor = 0] \in Stores
    <3>1. s.count + 1 \in Nat
      BY DEF Stores
    <3> QED BY <3>1 DEF Stores
  <2>3. store' = [store EXCEPT ![p] = IF writes[w].rotated = 0 THEN s
                                     ELSE [s EXCEPT !.count = @ + 1, !.cursor = 0]]
    BY DEF Unlock
  <2> QED BY <2>2, <2>3
<1>5. segs' = segs /\ active' = active /\ reads' = reads /\ lock' \in Writers \cup {NoOne, Orphan}
  BY <1>1
<1> QED BY <1>2, <1>3, <1>4, <1>5, WriteMove
\* Beginning a read, or ending it without a result.
LEMMA ReadMoveStep ==
    ASSUME StoreInv, NEW p \in Procs, NEW pc \in ReadPCs, ReadGoto(p, pc),
           UNCHANGED <<segs, active, lock, store, writes>>
    PROVE  StoreInv' /\ KeepsTraces
<1>0. /\ segs \in Seq(Seq(Traces)) /\ active \in Seq(Traces)
      /\ store \in [Procs -> Stores] /\ reads \in [Procs -> ReadPCs]
      /\ Len(active) \in Nat /\ Len(segs) \in Nat /\ Range(active) \subseteq Traces
  BY StoreTypes, LinesType DEF StoreInv
<1> USE <1>0
<1>9. store' \in [Procs -> Stores] /\ reads' \in [Procs -> ReadPCs]
  BY DEF ReadGoto
<1>8. UNCHANGED <<segs, active, lock, writes>>
  OBVIOUS
<1> QED BY <1>8, <1>9, ReadStep

LEMMA SegmentsStep ==
    ASSUME StoreInv, NEW p \in Procs, Segments(p)
    PROVE  StoreInv' /\ KeepsTraces
<1>0. /\ segs \in Seq(Seq(Traces)) /\ active \in Seq(Traces)
      /\ store \in [Procs -> Stores] /\ reads \in [Procs -> ReadPCs]
      /\ Len(active) \in Nat /\ Len(segs) \in Nat /\ Range(active) \subseteq Traces
  BY StoreTypes, LinesType DEF StoreInv
<1> USE <1>0
<1>1. store[p].count \in Nat
  BY DEF Stores
<1>2. PICK s \in Stores : s = Indexed(store[p], SegmentLines(store[p].count))
  BY <1>1, SegmentsType, IndexedType
<1>3. [s EXCEPT !.count = Len(segs), !.cursor = 0] \in Stores
  BY DEF Stores
<1>4. store' = IF Len(segs) > store[p].count
               THEN [store EXCEPT ![p] = [s EXCEPT !.count = Len(segs), !.cursor = 0]]
               ELSE store
  BY <1>2, Zenon DEF Segments
<1>9. store' \in [Procs -> Stores] /\ reads' \in [Procs -> ReadPCs]
  BY <1>3, <1>4 DEF Segments, ReadGoto, ReadPCs
<1>8. UNCHANGED <<segs, active, lock, writes>>
  BY DEF Segments
<1> QED BY <1>8, <1>9, ReadStep

LEMMA WholeStep ==
    ASSUME StoreInv, NEW p \in Procs, Whole(p)
    PROVE  StoreInv' /\ KeepsTraces
<1>0. /\ segs \in Seq(Seq(Traces)) /\ active \in Seq(Traces)
      /\ store \in [Procs -> Stores] /\ reads \in [Procs -> ReadPCs]
      /\ Len(active) \in Nat /\ Len(segs) \in Nat /\ Range(active) \subseteq Traces
  BY StoreTypes, LinesType DEF StoreInv
<1> USE <1>0
<1>2. PICK s \in Stores : s = Indexed(store[p], Range(active))
  BY IndexedType
<1>3. [s EXCEPT !.cursor = Len(active)] \in Stores
  BY DEF Stores
<1>4. store' = [store EXCEPT ![p] = [s EXCEPT !.cursor = Len(active)]]
  BY <1>2, Zenon DEF Whole
<1>9. store' \in [Procs -> Stores] /\ reads' \in [Procs -> ReadPCs]
  BY <1>3, <1>4 DEF Whole, ReadGoto, ReadPCs
<1>8. UNCHANGED <<segs, active, lock, writes>>
  BY DEF Whole
<1> QED BY <1>8, <1>9, ReadStep

LEMMA DeltaStep ==
    ASSUME StoreInv, NEW p \in Procs, Delta(p)
    PROVE  StoreInv' /\ KeepsTraces
<1>0. /\ segs \in Seq(Seq(Traces)) /\ active \in Seq(Traces)
      /\ store \in [Procs -> Stores] /\ reads \in [Procs -> ReadPCs]
      /\ Len(active) \in Nat /\ Len(segs) \in Nat /\ Range(active) \subseteq Traces
  BY StoreTypes, LinesType DEF StoreInv
<1> USE <1>0
<1>2. CaughtUp(store[p]) \in Stores
  BY CaughtUpType
<1>9. store' \in [Procs -> Stores] /\ reads' \in [Procs -> ReadPCs]
  BY <1>2 DEF Delta, ReadGoto, ReadPCs
<1>8. UNCHANGED <<segs, active, lock, writes>>
  BY DEF Delta
<1> QED BY <1>8, <1>9, ReadStep

LEMMA PruneStep ==
    ASSUME StoreInv, NEW p \in Procs, Prune(p)
    PROVE  StoreInv' /\ KeepsTraces
<1>0. /\ segs \in Seq(Seq(Traces)) /\ active \in Seq(Traces)
      /\ store \in [Procs -> Stores] /\ reads \in [Procs -> ReadPCs]
      /\ Len(active) \in Nat /\ Len(segs) \in Nat /\ Range(active) \subseteq Traces
  BY StoreTypes, LinesType DEF StoreInv
<1> USE <1>0
<1>2. PICK s \in Stores : s = CaughtUp(store[p])
  BY CaughtUpType
<1>3. [s EXCEPT !.known = {}, !.bucket = {}] \in Stores
  BY DEF Stores
<1>4. store' = [store EXCEPT ![p] = [s EXCEPT !.known = {}, !.bucket = {}]]
  BY <1>2, Zenon DEF Prune
<1>9. store' \in [Procs -> Stores] /\ reads' \in [Procs -> ReadPCs]
  BY <1>3, <1>4 DEF Prune, ReadGoto, ReadPCs
<1>8. UNCHANGED <<segs, active, lock, writes>>
  BY DEF Prune
<1> QED BY <1>8, <1>9, ReadStep

\* A process that dies in an append leaves the lock to nobody who could be in one.
LEMMA ForgetStep ==
    ASSUME StoreInv, NEW p \in Procs, Forget(p)
    PROVE  StoreInv' /\ KeepsTraces
<1>0. /\ segs \in Seq(Seq(Traces)) /\ lock \in Writers \cup {NoOne, Orphan}
      /\ store \in [Procs -> Stores] /\ reads \in [Procs -> ReadPCs]
      /\ writes \in [Writers -> Writes]
      /\ LockInv /\ TraceInv
  BY StoreTypes DEF StoreInv
<1> USE <1>0
<1>1. writes' = [w \in Writers |-> IF HomeOf(w) = p THEN NoWrite ELSE writes[w]]
  BY DEF Forget
<1>2. NoWrite \in Writes /\ NoWrite.pc = "none"
  BY DEF Writes, NoWrite
<1>3. writes' \in [Writers -> Writes]
  BY <1>1, <1>2
<1>4. ASSUME NEW v \in Writers, writes'[v].pc # "none"
      PROVE  writes'[v] = writes[v] /\ HomeOf(v) # p /\ writes'[v].trace \in Traces
  <2>1. HomeOf(v) # p
    BY <1>1, <1>2, <1>4
  <2>2. writes'[v] = writes[v]
    BY <1>1, <2>1
  <2> QED BY <1>4, <2>1, <2>2 DEF TraceInv, HasTrace, WriteAt
<1>5. ASSUME NEW v \in Writers, writes'[v].pc \in {"rotate", "unlock"}
      PROVE  lock' = lock
  <2>1. HomeOf(v) # p /\ writes'[v] = writes[v]
    BY <1>4, <1>5
  <2>2. lock = v
    BY <1>5, <2>1 DEF LockInv, InAppend
  <2>3. ~\E w \in Writers : lock = w /\ HomeOf(w) = p
    BY <2>1, <2>2
  <2> QED BY <2>3 DEF Forget
<1>6. \A v \in Writers : /\ writes'[v].pc \in {"rotate", "unlock"} => writes'[v] = writes[v] /\ lock' = lock
                         /\ writes'[v].pc # "none" => writes'[v].trace \in Traces
  BY <1>4, <1>5
<1>7. EmptyStore \in Stores
  BY DEF EmptyStore, Stores
<1>8. /\ lock' \in Writers \cup {NoOne, Orphan}
      /\ store' \in [Procs -> Stores] /\ reads' \in [Procs -> ReadPCs]
      /\ segs' = segs /\ active' = active
  BY <1>7 DEF Forget, ReadPCs
<1>9. EvidenceTypeOK'
  BY <1>3, <1>8 DEF StoreInv, EvidenceTypeOK, Stores, ReadPCs, Writes
<1>10. LockInv'
  <2> SUFFICES ASSUME NEW v \in Writers
               PROVE  /\ writes'[v].pc \in {"rotate", "unlock"} => lock' = v
                      /\ writes'[v].pc = "rotate" => writes'[v].rotated = Len(segs') + 1
    BY DEF LockInv, InAppend, WriteAt
  <2> QED BY <1>6, <1>8 DEF LockInv, InAppend, WriteAt
<1>11. TraceInv'
  BY <1>6 DEF TraceInv, HasTrace, WriteAt
<1>12. KeepsTraces
  <2>1. Len(segs) \in Nat
    OBVIOUS
  <2>2. Lines' = Lines
    BY <1>8 DEF Lines
  <2> QED BY <1>8, <2>1, <2>2 DEF KeepsTraces
<1> QED BY <1>9, <1>10, <1>11, <1>12 DEF StoreInv
-----------------------------------------------------------------------------
(* The steps of the host. *)

HostTypeOK ==
    /\ proc \in [Procs -> {"down", "starting", "up"}]
    /\ orphans \in [Procs -> SUBSET Calls]
    /\ calls \in [Calls -> {"idle", "start", "decide", "finish", "returned", "lost"}]
    /\ used \in [starts : Nat, asks : Nat, faults : Nat]
    /\ seen \in [Procs -> [lines : SUBSET Traces, segs : Nat]]
    /\ quiet \subseteq Procs /\ acked \subseteq Traces /\ pruned \subseteq Calls

LEMMA InvParts ==
    /\ Inv <=> StoreInv /\ HostTypeOK
    /\ Inv' <=> StoreInv' /\ HostTypeOK'
<1>1. TypeOK <=> EvidenceTypeOK /\ HostTypeOK
  BY DEF TypeOK, HostTypeOK
<1>2. TypeOK' <=> EvidenceTypeOK' /\ HostTypeOK'
  BY DEF TypeOK, HostTypeOK
<1> QED BY <1>1, <1>2 DEF Inv, StoreInv

LEMMA SeenType ==
    ASSUME StoreInv
    PROVE  /\ OnDisk \in [lines : SUBSET Traces, segs : Nat]
           /\ Nothing \in [lines : SUBSET Traces, segs : Nat]
<1>1. Lines \subseteq Traces /\ Len(segs) \in Nat
  BY StoreTypes, LinesType DEF StoreInv
<1> QED BY <1>1 DEF OnDisk, Nothing

LEMMA CallsAreWriters ==
    /\ \A c \in Calls : c \in Writers /\ Home[c] \in Procs
    /\ \A p \in Procs : p \in Writers
BY EvidenceAssumption DEF Writers

LEMMA StartUpStep ==
    ASSUME Inv, NEW p \in Procs, Start(p)
    PROVE  Inv' /\ KeepsTraces
<1>1. StoreInv /\ HostTypeOK
  BY InvParts
<1>2. StoreInv' /\ KeepsTraces
  <2>1. ReadGoto(p, "first") /\ UNCHANGED <<segs, active, lock, store, writes>>
    BY DEF Start, FirstRead
  <2> QED BY <1>1, <2>1, ReadMoveStep DEF ReadPCs
<1>3. HostTypeOK'
  BY <1>1, SeenType DEF Start, HostTypeOK
<1> QED BY <1>2, <1>3, InvParts

LEMMA FindOrphansStep ==
    ASSUME Inv, NEW p \in Procs, FindOrphans(p)
    PROVE  Inv' /\ KeepsTraces
<1>1. StoreInv /\ HostTypeOK
  BY InvParts
<1>2. StoreInv' /\ KeepsTraces
  <2>1. CASE NoTraces(p)
    BY <1>1, <2>1, ReadMoveStep DEF NoTraces, ReadPCs
  <2>2. CASE Whole(p)
    BY <1>1, <2>2, WholeStep
  <2> QED BY <2>1, <2>2 DEF FindOrphans
<1>3. HostTypeOK'
  BY <1>1, SeenType DEF FindOrphans, HostTypeOK
<1> QED BY <1>2, <1>3, InvParts

LEMMA ReconcileStep ==
    ASSUME Inv, NEW p \in Procs, Reconcile(p)
    PROVE  Inv' /\ KeepsTraces
<1>1. StoreInv /\ HostTypeOK
  BY InvParts
<1>2. StoreInv' /\ KeepsTraces
  <2> PICK c \in Calls : AppendTrace(p, Finished(c))
    BY <1>1 DEF Reconcile, HostTypeOK
  <2>1. UNCHANGED <<segs, active, lock, store, reads>>
    BY DEF Reconcile
  <2> QED BY <1>1, <2>1, StartedType, CallsAreWriters, AppendTraceStep
<1>3. HostTypeOK'
  BY <1>1 DEF Reconcile, HostTypeOK
<1> QED BY <1>2, <1>3, InvParts

LEMMA ReconciledStep ==
    ASSUME Inv, NEW p \in Procs, Reconciled(p)
    PROVE  Inv' /\ KeepsTraces
<1>1. StoreInv /\ HostTypeOK
  BY InvParts
<1>2. StoreInv' /\ KeepsTraces
  BY <1>1, CallsAreWriters, ReturnStep DEF Reconciled
<1>3. HostTypeOK'
  BY <1>1 DEF Reconciled, hostVars, HostTypeOK
<1> QED BY <1>2, <1>3, InvParts

LEMMA UpStep ==
    ASSUME Inv, NEW p \in Procs, Up(p)
    PROVE  Inv' /\ KeepsTraces
<1>1. StoreInv /\ HostTypeOK
  BY InvParts
<1>2. StoreInv' /\ KeepsTraces
  <2>1. UNCHANGED <<segs, active, lock, writes, store, reads>>
    BY DEF Up, evidenceVars
  <2>2. store' \in [Procs -> Stores] /\ reads' \in [Procs -> ReadPCs]
    BY <1>1, <2>1, StoreTypes DEF StoreInv
  <2> QED BY <1>1, <2>1, <2>2, ReadStep
<1>3. HostTypeOK'
  BY <1>1 DEF Up, HostTypeOK
<1> QED BY <1>2, <1>3, InvParts

LEMMA StopStep ==
    ASSUME Inv, NEW p \in Procs, Stop(p), used' \in [starts : Nat, asks : Nat, faults : Nat]
    PROVE  Inv' /\ KeepsTraces
<1>1. StoreInv /\ HostTypeOK
  BY InvParts
<1>2. StoreInv' /\ KeepsTraces
  BY <1>1, ForgetStep DEF Stop
<1>3. HostTypeOK'
  BY <1>1, SeenType DEF Stop, HostTypeOK
<1> QED BY <1>2, <1>3, InvParts

LEMMA ExecuteStep ==
    ASSUME Inv, NEW c \in Calls, Execute(c)
    PROVE  Inv' /\ KeepsTraces
<1>1. StoreInv /\ HostTypeOK
  BY InvParts
<1>2. StoreInv' /\ KeepsTraces
  <2>1. AppendTrace(c, Started(c)) /\ UNCHANGED <<segs, active, lock, store, reads>>
    BY DEF Execute
  <2> QED BY <1>1, <2>1, StartedType, CallsAreWriters, AppendTraceStep
<1>3. HostTypeOK'
  BY <1>1 DEF Execute, CallGoto, HostTypeOK
<1> QED BY <1>2, <1>3, InvParts

LEMMA DecideStep ==
    ASSUME Inv, NEW c \in Calls, Decide(c)
    PROVE  Inv' /\ KeepsTraces
<1>1. StoreInv /\ HostTypeOK
  BY InvParts
<1>2. StoreInv' /\ KeepsTraces
  <2>1. AppendTrace(c, Finished(c)) /\ UNCHANGED <<segs, active, lock, store, reads>>
    BY DEF Decide
  <2> QED BY <1>1, <2>1, StartedType, CallsAreWriters, AppendTraceStep
<1>3. HostTypeOK'
  BY <1>1 DEF Decide, CallGoto, HostTypeOK
<1> QED BY <1>2, <1>3, InvParts

LEMMA RecordedStep ==
    ASSUME Inv, NEW c \in Calls, Recorded(c)
    PROVE  Inv' /\ KeepsTraces
<1>1. StoreInv /\ HostTypeOK
  BY InvParts
<1>2. StoreInv' /\ KeepsTraces
  BY <1>1, CallsAreWriters, ReturnStep DEF Recorded
<1>3. HostTypeOK'
  <2>1. writes[c].trace \in Traces
    BY <1>1, CallsAreWriters DEF Recorded, Return, StoreInv, TraceInv, HasTrace, WriteAt
  <2> QED BY <1>1, <2>1 DEF Recorded, AfterAppend, CallGoto, HostTypeOK
<1> QED BY <1>2, <1>3, InvParts

LEMMA UnrecordedStep ==
    ASSUME Inv, NEW c \in Calls, Unrecorded(c) \/ UnrecordedFault(c)
    PROVE  Inv' /\ KeepsTraces
<1>1. StoreInv /\ HostTypeOK
  BY InvParts
<1>2. StoreInv' /\ KeepsTraces
  BY <1>1, CallsAreWriters, WriteEndsStep DEF Unrecorded, UnrecordedFault
<1>3. HostTypeOK'
  BY <1>1 DEF Unrecorded, UnrecordedFault, AfterAppend, CallGoto, HostTypeOK
<1> QED BY <1>2, <1>3, InvParts

LEMMA AskStep ==
    ASSUME Inv, NEW p \in Procs, Ask(p)
    PROVE  Inv' /\ KeepsTraces
<1>1. StoreInv /\ HostTypeOK
  BY InvParts
<1>2. StoreInv' /\ KeepsTraces
  <2>1. ReadGoto(p, "list") /\ UNCHANGED <<segs, active, lock, store, writes>>
    BY DEF Ask, Read
  <2> QED BY <1>1, <2>1, ReadMoveStep DEF ReadPCs
<1>3. HostTypeOK'
  BY <1>1, SeenType DEF Ask, HostTypeOK
<1> QED BY <1>2, <1>3, InvParts

LEMMA AnswerStep ==
    ASSUME Inv, NEW p \in Procs, Answer(p)
    PROVE  Inv' /\ KeepsTraces
<1>1. StoreInv /\ HostTypeOK
  BY InvParts
<1>2. StoreInv' /\ KeepsTraces
  <2>1. CASE Delta(p)
    BY <1>1, <2>1, DeltaStep
  <2>2. CASE ReadFails(p)
    BY <1>1, <2>2, ReadMoveStep DEF ReadFails, ReadPCs
  <2> QED BY <2>1, <2>2 DEF Answer
<1>3. HostTypeOK'
  BY <1>1, SeenType DEF Answer, HostTypeOK
<1> QED BY <1>2, <1>3, InvParts

LEMMA PruneTaskStep ==
    ASSUME Inv, NEW p \in Procs, PruneTask(p)
    PROVE  Inv' /\ KeepsTraces
<1>1. StoreInv /\ HostTypeOK
  BY InvParts
<1>2. StoreInv' /\ KeepsTraces
  BY <1>1, PruneStep DEF PruneTask
<1>3. HostTypeOK'
  BY <1>1, SeenType DEF PruneTask, HostTypeOK
<1> QED BY <1>2, <1>3, InvParts

LEMMA AdvanceStep ==
    ASSUME Inv, Advance
    PROVE  Inv' /\ KeepsTraces
<1>1. StoreInv /\ HostTypeOK
  BY InvParts
<1>2. StoreInv' /\ KeepsTraces
  <2>1. ASSUME NEW w \in Writers, WriteStep(w) PROVE StoreInv' /\ KeepsTraces
    BY <1>1, <2>1, WriteStepKeeps, RotateStep, UnlockStep DEF WriteStep
  <2>2. ASSUME NEW p \in Procs, Segments(p) PROVE StoreInv' /\ KeepsTraces
    BY <1>1, <2>2, SegmentsStep
  <2> QED BY <2>1, <2>2 DEF Advance
<1>3. HostTypeOK'
  BY <1>1 DEF Advance, hostVars, HostTypeOK
<1> QED BY <1>2, <1>3, InvParts

LEMMA InitInv == Init => Inv
<1> SUFFICES ASSUME Init PROVE Inv
  OBVIOUS
<1>1. segs \in Seq(Seq(Traces)) /\ active \in Seq(Traces)
  BY DEF Init, EvidenceInit
<1>2. EmptyStore \in Stores /\ NoWrite \in Writes
  BY DEF EmptyStore, Stores, NoWrite, Writes
<1>3. StoreInv
  BY <1>1, <1>2, StoreTypes
     DEF Init, EvidenceInit, StoreInv, LockInv, TraceInv, InAppend, HasTrace, WriteAt, NoWrite, ReadPCs
<1>4. HostTypeOK
  BY DEF Init, HostTypeOK, Nothing
<1> QED BY <1>3, <1>4, InvParts

LEMMA StepInv ==
    ASSUME Inv, Next
    PROVE  Inv' /\ KeepsTraces
<1>1. ASSUME NEW p \in Procs, StartStep(p) PROVE Inv' /\ KeepsTraces
  <2>1. CASE FindOrphans(p) \/ Reconcile(p) \/ Reconciled(p) \/ Up(p)
    BY <2>1, FindOrphansStep, ReconcileStep, ReconciledStep, UpStep
  <2>2. CASE StartFails(p)
    <3>1. used' \in [starts : Nat, asks : Nat, faults : Nat]
      BY <2>2, InvParts DEF StartFails, HostTypeOK
    <3> QED BY <2>2, <3>1, StopStep DEF StartFails
  <2> QED BY <1>1, <2>1, <2>2 DEF StartStep
<1>2. ASSUME NEW p \in Procs, Crash(p) PROVE Inv' /\ KeepsTraces
  <2>1. used' \in [starts : Nat, asks : Nat, faults : Nat]
    BY <1>2, InvParts DEF Crash, HostTypeOK
  <2> QED BY <1>2, <2>1, StopStep DEF Crash
<1>3. ASSUME NEW p \in Procs, Start(p) \/ Ask(p) \/ Answer(p) \/ PruneTask(p)
      PROVE  Inv' /\ KeepsTraces
  BY <1>3, StartUpStep, AskStep, AnswerStep, PruneTaskStep
<1>4. ASSUME NEW c \in Calls, Execute(c) \/ CallStep(c) \/ UnrecordedFault(c)
      PROVE  Inv' /\ KeepsTraces
  BY <1>4, ExecuteStep, RecordedStep, UnrecordedStep, DecideStep DEF CallStep
<1> QED BY <1>1, <1>2, <1>3, <1>4, AdvanceStep DEF Next

LEMMA StutterInv == Inv /\ UNCHANGED vars => Inv'
<1> SUFFICES ASSUME Inv, UNCHANGED vars PROVE Inv'
  OBVIOUS
<1>1. StoreInv /\ HostTypeOK
  BY InvParts
<1>2. UNCHANGED <<segs, active, lock, writes, store, reads>>
  BY DEF vars, evidenceVars
<1>3. store' \in [Procs -> Stores] /\ reads' \in [Procs -> ReadPCs]
  BY <1>1, <1>2, StoreTypes DEF StoreInv
<1>4. StoreInv'
  BY <1>1, <1>2, <1>3, ReadStep
<1>5. HostTypeOK'
  BY <1>1 DEF vars, hostVars, HostTypeOK
<1> QED BY <1>4, <1>5, InvParts

\* The lock invariant and the types hold in every reachable state.
THEOREM HostInv == Spec => []Inv
<1>1. Inv /\ [Next]_vars => Inv'
  BY StepInv, StutterInv
<1> QED BY <1>1, InitInv, PTL DEF Spec

-----------------------------------------------------------------------------
(* What follows. *)

\* The host's and the store's state have their types in every reachable state, whatever
\* fails or dies (tool-host.ts, evidence-store.ts).
THEOREM HostTypes == Spec => []TypeOK
<1>1. Inv => TypeOK
  BY DEF Inv
<1> QED BY <1>1, HostInv, PTL

\* No trace on disk is lost: the rotations of all processes together never replace a
\* segment, and nothing else removes a line (evidence-store.ts compactIfNeeded).
THEOREM NoTraceIsLost == Spec => TracesAreKept
<1>1. Inv /\ [Next]_vars => [KeepsTraces]_vars
  BY StepInv
<1> QED BY <1>1, HostInv, PTL DEF Spec, TracesAreKept

-----------------------------------------------------------------------------
(* What the evidence is good for, in every reachable state.  The invariant has   *)
(* a part for each thing the argument turns on.                                  *)

Live(c) == calls[c] \notin {"idle", "lost"}

Dormant(p) == \A c \in Calls : Home[c] = p => ~Live(c)

\* What a process has under way, by where it is.
Phase(p) ==
    /\ proc[p] = "down" => store[p] = EmptyStore /\ reads[p] = "none" /\ seen[p] = Nothing
    /\ proc[p] # "up" => Dormant(p)
    /\ proc[p] # "starting" => orphans[p] = {} /\ WriteAt(p, "none")
    /\ reads[p] \in {"first", "whole"} => proc[p] = "starting" /\ orphans[p] = {} /\ p \in quiet
    /\ reads[p] \in {"list", "delta"} => proc[p] = "up"
    /\ p \in quiet => WriteAt(p, "none") /\ Dormant(p)

\* A call appends its start, and later its finish.
OwnTrace(c) ==
    ~WriteAt(c, "none") =>
       \/ CallAt(c, "start") /\ writes[c].trace = Started(c)
       \/ CallAt(c, "finish") /\ writes[c].trace = Finished(c)

\* What is indexed, or believed to be written, or was seen, is on disk.
Indexes(p) ==
    /\ store[p].index \subseteq Lines
    /\ seen[p].lines \subseteq Lines /\ seen[p].segs <= Len(segs)

Written(w) == writes[w].pc \in {"rotate", "unlock", "return"} => writes[w].trace \in Lines

\* The call has a finish, or a start-up is about to give it one.
Settling(p, c) ==
    \/ Finished(c) \in Lines
    \/ c \in orphans[p]
    \/ WriteAt(p, "lock") /\ writes[p].trace = Finished(c)

\* What a start-up makes up is the finish of a started call that had none.
Open(p, c) == Started(c) \in Lines /\ Finished(c) \notin seen[p].lines

Reconciling(p) ==
    /\ \A c \in orphans[p] : Open(p, c)
    /\ ~WriteAt(p, "none") => \E c \in Calls : writes[p].trace = Finished(c) /\ Open(p, c)
    /\ proc[p] = "starting" /\ reads[p] = "none" =>
          \A c \in Calls : Started(c) \in seen[p].lines => Settling(p, c)

\* Only an own append can make a process count a segment it has not read.
Covered(p) ==
    p \in quiet =>
       /\ store[p].count <= Len(segs)
       /\ \A i \in 1..store[p].count : Range(segs[i]) \subseteq store[p].index
       /\ store[p].count = Len(segs) =>
             /\ store[p].cursor <= Len(active)
             /\ \A i \in 1..store[p].cursor : active[i] \in store[p].index
       /\ reads[p] \in {"whole", "delta"} => seen[p].segs <= store[p].count

\* A start of a live call that is on disk is indexed, or its append still has the
\* lock and nobody can have found the call unfinished and written a finish.
StartIndexed(c) ==
    Started(c) \in Lines =>
       \/ Started(c) \in store[Home[c]].index
       \/ InAppend(c) /\ CallAt(c, "start") /\ Finished(c) \notin Lines

InBucket(s, c) ==
    /\ Started(c) \in s.index => c \in s.known /\ Started(c) \in s.bucket
    /\ Started(c) \in Lines /\ Finished(c) \in s.index => Finished(c) \in s.bucket

Shown(c) ==
    /\ CallAt(c, "idle") \/ (CallAt(c, "start") /\ WriteAt(c, "lock")) => Started(c) \notin Lines
    /\ calls[c] \in {"idle", "start"} /\ Started(c) \notin Lines => Finished(c) \notin Lines
    /\ Live(c) =>
          /\ StartIndexed(c)
          /\ WriteAt(c, "return") => writes[c].trace \in store[Home[c]].index
          /\ c \notin pruned => InBucket(store[Home[c]], c)

Returned(t) == Live(t.call) /\ t \in store[Home[t.call]].index

EvidenceInv ==
    /\ \A p \in Procs : Phase(p) /\ Indexes(p) /\ Reconciling(p) /\ Covered(p)
    /\ \A c \in Calls : OwnTrace(c) /\ Shown(c)
    /\ \A w \in Writers : Written(w)
    /\ \A t \in acked : Returned(t)

FullInv == Inv /\ EvidenceInv

-----------------------------------------------------------------------------
(* How an index grows. *)

\* s2 is s with the traces T indexed.
Grows(s, s2, T) ==
    /\ s2.index = s.index \cup T
    /\ s.known \subseteq s2.known /\ s.bucket \subseteq s2.bucket
    /\ \A c \in Calls :
          /\ Started(c) \in T \ s.index => c \in s2.known /\ Started(c) \in s2.bucket
          /\ Finished(c) \in T \ s.index /\ c \in s2.known => Finished(c) \in s2.bucket

LEMMA IndexedGrows ==
    ASSUME NEW s \in Stores, NEW T \in SUBSET Traces
    PROVE  /\ Grows(s, Indexed(s, T), T)
           /\ Indexed(s, T).cursor = s.cursor /\ Indexed(s, T).count = s.count
<1> DEFINE fresh == T \ s.index
           calledOf == {t.call : t \in {u \in fresh : u.kind = "started"}}
           known == s.known \cup calledOf
           inBucket == {t \in fresh : t.call \in known}
<1>1. Indexed(s, T) = [s EXCEPT !.index = s.index \cup fresh, !.known = known,
                                !.bucket = s.bucket \cup inBucket]
  BY Zenon DEF Indexed
<1>2. ASSUME NEW c \in Calls, Started(c) \in fresh PROVE c \in known /\ Started(c) \in inBucket
  <2>1. Started(c).call = c /\ Started(c).kind = "started"
    BY DEF Started
  <2>2. Started(c) \in {u \in fresh : u.kind = "started"}
    BY <1>2, <2>1
  <2>3. c \in calledOf
    BY <2>1, <2>2
  <2> QED BY <1>2, <2>1, <2>3
<1>3. ASSUME NEW c \in Calls, Finished(c) \in fresh, c \in known PROVE Finished(c) \in inBucket
  BY <1>3 DEF Finished
<1>4. s.index \cup fresh = s.index \cup T
  OBVIOUS
<1> HIDE DEF calledOf, known, inBucket
<1>5. PICK x \in Stores : x = Indexed(s, T)
  BY IndexedType
<1>6. /\ x.index = s.index \cup fresh /\ x.known = known
      /\ x.bucket = s.bucket \cup inBucket /\ x.cursor = s.cursor /\ x.count = s.count
  BY <1>1, <1>5 DEF Stores
<1>7. s.known \subseteq known
  BY DEF known
<1>8. Grows(s, x, T)
  BY <1>2, <1>3, <1>4, <1>6, <1>7 DEF Grows
<1> QED BY <1>5, <1>6, <1>8

\* Cursor and count have no part in it.
LEMMA GrowsExcept ==
    ASSUME NEW s \in Stores, NEW x \in Stores, NEW T, Grows(s, x, T), NEW n, NEW k
    PROVE  /\ Grows(s, [x EXCEPT !.cursor = n], T)
           /\ Grows(s, [x EXCEPT !.count = k, !.cursor = n], T)
BY DEF Grows, Stores

LEMMA GrowsNot ==
    ASSUME NEW s, NEW s2, s2.index = s.index, s2.known = s.known, s2.bucket = s.bucket
    PROVE  Grows(s, s2, {})
BY DEF Grows

LEMMA SubSeqFacts ==
    ASSUME NEW S, NEW s \in Seq(S), NEW n \in Nat, n < Len(s)
    PROVE  /\ SubSeq(s, n + 1, Len(s)) \in Seq(S)
           /\ Len(SubSeq(s, n + 1, Len(s))) = Len(s) - n
           /\ \A i \in 1..(Len(s) - n) :
                 i + n \in DOMAIN s /\ SubSeq(s, n + 1, Len(s))[i] = s[i + n]
<1> PICK k \in Nat : k = Len(s)
  OBVIOUS
<1>1. ASSUME NEW i \in 1..(k - n) PROVE i + n \in 1..k /\ (n + 1) + i - 1 = i + n
  OBVIOUS
<1>2. SubSeq(s, n + 1, k) = [i \in 1..(k - n) |-> s[(n + 1) + i - 1]]
  OBVIOUS
<1>3. SubSeq(s, n + 1, k) \in Seq(S) /\ Len(SubSeq(s, n + 1, k)) = k - n
  OBVIOUS
<1> QED BY <1>1, <1>2, <1>3

LEMMA SuffixRange ==
    ASSUME NEW S, NEW s \in Seq(S), NEW n \in Nat, n < Len(s)
    PROVE  /\ Range(SubSeq(s, n + 1, Len(s))) \subseteq Range(s)
           /\ \A i \in (n + 1)..Len(s) : s[i] \in Range(SubSeq(s, n + 1, Len(s)))
<1> PICK new : new = SubSeq(s, n + 1, Len(s))
  OBVIOUS
<1>1. /\ new \in Seq(S) /\ Len(new) = Len(s) - n
      /\ \A i \in 1..(Len(s) - n) : i + n \in DOMAIN s /\ new[i] = s[i + n]
  BY SubSeqFacts
<1>2. DOMAIN new = 1..(Len(s) - n)
  BY <1>1
<1>3. Range(new) \subseteq Range(s)
  BY <1>1, <1>2 DEF Range
<1>4. ASSUME NEW i \in (n + 1)..Len(s) PROVE s[i] \in Range(new)
  <2>1. i - n \in 1..(Len(s) - n) /\ (i - n) + n = i
    OBVIOUS
  <2>2. new[i - n] = s[i]
    BY <1>1, <2>1
  <2> QED BY <1>2, <2>1, <2>2 DEF Range
<1> QED BY <1>3, <1>4

\* The rest of the active file is read.
LEMMA CaughtUpGrows ==
    ASSUME active \in Seq(Traces), NEW s \in Stores
    PROVE  \E T \in SUBSET Range(active) :
              /\ Grows(s, CaughtUp(s), T)
              /\ CaughtUp(s).count = s.count
              /\ s.cursor <= Len(active) =>
                    /\ CaughtUp(s).cursor = Len(active)
                    /\ \A i \in (s.cursor + 1)..Len(active) : active[i] \in T
<1>1. s.cursor \in Nat /\ Len(active) \in Nat
  BY DEF Stores
<1>2. CASE Len(active) > s.cursor
  <2> PICK new : new = SubSeq(active, s.cursor + 1, Len(active))
    OBVIOUS
  <2> PICK n \in Nat : n = s.cursor
    BY <1>1
  <2>1. Range(SubSeq(active, n + 1, Len(active))) \subseteq Range(active)
    BY <1>1, <1>2, SuffixRange
  <2>2. Range(new) \subseteq Range(active) /\ Range(new) \subseteq Traces
    BY <2>1, RangeType
  <2>3. \A i \in (s.cursor + 1)..Len(active) : active[i] \in Range(new)
    BY <1>1, <1>2, SuffixRange
  <2>4. PICK x \in Stores : x = Indexed(s, Range(new))
    BY <2>2, IndexedType
  <2>5. Grows(s, x, Range(new)) /\ x.count = s.count
    BY <2>2, <2>4, IndexedGrows
  <2>6. CaughtUp(s) = [x EXCEPT !.cursor = Len(active)]
    BY <1>2, <2>4, Zenon DEF CaughtUp
  <2>7. /\ [x EXCEPT !.cursor = Len(active)].count = s.count
        /\ [x EXCEPT !.cursor = Len(active)].cursor = Len(active)
    BY <2>5 DEF Stores
  <2>8. Grows(s, [x EXCEPT !.cursor = Len(active)], Range(new))
    BY <1>1, <2>5, GrowsExcept
  <2> QED BY <2>2, <2>3, <2>6, <2>7, <2>8
<1>3. CASE ~(Len(active) > s.cursor)
  <2>1. CaughtUp(s) = s
    BY <1>3 DEF CaughtUp
  <2>2. Grows(s, s, {})
    BY GrowsNot
  <2>3. s.cursor <= Len(active) => s.cursor = Len(active) /\ (s.cursor + 1)..Len(active) = {}
    BY <1>1, <1>3
  <2> QED BY <2>1, <2>2, <2>3
<1> QED BY <1>2, <1>3

-----------------------------------------------------------------------------
(* What each step does to an index. *)

LEMMA FullFacts ==
    ASSUME FullInv
    PROVE  /\ StoreInv /\ HostTypeOK /\ EvidenceInv /\ LockInv /\ TraceInv
           /\ segs \in Seq(Seq(Traces)) /\ active \in Seq(Traces)
           /\ Len(segs) \in Nat /\ Len(active) \in Nat
           /\ store \in [Procs -> Stores] /\ reads \in [Procs -> ReadPCs]
           /\ writes \in [Writers -> Writes]
           /\ Lines \subseteq Traces /\ Range(active) \subseteq Lines
           /\ \A n \in Nat : SegmentLines(n) \subseteq Lines
<1>1. StoreInv /\ HostTypeOK
  BY InvParts DEF FullInv
<1>2. /\ segs \in Seq(Seq(Traces)) /\ active \in Seq(Traces)
      /\ store \in [Procs -> Stores] /\ reads \in [Procs -> ReadPCs]
      /\ writes \in [Writers -> Writes]
  BY <1>1, StoreTypes DEF StoreInv
<1>3. Len(segs) \in Nat /\ Len(active) \in Nat /\ Lines \subseteq Traces
  BY <1>2, LinesType
<1>4. ASSUME NEW n \in Nat PROVE SegmentLines(n) \subseteq Lines
  <2> SUFFICES ASSUME NEW t \in SegmentLines(n) PROVE t \in Lines
    OBVIOUS
  <2>1. PICK i \in (n + 1)..Len(segs) : t \in Range(segs[i])
    BY DEF SegmentLines
  <2>2. i \in DOMAIN segs
    BY <1>2, <1>3, <2>1
  <2> QED BY <2>1, <2>2, Zenon DEF Lines
<1>5. Range(active) \subseteq Lines
  BY DEF Lines
<1> QED BY <1>1, <1>2, <1>3, <1>4, <1>5 DEF StoreInv, FullInv

LEMMA UnlockEffect ==
    ASSUME StoreInv, NEW w \in Writers, Unlock(w)
    PROVE  /\ Grows(store[HomeOf(w)], store'[HomeOf(w)], {writes[w].trace})
           /\ \A q \in Procs : q # HomeOf(w) => store'[q] = store[q]
<1>0. store \in [Procs -> Stores] /\ TraceInv
  BY StoreTypes DEF StoreInv
<1> PICK p \in Procs : p = HomeOf(w)
  BY HomesAreProcs
<1>1. {writes[w].trace} \subseteq Traces
  BY <1>0 DEF Unlock, WriteAt, TraceInv, HasTrace
<1> PICK s \in Stores : s = Indexed(store[p], {writes[w].trace})
  BY <1>0, <1>1, IndexedType
<1>2. Grows(store[p], s, {writes[w].trace})
  BY <1>0, <1>1, IndexedGrows
<1>3. Grows(store[p], [s EXCEPT !.count = s.count + 1, !.cursor = 0], {writes[w].trace})
  BY <1>0, <1>2, GrowsExcept
<1>4. store' = [store EXCEPT ![p] = IF writes[w].rotated = 0 THEN s
                                   ELSE [s EXCEPT !.count = s.count + 1, !.cursor = 0]]
  BY DEF Unlock
<1>5. store'[p] = IF writes[w].rotated = 0 THEN s
                  ELSE [s EXCEPT !.count = s.count + 1, !.cursor = 0]
  BY <1>0, <1>4
<1>6. \A q \in Procs : q # p => store'[q] = store[q]
  BY <1>0, <1>4
<1> QED BY <1>2, <1>3, <1>5, <1>6

LEMMA ReturnEffect ==
    ASSUME StoreInv, NEW w \in Writers, Return(w)
    PROVE  /\ \A q \in Procs : Grows(store[q], store'[q], {}) /\ store'[q].index = store[q].index
           /\ \A q \in Procs : q # HomeOf(w) => store'[q] = store[q]
<1>0. store \in [Procs -> Stores]
  BY StoreTypes DEF StoreInv
<1>1. PICK h \in Procs : h = HomeOf(w)
  BY HomesAreProcs
<1>2. ASSUME NEW q \in Procs
      PROVE  /\ store'[q].index = store[q].index /\ store'[q].known = store[q].known
             /\ store'[q].bucket = store[q].bucket
             /\ q # h => store'[q] = store[q]
  <2>1. CASE store' = store
    BY <2>1
  <2>2. CASE store' = [store EXCEPT ![h].cursor = Len(active)]
    BY <1>0, <2>2 DEF Stores
  <2> QED BY <1>1, <2>1, <2>2 DEF Return
<1> QED BY <1>1, <1>2, GrowsNot

LEMMA SegmentsEffect ==
    ASSUME StoreInv, NEW p \in Procs, Segments(p)
    PROVE  /\ \A q \in Procs : q # p => store'[q] = store[q]
           /\ \/ store'[p] = store[p] /\ Len(segs) <= store[p].count
              \/ /\ store[p].count < Len(segs)
                 /\ Grows(store[p], store'[p], SegmentLines(store[p].count))
                 /\ store'[p].count = Len(segs) /\ store'[p].cursor = 0
<1>0. store \in [Procs -> Stores] /\ segs \in Seq(Seq(Traces)) /\ Len(segs) \in Nat
  BY StoreTypes DEF StoreInv
<1>1. store[p].count \in Nat
  BY <1>0 DEF Stores
<1>2. SegmentLines(store[p].count) \in SUBSET Traces
  BY <1>0, <1>1, SegmentsType
<1> PICK T \in SUBSET Traces : T = SegmentLines(store[p].count)
  BY <1>2
<1> PICK s \in Stores : s = Indexed(store[p], T)
  BY <1>0, IndexedType
<1>3. Grows(store[p], s, T)
  BY <1>0, IndexedGrows
<1> PICK x : x = [s EXCEPT !.count = Len(segs), !.cursor = 0]
  OBVIOUS
<1>4. Grows(store[p], x, T) /\ x.count = Len(segs) /\ x.cursor = 0
  BY <1>0, <1>3, GrowsExcept DEF Stores
<1>5. store' = IF Len(segs) > store[p].count THEN [store EXCEPT ![p] = x] ELSE store
  BY Zenon DEF Segments
<1>6. CASE Len(segs) > store[p].count
  <2>1. store'[p] = x /\ \A q \in Procs : q # p => store'[q] = store[q]
    BY <1>0, <1>5, <1>6
  <2> QED BY <1>0, <1>1, <1>4, <1>6, <2>1
<1>7. CASE ~(Len(segs) > store[p].count)
  BY <1>0, <1>1, <1>5, <1>7
<1> QED BY <1>6, <1>7

LEMMA WholeEffect ==
    ASSUME StoreInv, NEW p \in Procs, Whole(p)
    PROVE  /\ \A q \in Procs : q # p => store'[q] = store[q]
           /\ Grows(store[p], store'[p], Range(active))
           /\ store'[p].count = store[p].count /\ store'[p].cursor = Len(active)
<1>0. /\ store \in [Procs -> Stores] /\ active \in Seq(Traces) /\ Len(active) \in Nat
      /\ Range(active) \in SUBSET Traces
  BY StoreTypes, LinesType DEF StoreInv
<1> PICK s \in Stores : s = Indexed(store[p], Range(active))
  BY <1>0, IndexedType
<1>3. Grows(store[p], s, Range(active)) /\ s.count = store[p].count
  BY <1>0, IndexedGrows
<1> PICK x : x = [s EXCEPT !.cursor = Len(active)]
  OBVIOUS
<1>4. Grows(store[p], x, Range(active)) /\ x.count = store[p].count /\ x.cursor = Len(active)
  BY <1>0, <1>3, GrowsExcept DEF Stores
<1>5. store' = [store EXCEPT ![p] = x]
  BY Zenon DEF Whole
<1> QED BY <1>0, <1>4, <1>5

\* What the rest of the active file does to p's index, s2 being its index then.
ReadsOn(p, s2) ==
    \E T \in SUBSET Range(active) :
       /\ Grows(store[p], s2, T)
       /\ s2.count = store[p].count
       /\ store[p].cursor <= Len(active) =>
             /\ s2.cursor = Len(active)
             /\ \A i \in (store[p].cursor + 1)..Len(active) : active[i] \in T

LEMMA DeltaEffect ==
    ASSUME StoreInv, NEW p \in Procs, Delta(p)
    PROVE  /\ \A q \in Procs : q # p => store'[q] = store[q]
           /\ ReadsOn(p, store'[p])
<1>0. store \in [Procs -> Stores] /\ active \in Seq(Traces)
  BY StoreTypes DEF StoreInv
<1>1. ReadsOn(p, CaughtUp(store[p]))
  BY <1>0, CaughtUpGrows DEF ReadsOn
<1>2. store' = [store EXCEPT ![p] = CaughtUp(store[p])]
  BY DEF Delta
<1> QED BY <1>0, <1>1, <1>2

\* Dropping a task's receipts leaves the index, the cursor and the count.
LEMMA PruneEffect ==
    ASSUME StoreInv, NEW p \in Procs, Prune(p)
    PROVE  /\ \A q \in Procs : q # p => store'[q] = store[q]
           /\ \E s2 : /\ ReadsOn(p, s2)
                      /\ store'[p].index = s2.index
                      /\ store'[p].count = s2.count /\ store'[p].cursor = s2.cursor
<1>0. store \in [Procs -> Stores] /\ active \in Seq(Traces)
  BY StoreTypes DEF StoreInv
<1> PICK s \in Stores : s = CaughtUp(store[p])
  BY <1>0, CaughtUpType
<1>1. ReadsOn(p, s)
  BY <1>0, CaughtUpGrows DEF ReadsOn
<1> PICK x : x = [s EXCEPT !.known = {}, !.bucket = {}]
  OBVIOUS
<1>2. x.index = s.index /\ x.count = s.count /\ x.cursor = s.cursor
  BY DEF Stores
<1>3. store' = [store EXCEPT ![p] = x]
  BY Zenon DEF Prune
<1> QED BY <1>0, <1>1, <1>2, <1>3

-----------------------------------------------------------------------------
(* What a step leaves alone. *)

LEMMA TracesDiffer ==
    /\ \A c, d \in Calls : Started(c) # Finished(d)
    /\ \A c, d \in Calls : Started(c) = Started(d) => c = d
    /\ \A c, d \in Calls : Finished(c) = Finished(d) => c = d
    /\ \A t \in Traces : t = Started(t.call) \/ t = Finished(t.call)
    /\ \A c \in Calls : Started(c).call = c /\ Finished(c).call = c
BY DEF Started, Finished, Traces

\* The lines of all steps but a write are those there were.
LEMMA SameLines == ASSUME segs' = segs, active' = active PROVE Lines' = Lines
BY DEF Lines

LEMMA WriteLines ==
    ASSUME StoreInv, NEW w \in Writers, Write(w)
    PROVE  /\ Lines' = Lines \cup {writes[w].trace}
           /\ Len(active') = Len(active) + 1
           /\ \A i \in DOMAIN active : active'[i] = active[i]
<1>0. active \in Seq(Traces) /\ writes[w].trace \in Traces
  BY StoreTypes DEF StoreInv, Write, WriteAt, TraceInv, HasTrace
<1> PICK t \in Traces : t = writes[w].trace
  BY <1>0
<1>1. active' = Append(active, t) /\ segs' = segs
  BY DEF Write
<1>2. /\ Len(active') = Len(active) + 1 /\ DOMAIN active' = 1..(Len(active) + 1)
      /\ active'[Len(active) + 1] = t /\ Len(active) \in Nat
      /\ \A i \in DOMAIN active : i \in DOMAIN active' /\ active'[i] = active[i]
  BY <1>0, <1>1
<1>3. Range(active') = Range(active) \cup {t}
  <2>1. Range(active') \subseteq Range(active) \cup {t}
    <3> SUFFICES ASSUME NEW i \in DOMAIN active' PROVE active'[i] \in Range(active) \cup {t}
      BY DEF Range
    <3>1. CASE i = Len(active) + 1
      BY <1>2, <3>1
    <3>2. CASE i # Len(active) + 1
      <4>1. i \in DOMAIN active
        BY <1>0, <1>2, <3>2
      <4> QED BY <1>2, <4>1 DEF Range
    <3> QED BY <3>1, <3>2
  <2>2. t \in Range(active')
    <3>1. Len(active) + 1 \in DOMAIN active'
      BY <1>2
    <3> QED BY <1>2, <3>1 DEF Range
  <2>3. Range(active) \subseteq Range(active')
    BY <1>2 DEF Range
  <2> QED BY <2>1, <2>2, <2>3
<1>4. Lines' = Lines \cup {t}
  BY <1>1, <1>3 DEF Lines
<1> QED BY <1>2, <1>4

\* A rotation moves the lines of the active file into a segment.
LEMMA RotateLines ==
    ASSUME StoreInv, NEW w \in Writers, Rotate(w)
    PROVE  Lines' = Lines /\ Len(segs') = Len(segs) + 1
<1>0. segs \in Seq(Seq(Traces)) /\ StoreInv' /\ KeepsTraces /\ LockInv
  BY StoreTypes, RotateStep DEF StoreInv
<1> PICK n : n = Len(segs) + 1
  OBVIOUS
<1>1. WriteAt(w, "rotate") /\ active' = <<>> /\ writes[w].rotated = n
  BY <1>0 DEF Rotate, LockInv
<1>2. segs' = [i \in 1..n |-> IF i = n THEN active ELSE segs[i]]
  <2>1. DOMAIN segs \cup {n} = 1..n
    BY <1>0
  <2> QED BY <1>1, <2>1, Zenon DEF Rotate
<1>3. /\ Len(segs') = n /\ DOMAIN segs' = 1..n /\ segs'[n] = active
      /\ \A i \in 1..n : i # n => i \in DOMAIN segs /\ segs'[i] = segs[i]
  BY <1>0, <1>2
<1>4. Range(active') = {}
  BY <1>1 DEF Range
<1>5. Lines' \subseteq Lines
  <2> SUFFICES ASSUME NEW t \in Lines' PROVE t \in Lines
    OBVIOUS
  <2>1. PICK i \in DOMAIN segs' : t \in Range(segs'[i])
    BY <1>4 DEF Lines
  <2>2. CASE i = n
    BY <1>3, <2>1, <2>2 DEF Lines
  <2>3. CASE i # n
    <3>1. i \in DOMAIN segs /\ t \in Range(segs[i])
      BY <1>3, <2>1, <2>3
    <3> QED BY <3>1, Zenon DEF Lines
  <2> QED BY <2>2, <2>3
<1> QED BY <1>0, <1>3, <1>5 DEF KeepsTraces

\* A call stays as it is shown when its home's index grows by what is on disk.
LEMMA ShownKept ==
    ASSUME NEW c \in Calls, Shown(c), NEW T \in SUBSET Lines,
           Grows(store[Home[c]], store'[Home[c]], T),
           calls'[c] = calls[c], writes'[c] = writes[c], c \in pruned => c \in pruned',
           Lines' = Lines
    PROVE  Shown(c)'
<1> PICK s : s = store[Home[c]]
  OBVIOUS
<1> PICK s2 : s2 = store'[Home[c]]
  OBVIOUS
<1>1. Grows(s, s2, T)
  OBVIOUS
<1>2. StartIndexed(c) => StartIndexed(c)'
  BY <1>1 DEF StartIndexed, Grows, InAppend, CallAt
<1>3. ASSUME StartIndexed(c), InBucket(s, c) PROVE InBucket(s2, c)'
  <2>1. ASSUME Started(c) \in s2.index PROVE c \in s2.known /\ Started(c) \in s2.bucket
    BY <1>1, <1>3, <2>1 DEF Grows, InBucket
  <2>2. ASSUME Started(c) \in Lines', Finished(c) \in s2.index PROVE Finished(c) \in s2.bucket
    <3>1. CASE Finished(c) \in s.index
      BY <1>1, <1>3, <2>2, <3>1 DEF Grows, InBucket
    <3>2. CASE Finished(c) \notin s.index
      <4>1. Finished(c) \in T
        BY <1>1, <2>2, <3>2 DEF Grows
      <4>2. Started(c) \in s.index
        BY <1>3, <2>2, <4>1 DEF StartIndexed
      <4>3. c \in s2.known
        BY <1>1, <1>3, <4>2 DEF Grows, InBucket
      <4> QED BY <1>1, <3>2, <4>1, <4>3 DEF Grows
    <3> QED BY <3>1, <3>2
  <2> QED BY <2>1, <2>2 DEF InBucket
<1>4. Live(c)' = Live(c)
  BY DEF Live
<1>5. WriteAt(c, "return") /\ writes[c].trace \in s.index => writes'[c].trace \in s2.index
  BY <1>1 DEF Grows
<1> QED BY <1>2, <1>3, <1>4, <1>5 DEF Shown, CallAt, WriteAt

\* An acknowledged trace stays in the index.
LEMMA ReturnedKept ==
    ASSUME EvidenceInv, acked \subseteq Traces, acked' = acked,
           \A c \in Calls : Live(c) => Live(c)',
           \A p \in Procs : store[p].index \subseteq store'[p].index
    PROVE  \A t \in acked' : Returned(t)'
<1> SUFFICES ASSUME NEW t \in acked PROVE Returned(t)'
  OBVIOUS
<1>1. Returned(t) /\ t.call \in Calls
  BY DEF EvidenceInv, Traces
<1>2. Home[t.call] \in Procs
  BY <1>1, CallsAreWriters
<1> QED BY <1>1, <1>2 DEF Returned

\* Who appends is up or starting, and no longer quiet.
LEMMA Busy ==
    ASSUME FullInv, NEW w \in Writers, ~WriteAt(w, "none")
    PROVE  proc[HomeOf(w)] # "down" /\ HomeOf(w) \notin quiet
<1>1. EvidenceInv
  BY FullFacts
<1>2. CASE w \in Calls
  <2>1. OwnTrace(w) /\ HomeOf(w) = Home[w] /\ Home[w] \in Procs
    BY <1>1, <1>2, CallsAreWriters DEF EvidenceInv, HomeOf
  <2>2. Live(w)
    BY <2>1 DEF OwnTrace, CallAt, Live
  <2>3. Phase(Home[w])
    BY <1>1, <2>1 DEF EvidenceInv
  <2> QED BY <1>2, <2>1, <2>2, <2>3 DEF Phase, Dormant
<1>3. CASE w \notin Calls
  <2>1. w \in Procs /\ HomeOf(w) = w
    BY <1>3 DEF Writers, HomeOf
  <2>2. Phase(w)
    BY <1>1, <2>1 DEF EvidenceInv
  <2> QED BY <2>1, <2>2 DEF Phase
<1> QED BY <1>2, <1>3

LEMMA ProcsAreNotCalls == \A p \in Procs : p \notin Calls /\ HomeOf(p) = p
BY EvidenceAssumption DEF HomeOf

-----------------------------------------------------------------------------
(* The steps of the store. *)

LEMMA WriteEvidence ==
    ASSUME FullInv, NEW w \in Writers, Write(w), UNCHANGED hostVars
    PROVE  EvidenceInv'
<1> USE FullFacts DEF hostVars
<1> PICK t : t = writes[w].trace
  OBVIOUS
<1>1. /\ WriteAt(w, "lock") /\ UNCHANGED <<segs, store, reads>>
      /\ \A v \in Writers : v # w => writes'[v] = writes[v]
      /\ writes'[w].pc \in {"unlock", "rotate"} /\ writes'[w].trace = t
  BY DEF Write, Writes
<1>2. \A v \in Writers : ~InAppend(v)
  BY EvidenceAssumption DEF LockInv, Write, Writers
<1>3. /\ Lines' = Lines \cup {t}
      /\ Len(active') = Len(active) + 1
      /\ \A i \in DOMAIN active : active'[i] = active[i]
  BY WriteLines
<1>4. \A v \in Writers : WriteAt(v, "none")' <=> WriteAt(v, "none")
  BY <1>1 DEF WriteAt
<1>5. ASSUME NEW p \in Procs PROVE Phase(p)'
  BY <1>1, <1>4, <1>5, CallsAreWriters DEF EvidenceInv, Phase, Dormant, Live
<1>6. ASSUME NEW p \in Procs PROVE Indexes(p)'
  BY <1>1, <1>3, <1>6 DEF EvidenceInv, Indexes
<1>7. ASSUME NEW p \in Procs PROVE Reconciling(p)'
  <2>1. Reconciling(p) /\ p \in Writers
    BY CallsAreWriters DEF EvidenceInv
  <2>2. \A c \in Calls : Open(p, c) => Open(p, c)'
    BY <1>3 DEF Open
  <2>3. \A c \in Calls : Settling(p, c) => Settling(p, c)'
    BY <1>1, <1>3, <2>1 DEF Settling, WriteAt
  <2>4. WriteAt(p, "none")' <=> WriteAt(p, "none")
    BY <1>4, <2>1
  <2>5. writes'[p].trace = writes[p].trace
    BY <1>1, <2>1
  <2>6. \A c \in orphans'[p] : Open(p, c)'
    BY <2>1, <2>2 DEF Reconciling, HostTypeOK
  <2>7. ~WriteAt(p, "none")' => \E c \in Calls : writes'[p].trace = Finished(c) /\ Open(p, c)'
    BY <2>1, <2>2, <2>4, <2>5 DEF Reconciling
  <2>8. proc'[p] = "starting" /\ reads'[p] = "none" =>
           \A c \in Calls : Started(c) \in seen'[p].lines => Settling(p, c)'
    BY <1>1, <2>1, <2>3 DEF Reconciling
  <2> QED BY <2>6, <2>7, <2>8 DEF Reconciling
<1>8. ASSUME NEW p \in Procs PROVE Covered(p)'
  <2>1. Covered(p) /\ store[p].cursor \in Nat
    BY DEF EvidenceInv, Stores
  <2>2. ASSUME store[p].cursor <= Len(active), NEW i \in 1..store[p].cursor PROVE active'[i] = active[i]
    BY <1>3, <2>1, <2>2
  <2> QED BY <1>1, <1>3, <2>1, <2>2 DEF Covered
<1>9. ASSUME NEW c \in Calls PROVE OwnTrace(c)'
  BY <1>1, <1>4, CallsAreWriters DEF EvidenceInv, OwnTrace, CallAt
<1>10. ASSUME NEW c \in Calls PROVE Shown(c)'
  <2>1. Shown(c) /\ OwnTrace(c) /\ c \in Writers /\ Home[c] \in Procs
    BY CallsAreWriters DEF EvidenceInv
  <2>2. t = Started(c) => w = c /\ CallAt(c, "start")
    <3>1. CASE w \in Calls
      <4>1. OwnTrace(w)
        BY <3>1 DEF EvidenceInv
      <4> QED BY <1>1, <3>1, <4>1, TracesDiffer DEF OwnTrace, WriteAt
    <3>2. CASE w \in Procs
      <4>1. Reconciling(w)
        BY <3>2 DEF EvidenceInv
      <4> QED BY <1>1, <3>2, <4>1, TracesDiffer DEF Reconciling, WriteAt
    <3> QED BY <3>1, <3>2 DEF Writers
  <2>3. t = Finished(c) => Started(c) \in Lines \/ (w = c /\ CallAt(c, "finish"))
    <3>1. CASE w \in Calls
      <4>1. OwnTrace(w)
        BY <3>1 DEF EvidenceInv
      <4> QED BY <1>1, <3>1, <4>1, TracesDiffer DEF OwnTrace, WriteAt
    <3>2. CASE w \in Procs
      <4>1. Reconciling(w)
        BY <3>2 DEF EvidenceInv
      <4> QED BY <1>1, <3>2, <4>1, TracesDiffer DEF Reconciling, Open, WriteAt
    <3> QED BY <3>1, <3>2 DEF Writers
  <2>4. w # c => writes'[c] = writes[c]
    BY <1>1, <2>1
  <2>5. StartIndexed(c) => StartIndexed(c)'
    <3>1. CASE t = Started(c)
      <4>1. Started(c) \notin Lines /\ Finished(c) \notin Lines
        BY <1>1, <2>1, <2>2, <3>1 DEF Shown, CallAt
      <4> QED BY <1>1, <1>3, <2>2, <3>1, <4>1, TracesDiffer DEF StartIndexed, InAppend, CallAt
    <3>2. CASE t # Started(c)
      BY <1>1, <1>2, <1>3, <2>1, <3>2 DEF StartIndexed
    <3> QED BY <3>1, <3>2
  <2>6. InBucket(store[Home[c]], c) => InBucket(store[Home[c]], c)'
    <3>1. CASE t = Started(c)
      <4>1. Started(c) \notin Lines /\ Finished(c) \notin Lines
        BY <1>1, <2>1, <2>2, <3>1 DEF Shown, CallAt
      <4>2. Finished(c) \notin store[Home[c]].index
        BY <2>1, <4>1 DEF EvidenceInv, Indexes
      <4> QED BY <1>1, <4>2, <1>3, <2>1, <3>1 DEF InBucket, EvidenceInv, Indexes
    <3>2. CASE t # Started(c)
      BY <1>1, <1>3, <3>2 DEF InBucket
    <3> QED BY <3>1, <3>2
  <2>7. /\ CallAt(c, "idle")' \/ (CallAt(c, "start")' /\ WriteAt(c, "lock")') => Started(c) \notin Lines'
        /\ calls'[c] \in {"idle", "start"} /\ Started(c) \notin Lines' => Finished(c) \notin Lines'
    <3>1. CASE t = Started(c)
      BY <1>1, <2>2, <3>1 , <1>3, <2>1 DEF CallAt, WriteAt, Shown
    <3>2. CASE t = Finished(c)
      BY <1>1, <1>3, <2>1, <2>3, <2>4, <3>2, TracesDiffer DEF CallAt, WriteAt, Shown
    <3>3. CASE t # Started(c) /\ t # Finished(c)
      BY <1>1, <1>3, <2>1, <2>4, <3>3 DEF CallAt, WriteAt, Shown
    <3> QED BY <3>1, <3>2, <3>3
  <2>8. WriteAt(c, "return")' => WriteAt(c, "return") /\ writes'[c] = writes[c]
    BY <1>1, <2>4 DEF WriteAt
  <2> QED BY <1>1, <2>1, <2>5, <2>6, <2>7, <2>8 DEF Shown, Live, CallAt
<1>11. ASSUME NEW v \in Writers PROVE Written(v)'
  BY <1>1, <1>3 DEF EvidenceInv, Written
<1>12. \A s \in acked' : Returned(s)'
  BY <1>1 DEF EvidenceInv, Returned, Live
<1> QED BY <1>5, <1>6, <1>7, <1>8, <1>9, <1>10, <1>11, <1>12 DEF EvidenceInv

LEMMA RotateEvidence ==
    ASSUME FullInv, NEW w \in Writers, Rotate(w), UNCHANGED hostVars
    PROVE  EvidenceInv'
<1> USE FullFacts DEF hostVars
<1>1. /\ WriteAt(w, "rotate") /\ UNCHANGED <<lock, store, reads>>
      /\ \A v \in Writers : v # w => writes'[v] = writes[v]
      /\ writes'[w].pc = "unlock" /\ writes'[w].trace = writes[w].trace
  BY DEF Rotate, Writes
<1>2. Lines' = Lines /\ Len(segs') = Len(segs) + 1 /\ \A i \in DOMAIN segs : segs'[i] = segs[i]
  BY RotateLines, RotateStep DEF KeepsTraces
<1>4. \A v \in Writers : /\ WriteAt(v, "none")' <=> WriteAt(v, "none")
                         /\ WriteAt(v, "lock")' <=> WriteAt(v, "lock")
                         /\ WriteAt(v, "return")' <=> WriteAt(v, "return")
                         /\ InAppend(v)' <=> InAppend(v)
                         /\ writes'[v].trace = writes[v].trace
  BY <1>1 DEF WriteAt, InAppend
<1>5. ASSUME NEW p \in Procs PROVE Phase(p)'
  BY <1>1, <1>4, CallsAreWriters DEF EvidenceInv, Phase, Dormant, Live
<1>6. ASSUME NEW p \in Procs PROVE Indexes(p)'
  <2>1. seen[p].segs \in Nat
    BY DEF HostTypeOK
  <2> QED BY <1>1, <1>2, <2>1 DEF EvidenceInv, Indexes
<1>7. ASSUME NEW p \in Procs PROVE Reconciling(p)'
  <2>1. Reconciling(p) /\ p \in Writers
    BY CallsAreWriters DEF EvidenceInv
  <2> QED BY <1>1, <1>2, <1>4, <2>1 DEF Reconciling, Open, Settling
<1>8. ASSUME NEW p \in Procs PROVE Covered(p)'
  <2>1. Covered(p) /\ store[p].count \in Nat
    BY DEF EvidenceInv, Stores
  <2>2. ASSUME p \in quiet, NEW i \in 1..store[p].count PROVE segs'[i] = segs[i]
    <3>1. store[p].count <= Len(segs)
      BY <2>1, <2>2 DEF Covered
    <3>2. DOMAIN segs = 1..Len(segs) /\ Len(segs) \in Nat
      OBVIOUS
    <3>3. i \in 1..Len(segs)
      BY <2>1, <3>1, <3>2
    <3> QED BY <1>2, <3>2, <3>3
  <2>3. store[p].count <= Len(segs) => store[p].count <= Len(segs') /\ store[p].count # Len(segs')
    BY <1>2, <2>1
  <2> QED BY <1>1, <2>1, <2>2, <2>3 DEF Covered
<1>9. ASSUME NEW c \in Calls PROVE OwnTrace(c)'
  BY <1>1, <1>4, CallsAreWriters DEF EvidenceInv, OwnTrace, CallAt
<1>10. ASSUME NEW c \in Calls PROVE Shown(c)'
  <2>1. Shown(c) /\ c \in Writers
    BY CallsAreWriters DEF EvidenceInv
  <2>2. StartIndexed(c) => StartIndexed(c)'
    BY <1>1, <1>2, <1>4, <2>1 DEF StartIndexed, CallAt
  <2>3. InBucket(store[Home[c]], c) => InBucket(store[Home[c]], c)'
    BY <1>1, <1>2 DEF InBucket
  <2> QED BY <1>1, <1>2, <1>4, <2>1, <2>2, <2>3 DEF Shown, Live, CallAt
<1>11. ASSUME NEW v \in Writers PROVE Written(v)'
  BY <1>1, <1>2 DEF EvidenceInv, Written, WriteAt
<1>12. \A s \in acked' : Returned(s)'
  BY <1>1 DEF EvidenceInv, Returned, Live
<1> QED BY <1>5, <1>6, <1>7, <1>8, <1>9, <1>10, <1>11, <1>12 DEF EvidenceInv

LEMMA UnlockEvidence ==
    ASSUME FullInv, NEW w \in Writers, Unlock(w), UNCHANGED hostVars
    PROVE  EvidenceInv'
<1> USE FullFacts DEF hostVars
<1> PICK h \in Procs : h = HomeOf(w)
  BY HomesAreProcs
<1> PICK t : t = writes[w].trace
  OBVIOUS
<1>1. /\ WriteAt(w, "unlock") /\ UNCHANGED <<segs, active, reads>>
      /\ \A v \in Writers : v # w => writes'[v] = writes[v]
      /\ writes'[w].pc = "return" /\ writes'[w].trace = t
  BY DEF Unlock, Writes
<1>2. Lines' = Lines /\ t \in Lines
  BY <1>1, SameLines DEF EvidenceInv, Written, WriteAt
<1>3. /\ Grows(store[h], store'[h], {t})
      /\ \A q \in Procs : q # h => store'[q] = store[q]
  BY UnlockEffect
<1>4. \A v \in Writers : /\ WriteAt(v, "none")' <=> WriteAt(v, "none")
                         /\ WriteAt(v, "lock")' <=> WriteAt(v, "lock")
                         /\ writes'[v].trace = writes[v].trace
  BY <1>1 DEF WriteAt
<1>5. proc[h] # "down" /\ h \notin quiet
  BY <1>1, Busy DEF WriteAt
<1>6. ASSUME NEW p \in Procs PROVE Phase(p)'
  <2>1. Phase(p) /\ p \in Writers /\ (p = h \/ store'[p] = store[p])
    BY <1>3, CallsAreWriters DEF EvidenceInv
  <2> QED BY <1>1, <1>4, <1>5, <2>1 DEF Phase, Dormant, Live
<1>7. ASSUME NEW p \in Procs PROVE Indexes(p)'
  BY <1>1, <1>2, <1>3 DEF EvidenceInv, Indexes, Grows
<1>8. ASSUME NEW p \in Procs PROVE Reconciling(p)'
  <2>1. Reconciling(p) /\ p \in Writers
    BY CallsAreWriters DEF EvidenceInv
  <2> QED BY <1>1, <1>2, <1>4, <2>1 DEF Reconciling, Open, Settling
<1>9. ASSUME NEW p \in Procs PROVE Covered(p)'
  BY <1>1, <1>3, <1>5 DEF EvidenceInv, Covered
<1>10. ASSUME NEW c \in Calls PROVE OwnTrace(c)'
  BY <1>1, <1>4, CallsAreWriters DEF EvidenceInv, OwnTrace, CallAt
<1>11. ASSUME NEW c \in Calls PROVE Shown(c)'
  <2>1. Shown(c) /\ OwnTrace(c) /\ c \in Writers /\ Home[c] \in Procs
    BY CallsAreWriters DEF EvidenceInv
  <2>2. \E T \in SUBSET Lines : Grows(store[Home[c]], store'[Home[c]], T)
    <3>1. CASE Home[c] = h
      BY <1>2, <1>3, <3>1
    <3>2. CASE Home[c] # h
      BY <1>3, <2>1, <3>2, GrowsNot
    <3> QED BY <3>1, <3>2
  <2>3. CASE w # c
    BY <1>1, <1>2, <2>1, <2>2, <2>3, ShownKept
  <2>4. CASE w = c
    <3>1. Home[c] = h /\ Live(c)
      BY <1>1, <2>1, <2>4 DEF HomeOf, OwnTrace, WriteAt, Live, CallAt
    <3> PICK s : s = store[h]
      OBVIOUS
    <3> PICK s2 : s2 = store'[h]
      OBVIOUS
    <3>2. Grows(s, s2, {t})
      BY <1>3
    <3>3. t = Started(c) \/ (t = Finished(c) /\ CallAt(c, "finish"))
      BY <1>1, <2>1, <2>4 DEF OwnTrace, WriteAt
    <3>4. StartIndexed(c) /\ Started(c) \in Lines => Started(c) \in s2.index
      BY <3>1, <3>2, <3>3 DEF StartIndexed, Grows, CallAt
    <3>5. ASSUME StartIndexed(c), InBucket(s, c) PROVE InBucket(s2, c)'
      <4>1. ASSUME Started(c) \in s2.index PROVE c \in s2.known /\ Started(c) \in s2.bucket
        BY <3>2, <3>5, <4>1 DEF Grows, InBucket
      <4>2. ASSUME Started(c) \in Lines', Finished(c) \in s2.index PROVE Finished(c) \in s2.bucket
        <5>1. CASE Finished(c) \in s.index
          BY <1>2, <3>2, <3>5, <4>2, <5>1 DEF Grows, InBucket
        <5>2. CASE Finished(c) \notin s.index
          <6>1. c \in s2.known
            BY <1>2, <3>4, <3>5, <4>1, <4>2
          <6> QED BY <3>2, <4>2, <5>2, <6>1 DEF Grows
        <5> QED BY <5>1, <5>2
      <4> QED BY <4>1, <4>2 DEF InBucket
    <3>6. t \in s2.index
      BY <3>2 DEF Grows
    <3>7. StartIndexed(c) => StartIndexed(c)'
      BY <1>2, <3>1, <3>4 DEF StartIndexed
    <3>8. calls'[c] = calls[c] /\ Live(c)' /\ WriteAt(c, "return")' /\ ~WriteAt(c, "lock")'
      BY <1>1, <2>4, <3>1 DEF Live, WriteAt
    <3> QED BY <1>1, <1>2, <2>1, <2>4, <3>1, <3>5, <3>6, <3>7, <3>8 DEF Shown, CallAt
  <2> QED BY <2>3, <2>4
<1>12. ASSUME NEW v \in Writers PROVE Written(v)'
  BY <1>1, <1>2 DEF EvidenceInv, Written
<1>13. \A s \in acked' : Returned(s)'
  <2>1. \A p \in Procs : store[p].index \subseteq store'[p].index
    BY <1>3 DEF Grows
  <2> QED BY <2>1, ReturnedKept DEF HostTypeOK, Live
<1> QED BY <1>6, <1>7, <1>8, <1>9, <1>10, <1>11, <1>12, <1>13 DEF EvidenceInv

-----------------------------------------------------------------------------
(* The steps of a read. *)

\* The segments and the part of the active file that a quiet process has read.
LEMMA CoveredFacts ==
    ASSUME FullInv, NEW p \in Procs, p \in quiet
    PROVE  /\ store[p].count \in Nat /\ store[p].cursor \in Nat
           /\ store[p].count <= Len(segs)
           /\ \A i \in 1..store[p].count : Range(segs[i]) \subseteq store[p].index
           /\ store[p].count = Len(segs) =>
                 /\ store[p].cursor <= Len(active)
                 /\ \A i \in 1..store[p].cursor : active[i] \in store[p].index
           /\ reads[p] \in {"whole", "delta"} => seen[p].segs <= store[p].count
<1>1. Covered(p)
  BY FullFacts DEF EvidenceInv
<1>2. store[p].count \in Nat /\ store[p].cursor \in Nat
  BY FullFacts DEF Stores
<1> QED BY <1>1, <1>2 DEF Covered

LEMMA SegmentsCover ==
    ASSUME FullInv, NEW p \in Procs, NEW n \in Nat, NEW I,
           \A i \in 1..n : Range(segs[i]) \subseteq I, SegmentLines(n) \subseteq I
    PROVE  \A i \in 1..Len(segs) : Range(segs[i]) \subseteq I
<1> SUFFICES ASSUME NEW i \in 1..Len(segs), ~(i \in 1..n) PROVE Range(segs[i]) \subseteq I
  OBVIOUS
<1>1. i \in (n + 1)..Len(segs)
  BY FullFacts
<1> QED BY <1>1, Zenon DEF SegmentLines

\* The read of a quiet process that has read the rest of the active file covers
\* what it read before and what it reads now.
LEMMA ReadsOnCovers ==
    ASSUME FullInv, NEW p \in Procs, p \in quiet, NEW s2, ReadsOn(p, s2)
    PROVE  /\ \A i \in 1..s2.count : Range(segs[i]) \subseteq s2.index
           /\ s2.count = store[p].count
           /\ s2.count = Len(segs) => s2.cursor = Len(active) /\ Range(active) \subseteq s2.index
<1> PICK n \in Nat : n = store[p].cursor
  BY CoveredFacts
<1> PICK k \in Nat : k = Len(active)
  BY FullFacts
<1>1. PICK T \in SUBSET Range(active) :
         /\ Grows(store[p], s2, T)
         /\ s2.count = store[p].count
         /\ n <= k => s2.cursor = k /\ \A i \in (n + 1)..k : active[i] \in T
  BY DEF ReadsOn
<1>2. store[p].index \subseteq s2.index /\ T \subseteq s2.index
  BY <1>1 DEF Grows
<1>3. \A i \in 1..s2.count : Range(segs[i]) \subseteq s2.index
  BY <1>1, <1>2, CoveredFacts
<1>4. ASSUME s2.count = Len(segs) PROVE s2.cursor = k /\ Range(active) \subseteq s2.index
  <2>1. n <= k /\ \A i \in 1..n : active[i] \in store[p].index
    BY <1>1, <1>4, CoveredFacts
  <2>2. ASSUME NEW i \in 1..k PROVE active[i] \in s2.index
    <3>1. i \in 1..n \/ i \in (n + 1)..k
      OBVIOUS
    <3> QED BY <1>1, <1>2, <2>1, <3>1
  <2>3. DOMAIN active = 1..k
    BY FullFacts
  <2> QED BY <1>1, <2>1, <2>2, <2>3 DEF Range
<1> QED BY <1>1, <1>3, <1>4

\* A read into which no rotation has run misses nothing that was on disk when it began.
LEMMA CatchesUp ==
    ASSUME FullInv, NEW p \in Procs, p \in quiet, Whole(p) \/ Delta(p), ~RotatedMeanwhile(p)
    PROVE  seen[p].lines \subseteq store'[p].index
<1>0. StoreInv /\ seen[p].lines \subseteq Lines /\ seen[p].segs = Len(segs) /\ Len(segs) \in Nat
  BY FullFacts DEF EvidenceInv, Indexes, RotatedMeanwhile
<1>1. store[p].count = Len(segs)
  BY <1>0, CoveredFacts DEF Whole, Delta, ReadAt
<1>2. /\ \A i \in 1..Len(segs) : Range(segs[i]) \subseteq store'[p].index
      /\ Range(active) \subseteq store'[p].index
  <2>1. CASE Whole(p)
    <3>1. Grows(store[p], store'[p], Range(active))
      BY <1>0, <2>1, WholeEffect
    <3> QED BY <1>1, <3>1, CoveredFacts DEF Grows
  <2>2. CASE Delta(p)
    <3> PICK s2 : s2 = store'[p]
      OBVIOUS
    <3>1. ReadsOn(p, s2)
      BY <1>0, <2>2, DeltaEffect
    <3>2. s2.count = Len(segs)
      BY <1>1, <3>1, ReadsOnCovers
    <3> QED BY <3>1, <3>2, ReadsOnCovers
  <2> QED BY <2>1, <2>2
<1>3. Lines \subseteq store'[p].index
  <2> SUFFICES ASSUME NEW x \in Lines PROVE x \in store'[p].index
    OBVIOUS
  <2>1. CASE x \in Range(active)
    BY <1>2, <2>1
  <2>2. CASE x \in UNION {Range(segs[i]) : i \in DOMAIN segs}
    <3>1. PICK i \in DOMAIN segs : x \in Range(segs[i])
      BY <2>2
    <3>2. i \in 1..Len(segs)
      BY FullFacts
    <3> QED BY <1>2, <3>1, <3>2
  <2> QED BY <2>1, <2>2, Zenon DEF Lines
<1> QED BY <1>0, <1>3

\* A step of a read of p: nothing else changes than p's state and the prunings.
OnlyReads(p) ==
    /\ UNCHANGED <<segs, active, writes, calls, acked>>
    /\ pruned \subseteq pruned'
    /\ \A q \in Procs : q # p => /\ proc'[q] = proc[q] /\ store'[q] = store[q] /\ reads'[q] = reads[q]
                                 /\ seen'[q] = seen[q] /\ orphans'[q] = orphans[q]
                                 /\ q \in quiet' <=> q \in quiet

LEMMA ReadFrame ==
    ASSUME FullInv, NEW p \in Procs, OnlyReads(p)
    PROVE  /\ Lines' = Lines
           /\ \A q \in Procs : q # p => /\ Phase(q)' /\ Indexes(q)' /\ Reconciling(q)' /\ Covered(q)'
           /\ \A c \in Calls : OwnTrace(c)'
           /\ \A c \in Calls : Home[c] # p => Shown(c)'
           /\ \A w \in Writers : Written(w)'
<1>0. StoreInv /\ EvidenceInv
  BY FullFacts
<1> USE DEF OnlyReads
<1>1. Lines' = Lines
  BY SameLines
<1>2. ASSUME NEW q \in Procs, q # p PROVE Phase(q)' /\ Indexes(q)' /\ Reconciling(q)' /\ Covered(q)'
  <2>1. Phase(q) /\ Indexes(q) /\ Reconciling(q) /\ Covered(q)
    BY <1>0 DEF EvidenceInv
  <2>2. /\ store'[q] = store[q] /\ reads'[q] = reads[q] /\ seen'[q] = seen[q]
        /\ orphans'[q] = orphans[q]
        /\ writes' = writes /\ proc'[q] = proc[q] /\ segs' = segs /\ active' = active
    BY <1>2
  <2>3. q \in quiet' <=> q \in quiet
    BY <1>2
  <2>4. Dormant(q)' <=> Dormant(q)
    BY DEF Dormant, Live
  <2>5. Phase(q)'
    BY <2>1, <2>2, <2>3, <2>4 DEF Phase, WriteAt
  <2>6. Indexes(q)'
    BY <1>1, <2>1, <2>2 DEF Indexes
  <2>7. \A c \in Calls : (Open(q, c)' <=> Open(q, c)) /\ (Settling(q, c)' <=> Settling(q, c))
    BY <1>1, <2>2 DEF Open, Settling, WriteAt
  <2>8. orphans[q] \subseteq Calls
    BY FullFacts DEF HostTypeOK
  <2>9. Reconciling(q)'
    BY <2>1, <2>2, <2>7, <2>8 DEF Reconciling, WriteAt
  <2>10. Covered(q)'
    BY <2>1, <2>2, <2>3 DEF Covered
  <2> QED BY <2>5, <2>6, <2>9, <2>10
<1>3. ASSUME NEW c \in Calls PROVE OwnTrace(c)'
  <2>1. OwnTrace(c)
    BY <1>0 DEF EvidenceInv
  <2> QED BY <2>1 DEF OwnTrace, CallAt, WriteAt
<1>4. ASSUME NEW c \in Calls, Home[c] # p PROVE Shown(c)'
  <2>1. Shown(c) /\ Home[c] \in Procs
    BY <1>0, CallsAreWriters DEF EvidenceInv
  <2>2. store'[Home[c]] = store[Home[c]]
    BY <1>4, <2>1
  <2>3. Grows(store[Home[c]], store'[Home[c]], {})
    BY <2>2, GrowsNot
  <2>4. calls'[c] = calls[c] /\ writes'[c] = writes[c] /\ (c \in pruned => c \in pruned')
    OBVIOUS
  <2> QED BY <1>1, <2>1, <2>3, <2>4, ShownKept
<1>5. ASSUME NEW w \in Writers PROVE Written(w)'
  BY <1>0, <1>1 DEF EvidenceInv, Written
<1> QED BY <1>1, <1>2, <1>3, <1>4, <1>5

LEMMA ReadGrows ==
    ASSUME FullInv, NEW p \in Procs, OnlyReads(p),
           NEW T \in SUBSET Lines, Grows(store[p], store'[p], T)
    PROVE  /\ store'[p].index \subseteq Lines
           /\ \A c \in Calls : Shown(c)'
           /\ \A t \in acked' : Returned(t)'
<1>0. StoreInv /\ EvidenceInv /\ acked \subseteq Traces
  BY FullFacts DEF HostTypeOK
<1>1. Indexes(p)
  BY <1>0 DEF EvidenceInv
<1>2. store[p].index \subseteq store'[p].index /\ store'[p].index \subseteq Lines
  BY <1>1 DEF Indexes, Grows
<1>3. ASSUME NEW c \in Calls PROVE Shown(c)'
  <2>1. CASE Home[c] # p
    BY <2>1, ReadFrame
  <2>2. CASE Home[c] = p
    <3>1. Shown(c) /\ Grows(store[Home[c]], store'[Home[c]], T) /\ Lines' = Lines
      BY <1>0, <2>2, ReadFrame DEF EvidenceInv
    <3>2. calls'[c] = calls[c] /\ writes'[c] = writes[c] /\ (c \in pruned => c \in pruned')
      BY DEF OnlyReads
    <3> QED BY <3>1, <3>2, ShownKept
  <2> QED BY <2>1, <2>2
<1>4. \A t \in acked' : Returned(t)'
  <2>1. \A q \in Procs : store[q].index \subseteq store'[q].index
    BY <1>2 DEF OnlyReads
  <2>2. acked' = acked /\ \A c \in Calls : Live(c) => Live(c)'
    BY DEF OnlyReads, Live
  <2> QED BY <1>0, <2>1, <2>2, ReturnedKept
<1> QED BY <1>2, <1>3, <1>4

\* What is left to show of a step of a read is what it makes of the reader itself.
LEMMA ReadEvidence ==
    ASSUME FullInv, NEW p \in Procs, OnlyReads(p),
           NEW T \in SUBSET Lines, Grows(store[p], store'[p], T),
           Phase(p)', Indexes(p)', Reconciling(p)', Covered(p)'
    PROVE  EvidenceInv'
BY ReadFrame, ReadGrows DEF EvidenceInv

LEMMA SegmentsEvidence ==
    ASSUME FullInv, NEW p \in Procs, Segments(p), UNCHANGED hostVars
    PROVE  EvidenceInv'
<1>0. /\ StoreInv /\ HostTypeOK /\ Phase(p) /\ Indexes(p) /\ Reconciling(p) /\ Covered(p)
      /\ Len(segs) \in Nat /\ store[p].count \in Nat /\ seen[p].segs \in Nat
      /\ Len(active) \in Nat /\ reads \in [Procs -> ReadPCs]
  BY FullFacts DEF EvidenceInv, Stores, HostTypeOK
<1>1. /\ reads[p] \in {"first", "list"}
      /\ reads' = [reads EXCEPT ![p] = IF reads[p] = "first" THEN "whole" ELSE "delta"]
      /\ UNCHANGED <<segs, active, writes>>
  BY DEF Segments, ReadAt, ReadGoto
<1>2. UNCHANGED <<proc, orphans, calls, seen, quiet, acked, pruned>>
  BY DEF hostVars
<1>3. /\ \A q \in Procs : q # p => store'[q] = store[q]
      /\ \/ store'[p] = store[p] /\ Len(segs) <= store[p].count
         \/ /\ store[p].count < Len(segs)
            /\ Grows(store[p], store'[p], SegmentLines(store[p].count))
            /\ store'[p].count = Len(segs) /\ store'[p].cursor = 0
  BY <1>0, SegmentsEffect
<1>4. OnlyReads(p)
  BY <1>0, <1>1, <1>2, <1>3 DEF OnlyReads
<1>5. PICK T \in SUBSET Lines : Grows(store[p], store'[p], T)
  <2>1. CASE store'[p] = store[p]
    BY <2>1, GrowsNot
  <2>2. CASE Grows(store[p], store'[p], SegmentLines(store[p].count))
    BY <1>0, <2>2, FullFacts
  <2> QED BY <1>3, <2>1, <2>2
<1>6. Phase(p)'
  <2>1. reads'[p] = IF reads[p] = "first" THEN "whole" ELSE "delta"
    BY <1>0, <1>1
  <2>2. Dormant(p)' <=> Dormant(p)
    BY <1>2 DEF Dormant, Live
  <2> QED BY <1>0, <1>1, <1>2, <2>1, <2>2 DEF Phase, WriteAt
<1>7. Lines' = Lines /\ store'[p].index \subseteq Lines
  BY <1>1, <1>4, <1>5, SameLines, ReadGrows
<1>8. Indexes(p)'
  BY <1>0, <1>1, <1>2, <1>7 DEF Indexes
<1>9. Reconciling(p)'
  <2>1. \A c \in Calls : Open(p, c)' <=> Open(p, c)
    BY <1>2, <1>7 DEF Open
  <2>2. reads'[p] # "none"
    BY <1>0, <1>1
  <2> QED BY <1>0, <1>1, <1>2, <2>1, <2>2 DEF Reconciling, WriteAt, HostTypeOK
<1>10. Covered(p)'
  <2> SUFFICES ASSUME p \in quiet PROVE Covered(p)'
    BY <1>2 DEF Covered
  <2>1. seen'[p].segs <= Len(segs)
    BY <1>0, <1>2 DEF Indexes
  <2>2. CASE store'[p] = store[p] /\ Len(segs) <= store[p].count
    BY <1>0, <1>1, <2>1, <2>2 DEF Covered
  <2>3. CASE /\ store[p].count < Len(segs)
             /\ Grows(store[p], store'[p], SegmentLines(store[p].count))
             /\ store'[p].count = Len(segs) /\ store'[p].cursor = 0
    <3>1. store[p].index \subseteq store'[p].index /\ SegmentLines(store[p].count) \subseteq store'[p].index
      BY <2>3 DEF Grows
    <3>2. \A i \in 1..store[p].count : Range(segs[i]) \subseteq store'[p].index
      BY <3>1, CoveredFacts
    <3>3. \A i \in 1..Len(segs) : Range(segs[i]) \subseteq store'[p].index
      BY <1>0, <3>1, <3>2, SegmentsCover
    <3>4. store'[p].cursor <= Len(active) /\ 1..store'[p].cursor = {}
      BY <1>0, <2>3
    <3> QED BY <1>0, <1>1, <2>1, <2>3, <3>3, <3>4 DEF Covered
  <2> QED BY <1>3, <2>2, <2>3
<1> QED BY <1>4, <1>5, <1>6, <1>8, <1>9, <1>10, ReadEvidence

LEMMA StartEvidence ==
    ASSUME FullInv, NEW p \in Procs, Start(p)
    PROVE  EvidenceInv'
<1>0. /\ HostTypeOK /\ Phase(p) /\ Indexes(p) /\ Reconciling(p)
      /\ Len(segs) \in Nat /\ Len(active) \in Nat /\ reads \in [Procs -> ReadPCs]
  BY FullFacts DEF EvidenceInv
<1>1. /\ proc[p] = "down" /\ proc' = [proc EXCEPT ![p] = "starting"]
      /\ reads' = [reads EXCEPT ![p] = "first"]
      /\ seen' = [seen EXCEPT ![p] = OnDisk]
      /\ quiet' = quiet \cup {p}
      /\ UNCHANGED <<segs, active, store, writes, orphans, calls, acked, pruned>>
  BY DEF Start, FirstRead, ReadGoto
<1>2. proc'[p] = "starting" /\ reads'[p] = "first" /\ seen'[p] = OnDisk
  BY <1>0, <1>1 DEF HostTypeOK
<1>3. OnlyReads(p)
  BY <1>0, <1>1 DEF OnlyReads, HostTypeOK
<1>4. Grows(store[p], store'[p], {}) /\ Lines' = Lines
  BY <1>1, GrowsNot, SameLines
<1>5. /\ store[p] = EmptyStore /\ orphans[p] = {} /\ WriteAt(p, "none") /\ Dormant(p)
  BY <1>0, <1>1 DEF Phase
<1>6. Phase(p)'
  <2>1. Dormant(p)'
    BY <1>1, <1>5 DEF Dormant, Live
  <2> QED BY <1>1, <1>2, <1>5, <2>1 DEF Phase, WriteAt
<1>7. Indexes(p)'
  <2>1. OnDisk.lines = Lines /\ OnDisk.segs = Len(segs)
    BY DEF OnDisk
  <2> QED BY <1>0, <1>1, <1>2, <1>4, <2>1 DEF Indexes
<1>8. Reconciling(p)'
  BY <1>1, <1>2, <1>5 DEF Reconciling, WriteAt
<1>9. Covered(p)'
  <2>1. store'[p].count = 0 /\ store'[p].cursor = 0
    BY <1>1, <1>5 DEF EmptyStore
  <2> QED BY <1>0, <1>1, <1>2, <2>1 DEF Covered
<1> QED BY <1>3, <1>4, <1>6, <1>7, <1>8, <1>9, ReadEvidence

\* The reads that start-ups and askers end.
LEMMA FindOrphansEvidence ==
    ASSUME FullInv, NEW p \in Procs, FindOrphans(p)
    PROVE  EvidenceInv'
<1>0. /\ StoreInv /\ HostTypeOK /\ Phase(p) /\ Indexes(p) /\ Reconciling(p) /\ Covered(p)
      /\ Len(segs) \in Nat /\ Len(active) \in Nat /\ reads \in [Procs -> ReadPCs]
      /\ Range(active) \in SUBSET Lines
  BY FullFacts DEF EvidenceInv
<1>1. /\ proc[p] = "starting" /\ reads[p] \in {"first", "whole"}
      /\ reads' = [reads EXCEPT ![p] = "none"]
      /\ UNCHANGED <<segs, active, writes, proc, calls, used, quiet, acked, pruned>>
  BY DEF FindOrphans, NoTraces, Whole, ReadAt, ReadGoto
<1>2. /\ orphans' = [orphans EXCEPT ![p] = {c \in Calls : /\ Started(c) \in store'[p].index
                                                          /\ Finished(c) \notin store'[p].index}]
      /\ seen' = [seen EXCEPT ![p] = IF RotatedMeanwhile(p) THEN Nothing ELSE seen[p]]
  BY DEF FindOrphans
<1>3. p \in quiet /\ WriteAt(p, "none") /\ Dormant(p)
  BY <1>0, <1>1 DEF Phase
<1>4. /\ \A q \in Procs : q # p => store'[q] = store[q]
      /\ \/ store' = store /\ Lines = {}
         \/ /\ Grows(store[p], store'[p], Range(active))
            /\ store'[p].count = store[p].count /\ store'[p].cursor = Len(active)
  <2>1. CASE NoTraces(p)
    BY <2>1 DEF NoTraces
  <2>2. CASE Whole(p)
    BY <1>0, <2>2, WholeEffect
  <2> QED BY <2>1, <2>2 DEF FindOrphans
<1>5. OnlyReads(p)
  BY <1>0, <1>1, <1>2, <1>4 DEF OnlyReads, HostTypeOK
<1>6. PICK T \in SUBSET Lines : Grows(store[p], store'[p], T)
  <2>1. CASE store' = store
    BY <2>1, GrowsNot
  <2>2. CASE Grows(store[p], store'[p], Range(active))
    BY <1>0, <2>2
  <2> QED BY <1>4, <2>1, <2>2
<1>7. Lines' = Lines /\ store'[p].index \subseteq Lines
  BY <1>1, <1>5, <1>6, SameLines, ReadGrows
<1>8. reads'[p] = "none" /\ orphans'[p] = {c \in Calls : /\ Started(c) \in store'[p].index
                                                       /\ Finished(c) \notin store'[p].index}
  BY <1>0, <1>1, <1>2 DEF HostTypeOK
<1>9. seen'[p] = Nothing \/ (seen'[p] = seen[p] /\ ~RotatedMeanwhile(p))
  BY <1>0, <1>2 DEF HostTypeOK
<1>10. seen'[p].lines \subseteq store'[p].index
  <2>1. CASE seen'[p] = Nothing
    BY <2>1 DEF Nothing
  <2>2. CASE seen'[p] = seen[p] /\ ~RotatedMeanwhile(p)
    <3>1. CASE NoTraces(p)
      BY <1>0, <2>2, <3>1 DEF NoTraces, Indexes
    <3>2. CASE Whole(p)
      BY <1>3, <2>2, <3>2, CatchesUp
    <3> QED BY <3>1, <3>2 DEF FindOrphans
  <2> QED BY <1>9, <2>1, <2>2
<1>11. Phase(p)'
  <2>1. Dormant(p)'
    BY <1>1, <1>3 DEF Dormant, Live
  <2> QED BY <1>1, <1>3, <1>8, <2>1 DEF Phase, WriteAt
<1>12. Indexes(p)'
  <2>1. seen'[p].segs <= Len(segs)
    BY <1>0, <1>9 DEF Indexes, Nothing
  <2> QED BY <1>1, <1>7, <1>10, <2>1 DEF Indexes
<1>13. Reconciling(p)'
  <2>1. \A c \in orphans'[p] : Open(p, c)'
    BY <1>7, <1>8, <1>10 DEF Open
  <2>2. WriteAt(p, "none")'
    BY <1>1, <1>3 DEF WriteAt
  <2>3. ASSUME NEW c \in Calls, Started(c) \in seen'[p].lines PROVE Settling(p, c)'
    BY <1>7, <1>8, <1>10, <2>3 DEF Settling
  <2> QED BY <2>1, <2>2, <2>3 DEF Reconciling
<1>14. Covered(p)'
  <2>1. CASE store' = store
    BY <1>0, <1>1, <1>8, <2>1 DEF Covered
  <2>2. CASE /\ Grows(store[p], store'[p], Range(active))
             /\ store'[p].count = store[p].count /\ store'[p].cursor = Len(active)
    <3>1. store[p].index \subseteq store'[p].index /\ Range(active) \subseteq store'[p].index
      BY <2>2 DEF Grows
    <3>2. \A i \in 1..Len(active) : active[i] \in Range(active)
      BY FullFacts DEF Range
    <3> QED BY <1>0, <1>1, <1>3, <1>8, <2>2, <3>1, <3>2, CoveredFacts DEF Covered
  <2> QED BY <1>4, <2>1, <2>2
<1> QED BY <1>5, <1>6, <1>11, <1>12, <1>13, <1>14, ReadEvidence

LEMMA AskEvidence ==
    ASSUME FullInv, NEW p \in Procs, Ask(p)
    PROVE  EvidenceInv'
<1>0. /\ HostTypeOK /\ Phase(p) /\ Indexes(p) /\ Reconciling(p) /\ Covered(p)
      /\ Len(segs) \in Nat /\ reads \in [Procs -> ReadPCs]
  BY FullFacts DEF EvidenceInv
<1>1. /\ proc[p] = "up"
      /\ reads' = [reads EXCEPT ![p] = "list"]
      /\ seen' = IF p \in quiet THEN [seen EXCEPT ![p] = OnDisk] ELSE seen
      /\ UNCHANGED <<segs, active, store, writes, proc, orphans, calls, quiet, acked, pruned>>
  BY DEF Ask, Read, ReadGoto
<1>2. reads'[p] = "list" /\ (seen'[p] = seen[p] \/ seen'[p] = OnDisk)
  BY <1>0, <1>1 DEF HostTypeOK
<1>3. OnlyReads(p)
  BY <1>0, <1>1 DEF OnlyReads, HostTypeOK
<1>4. Grows(store[p], store'[p], {}) /\ Lines' = Lines
  BY <1>1, GrowsNot, SameLines
<1>5. orphans[p] = {} /\ WriteAt(p, "none")
  BY <1>0, <1>1 DEF Phase
<1>6. Phase(p)'
  <2>1. Dormant(p) => Dormant(p)'
    BY <1>1 DEF Dormant, Live
  <2> QED BY <1>0, <1>1, <1>2, <1>5, <2>1 DEF Phase, WriteAt
<1>7. Indexes(p)'
  <2>1. OnDisk.lines = Lines /\ OnDisk.segs = Len(segs)
    BY DEF OnDisk
  <2> QED BY <1>0, <1>1, <1>2, <1>4, <2>1 DEF Indexes
<1>8. Reconciling(p)'
  BY <1>1, <1>2, <1>5 DEF Reconciling, WriteAt
<1>9. Covered(p)'
  BY <1>0, <1>1, <1>2 DEF Covered
<1> QED BY <1>3, <1>4, <1>6, <1>7, <1>8, <1>9, ReadEvidence

LEMMA UpFacts ==
    ASSUME FullInv, NEW p \in Procs, proc[p] = "up"
    PROVE  /\ StoreInv /\ HostTypeOK /\ EvidenceInv
           /\ Phase(p) /\ Indexes(p) /\ Reconciling(p) /\ Covered(p)
           /\ orphans[p] = {} /\ WriteAt(p, "none")
BY FullFacts DEF EvidenceInv, Phase

\* A read that has ended in a running process has left nothing behind.
LEMMA ReadEnds ==
    ASSUME FullInv, NEW p \in Procs, proc[p] = "up",
           UNCHANGED <<segs, active, writes, proc, orphans, calls, quiet>>,
           reads'[p] = "none", seen'[p] = Nothing, store'[p].index \subseteq Lines,
           p \in quiet =>
              \/ store'[p] = store[p]
              \/ \E s2 : /\ ReadsOn(p, s2)
                         /\ store'[p].index = s2.index
                         /\ store'[p].count = s2.count /\ store'[p].cursor = s2.cursor
    PROVE  Phase(p)' /\ Indexes(p)' /\ Reconciling(p)' /\ Covered(p)'
<1>0. Lines' = Lines /\ Len(segs) \in Nat /\ Len(active) \in Nat
  BY SameLines, FullFacts
<1>1. Phase(p)'
  <2>1. Dormant(p) => Dormant(p)'
    BY DEF Dormant, Live
  <2> QED BY <2>1, UpFacts DEF Phase, WriteAt
<1>2. Indexes(p)'
  BY <1>0 DEF Indexes, Nothing
<1>3. Reconciling(p)'
  BY UpFacts DEF Reconciling, WriteAt
<1>4. Covered(p)'
  <2> SUFFICES ASSUME p \in quiet PROVE Covered(p)'
    BY DEF Covered
  <2>1. CASE store'[p] = store[p]
    BY <2>1, UpFacts DEF Covered
  <2>2. ASSUME NEW s2, ReadsOn(p, s2), store'[p].index = s2.index,
               store'[p].count = s2.count, store'[p].cursor = s2.cursor
        PROVE  Covered(p)'
    <3>1. s2.count <= Len(segs) /\ \A i \in 1..s2.count : Range(segs[i]) \subseteq s2.index
      BY <2>2, ReadsOnCovers, CoveredFacts
    <3>2. s2.count = Len(segs) =>
             s2.cursor <= Len(active) /\ \A i \in 1..s2.cursor : active[i] \in s2.index
      <4> SUFFICES ASSUME s2.count = Len(segs)
                   PROVE  s2.cursor <= Len(active) /\ \A i \in 1..s2.cursor : active[i] \in s2.index
        OBVIOUS
      <4>1. s2.cursor = Len(active) /\ Range(active) \subseteq s2.index
        BY <2>2, ReadsOnCovers
      <4>2. \A i \in 1..Len(active) : active[i] \in Range(active)
        BY FullFacts DEF Range
      <4> QED BY <1>0, <4>1, <4>2
    <3> QED BY <2>2, <3>1, <3>2 DEF Covered
  <2> QED BY <2>1, <2>2
<1> QED BY <1>1, <1>2, <1>3, <1>4

LEMMA AnswerEvidence ==
    ASSUME FullInv, NEW p \in Procs, Answer(p)
    PROVE  EvidenceInv'
<1>0. StoreInv /\ HostTypeOK /\ reads \in [Procs -> ReadPCs] /\ Range(active) \in SUBSET Lines
  BY FullFacts
<1>1. /\ proc[p] = "up" /\ reads' = [reads EXCEPT ![p] = "none"] /\ seen' = [seen EXCEPT ![p] = Nothing]
      /\ UNCHANGED <<segs, active, writes, proc, orphans, calls, quiet, acked, pruned>>
  BY DEF Answer, Delta, ReadFails, ReadGoto
<1>2. reads'[p] = "none" /\ seen'[p] = Nothing
  BY <1>0, <1>1 DEF HostTypeOK
<1>3. (\A q \in Procs : q # p => store'[q] = store[q]) /\ (store'[p] = store[p] \/ ReadsOn(p, store'[p]))
  BY <1>0, DeltaEffect DEF Answer, ReadFails
<1>4. OnlyReads(p)
  BY <1>0, <1>1, <1>3 DEF OnlyReads, HostTypeOK
<1>5. PICK T \in SUBSET Lines : Grows(store[p], store'[p], T)
  BY <1>0, <1>3, GrowsNot DEF ReadsOn
<1>6. store'[p].index \subseteq Lines
  BY <1>4, <1>5, ReadGrows
<1>7. Phase(p)' /\ Indexes(p)' /\ Reconciling(p)' /\ Covered(p)'
  BY <1>1, <1>2, <1>3, <1>6, ReadEnds
<1> QED BY <1>4, <1>5, <1>7, ReadEvidence

\* Receipts that are pruned are no longer shown.
LEMMA PruneTaskEvidence ==
    ASSUME FullInv, NEW p \in Procs, PruneTask(p)
    PROVE  EvidenceInv'
<1>0. /\ StoreInv /\ HostTypeOK /\ EvidenceInv /\ reads \in [Procs -> ReadPCs]
      /\ Range(active) \in SUBSET Lines /\ Indexes(p)
  BY FullFacts DEF EvidenceInv
<1>1. /\ proc[p] = "up" /\ Prune(p)
      /\ reads' = [reads EXCEPT ![p] = "none"] /\ seen' = [seen EXCEPT ![p] = Nothing]
      /\ pruned' = pruned \cup {c \in Calls : Home[c] = p /\ ~CallAt(c, "idle")}
      /\ UNCHANGED <<segs, active, writes, proc, orphans, calls, quiet, acked>>
  BY DEF PruneTask, Prune, ReadGoto
<1>2. reads'[p] = "none" /\ seen'[p] = Nothing
  BY <1>0, <1>1 DEF HostTypeOK
<1>3. /\ \A q \in Procs : q # p => store'[q] = store[q]
      /\ \E s2 : /\ ReadsOn(p, s2)
                 /\ store'[p].index = s2.index
                 /\ store'[p].count = s2.count /\ store'[p].cursor = s2.cursor
  BY <1>0, <1>1, PruneEffect
<1>4. OnlyReads(p)
  BY <1>0, <1>1, <1>3 DEF OnlyReads, HostTypeOK
<1>5. Lines' = Lines
  BY <1>1, SameLines
<1>6. store[p].index \subseteq store'[p].index /\ store'[p].index \subseteq Lines
  BY <1>0, <1>3 DEF ReadsOn, Grows, Indexes
<1>7. Phase(p)' /\ Indexes(p)' /\ Reconciling(p)' /\ Covered(p)'
  BY <1>1, <1>2, <1>3, <1>6, ReadEnds
<1>8. ASSUME NEW c \in Calls PROVE Shown(c)'
  <2>1. CASE Home[c] # p
    BY <1>4, <2>1, ReadFrame
  <2>2. CASE Home[c] = p
    <3>1. Shown(c)
      BY <1>0 DEF EvidenceInv
    <3>2. Live(c) => c \in pruned'
      BY <1>1, <2>2 DEF Live, CallAt
    <3>3. StartIndexed(c) => StartIndexed(c)'
      BY <1>1, <1>5, <1>6, <2>2 DEF StartIndexed, InAppend, CallAt
    <3>4. WriteAt(c, "return") /\ writes[c].trace \in store[Home[c]].index =>
             writes'[c].trace \in store'[Home[c]].index
      BY <1>1, <1>6, <2>2
    <3>5. calls'[c] = calls[c] /\ writes'[c] = writes[c]
      BY <1>1
    <3> QED BY <1>5, <3>1, <3>2, <3>3, <3>4, <3>5 DEF Shown, Live, CallAt, WriteAt
  <2> QED BY <2>1, <2>2
<1>9. \A t \in acked' : Returned(t)'
  <2>1. \A q \in Procs : store[q].index \subseteq store'[q].index
    BY <1>3, <1>6
  <2>2. acked' = acked /\ acked \subseteq Traces /\ \A c \in Calls : Live(c) => Live(c)'
    BY <1>0, <1>1 DEF Live, HostTypeOK
  <2> QED BY <1>0, <2>1, <2>2, ReturnedKept
<1>10. /\ \A q \in Procs : q # p => /\ Phase(q)' /\ Indexes(q)' /\ Reconciling(q)' /\ Covered(q)'
       /\ \A c \in Calls : OwnTrace(c)'
       /\ \A w \in Writers : Written(w)'
  BY <1>4, ReadFrame
<1> QED BY <1>7, <1>8, <1>9, <1>10 DEF EvidenceInv

-----------------------------------------------------------------------------
(* The steps of a call. *)

LEMMA LiveHome ==
    ASSUME FullInv, NEW c \in Calls, Live(c)
    PROVE  Home[c] \in Procs /\ proc[Home[c]] = "up" /\ Home[c] \notin quiet
<1>1. Home[c] \in Procs
  BY CallsAreWriters
<1>2. Phase(Home[c])
  BY <1>1, FullFacts DEF EvidenceInv
<1> QED BY <1>1, <1>2 DEF Phase, Dormant

\* A step of a call: nothing else changes than its append, its place and the cursor
\* of its process.
OnlyCall(c) ==
    /\ UNCHANGED <<segs, active, reads, proc, orphans, seen, pruned>>
    /\ writes' = [writes EXCEPT ![c] = writes'[c]]
    /\ calls' = [calls EXCEPT ![c] = calls'[c]]
    /\ quiet' = quiet \ {Home[c]}
    /\ \A q \in Procs : Grows(store[q], store'[q], {}) /\ store'[q].index = store[q].index
    /\ \A q \in Procs : q # Home[c] => store'[q] = store[q]

LEMMA CallFrame ==
    ASSUME FullInv, NEW c \in Calls, OnlyCall(c), proc[Home[c]] = "up"
    PROVE  /\ Lines' = Lines
           /\ \A q \in Procs : Phase(q)' /\ Indexes(q)' /\ Reconciling(q)' /\ Covered(q)'
           /\ \A d \in Calls : d # c => OwnTrace(d)' /\ Shown(d)'
           /\ \A w \in Writers : w # c => Written(w)'
<1>0. StoreInv /\ HostTypeOK /\ EvidenceInv /\ writes \in [Writers -> Writes] /\ Home[c] \in Procs
  BY FullFacts, CallsAreWriters
<1>1. Lines' = Lines /\ segs' = segs /\ active' = active
  BY SameLines DEF OnlyCall
<1>2. /\ \A w \in Writers : w # c => writes'[w] = writes[w]
      /\ \A d \in Calls : d # c => calls'[d] = calls[d]
  BY <1>0 DEF OnlyCall, HostTypeOK
<1>3. ASSUME NEW q \in Procs PROVE Phase(q)' /\ Indexes(q)' /\ Reconciling(q)' /\ Covered(q)'
  <2>1. Phase(q) /\ Indexes(q) /\ Reconciling(q) /\ Covered(q)
    BY <1>0 DEF EvidenceInv
  <2>2. writes'[q] = writes[q]
    BY <1>2, CallsAreWriters, ProcsAreNotCalls
  <2>3. /\ reads'[q] = reads[q] /\ proc'[q] = proc[q] /\ orphans'[q] = orphans[q] /\ seen'[q] = seen[q]
        /\ store'[q].index = store[q].index
        /\ q # Home[c] => store'[q] = store[q]
        /\ q = Home[c] => proc[q] = "up"
    BY DEF OnlyCall
  <2>4. q \in quiet' <=> q \in quiet /\ q # Home[c]
    BY DEF OnlyCall
  <2>5. q # Home[c] => (Dormant(q)' <=> Dormant(q))
    BY <1>2 DEF Dormant, Live
  <2>6. Phase(q)'
    BY <2>1, <2>2, <2>3, <2>4, <2>5 DEF Phase, WriteAt
  <2>7. Indexes(q)'
    BY <1>1, <2>1, <2>3 DEF Indexes
  <2>8. \A d \in Calls : (Open(q, d)' <=> Open(q, d)) /\ (Settling(q, d)' <=> Settling(q, d))
    BY <1>1, <2>2, <2>3 DEF Open, Settling, WriteAt
  <2>9. orphans[q] \subseteq Calls
    BY <1>0 DEF HostTypeOK
  <2>10. Reconciling(q)'
    BY <2>1, <2>2, <2>3, <2>8, <2>9 DEF Reconciling, WriteAt
  <2>11. Covered(q)'
    BY <1>1, <2>1, <2>3, <2>4 DEF Covered
  <2> QED BY <2>6, <2>7, <2>10, <2>11
<1>4. ASSUME NEW d \in Calls, d # c PROVE OwnTrace(d)' /\ Shown(d)'
  <2>1. OwnTrace(d) /\ Shown(d) /\ d \in Writers /\ Home[d] \in Procs
    BY <1>0, CallsAreWriters DEF EvidenceInv
  <2>2. writes'[d] = writes[d] /\ calls'[d] = calls[d] /\ (d \in pruned => d \in pruned')
    BY <1>2, <1>4, <2>1 DEF OnlyCall
  <2>3. OwnTrace(d)'
    BY <2>1, <2>2 DEF OwnTrace, CallAt, WriteAt
  <2>4. Grows(store[Home[d]], store'[Home[d]], {})
    BY <2>1 DEF OnlyCall
  <2> QED BY <1>1, <2>1, <2>2, <2>3, <2>4, ShownKept
<1>5. ASSUME NEW w \in Writers, w # c PROVE Written(w)'
  BY <1>0, <1>1, <1>2, <1>5 DEF EvidenceInv, Written
<1> QED BY <1>1, <1>3, <1>4, <1>5

\* What is left to show of a step of a call that has been started is what it makes
\* of the call itself.
LEMMA CallEvidence ==
    ASSUME FullInv, NEW c \in Calls, OnlyCall(c), Live(c), Live(c)',
           OwnTrace(c)', Written(c)', StartIndexed(c)', ~WriteAt(c, "return")',
           CallAt(c, "start")' => CallAt(c, "start") /\ ~WriteAt(c, "lock")',
           \A t \in acked' : t \in acked \/ Returned(t)'
    PROVE  EvidenceInv'
<1>0. EvidenceInv /\ HostTypeOK /\ Home[c] \in Procs /\ Shown(c) /\ OnlyCall(c)
  BY FullFacts, CallsAreWriters DEF EvidenceInv
<1>1. /\ Lines' = Lines
      /\ \A q \in Procs : Phase(q)' /\ Indexes(q)' /\ Reconciling(q)' /\ Covered(q)'
      /\ \A d \in Calls : d # c => OwnTrace(d)' /\ Shown(d)'
      /\ \A w \in Writers : w # c => Written(w)'
  BY LiveHome, CallFrame
<1>2. Shown(c)'
  <2> PICK s : s = store[Home[c]]
    OBVIOUS
  <2> PICK s2 : s2 = store'[Home[c]]
    OBVIOUS
  <2>1. /\ s2.index = s.index /\ s.known \subseteq s2.known /\ s.bucket \subseteq s2.bucket
        /\ c \in pruned' <=> c \in pruned
    BY <1>0 DEF OnlyCall, Grows
  <2>2. InBucket(s, c) => InBucket(s2, c)'
    BY <1>1, <2>1 DEF InBucket
  <2>3. ~CallAt(c, "idle")' /\ Lines' = Lines
    BY <1>1 DEF Live, CallAt
  <2>4. CallAt(c, "start") /\ Started(c) \notin Lines => Finished(c) \notin Lines
    BY <1>0 DEF Shown, CallAt
  <2>5. c \notin pruned => InBucket(s, c)
    BY <1>0 DEF Shown
  <2> QED BY <2>1, <2>2, <2>3, <2>4, <2>5 DEF Shown, CallAt
<1>3. \A t \in acked' : Returned(t)'
  <2> SUFFICES ASSUME NEW t \in acked PROVE Returned(t)'
    OBVIOUS
  <2>1. Returned(t) /\ t.call \in Calls
    BY <1>0 DEF EvidenceInv, HostTypeOK, Traces
  <2>2. Home[t.call] \in Procs
    BY <2>1, CallsAreWriters
  <2>3. Live(t.call)'
    BY <1>0, <2>1 DEF Returned, Live, OnlyCall, HostTypeOK
  <2> QED BY <1>0, <2>1, <2>2, <2>3 DEF Returned, OnlyCall
<1> QED BY <1>0, <1>1, <1>2, <1>3 DEF EvidenceInv

LEMMA StoresAlone ==
    store' = store => \A q \in Procs : Grows(store[q], store'[q], {}) /\ store'[q].index = store[q].index
BY GrowsNot

\* An append that is not past the lock, or is over, is not what is being indexed.
LEMMA StartIsIndexed ==
    ASSUME FullInv, NEW c \in Calls, Live(c), ~InAppend(c), Started(c) \in Lines
    PROVE  Started(c) \in store[Home[c]].index
BY FullFacts DEF EvidenceInv, Shown, StartIndexed

LEMMA RecordedEvidence ==
    ASSUME FullInv, NEW c \in Calls, Recorded(c)
    PROVE  EvidenceInv'
<1>0. /\ StoreInv /\ HostTypeOK /\ EvidenceInv /\ OwnTrace(c) /\ Shown(c) /\ c \in Writers
      /\ Home[c] \in Procs /\ HomeOf(c) = Home[c] /\ writes \in [Writers -> Writes]
  BY FullFacts, CallsAreWriters DEF EvidenceInv, HomeOf
<1>1. /\ Return(c) /\ WriteAt(c, "return") /\ writes' = [writes EXCEPT ![c] = NoWrite]
      /\ acked' = acked \cup {writes[c].trace}
      /\ calls' = [calls EXCEPT ![c] = IF CallAt(c, "start") THEN "decide" ELSE "returned"]
      /\ UNCHANGED <<segs, active, reads, proc, orphans, used, seen, quiet, pruned>>
  BY DEF Recorded, Return, AfterAppend, CallGoto
<1>2. Live(c) /\ writes[c].trace \in {Started(c), Finished(c)}
  BY <1>0, <1>1 DEF OwnTrace, WriteAt, Live, CallAt
<1>3. calls'[c] \in {"decide", "returned"} /\ writes'[c] = NoWrite
  BY <1>0, <1>1 DEF HostTypeOK
<1>4. OnlyCall(c)
  <2>1. /\ \A q \in Procs : Grows(store[q], store'[q], {}) /\ store'[q].index = store[q].index
        /\ \A q \in Procs : q # Home[c] => store'[q] = store[q]
    BY <1>0, <1>1, ReturnEffect
  <2>2. Home[c] \notin quiet
    BY <1>2, LiveHome
  <2> QED BY <1>0, <1>1, <2>1, <2>2 DEF OnlyCall, HostTypeOK
<1>5. Live(c)' /\ ~CallAt(c, "start")'
  BY <1>3 DEF Live, CallAt
<1>6. OwnTrace(c)' /\ Written(c)' /\ ~WriteAt(c, "return")'
  BY <1>3 DEF OwnTrace, Written, WriteAt, NoWrite
<1>7. store'[Home[c]].index = store[Home[c]].index /\ Lines' = Lines
  BY <1>0, <1>1, <1>4, SameLines DEF OnlyCall
<1>8. StartIndexed(c)'
  BY <1>1, <1>2, <1>7, StartIsIndexed DEF StartIndexed, InAppend, WriteAt
<1>9. \A t \in acked' : t \in acked \/ Returned(t)'
  <2> SUFFICES ASSUME NEW t \in acked', t \notin acked PROVE Returned(t)'
    OBVIOUS
  <2>1. t = writes[c].trace
    BY <1>1
  <2>2. t.call = c /\ t \in store[Home[c]].index
    BY <1>0, <1>1, <1>2, <2>1, TracesDiffer DEF Shown
  <2> QED BY <1>5, <1>7, <2>2 DEF Returned
<1> QED BY <1>2, <1>4, <1>5, <1>6, <1>8, <1>9, CallEvidence

LEMMA UnrecordedEvidence ==
    ASSUME FullInv, NEW c \in Calls, Unrecorded(c) \/ UnrecordedFault(c)
    PROVE  EvidenceInv'
<1>0. /\ StoreInv /\ HostTypeOK /\ EvidenceInv /\ OwnTrace(c) /\ c \in Writers
      /\ Home[c] \in Procs /\ writes \in [Writers -> Writes]
  BY FullFacts, CallsAreWriters DEF EvidenceInv
<1>1. /\ WriteAt(c, "lock") /\ writes' = [writes EXCEPT ![c] = NoWrite]
      /\ calls' = [calls EXCEPT ![c] = IF CallAt(c, "start") THEN "decide" ELSE "returned"]
      /\ UNCHANGED <<segs, active, store, reads, proc, orphans, seen, quiet, acked, pruned>>
  BY DEF Unrecorded, UnrecordedFault, GiveUp, WriteFails, AfterAppend, CallGoto
<1>2. Live(c)
  BY <1>0, <1>1 DEF OwnTrace, WriteAt, Live, CallAt
<1>3. calls'[c] \in {"decide", "returned"} /\ writes'[c] = NoWrite
  BY <1>0, <1>1 DEF HostTypeOK
<1>4. OnlyCall(c)
  <2>1. Home[c] \notin quiet
    BY <1>2, LiveHome
  <2>2. \A q \in Procs : Grows(store[q], store'[q], {}) /\ store'[q].index = store[q].index
    BY <1>1, StoresAlone
  <2> QED BY <1>0, <1>1, <2>1, <2>2 DEF OnlyCall, HostTypeOK
<1>5. Live(c)' /\ ~CallAt(c, "start")'
  BY <1>3 DEF Live, CallAt
<1>6. OwnTrace(c)' /\ Written(c)' /\ ~WriteAt(c, "return")'
  BY <1>3 DEF OwnTrace, Written, WriteAt, NoWrite
<1>7. store'[Home[c]].index = store[Home[c]].index /\ Lines' = Lines
  BY <1>1, SameLines
<1>8. StartIndexed(c)'
  BY <1>1, <1>2, <1>7, StartIsIndexed DEF StartIndexed, InAppend, WriteAt
<1>9. \A t \in acked' : t \in acked
  BY <1>1
<1> QED BY <1>2, <1>4, <1>5, <1>6, <1>8, <1>9, CallEvidence

LEMMA DecideEvidence ==
    ASSUME FullInv, NEW c \in Calls, Decide(c)
    PROVE  EvidenceInv'
<1>0. /\ StoreInv /\ HostTypeOK /\ EvidenceInv /\ OwnTrace(c) /\ c \in Writers
      /\ Home[c] \in Procs /\ writes \in [Writers -> Writes]
  BY FullFacts, CallsAreWriters DEF EvidenceInv
<1>1. /\ CallAt(c, "decide") /\ WriteAt(c, "none")
      /\ writes' = [writes EXCEPT ![c] = [pc |-> "lock", trace |-> Finished(c), rotated |-> 0]]
      /\ calls' = [calls EXCEPT ![c] = "finish"]
      /\ UNCHANGED <<segs, active, store, reads, proc, orphans, seen, quiet, acked, pruned>>
  BY DEF Decide, AppendTrace, CallGoto
<1>2. Live(c)
  BY <1>1 DEF Live, CallAt
<1>3. calls'[c] = "finish" /\ writes'[c] = [pc |-> "lock", trace |-> Finished(c), rotated |-> 0]
  BY <1>0, <1>1 DEF HostTypeOK
<1>4. OnlyCall(c)
  <2>1. Home[c] \notin quiet
    BY <1>2, LiveHome
  <2>2. \A q \in Procs : Grows(store[q], store'[q], {}) /\ store'[q].index = store[q].index
    BY <1>1, StoresAlone
  <2> QED BY <1>0, <1>1, <2>1, <2>2 DEF OnlyCall, HostTypeOK
<1>5. Live(c)' /\ ~CallAt(c, "start")'
  BY <1>3 DEF Live, CallAt
<1>6. OwnTrace(c)' /\ Written(c)' /\ ~WriteAt(c, "return")'
  BY <1>3 DEF OwnTrace, Written, WriteAt, CallAt
<1>7. store'[Home[c]].index = store[Home[c]].index /\ Lines' = Lines
  BY <1>1, SameLines
<1>8. StartIndexed(c)'
  BY <1>1, <1>2, <1>7, StartIsIndexed DEF StartIndexed, InAppend, WriteAt
<1>9. \A t \in acked' : t \in acked
  BY <1>1
<1> QED BY <1>2, <1>4, <1>5, <1>6, <1>8, <1>9, CallEvidence

LEMMA ExecuteEvidence ==
    ASSUME FullInv, NEW c \in Calls, Execute(c)
    PROVE  EvidenceInv'
<1>0. /\ StoreInv /\ HostTypeOK /\ EvidenceInv /\ Shown(c) /\ c \in Writers
      /\ Home[c] \in Procs /\ writes \in [Writers -> Writes] /\ acked \subseteq Traces
  BY FullFacts, CallsAreWriters DEF EvidenceInv, HostTypeOK
<1>1. /\ proc[Home[c]] = "up" /\ CallAt(c, "idle")
      /\ writes' = [writes EXCEPT ![c] = [pc |-> "lock", trace |-> Started(c), rotated |-> 0]]
      /\ calls' = [calls EXCEPT ![c] = "start"] /\ quiet' = quiet \ {Home[c]}
      /\ UNCHANGED <<segs, active, store, reads, proc, orphans, seen, acked, pruned>>
  BY DEF Execute, AppendTrace, CallGoto
<1>2. calls'[c] = "start" /\ writes'[c] = [pc |-> "lock", trace |-> Started(c), rotated |-> 0]
  BY <1>0, <1>1 DEF HostTypeOK
<1>3. OnlyCall(c)
  <2>1. \A q \in Procs : Grows(store[q], store'[q], {}) /\ store'[q].index = store[q].index
    BY <1>1, StoresAlone
  <2> QED BY <1>0, <1>1, <2>1 DEF OnlyCall, HostTypeOK
<1>4. OwnTrace(c)' /\ Written(c)'
  BY <1>2 DEF OwnTrace, Written, WriteAt, CallAt
<1>5. Started(c) \notin Lines /\ Finished(c) \notin Lines /\ Lines' = Lines
  BY <1>0, <1>1, SameLines DEF Shown, CallAt
<1>6. Shown(c)'
  <2>1. Started(c) \notin store[Home[c]].index
    BY <1>0, <1>5 DEF EvidenceInv, Indexes
  <2> QED BY <1>1, <1>2, <1>5, <2>1 DEF Shown, StartIndexed, InBucket, WriteAt, CallAt
<1>7. \A t \in acked' : Returned(t)'
  <2>1. \A d \in Calls : Live(d) => Live(d)'
    BY <1>0, <1>1, <1>2 DEF Live, HostTypeOK
  <2> QED BY <1>0, <1>1, <2>1, ReturnedKept
<1>8. /\ \A q \in Procs : Phase(q)' /\ Indexes(q)' /\ Reconciling(q)' /\ Covered(q)'
      /\ \A d \in Calls : d # c => OwnTrace(d)' /\ Shown(d)'
      /\ \A w \in Writers : w # c => Written(w)'
  BY <1>1, <1>3, CallFrame
<1> QED BY <1>4, <1>6, <1>7, <1>8 DEF EvidenceInv

-----------------------------------------------------------------------------
(* The steps of a start-up, and the end of a process. *)

\* A step of p's start-up: its append, its orphans and its phase.
OnlyStart(p) ==
    /\ UNCHANGED <<segs, active, reads, calls, seen, acked, pruned>>
    /\ \A w \in Writers : w # p => writes'[w] = writes[w]
    /\ \A q \in Procs : Grows(store[q], store'[q], {}) /\ store'[q].index = store[q].index
    /\ \A q \in Procs : q # p => /\ proc'[q] = proc[q] /\ store'[q] = store[q]
                                 /\ orphans'[q] = orphans[q]
                                 /\ q \in quiet' <=> q \in quiet

LEMMA StartFrame ==
    ASSUME FullInv, NEW p \in Procs, OnlyStart(p),
           Phase(p)', Reconciling(p)', Covered(p)', Written(p)'
    PROVE  EvidenceInv'
<1>0. StoreInv /\ HostTypeOK /\ EvidenceInv /\ p \in Writers
  BY FullFacts, CallsAreWriters
<1>1. Lines' = Lines /\ segs' = segs /\ active' = active
  BY SameLines DEF OnlyStart
<1>2. \A c \in Calls : c \in Writers /\ writes'[c] = writes[c] /\ calls'[c] = calls[c]
  BY CallsAreWriters, ProcsAreNotCalls DEF OnlyStart
<1>3. ASSUME NEW q \in Procs PROVE Phase(q)' /\ Indexes(q)' /\ Reconciling(q)' /\ Covered(q)'
  <2>1. Phase(q) /\ Indexes(q) /\ Reconciling(q) /\ Covered(q) /\ orphans[q] \subseteq Calls
    BY <1>0 DEF EvidenceInv, HostTypeOK
  <2>2. seen'[q] = seen[q] /\ store'[q].index = store[q].index
    BY DEF OnlyStart
  <2>3. Indexes(q)'
    BY <1>1, <2>1, <2>2 DEF Indexes
  <2>4. CASE q = p
    BY <2>3, <2>4
  <2>5. CASE q # p
    <3>1. /\ reads'[q] = reads[q] /\ proc'[q] = proc[q] /\ orphans'[q] = orphans[q]
          /\ store'[q] = store[q] /\ writes'[q] = writes[q]
      BY <2>5, CallsAreWriters DEF OnlyStart
    <3>2. q \in quiet' <=> q \in quiet
      BY <2>5 DEF OnlyStart
    <3>3. Dormant(q)' <=> Dormant(q)
      BY <1>2 DEF Dormant, Live
    <3>4. Phase(q)'
      BY <2>1, <2>2, <3>1, <3>2, <3>3 DEF Phase, WriteAt
    <3>5. \A d \in Calls : (Open(q, d)' <=> Open(q, d)) /\ (Settling(q, d)' <=> Settling(q, d))
      BY <1>1, <2>2, <3>1 DEF Open, Settling, WriteAt
    <3>6. Reconciling(q)'
      BY <2>1, <2>2, <3>1, <3>5 DEF Reconciling, WriteAt
    <3>7. Covered(q)'
      BY <1>1, <2>1, <2>2, <3>1, <3>2 DEF Covered
    <3> QED BY <2>3, <3>4, <3>6, <3>7
  <2> QED BY <2>4, <2>5
<1>4. ASSUME NEW c \in Calls PROVE OwnTrace(c)' /\ Shown(c)'
  <2>1. OwnTrace(c) /\ Shown(c) /\ Home[c] \in Procs /\ (c \in pruned => c \in pruned')
    BY <1>0, CallsAreWriters DEF EvidenceInv, OnlyStart
  <2>2. Grows(store[Home[c]], store'[Home[c]], {})
    BY <2>1 DEF OnlyStart
  <2>3. OwnTrace(c)'
    BY <1>2, <2>1 DEF OwnTrace, CallAt, WriteAt
  <2>4. Shown(c)'
    BY <1>1, <1>2, <2>1, <2>2, ShownKept
  <2> QED BY <2>3, <2>4
<1>5. ASSUME NEW w \in Writers PROVE Written(w)'
  <2>1. CASE w = p
    BY <2>1
  <2>2. CASE w # p
    BY <1>0, <1>1, <2>2 DEF EvidenceInv, Written, OnlyStart
  <2> QED BY <2>1, <2>2
<1>6. \A t \in acked' : Returned(t)'
  <2>1. acked' = acked /\ acked \subseteq Traces /\ \A c \in Calls : Live(c) => Live(c)'
    BY <1>0, <1>2 DEF OnlyStart, HostTypeOK, Live
  <2>2. \A q \in Procs : store[q].index \subseteq store'[q].index
    BY DEF OnlyStart
  <2> QED BY <1>0, <2>1, <2>2, ReturnedKept
<1> QED BY <1>3, <1>4, <1>5, <1>6 DEF EvidenceInv

LEMMA ReconcileEvidence ==
    ASSUME FullInv, NEW p \in Procs, Reconcile(p)
    PROVE  EvidenceInv'
<1>0. /\ StoreInv /\ HostTypeOK /\ Phase(p) /\ Indexes(p) /\ Reconciling(p) /\ p \in Writers
      /\ writes \in [Writers -> Writes] /\ orphans[p] \subseteq Calls
  BY FullFacts, CallsAreWriters DEF EvidenceInv, HostTypeOK
<1>1. PICK c \in orphans[p] : /\ WriteAt(p, "none")
                              /\ writes' = [writes EXCEPT ![p] = [pc |-> "lock", trace |-> Finished(c), rotated |-> 0]]
                              /\ orphans' = [orphans EXCEPT ![p] = @ \ {c}]
  BY DEF Reconcile, AppendTrace
<1>2. /\ proc[p] = "starting" /\ quiet' = quiet \ {p}
      /\ UNCHANGED <<segs, active, store, reads, proc, calls, seen, acked, pruned>>
  BY DEF Reconcile
<1>3. /\ writes'[p] = [pc |-> "lock", trace |-> Finished(c), rotated |-> 0]
      /\ orphans'[p] = orphans[p] \ {c} /\ c \in Calls /\ Open(p, c)
  BY <1>0, <1>1 DEF HostTypeOK, Reconciling
<1>4. OnlyStart(p)
  <2>1. \A q \in Procs : Grows(store[q], store'[q], {}) /\ store'[q].index = store[q].index
    BY <1>2, StoresAlone
  <2> QED BY <1>0, <1>1, <1>2, <2>1 DEF OnlyStart, HostTypeOK
<1>5. Lines' = Lines
  BY <1>2, SameLines
<1>6. Phase(p)'
  <2>1. orphans[p] # {}
    BY <1>1
  <2>2. Dormant(p)' <=> Dormant(p)
    BY <1>2 DEF Dormant, Live
  <2> QED BY <1>0, <1>2, <2>1, <2>2 DEF Phase
<1>7. Reconciling(p)'
  <2>1. \A d \in Calls : Open(p, d)' <=> Open(p, d)
    BY <1>2, <1>5 DEF Open
  <2>2. \A d \in Calls : Settling(p, d) => Settling(p, d)'
    BY <1>1, <1>3, <1>5 DEF Settling, WriteAt
  <2>3. \A d \in orphans'[p] : Open(p, d)'
    BY <1>0, <1>3, <2>1 DEF Reconciling
  <2>4. writes'[p].trace = Finished(c)
    BY <1>3
  <2> QED BY <1>0, <1>2, <1>3, <2>1, <2>2, <2>3, <2>4 DEF Reconciling
<1>8. Covered(p)'
  BY <1>2 DEF Covered
<1>9. Written(p)'
  BY <1>3 DEF Written
<1> QED BY <1>4, <1>6, <1>7, <1>8, <1>9, StartFrame

LEMMA ReconciledEvidence ==
    ASSUME FullInv, NEW p \in Procs, Reconciled(p)
    PROVE  EvidenceInv'
<1>0. /\ StoreInv /\ HostTypeOK /\ Phase(p) /\ Indexes(p) /\ Reconciling(p) /\ p \in Writers
      /\ writes \in [Writers -> Writes] /\ HomeOf(p) = p /\ orphans[p] \subseteq Calls
  BY FullFacts, CallsAreWriters, ProcsAreNotCalls DEF EvidenceInv, HostTypeOK
<1>1. /\ proc[p] = "starting" /\ Return(p) /\ WriteAt(p, "return")
      /\ writes' = [writes EXCEPT ![p] = NoWrite]
      /\ UNCHANGED <<segs, active, reads, proc, orphans, calls, seen, quiet, acked, pruned>>
  BY DEF Reconciled, Return, hostVars
<1>2. writes'[p] = NoWrite
  BY <1>0, <1>1
<1>3. OnlyStart(p)
  BY <1>0, <1>1, ReturnEffect DEF OnlyStart
<1>4. Lines' = Lines /\ p \notin quiet
  BY <1>0, <1>1, SameLines, Busy DEF WriteAt
<1>5. Phase(p)'
  <2>1. Dormant(p)' <=> Dormant(p)
    BY <1>1 DEF Dormant, Live
  <2> QED BY <1>0, <1>1, <1>2, <2>1, <1>4 DEF Phase
<1>6. Reconciling(p)'
  <2>1. \A d \in Calls : Open(p, d)' <=> Open(p, d)
    BY <1>1, <1>4 DEF Open
  <2>2. \A d \in Calls : Settling(p, d) => Settling(p, d)'
    BY <1>1, <1>4 DEF Settling, WriteAt
  <2>3. WriteAt(p, "none")'
    BY <1>2 DEF WriteAt, NoWrite
  <2> QED BY <1>0, <1>1, <2>1, <2>2, <2>3 DEF Reconciling
<1>7. Covered(p)'
  BY <1>1, <1>4 DEF Covered
<1>8. Written(p)'
  BY <1>2 DEF Written, NoWrite
<1> QED BY <1>3, <1>5, <1>6, <1>7, <1>8, StartFrame

LEMMA UpEvidence ==
    ASSUME FullInv, NEW p \in Procs, Up(p)
    PROVE  EvidenceInv'
<1>0. /\ HostTypeOK /\ Phase(p) /\ Indexes(p) /\ Reconciling(p) /\ Covered(p) /\ Written(p)
      /\ p \in Writers
  BY FullFacts, CallsAreWriters DEF EvidenceInv
<1>1. /\ reads[p] = "none" /\ WriteAt(p, "none") /\ orphans[p] = {}
      /\ proc' = [proc EXCEPT ![p] = "up"]
      /\ UNCHANGED <<segs, active, store, reads, writes, orphans, calls, seen, quiet, acked, pruned>>
  BY DEF Up, ReadAt, evidenceVars
<1>2. proc'[p] = "up"
  BY <1>0, <1>1 DEF HostTypeOK
<1>3. OnlyStart(p)
  <2>1. \A q \in Procs : Grows(store[q], store'[q], {}) /\ store'[q].index = store[q].index
    BY <1>1, StoresAlone
  <2> QED BY <1>0, <1>1, <2>1 DEF OnlyStart, HostTypeOK
<1>4. Lines' = Lines
  BY <1>1, SameLines
<1>5. Phase(p)'
  <2>1. Dormant(p)' <=> Dormant(p)
    BY <1>1 DEF Dormant, Live
  <2> QED BY <1>0, <1>1, <1>2, <2>1 DEF Phase, WriteAt
<1>6. Reconciling(p)'
  BY <1>1, <1>2 DEF Reconciling, WriteAt
<1>7. Covered(p)'
  BY <1>0, <1>1 DEF Covered
<1>8. Written(p)'
  BY <1>0, <1>1, <1>4 DEF Written
<1> QED BY <1>3, <1>5, <1>6, <1>7, <1>8, StartFrame

LEMMA StopEvidence ==
    ASSUME FullInv, NEW p \in Procs, Stop(p)
    PROVE  EvidenceInv'
<1>0. /\ StoreInv /\ HostTypeOK /\ EvidenceInv /\ p \in Writers
      /\ store \in [Procs -> Stores] /\ reads \in [Procs -> ReadPCs]
      /\ Len(segs) \in Nat
  BY FullFacts, CallsAreWriters
<1>1. /\ proc' = [proc EXCEPT ![p] = "down"] /\ store' = [store EXCEPT ![p] = EmptyStore]
      /\ reads' = [reads EXCEPT ![p] = "none"] /\ orphans' = [orphans EXCEPT ![p] = {}]
      /\ seen' = [seen EXCEPT ![p] = Nothing] /\ quiet' = quiet \ {p}
      /\ writes' = [w \in Writers |-> IF HomeOf(w) = p THEN NoWrite ELSE writes[w]]
      /\ calls' = [c \in Calls |-> IF Home[c] = p /\ calls[c] # "idle" THEN "lost" ELSE calls[c]]
      /\ acked' = {t \in acked : Home[t.call] # p}
      /\ UNCHANGED <<segs, active, pruned>>
  BY DEF Stop, Forget
<1>2. /\ proc'[p] = "down" /\ store'[p] = EmptyStore /\ reads'[p] = "none"
      /\ orphans'[p] = {} /\ seen'[p] = Nothing
      /\ \A q \in Procs : q # p => /\ proc'[q] = proc[q] /\ store'[q] = store[q]
                                   /\ reads'[q] = reads[q] /\ orphans'[q] = orphans[q]
                                   /\ seen'[q] = seen[q]
  BY <1>0, <1>1 DEF HostTypeOK
<1>3. Lines' = Lines /\ segs' = segs /\ active' = active
  BY <1>1, SameLines
<1>4. \A w \in Writers : writes'[w] = IF HomeOf(w) = p THEN NoWrite ELSE writes[w]
  BY <1>1
<1>5. \A c \in Calls : c \in Writers /\ HomeOf(c) = Home[c]
  BY CallsAreWriters DEF HomeOf
<1>6. \A c \in Calls : calls'[c] = IF Home[c] = p /\ calls[c] # "idle" THEN "lost" ELSE calls[c]
  BY <1>1
<1>7. ASSUME NEW q \in Procs PROVE Phase(q)' /\ Indexes(q)' /\ Reconciling(q)' /\ Covered(q)'
  <2>0. q \in Writers /\ HomeOf(q) = q
    BY CallsAreWriters, ProcsAreNotCalls
  <2>1. CASE q = p
    <3>1. writes'[p] = NoWrite
      BY <1>4, <2>0, <2>1
    <3>2. WriteAt(p, "none")'
      BY <3>1 DEF WriteAt, NoWrite
    <3>3. Dormant(p)'
      BY <1>6 DEF Dormant, Live
    <3>4. Phase(p)'
      BY <1>2, <3>2, <3>3 DEF Phase
    <3>5. Indexes(p)'
      BY <1>0, <1>2, <1>3 DEF Indexes, Nothing, EmptyStore
    <3>6. Reconciling(p)'
      BY <1>2, <3>2 DEF Reconciling
    <3>7. Covered(p)'
      BY <1>1 DEF Covered
    <3> QED BY <2>1, <3>4, <3>5, <3>6, <3>7
  <2>2. CASE q # p
    <3>1. Phase(q) /\ Indexes(q) /\ Reconciling(q) /\ Covered(q) /\ orphans[q] \subseteq Calls
      BY <1>0 DEF EvidenceInv, HostTypeOK
    <3>2. /\ proc'[q] = proc[q] /\ store'[q] = store[q] /\ reads'[q] = reads[q]
          /\ orphans'[q] = orphans[q] /\ seen'[q] = seen[q] /\ writes'[q] = writes[q]
      BY <1>2, <1>4, <2>0, <2>2
    <3>3. q \in quiet' <=> q \in quiet
      BY <1>1, <2>2
    <3>4. Dormant(q)' <=> Dormant(q)
      BY <1>6, <2>2 DEF Dormant, Live
    <3>5. Phase(q)'
      BY <3>1, <3>2, <3>3, <3>4 DEF Phase, WriteAt
    <3>6. Indexes(q)'
      BY <1>3, <3>1, <3>2 DEF Indexes
    <3>7. \A d \in Calls : (Open(q, d)' <=> Open(q, d)) /\ (Settling(q, d)' <=> Settling(q, d))
      BY <1>3, <3>2 DEF Open, Settling, WriteAt
    <3>8. Reconciling(q)'
      BY <3>1, <3>2, <3>7 DEF Reconciling, WriteAt
    <3>9. Covered(q)'
      BY <1>3, <3>1, <3>2, <3>3 DEF Covered
    <3> QED BY <3>5, <3>6, <3>8, <3>9
  <2> QED BY <2>1, <2>2
<1>8. ASSUME NEW c \in Calls PROVE OwnTrace(c)' /\ Shown(c)'
  <2>1. OwnTrace(c) /\ Shown(c) /\ Home[c] \in Procs
    BY <1>0, CallsAreWriters DEF EvidenceInv
  <2>2. CASE Home[c] = p
    <3>1. writes'[c] = NoWrite /\ calls'[c] \in {"idle", "lost"} /\ (calls'[c] = "idle" => calls[c] = "idle")
      BY <1>4, <1>5, <1>6, <2>2
    <3>2. OwnTrace(c)'
      BY <3>1 DEF OwnTrace, WriteAt, NoWrite
    <3>3. ~Live(c)' /\ ~CallAt(c, "start")' /\ calls'[c] # "start"
      BY <3>1 DEF Live, CallAt
    <3>4. CallAt(c, "idle")' => CallAt(c, "idle")
      BY <3>1 DEF CallAt
    <3>5. Shown(c)'
      BY <1>3, <2>1, <3>1, <3>3, <3>4 DEF Shown, CallAt
    <3> QED BY <3>2, <3>5
  <2>3. CASE Home[c] # p
    <3>1. writes'[c] = writes[c] /\ calls'[c] = calls[c] /\ (c \in pruned => c \in pruned')
      BY <1>1, <1>4, <1>5, <1>6, <2>3
    <3>2. OwnTrace(c)'
      BY <2>1, <3>1 DEF OwnTrace, WriteAt, CallAt
    <3>3. store'[Home[c]] = store[Home[c]]
      BY <1>2, <2>1, <2>3
    <3>4. Grows(store[Home[c]], store'[Home[c]], {})
      BY <3>3, GrowsNot
    <3>5. Shown(c)'
      BY <1>3, <2>1, <3>1, <3>4, ShownKept
    <3> QED BY <3>2, <3>5
  <2> QED BY <2>2, <2>3
<1>9. ASSUME NEW w \in Writers PROVE Written(w)'
  BY <1>0, <1>3, <1>4 DEF EvidenceInv, Written, NoWrite
<1>10. ASSUME NEW t \in acked' PROVE Returned(t)'
  <2>1. t \in acked /\ Returned(t) /\ t.call \in Calls /\ Home[t.call] # p
    BY <1>0, <1>1 DEF EvidenceInv, HostTypeOK, Traces
  <2>2. Home[t.call] \in Procs
    BY <2>1, CallsAreWriters
  <2> QED BY <1>2, <1>6, <2>1, <2>2 DEF Returned, Live
<1> QED BY <1>7, <1>8, <1>9, <1>10 DEF EvidenceInv

-----------------------------------------------------------------------------
LEMMA InitEvidence == Init => EvidenceInv
<1> SUFFICES ASSUME Init PROVE EvidenceInv
  OBVIOUS
<1>1. /\ segs = <<>> /\ active = <<>> /\ reads = [p \in Procs |-> "none"]
      /\ store = [p \in Procs |-> EmptyStore] /\ writes = [w \in Writers |-> NoWrite]
      /\ proc = [p \in Procs |-> "down"] /\ orphans = [p \in Procs |-> {}]
      /\ calls = [c \in Calls |-> "idle"] /\ seen = [p \in Procs |-> Nothing]
      /\ quiet = {} /\ acked = {}
  BY DEF Init, EvidenceInit
<1>2. Lines = {} /\ Len(segs) = 0
  <2>1. Range(active) = {} /\ DOMAIN segs = {}
    BY <1>1 DEF Range
  <2> QED BY <1>1, <2>1 DEF Lines
<1>3. ASSUME NEW p \in Procs PROVE Phase(p) /\ Indexes(p) /\ Reconciling(p) /\ Covered(p)
  <2>1. WriteAt(p, "none")
    BY <1>1, CallsAreWriters DEF WriteAt, NoWrite
  <2>2. Dormant(p)
    BY <1>1 DEF Dormant, Live
  <2>3. Phase(p)
    BY <1>1, <2>1, <2>2 DEF Phase
  <2>4. Indexes(p)
    BY <1>1, <1>2 DEF Indexes, Nothing, EmptyStore
  <2> QED BY <1>1, <2>1, <2>3, <2>4 DEF Reconciling, Covered
<1>4. ASSUME NEW c \in Calls PROVE OwnTrace(c) /\ Shown(c)
  <2>1. writes[c] = NoWrite
    BY <1>1, CallsAreWriters
  <2> QED BY <1>1, <1>2, <2>1 DEF OwnTrace, Shown, Live, WriteAt, CallAt, NoWrite
<1>5. \A w \in Writers : Written(w)
  BY <1>1 DEF Written, NoWrite
<1> QED BY <1>1, <1>3, <1>4, <1>5 DEF EvidenceInv

LEMMA StepEvidence == FullInv /\ Next => EvidenceInv'
<1> SUFFICES ASSUME FullInv, Next PROVE EvidenceInv'
  OBVIOUS
<1>1. CASE Advance
  <2>1. ASSUME NEW w \in Writers, WriteStep(w), UNCHANGED hostVars PROVE EvidenceInv'
    BY <2>1, WriteEvidence, RotateEvidence, UnlockEvidence DEF WriteStep
  <2> QED BY <1>1, <2>1, SegmentsEvidence DEF Advance
<1>2. ASSUME NEW p \in Procs, StartStep(p) \/ Crash(p) PROVE EvidenceInv'
  BY <1>2, FindOrphansEvidence, ReconcileEvidence, ReconciledEvidence, UpEvidence, StopEvidence
     DEF StartStep, StartFails, Crash
<1>3. ASSUME NEW p \in Procs, Start(p) \/ Ask(p) \/ Answer(p) \/ PruneTask(p) PROVE EvidenceInv'
  BY <1>3, StartEvidence, AskEvidence, AnswerEvidence, PruneTaskEvidence
<1>4. ASSUME NEW c \in Calls, Execute(c) \/ CallStep(c) \/ UnrecordedFault(c) PROVE EvidenceInv'
  BY <1>4, ExecuteEvidence, RecordedEvidence, UnrecordedEvidence, DecideEvidence DEF CallStep
<1> QED BY <1>1, <1>2, <1>3, <1>4 DEF Next

LEMMA StutterEvidence == FullInv /\ UNCHANGED vars => EvidenceInv'
<1> SUFFICES ASSUME FullInv, UNCHANGED vars PROVE EvidenceInv'
  OBVIOUS
<1>1. UNCHANGED <<segs, active, store, reads, writes, proc, orphans, calls, seen, quiet, acked, pruned>>
  BY DEF vars, evidenceVars, hostVars
<1>2. ASSUME NEW p \in Procs PROVE EvidenceInv'
  <2>1. OnlyReads(p)
    BY <1>1 DEF OnlyReads
  <2>2. Grows(store[p], store'[p], {}) /\ Lines' = Lines
    BY <1>1, GrowsNot, SameLines
  <2>3. Phase(p) /\ Indexes(p) /\ Reconciling(p) /\ Covered(p)
    BY FullFacts DEF EvidenceInv
  <2>4. Phase(p)'
    BY <1>1, <2>3 DEF Phase, Dormant, Live, WriteAt
  <2>5. Indexes(p)'
    BY <1>1, <2>2, <2>3 DEF Indexes
  <2>6. Reconciling(p)'
    BY <1>1, <2>2, <2>3 DEF Reconciling, Open, Settling, WriteAt
  <2>7. Covered(p)'
    BY <1>1, <2>3 DEF Covered
  <2> QED BY <2>1, <2>2, <2>4, <2>5, <2>6, <2>7, ReadEvidence
<1>3. CASE Procs = {}
  <2>1. Calls = {} /\ Writers = {} /\ Traces = {}
    BY <1>3, CallsAreWriters DEF Writers, Traces
  <2>2. acked \subseteq Traces
    BY FullFacts DEF HostTypeOK
  <2> QED BY <1>1, <1>3, <2>1, <2>2 DEF EvidenceInv
<1> QED BY <1>2, <1>3

\* The evidence invariant holds in every reachable state.
THEOREM HostEvidence == Spec => []FullInv
<1>1. FullInv /\ [Next]_vars => FullInv'
  BY StepInv, StutterInv, StepEvidence, StutterEvidence DEF FullInv
<1>2. Init => FullInv
  BY InitInv, InitEvidence DEF FullInv
<1> QED BY <1>1, <1>2, PTL DEF Spec

-----------------------------------------------------------------------------
(* What follows. *)

\* A running process shows both traces of a call it has served in the bucket of
\* the task, unless the task was pruned (evidence-store.ts applyTraceToIndexes):
\* an index misses no own start, and a finish that reaches it comes after.
THEOREM ServedCallsAreShown == Spec => []OwnCallsShown
<1>1. FullInv => OwnCallsShown
  <2> SUFFICES ASSUME FullInv, NEW c \in Calls \ pruned, {Started(c), Finished(c)} \subseteq acked
               PROVE  {Started(c), Finished(c)} \subseteq store[Home[c]].bucket
    BY DEF OwnCallsShown
  <2>1. Returned(Started(c)) /\ Returned(Finished(c)) /\ Shown(c) /\ Indexes(Home[c])
    BY FullFacts, CallsAreWriters DEF EvidenceInv
  <2>2. Live(c) /\ {Started(c), Finished(c)} \subseteq store[Home[c]].index
    BY <2>1, TracesDiffer DEF Returned
  <2>3. Started(c) \in Lines
    BY <2>1, <2>2 DEF Indexes
  <2>4. InBucket(store[Home[c]], c)
    BY <2>1, <2>2 DEF Shown
  <2> QED BY <2>2, <2>3, <2>4 DEF InBucket
<1> QED BY <1>1, HostEvidence, PTL

\* The read of a process that has appended nothing misses no trace that was on disk
\* when it began, unless a rotation ran into it (evidence-store.ts
\* hydrateIndexesIfNeeded): what its segment count and its cursor skip it has read.
THEOREM QuietReadsCatchUp == Spec => ReadsCatchUp
<1>1. FullInv => [\A p \in quiet :
                    (FindOrphans(p) \/ (Answer(p) /\ Delta(p))) /\ ~RotatedMeanwhile(p) =>
                       seen[p].lines \subseteq store'[p].index]_vars
  <2> SUFFICES ASSUME FullInv, NEW p \in quiet,
                      FindOrphans(p) \/ (Answer(p) /\ Delta(p)), ~RotatedMeanwhile(p)
               PROVE  seen[p].lines \subseteq store'[p].index
    OBVIOUS
  <2>1. p \in Procs /\ Indexes(p)
    BY FullFacts DEF HostTypeOK, EvidenceInv
  <2>2. CASE NoTraces(p)
    BY <2>1, <2>2 DEF NoTraces, Indexes
  <2>3. CASE Whole(p) \/ Delta(p)
    BY <2>1, <2>3, CatchesUp
  <2> QED BY <2>2, <2>3 DEF FindOrphans
<1> QED BY <1>1, HostEvidence, PTL DEF ReadsCatchUp

\* Up means reconciled: every start that was on disk when the start-up began has a
\* finish, unless a rotation ran into its read (tool-host.ts reconcileOrphanedStarts).
THEOREM UpMeansReconciled == Spec => ReconcileSettles
<1>1. FullInv => [\A p \in Procs, c \in Calls :
                    Up(p) /\ Started(c) \in seen[p].lines => Finished(c) \in Lines']_vars
  <2> SUFFICES ASSUME FullInv, NEW p \in Procs, NEW c \in Calls, Up(p), Started(c) \in seen[p].lines
               PROVE  Finished(c) \in Lines'
    OBVIOUS
  <2>1. Reconciling(p)
    BY FullFacts DEF EvidenceInv
  <2>2. Settling(p, c)
    BY <2>1 DEF Reconciling, Up, ReadAt
  <2>3. Finished(c) \in Lines
    BY <2>2 DEF Settling, Up, WriteAt
  <2>4. Lines' = Lines
    BY SameLines DEF Up, evidenceVars
  <2> QED BY <2>3, <2>4
<1> QED BY <1>1, HostEvidence, PTL DEF ReconcileSettles

\* A start-up makes up no finish for a call that had one when it began, unless a
\* rotation ran into its read (tool-host.ts reconcileOrphanedStarts).
THEOREM NoFinishedCallReconciled == Spec => []OnlyOpenCallsReconciled
<1>1. FullInv => OnlyOpenCallsReconciled
  <2> SUFFICES ASSUME FullInv, NEW p \in Procs, ~WriteAt(p, "none")
               PROVE  Finished(writes[p].trace.call) \notin seen[p].lines
    BY DEF OnlyOpenCallsReconciled
  <2>1. Reconciling(p)
    BY FullFacts DEF EvidenceInv
  <2>2. PICK c \in Calls : writes[p].trace = Finished(c) /\ Open(p, c)
    BY <2>1 DEF Reconciling
  <2> QED BY <2>2, TracesDiffer DEF Open
<1> QED BY <1>1, HostEvidence, PTL
=============================================================================
