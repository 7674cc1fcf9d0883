---------------------------- MODULE EvidenceStore -----------------------------
(***************************************************************************)
(* The kernel's evidence store: the trace files that all processes append  *)
(* to under one lock file, their rotation, and the index each process      *)
(* keeps of what it has read of them.                                      *)
(*                                                                         *)
(* A trace is told apart from others as the index does it, by its receipt  *)
(* and its kind; which of two finishes of one receipt an index keeps is    *)
(* left out, as are progress traces and the blobs of persistData.  The     *)
(* active file is measured in lines.                                       *)
(*                                                                         *)
(* A store's first read indexes everything.  One read at a time is under   *)
(* way in a process, and any number of appends.  The last step of a read   *)
(* or an append is the caller's to take, together with what it does next.  *)
(***************************************************************************)
EXTENDS Naturals, Sequences, Functions

CONSTANTS Procs,        \* the processes, each with a store of its own
          Calls,        \* receipts: tool calls
          Home,         \* the process of each call
          NoOne,        \* nobody holds the lock
          Orphan,       \* a process that died holds it
          Threshold     \* compactionThresholdBytes, in lines

ASSUME EvidenceAssumption ==
    /\ Procs \cap Calls = {} /\ NoOne \notin Procs \cup Calls
    /\ Orphan \notin Procs \cup Calls \cup {NoOne}
    /\ Home \in [Calls -> Procs]
    /\ Threshold \in Nat \ {0}

VARIABLES
    segs,       \* the numbered segment files
    active,     \* the active trace file
    lock,       \* who created the lock file
    store,      \* each process's indexes, cursor and segment count
    reads,      \* each process's read: "none", or what it does next
    writes      \* the appends under way, of calls and of start-ups

evidenceVars == <<segs, active, lock, store, reads, writes>>

Started(c) == [call |-> c, kind |-> "started"]

Finished(c) == [call |-> c, kind |-> "finished"]

Traces == [call : Calls, kind : {"started", "finished"}]

\* Who appends: a call its own traces, a starting process the finishes it makes up.
Writers == Calls \cup Procs

HomeOf(w) == IF w \in Calls THEN Home[w] ELSE w

\* The traces that are on disk.
Lines == (UNION {Range(segs[i]) : i \in DOMAIN segs}) \cup Range(active)

\* The traces of the segments after the first n.
SegmentLines(n) == UNION {Range(segs[i]) : i \in (n + 1)..Len(segs)}

EmptyStore == [index |-> {}, known |-> {}, bucket |-> {}, cursor |-> 0, count |-> 0]

NoTrace == [call |-> NoOne, kind |-> "none"]

NoWrite == [pc |-> "none", trace |-> NoTrace, rotated |-> 0]

\* applyTraceToIndexes for lines in which a call's start precedes its finish.
\* A trace that is indexed already is skipped, and one of a receipt that is not
\* known reaches no task's bucket.
Indexed(s, lines) ==
    LET fresh == lines \ s.index
        known == s.known \cup {t.call : t \in {u \in fresh : u.kind = "started"}}
    IN  [s EXCEPT !.index = @ \cup fresh, !.known = known,
                  !.bucket = @ \cup {t \in fresh : t.call \in known}]

-----------------------------------------------------------------------------
(* appendTrace *)

WriteAt(w, pc) == writes[w].pc = pc

AppendTrace(w, t) ==
    /\ WriteAt(w, "none")
    /\ writes' = [writes EXCEPT ![w] = [pc |-> "lock", trace |-> t, rotated |-> 0]]

\* Mutation of Write: an existing lock file is opened like a new one.
WriteTaken(w) ==
    /\ WriteAt(w, "lock")
    /\ lock' = w
    /\ active' = Append(active, writes[w].trace)
    /\ writes' = [writes EXCEPT ![w].pc = IF Len(active') < Threshold THEN "unlock" ELSE "rotate",
                                ![w].rotated = IF Len(active') < Threshold THEN 0 ELSE Len(segs) + 1]
    /\ UNCHANGED <<segs, store, reads>>

\* The lock file is created and the line is written; a file that has reached the
\* threshold is to become the segment after the last one there is.
Write(w) ==
    /\ WriteAt(w, "lock") /\ lock = NoOne
    /\ lock' = w
    /\ active' = Append(active, writes[w].trace)
    /\ writes' = [writes EXCEPT ![w].pc = IF Len(active') < Threshold THEN "unlock" ELSE "rotate",
                                ![w].rotated = IF Len(active') < Threshold THEN 0 ELSE Len(segs) + 1]
    /\ UNCHANGED <<segs, store, reads>>

\* rename replaces a segment that has the name.
Rotate(w) ==
    /\ WriteAt(w, "rotate")
    /\ segs' = [i \in DOMAIN segs \cup {writes[w].rotated} |->
                  IF i = writes[w].rotated THEN active ELSE segs[i]]
    /\ active' = <<>>
    /\ writes' = [writes EXCEPT ![w].pc = "unlock"]
    /\ UNCHANGED <<lock, store, reads>>

\* Mutation of Unlock: the trace of an append that rotated is left to the next read.
UnlockUnapplied(w) ==
    LET s == store[HomeOf(w)] IN
    /\ WriteAt(w, "unlock")
    /\ lock' = NoOne
    /\ store' = [store EXCEPT ![HomeOf(w)] =
                   IF writes[w].rotated = 0 THEN Indexed(s, {writes[w].trace})
                   ELSE [s EXCEPT !.count = @ + 1, !.cursor = 0]]
    /\ writes' = [writes EXCEPT ![w].pc = "return"]
    /\ UNCHANGED <<segs, active, reads>>

\* The lock file goes and the own trace goes straight into the index.  After a
\* rotation one more segment counts as read, whichever segments other processes
\* have made meanwhile.
Unlock(w) ==
    LET s == Indexed(store[HomeOf(w)], {writes[w].trace}) IN
    /\ WriteAt(w, "unlock")
    /\ lock' = NoOne
    /\ store' = [store EXCEPT ![HomeOf(w)] =
                   IF writes[w].rotated = 0 THEN s ELSE [s EXCEPT !.count = @ + 1, !.cursor = 0]]
    /\ writes' = [writes EXCEPT ![w].pc = "return"]
    /\ UNCHANGED <<segs, active, reads>>

\* A step of an append.
WriteStep(w) == Write(w) \/ Rotate(w) \/ Unlock(w)

\* The append returns.  If it has not rotated, the cursor moves to the end of the
\* file, past lines of other processes too.
Return(w) ==
    /\ WriteAt(w, "return")
    /\ store' = IF writes[w].rotated = 0
                THEN [store EXCEPT ![HomeOf(w)].cursor = Len(active)]
                ELSE store
    /\ writes' = [writes EXCEPT ![w] = NoWrite]
    /\ UNCHANGED <<segs, active, lock, reads>>

\* The append throws: the last of lockMaxRetries attempts finds the lock taken.
GiveUp(w) ==
    /\ WriteAt(w, "lock") /\ lock # NoOne
    /\ writes' = [writes EXCEPT ![w] = NoWrite]
    /\ UNCHANGED <<segs, active, lock, store, reads>>

\* The append throws: nothing is written and the lock file is removed again.  A failure once
\* the line is written, of the rotation or of the release, is not modelled.
WriteFails(w) ==
    /\ WriteAt(w, "lock") /\ lock = NoOne
    /\ writes' = [writes EXCEPT ![w] = NoWrite]
    /\ UNCHANGED <<segs, active, lock, store, reads>>

-----------------------------------------------------------------------------
(* hydrateIndexesIfNeeded *)

ReadAt(p, pc) == reads[p] = pc

ReadGoto(p, pc) == reads' = [reads EXCEPT ![p] = pc]

FirstRead(p) == ReadAt(p, "none") /\ ReadGoto(p, "first")

Read(p) == ReadAt(p, "none") /\ ReadGoto(p, "list")

\* Mutation of Segments: the cursor is left where it was.
SegmentsKeepCursor(p) ==
    /\ ReadAt(p, "first") \/ ReadAt(p, "list")
    /\ store' = IF Len(segs) > store[p].count
                THEN [store EXCEPT ![p] = [Indexed(@, SegmentLines(@.count)) EXCEPT !.count = Len(segs)]]
                ELSE store
    /\ ReadGoto(p, IF ReadAt(p, "first") THEN "whole" ELSE "delta")
    /\ UNCHANGED <<segs, active, lock, writes>>

\* The segments that do not count as read; after them the active file is a new one.
Segments(p) ==
    /\ ReadAt(p, "first") \/ ReadAt(p, "list")
    /\ store' = IF Len(segs) > store[p].count
                THEN [store EXCEPT ![p] = [Indexed(@, SegmentLines(@.count))
                                             EXCEPT !.count = Len(segs), !.cursor = 0]]
                ELSE store
    /\ ReadGoto(p, IF ReadAt(p, "first") THEN "whole" ELSE "delta")
    /\ UNCHANGED <<segs, active, lock, writes>>

\* The first read returns at once when there is no directory of traces.
NoTraces(p) ==
    /\ ReadAt(p, "first") /\ Lines = {}
    /\ ReadGoto(p, "none")
    /\ UNCHANGED <<segs, active, lock, store, writes>>

\* The first read returns with all of the active file.
Whole(p) ==
    /\ ReadAt(p, "whole")
    /\ store' = [store EXCEPT ![p] =
                   [Indexed(@, Range(active)) EXCEPT !.cursor = Len(active)]]
    /\ ReadGoto(p, "none")
    /\ UNCHANGED <<segs, active, lock, writes>>

\* What lies behind the cursor is indexed, if the file is longer.
CaughtUp(s) ==
    IF Len(active) > s.cursor
    THEN [Indexed(s, Range(SubSeq(active, s.cursor + 1, Len(active)))) EXCEPT !.cursor = Len(active)]
    ELSE s

\* A later read returns.
Delta(p) ==
    /\ ReadAt(p, "delta")
    /\ store' = [store EXCEPT ![p] = CaughtUp(@)]
    /\ ReadGoto(p, "none")
    /\ UNCHANGED <<segs, active, lock, writes>>

\* The read throws: a file cannot be read; or, between the measuring and the
\* reading of the active file, an own append has moved the cursor or a rotation has
\* replaced the file, and what is read is no line.
ReadFails(p) ==
    /\ ~ReadAt(p, "none")
    /\ ReadGoto(p, "none")
    /\ UNCHANGED <<segs, active, lock, store, writes>>

-----------------------------------------------------------------------------
\* pruneTask: its read returns and the task's receipts are dropped.
Prune(p) ==
    /\ ReadAt(p, "delta")
    /\ store' = [store EXCEPT ![p] = [CaughtUp(@) EXCEPT !.known = {}, !.bucket = {}]]
    /\ ReadGoto(p, "none")
    /\ UNCHANGED <<segs, active, lock, writes>>

\* The process dies: what it had in memory and under way is gone, a lock file it
\* had created is not.
Forget(p) ==
    /\ lock' = IF \E w \in Writers : lock = w /\ HomeOf(w) = p THEN Orphan ELSE lock
    /\ store' = [store EXCEPT ![p] = EmptyStore]
    /\ reads' = [reads EXCEPT ![p] = "none"]
    /\ writes' = [w \in Writers |-> IF HomeOf(w) = p THEN NoWrite ELSE writes[w]]
    /\ UNCHANGED <<segs, active>>

EvidenceInit ==
    /\ segs = <<>> /\ active = <<>>
    /\ lock = NoOne
    /\ store = [p \in Procs |-> EmptyStore]
    /\ reads = [p \in Procs |-> "none"]
    /\ writes = [w \in Writers |-> NoWrite]

\* The store's variables have their types.
EvidenceTypeOK ==
    /\ segs \in Seq(Seq(Traces)) /\ active \in Seq(Traces)
    /\ lock \in Writers \cup {NoOne, Orphan}
    /\ store \in [Procs -> [index : SUBSET Traces, known : SUBSET Calls,
                           bucket : SUBSET Traces, cursor : Nat, count : Nat]]
    /\ reads \in [Procs -> {"none", "first", "list", "whole", "delta"}]
    /\ writes \in [Writers -> [pc : {"none", "lock", "rotate", "unlock", "return"},
                              trace : Traces \cup {NoTrace}, rotated : Nat]]
=============================================================================
