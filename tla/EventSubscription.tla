--------------------------- MODULE EventSubscription ---------------------------
(***************************************************************************)
(* EventStore.subscribe: a watcher on the log's directory sets a debounce  *)
(* timer, whose drain loop reads what the file has gained since the last   *)
(* read, splits it into lines and awaits the callback for each event.      *)
(*                                                                         *)
(* The file is measured in half lines, since a write may be seen in part:  *)
(* event e is the half lines 2e-1 and 2e.  The log is never cut.  Events   *)
(* that the filter leaves out are left out here.  A read that throws ends  *)
(* the process, as nothing handles the rejection.                          *)
(***************************************************************************)
EXTENDS Integers, Sequences, Functions

CONSTANTS MaxPasses,    \* SUBSCRIPTION_MAX_DRAIN_PASSES
          MaxSize       \* bound: half lines in the log

ASSUME SubscriptionAssumption == MaxPasses \in Nat \ {0} /\ MaxSize \in Nat

VARIABLES
    size,       \* the log's half lines
    watch,      \* the log has changed and the watcher has yet to say so
    timer,      \* drainTimer is set
    again,      \* shouldDrainAgain
    drain,      \* the drain loop: "rest", or what it does next
    passes,     \* its passes so far
    measured,   \* the initial offset is known
    offset,     \* half lines read
    partial,    \* trailingPartialLine is the first half of an event
    text,       \* the last read has found something
    chunk,      \* the events of the last read that are still to be told
    disposed,
    start,      \* history: the initial offset
    told,       \* history: the events the callback was called with
    stopped     \* history: the loop has stopped though asked to drain again, and no timer is set

file == <<size, watch>>

loop == <<drain, passes, measured, offset, partial, text, chunk>>

subVars == <<file, timer, again, loop, disposed, start, told, stopped>>

Events == 1 .. MaxSize

\* Events of which no part is missing after the first n half lines.
Complete(e, n) == 2 * e <= n

\* The events from a to b, in the order of the log.
Through(a, b) == [i \in 1 .. b + 1 - a |-> a + i - 1]

-----------------------------------------------------------------------------
\* A process appends to the log, of which a reader may see a part.
Write ==
    /\ size < MaxSize
    /\ size' = size + 1
    /\ watch' = ~disposed
    /\ UNCHANGED <<timer, again, loop, disposed, start, told, stopped>>

\* Mutation of Notify: nothing is noted while the timer is set.
NotifyUnlessTimed ==
    /\ watch
    /\ watch' = FALSE
    /\ timer' = TRUE
    /\ again' = (again \/ ~timer)
    /\ UNCHANGED <<size, loop, disposed, start, told, stopped>>

\* scheduleDrain
Notify ==
    /\ watch
    /\ watch' = FALSE
    /\ timer' = TRUE /\ again' = TRUE
    /\ UNCHANGED <<size, loop, disposed, start, told, stopped>>

\* The size that was asked for when the subscription was made is answered.
Measure ==
    /\ ~measured
    /\ measured' = TRUE
    /\ offset' = size /\ start' = size
    /\ UNCHANGED <<file, timer, again, drain, passes, partial, text, chunk, disposed, told, stopped>>

\* The timer fires; while a drain is under way that has no effect.
Fire ==
    /\ timer
    /\ timer' = FALSE
    /\ drain' = IF drain = "rest" THEN "begin" ELSE drain
    /\ UNCHANGED <<file, again, passes, measured, offset, partial, text, chunk,
                   disposed, start, told, stopped>>

Begin ==
    /\ drain = "begin" /\ measured
    /\ drain' = "read"
    /\ again' = FALSE
    /\ passes' = 0
    /\ stopped' = FALSE
    /\ UNCHANGED <<file, timer, measured, offset, partial, text, chunk, disposed, start, told>>

\* Mutation of Lines: what the last read left of a line is not put before the text.
LinesOfText(n) ==
    LET first == IF offset % 2 = 1 THEN (offset + 3) \div 2 ELSE (offset + 2) \div 2
    IN  Through(first, n \div 2)

\* The events in the lines that end between the offset and n: a line whose first half
\* was neither read now nor kept from the last read is no JSON and is skipped.
Lines(n) ==
    LET first == IF offset % 2 = 1 /\ ~partial THEN (offset + 3) \div 2 ELSE (offset + 2) \div 2
    IN  Through(first, n \div 2)

\* readTailFromOffset, and the text is split.
ReadTail ==
    /\ drain = "read"
    /\ drain' = "process"
    /\ offset' = size
    /\ text' = (size > offset)
    /\ chunk' = Lines(size)
    /\ partial' = IF size > offset THEN size % 2 = 1 ELSE partial
    /\ UNCHANGED <<file, timer, again, passes, measured, disposed, start, told, stopped>>

\* The callback is awaited; what it throws is swallowed.
Tell ==
    /\ drain = "process" /\ chunk # <<>>
    /\ told' = Append(told, Head(chunk))
    /\ chunk' = Tail(chunk)
    /\ UNCHANGED <<file, timer, again, drain, passes, measured, offset, partial, text,
                   disposed, start, stopped>>

\* Mutation of AskedForMore: the passes are not counted.
AskedForEver == text /\ ~disposed /\ again

AskedForMore == text /\ ~disposed /\ again /\ passes + 1 < MaxPasses

PassAgain ==
    /\ drain = "process" /\ chunk = <<>> /\ AskedForMore
    /\ drain' = "read"
    /\ again' = FALSE
    /\ passes' = passes + 1
    /\ UNCHANGED <<file, timer, measured, offset, partial, text, chunk, disposed, start, told,
                   stopped>>

\* The loop ends: nothing was read, nobody asked for more, or too many passes.
Rest ==
    /\ drain = "process" /\ chunk = <<>> /\ ~AskedForMore
    /\ drain' = "rest"
    /\ stopped' = (again /\ ~timer)
    /\ UNCHANGED <<file, timer, again, passes, measured, offset, partial, text, chunk,
                   disposed, start, told>>

\* What was read is still told.
Dispose ==
    /\ ~disposed
    /\ disposed' = TRUE
    /\ timer' = FALSE /\ watch' = FALSE
    /\ UNCHANGED <<size, again, loop, start, told, stopped>>

-----------------------------------------------------------------------------
SubInit ==
    /\ size \in 0 .. MaxSize /\ watch = FALSE
    /\ timer = FALSE /\ again = FALSE
    /\ drain = "rest" /\ passes = 0
    /\ measured = FALSE /\ offset = 0 /\ partial = FALSE /\ text = FALSE /\ chunk = <<>>
    /\ disposed = FALSE
    /\ start = 0 /\ told = <<>> /\ stopped = FALSE

\* A step of the loop that is not the callback's.
LoopStep == Measure \/ Fire \/ Begin \/ ReadTail \/ PassAgain \/ Rest

SubStep == Write \/ Notify \/ LoopStep \/ Dispose

SubTypeOK ==
    /\ size \in 0 .. MaxSize /\ watch \in BOOLEAN
    /\ timer \in BOOLEAN /\ again \in BOOLEAN
    /\ drain \in {"rest", "begin", "read", "process"} /\ passes \in 0 .. MaxPasses - 1
    /\ measured \in BOOLEAN /\ partial \in BOOLEAN /\ text \in BOOLEAN
    /\ offset \in 0 .. size /\ start \in 0 .. offset
    /\ chunk \in Seq(Events) /\ told \in Seq(Events)
    /\ disposed \in BOOLEAN /\ stopped \in BOOLEAN

-----------------------------------------------------------------------------
\* The first event that begins after the initial offset.
FirstNew == (start + 3) \div 2

\* The callback is called with every event that was written after the initial offset,
\* once and in the order of the log, up to the end of the last read, however the
\* writes, the timer and the reads fall together (EventStore.subscribe).
ToldOnceAndInOrder ==
    measured => told \o chunk = Through(FirstNew, offset \div 2)

\* Every event that begins after the initial offset is told, unless the subscription is
\* disposed of, or the loop has stopped though asked to go on (after its last pass or an
\* empty read, with the timer spent) and the file never changes again.
EveryEventIsTold ==
    \A e \in Events :
        (measured /\ e >= FirstNew /\ Complete(e, size))
            ~> (e \in Range(told) \/ disposed \/ []stopped)
=============================================================================
