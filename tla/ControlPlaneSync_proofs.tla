----------------------- MODULE ControlPlaneSync_proofs -------------------------
(***************************************************************************)
(* Proofs, for every number of events, passes and failed requests, that a  *)
(* subscriber is told of each event once and in order, and that what it is *)
(* told of is forwarded.                                                   *)
(*                                                                         *)
(* The half of a line that is kept between reads is there exactly when the *)
(* offset lies inside a line that was begun after the start (LoopInv), so  *)
(* that the lines of the next read go on where the last ones ended.        *)
(***************************************************************************)
EXTENDS ControlPlaneSync, SequenceTheorems, TLAPS

LoopInv ==
    /\ drain \in {"read", "process"} => measured
    /\ drain # "process" => chunk = <<>>
    /\ ~measured => offset = 0 /\ ~partial /\ told = <<>>
    /\ measured => partial = (offset % 2 = 1 /\ offset > start)

SubInv == SubTypeOK /\ LoopInv /\ ToldOnceAndInOrder

SyncTypeOK ==
    /\ cycle \in {"none", "policies", "heartbeat", "push"}
    /\ pending \in Seq(Events) /\ batch \in Seq(Events) /\ accepted \in Seq(Events)
    /\ (batch # <<>>) = (cycle = "push")
    /\ doubled \in BOOLEAN /\ troubles \in 0 .. MaxTroubles

SyncInv == SyncTypeOK /\ ForwardedOnce /\ ForwardedInOrder

Inv == SubInv /\ SyncInv

-----------------------------------------------------------------------------
(* Runs of events *)

LEMMA Halves ==
    ASSUME NEW n \in Nat
    PROVE  /\ n \div 2 \in Nat /\ n % 2 \in {0, 1}
           /\ n % 2 = 0 <=> n = 2 * (n \div 2)
           /\ n % 2 = 1 <=> n = 2 * (n \div 2) + 1
<1> DEFINE k == n \div 2
<1>1. k \in Nat /\ 2 * k <= n /\ n <= 2 * k + 1
  OBVIOUS
<1> HIDE DEF k
<1>2. n = 2 * k \/ n = 2 * k + 1
  BY <1>1
<1>3. n = 2 * k => n % 2 = 0
  BY <1>1
<1>4. n = 2 * k + 1 => n % 2 = 1
  BY <1>1
<1>5. QED BY <1>1, <1>2, <1>3, <1>4 DEF k

LEMMA ThroughType ==
    ASSUME NEW a \in Nat \ {0}, NEW b \in Nat, b <= MaxSize
    PROVE  /\ Through(a, b) \in Seq(Events)
           /\ Len(Through(a, b)) = IF a <= b THEN b + 1 - a ELSE 0
           /\ \A i \in 1 .. b + 1 - a : Through(a, b)[i] = a + i - 1
<1>1. MaxSize \in Nat
  BY SubscriptionAssumption
<1>2. \A i \in 1 .. b + 1 - a : a + i - 1 \in Events
  BY <1>1 DEF Events
<1>3. CASE a <= b
  <2> DEFINE n == b + 1 - a
  <2>1. n \in Nat
    BY <1>3
  <2>2. Through(a, b) = [i \in 1 .. n |-> a + i - 1]
    BY DEF Through
  <2> HIDE DEF n
  <2>3. \A i \in 1 .. n : a + i - 1 \in Events
    BY <1>2 DEF n
  <2>4. Through(a, b) \in [1 .. n -> Events]
    BY <2>2, <2>3
  <2>5. Through(a, b) \in Seq(Events) /\ Len(Through(a, b)) = n
    BY <2>1, <2>4
  <2>6. QED BY <1>3, <2>2, <2>5 DEF n
<1>4. CASE ~(a <= b)
  <2>1. 1 .. b + 1 - a = {}
    BY <1>4
  <2>2. Through(a, b) = <<>>
    BY <2>1 DEF Through
  <2>3. QED BY <1>4, <2>1, <2>2
<1>5. QED BY <1>3, <1>4

\* Two runs of which one goes on where the other ends make one.
LEMMA ThroughConcat ==
    ASSUME NEW a \in Nat \ {0}, NEW m \in Nat \ {0}, NEW b \in Nat,
           a <= m, m <= b + 1, b <= MaxSize
    PROVE  Through(a, m - 1) \o Through(m, b) = Through(a, b)
<1> DEFINE s == Through(a, m - 1)
           t == Through(m, b)
           u == Through(a, b)
<1>1. MaxSize \in Nat /\ m - 1 \in Nat /\ m - 1 <= MaxSize
  BY SubscriptionAssumption
<1>2. s \in Seq(Events) /\ Len(s) = m - a /\ \A i \in 1 .. m - a : s[i] = a + i - 1
  <2>1. s \in Seq(Events) /\ Len(s) = (IF a <= m - 1 THEN m - 1 + 1 - a ELSE 0)
        /\ \A i \in 1 .. m - 1 + 1 - a : s[i] = a + i - 1
    BY <1>1, ThroughType
  <2>2. m - 1 + 1 - a = m - a
    BY <1>1
  <2>3. QED BY <2>1, <2>2
<1>3. t \in Seq(Events) /\ Len(t) = b + 1 - m /\ \A i \in 1 .. b + 1 - m : t[i] = m + i - 1
  BY ThroughType
<1>4. u \in Seq(Events) /\ Len(u) = b + 1 - a /\ \A i \in 1 .. b + 1 - a : u[i] = a + i - 1
  BY ThroughType
<1> HIDE DEF s, t, u
<1>5. s \o t \in Seq(Events) /\ Len(s \o t) = Len(s) + Len(t)
      /\ \A i \in 1 .. Len(s) + Len(t) : (s \o t)[i] = IF i <= Len(s) THEN s[i] ELSE t[i - Len(s)]
  BY <1>2, <1>3, ConcatProperties
<1>6. Len(s \o t) = Len(u)
  BY <1>2, <1>3, <1>4, <1>5
<1>7. ASSUME NEW i \in 1 .. Len(u)
      PROVE  (s \o t)[i] = u[i]
  <2>1. i \in 1 .. b + 1 - a /\ u[i] = a + i - 1
    BY <1>4, <1>7
  <2>2. CASE i <= m - a
    <3>1. i \in 1 .. m - a
      BY <2>1, <2>2
    <3>2. QED BY <1>2, <1>3, <1>5, <2>1, <2>2, <3>1
  <2>3. CASE ~(i <= m - a)
    <3>1. i - (m - a) \in 1 .. b + 1 - m
      BY <2>1, <2>3
    <3>2. t[i - (m - a)] = m + (i - (m - a)) - 1
      BY <1>3, <3>1
    <3>3. QED BY <1>2, <1>3, <1>5, <2>1, <2>3, <3>2
  <2>4. QED BY <2>2, <2>3
<1>8. s \o t = u
  BY <1>4, <1>5, <1>6, <1>7, SeqEqual
<1>9. QED BY <1>8 DEF s, t, u

LEMMA ThroughGoesOn ==
    ASSUME NEW a \in Nat \ {0}, NEW k \in Nat, NEW b \in Nat,
           a <= k + 1, k <= b, b <= MaxSize
    PROVE  Through(a, k) \o Through(k + 1, b) = Through(a, b)
<1>1. PICK m \in Nat \ {0} : m = k + 1
  OBVIOUS
<1>2. a <= m /\ m <= b + 1 /\ m - 1 = k
  BY <1>1
<1>3. Through(a, m - 1) \o Through(m, b) = Through(a, b)
  BY <1>2, ThroughConcat
<1>4. QED BY <1>1, <1>2, <1>3

LEMMA Regroup ==
    ASSUME NEW s \in Seq(Events), NEW t \in Seq(Events), NEW u \in Seq(Events)
    PROVE  (s \o t) \o u = s \o (t \o u)
BY ConcatAssociative

-----------------------------------------------------------------------------
(* The subscription *)

\* What is told and what is still to be told goes on with the lines of the next read.
LEMMA LinesGoOn ==
    ASSUME SubInv, drain = "read"
    PROVE  /\ Lines(size) \in Seq(Events)
           /\ told \o Lines(size) = Through(FirstNew, size \div 2)
<1> DEFINE o == offset \div 2
           n == size \div 2
           first == IF offset % 2 = 1 /\ ~partial THEN (offset + 3) \div 2 ELSE (offset + 2) \div 2
<1>1. /\ size \in Nat /\ size <= MaxSize /\ MaxSize \in Nat
      /\ offset \in Nat /\ offset <= size /\ start \in Nat /\ start <= offset
      /\ told \in Seq(Events) /\ chunk = <<>> /\ measured
      /\ told \o chunk = Through(FirstNew, o)
      /\ partial = (offset % 2 = 1 /\ offset > start)
  BY SubscriptionAssumption DEF SubInv, SubTypeOK, LoopInv, ToldOnceAndInOrder
<1>2. told = Through(FirstNew, o)
  BY <1>1, ConcatEmptySeq
<1>3. /\ o \in Nat /\ (offset = 2 * o \/ offset = 2 * o + 1)
      /\ offset % 2 = 1 <=> offset = 2 * o + 1
      /\ n \in Nat /\ (size = 2 * n \/ size = 2 * n + 1)
  <2>1. \A m \in Nat : /\ m \div 2 \in Nat /\ m % 2 \in {0, 1}
                       /\ m % 2 = 0 <=> m = 2 * (m \div 2)
                       /\ m % 2 = 1 <=> m = 2 * (m \div 2) + 1
    BY Halves
  <2>2. QED BY <1>1, <2>1
<1>4. /\ FirstNew \in Nat \ {0}
      /\ start + 3 = 2 * FirstNew \/ start + 3 = 2 * FirstNew + 1
  <2>1. start + 3 \in Nat
    BY <1>1
  <2>2. FirstNew \in Nat /\ (start + 3 = 2 * FirstNew \/ start + 3 = 2 * FirstNew + 1)
    BY <2>1, Halves DEF FirstNew
  <2>3. QED BY <1>1, <2>2
<1>5. /\ (offset + 2) \div 2 \in Nat /\ (offset + 3) \div 2 \in Nat
      /\ offset + 2 = 2 * ((offset + 2) \div 2) \/ offset + 2 = 2 * ((offset + 2) \div 2) + 1
      /\ offset + 3 = 2 * ((offset + 3) \div 2) \/ offset + 3 = 2 * ((offset + 3) \div 2) + 1
  <2>1. offset + 2 \in Nat /\ offset + 3 \in Nat
    BY <1>1
  <2>2. QED BY <2>1, Halves
<1>6. Lines(size) = Through(first, n)
  BY DEF Lines
<1> HIDE DEF o, n
<1>7. n <= MaxSize /\ o <= n
  BY <1>1, <1>3
<1>8. CASE partial \/ offset % 2 = 0 \/ offset > start
  <2>1. first = o + 1
    <3>1. offset % 2 = 1 => partial
      <4>1. offset % 2 = 1 /\ offset > start => partial
        BY <1>1, Zenon
      <4>2. offset % 2 = 1 => offset % 2 # 0
        OBVIOUS
      <4>3. QED BY <1>8, <4>1, <4>2
    <3>2. first = (offset + 2) \div 2
      BY <3>1
    <3>3. QED BY <1>1, <1>3, <1>5, <3>2
  <2>2. CASE FirstNew <= o + 1
    <3>1. o + 1 \in Nat \ {0} /\ o + 1 <= n + 1 /\ o + 1 - 1 = o
      BY <1>3, <1>7
    <3>2. Through(FirstNew, o) \o Through(o + 1, n) = Through(FirstNew, n)
      <4>1. FirstNew \in Nat \ {0} /\ o \in Nat /\ n \in Nat /\ o <= n /\ n <= MaxSize
        BY <1>3, <1>4, <1>7
      <4>2. QED BY <2>2, <4>1, ThroughGoesOn
    <3>3. Through(o + 1, n) \in Seq(Events)
      BY <1>3, <1>7, <3>1, ThroughType
    <3>4. QED BY <1>2, <1>6, <2>1, <3>2, <3>3 DEF n
  <2>3. CASE ~(FirstNew <= o + 1)
    <3>1. offset > start \/ offset % 2 = 0
      BY <1>1, <1>8
    <3>2. offset > start \/ offset # 2 * o + 1
      BY <1>3, <3>1
    <3>3. FirstNew >= o + 2
      BY <1>3, <1>4, <2>3
    <3>4. FALSE
      BY <1>1, <1>3, <1>4, <3>2, <3>3
    <3>5. QED BY <3>4
  <2>4. QED BY <1>3, <1>4, <2>2, <2>3
<1>9. CASE ~(partial \/ offset % 2 = 0 \/ offset > start)
  <2>1. offset = start /\ offset = 2 * o + 1 /\ first = FirstNew
    <3>1. ~partial /\ offset % 2 # 0 /\ ~(offset > start)
      BY <1>9
    <3>2. offset % 2 = 1
      BY <1>1, <3>1, Halves
    <3>3. offset = start
      BY <1>1, <3>1
    <3>4. first = (offset + 3) \div 2
      BY <3>1, <3>2
    <3>5. QED BY <1>3, <3>2, <3>3, <3>4 DEF FirstNew
  <2>2. FirstNew = o + 2
    BY <1>1, <1>3, <1>4, <2>1
  <2>3. 1 .. o + 1 - FirstNew = {}
    BY <1>3, <2>2
  <2>4. told = <<>>
    BY <1>2, <2>3 DEF Through
  <2>5. Through(FirstNew, n) \in Seq(Events)
    BY <1>3, <1>4, <1>7, ThroughType
  <2>6. QED BY <1>6, <2>1, <2>4, <2>5, ConcatEmptySeq DEF n
<1>10. QED BY <1>8, <1>9

LEMMA SameTold ==
    ASSUME ToldOnceAndInOrder, UNCHANGED <<measured, told, chunk, offset, start>>
    PROVE  ToldOnceAndInOrder'
BY DEF ToldOnceAndInOrder, FirstNew

LEMMA WriteInv == ASSUME SubInv, Write PROVE SubInv'
<1>1. ToldOnceAndInOrder'
  BY SameTold DEF SubInv, Write, loop
<1>2. SubTypeOK'
  BY SubscriptionAssumption DEF SubInv, SubTypeOK, Write, loop
<1>3. LoopInv'
  BY DEF SubInv, LoopInv, Write, loop
<1>4. QED BY <1>1, <1>2, <1>3 DEF SubInv

LEMMA NotifyInv == ASSUME SubInv, Notify PROVE SubInv'
<1>1. ToldOnceAndInOrder'
  BY SameTold DEF SubInv, Notify, loop
<1>2. SubTypeOK'
  BY DEF SubInv, SubTypeOK, Notify, loop
<1>3. LoopInv'
  BY DEF SubInv, LoopInv, Notify, loop
<1>4. QED BY <1>1, <1>2, <1>3 DEF SubInv

LEMMA DisposeInv == ASSUME SubInv, Dispose PROVE SubInv'
<1>1. ToldOnceAndInOrder'
  BY SameTold DEF SubInv, Dispose, loop
<1>2. SubTypeOK'
  BY DEF SubInv, SubTypeOK, Dispose, loop
<1>3. LoopInv'
  BY DEF SubInv, LoopInv, Dispose, loop
<1>4. QED BY <1>1, <1>2, <1>3 DEF SubInv

\* Nothing that ends before the initial offset begins after it.
LEMMA MeasureInv == ASSUME SubInv, Measure PROVE SubInv'
<1>1. size \in Nat /\ told = <<>> /\ chunk = <<>> /\ size <= MaxSize /\ MaxSize \in Nat
  BY SubscriptionAssumption DEF SubInv, SubTypeOK, LoopInv, Measure
<1>2. ToldOnceAndInOrder'
  <2> DEFINE b == size \div 2
             f == (size + 3) \div 2
  <2>1. b \in Nat /\ (size = 2 * b \/ size = 2 * b + 1)
    BY <1>1, Halves
  <2>2. size + 3 \in Nat
    BY <1>1
  <2>3. f \in Nat /\ (size + 3 = 2 * f \/ size + 3 = 2 * f + 1)
    BY <2>2, Halves
  <2>4. (told \o chunk)' = <<>>
    BY <1>1 DEF Measure
  <2>5. Through(FirstNew, offset \div 2)' = Through(f, b)
    BY DEF Measure, FirstNew, Through
  <2> HIDE DEF b, f
  <2>6. 1 .. b + 1 - f = {}
    BY <1>1, <2>1, <2>3
  <2>7. Through(f, b) = <<>>
    BY <2>6 DEF Through
  <2>8. QED BY <2>4, <2>5, <2>7 DEF ToldOnceAndInOrder
<1>3. SubTypeOK'
  BY <1>1 DEF SubInv, SubTypeOK, Measure, file
<1>4. LoopInv'
  <2>1. measured' /\ ~partial' /\ ~(offset' > start')
    BY <1>1 DEF SubInv, LoopInv, Measure
  <2>2. (drain # "process" => chunk = <<>>)'
    BY DEF SubInv, LoopInv, Measure
  <2>3. partial' = FALSE /\ (offset' % 2 = 1 /\ offset' > start') = FALSE
    <3>1. partial' = FALSE
      BY <1>1 DEF SubInv, LoopInv, SubTypeOK, Measure
    <3>2. QED BY <2>1, <3>1
  <2>4. QED BY <2>1, <2>2, <2>3 DEF LoopInv
<1>5. QED BY <1>2, <1>3, <1>4 DEF SubInv

LEMMA FireInv == ASSUME SubInv, Fire PROVE SubInv'
<1>1. ToldOnceAndInOrder'
  BY SameTold DEF SubInv, Fire
<1>2. SubTypeOK'
  BY DEF SubInv, SubTypeOK, Fire, file
<1>3. LoopInv'
  BY DEF SubInv, SubTypeOK, LoopInv, Fire
<1>4. QED BY <1>1, <1>2, <1>3 DEF SubInv

LEMMA BeginInv == ASSUME SubInv, Begin PROVE SubInv'
<1>1. ToldOnceAndInOrder'
  BY SameTold DEF SubInv, Begin
<1>2. SubTypeOK'
  <2>1. passes' \in 0 .. MaxPasses - 1
    BY SubscriptionAssumption DEF Begin
  <2>2. QED BY <2>1 DEF SubInv, SubTypeOK, Begin, file
<1>3. LoopInv'
  BY DEF SubInv, LoopInv, Begin
<1>4. QED BY <1>1, <1>2, <1>3 DEF SubInv

LEMMA ReadTailInv == ASSUME SubInv, ReadTail PROVE SubInv'
<1>1. Lines(size) \in Seq(Events) /\ told \o Lines(size) = Through(FirstNew, size \div 2)
  BY LinesGoOn DEF ReadTail
<1>2. ToldOnceAndInOrder'
  <2>1. (told \o chunk)' = Through(FirstNew, size \div 2)
    BY <1>1 DEF ReadTail
  <2>2. Through(FirstNew, offset \div 2)' = Through(FirstNew, size \div 2)
    BY DEF ReadTail, FirstNew, Through
  <2>3. QED BY <2>1, <2>2 DEF ToldOnceAndInOrder
<1>3. SubTypeOK'
  <2>1. text' \in BOOLEAN /\ partial' \in BOOLEAN
    <3>1. text' = (size > offset)
      BY DEF ReadTail
    <3>2. partial' = IF size > offset THEN size % 2 = 1 ELSE partial
      BY DEF ReadTail
    <3>3. text' \in BOOLEAN
      BY <3>1, SMT
    <3>4. CASE size > offset
      BY <3>2, <3>3, <3>4
    <3>5. CASE ~(size > offset)
      BY <3>2, <3>3, <3>5 DEF SubInv, SubTypeOK
    <3>6. QED BY <3>4, <3>5
  <2>2. offset' \in 0 .. size' /\ start' \in 0 .. offset' /\ size' \in 0 .. MaxSize
    BY SubscriptionAssumption DEF SubInv, SubTypeOK, ReadTail, file
  <2>3. QED BY <1>1, <2>1, <2>2 DEF SubInv, SubTypeOK, ReadTail, file
<1>4. LoopInv'
  <2>1. measured' /\ drain' = "process"
    BY DEF SubInv, LoopInv, ReadTail
  <2>2. size \in Nat /\ offset \in Nat /\ start \in Nat /\ start <= offset /\ offset <= size
    BY DEF SubInv, SubTypeOK
  <2>3. partial' = (offset' % 2 = 1 /\ offset' > start')
    <3>1. CASE size > offset
      <4>1. partial' = (size % 2 = 1) /\ offset' = size /\ start' = start /\ size > start
        BY <2>2, <3>1 DEF ReadTail
      <4>2. QED BY <4>1
    <3>2. CASE ~(size > offset)
      <4>1. partial' = partial /\ offset' = offset /\ start' = start
        BY <2>2, <3>2 DEF ReadTail
      <4>2. partial = (offset % 2 = 1 /\ offset > start)
        BY <2>1 DEF SubInv, LoopInv, ReadTail
      <4>3. QED BY <4>1, <4>2
    <3>3. QED BY <3>1, <3>2
  <2>4. QED BY <2>1, <2>3 DEF LoopInv
<1>5. QED BY <1>2, <1>3, <1>4 DEF SubInv

LEMMA PassAgainInv == ASSUME SubInv, PassAgain PROVE SubInv'
<1>1. ToldOnceAndInOrder'
  BY SameTold DEF SubInv, PassAgain
<1>2. SubTypeOK'
  <2>1. passes' \in 0 .. MaxPasses - 1
    BY SubscriptionAssumption DEF SubInv, SubTypeOK, PassAgain, AskedForMore
  <2>2. QED BY <2>1 DEF SubInv, SubTypeOK, PassAgain, file
<1>3. LoopInv'
  BY DEF SubInv, LoopInv, PassAgain
<1>4. QED BY <1>1, <1>2, <1>3 DEF SubInv

LEMMA RestInv == ASSUME SubInv, Rest PROVE SubInv'
<1>1. ToldOnceAndInOrder'
  BY SameTold DEF SubInv, Rest
<1>2. SubTypeOK'
  BY DEF SubInv, SubTypeOK, Rest, file
<1>3. LoopInv'
  BY DEF SubInv, LoopInv, Rest
<1>4. QED BY <1>1, <1>2, <1>3 DEF SubInv

\* The event that is told is the one after all that were.
LEMMA TellInv ==
    ASSUME SubInv, Tell
    PROVE  /\ SubInv'
           /\ Head(chunk) \in Events
           /\ \A e \in Range(told) : e < Head(chunk)
<1>1. /\ told \in Seq(Events) /\ chunk \in Seq(Events) /\ chunk # <<>>
      /\ measured /\ told \o chunk = Through(FirstNew, offset \div 2)
  BY DEF SubInv, SubTypeOK, LoopInv, ToldOnceAndInOrder, Tell
<1>2. Head(chunk) \in Events /\ Tail(chunk) \in Seq(Events) /\ chunk = <<Head(chunk)>> \o Tail(chunk)
  BY <1>1
<1>3. (told \o chunk)' = told \o chunk
  <2>1. (told \o chunk)' = (told \o <<Head(chunk)>>) \o Tail(chunk)
    BY <1>1, <1>2, AppendIsConcat DEF Tell
  <2>2. PICK h, l : h = <<Head(chunk)>> /\ l = Tail(chunk)
    OBVIOUS
  <2>3. h \in Seq(Events) /\ l \in Seq(Events)
    BY <1>2, <2>2
  <2>4. (told \o h) \o l = told \o (h \o l)
    BY <1>1, <2>3, Regroup
  <2>5. QED BY <1>2, <2>1, <2>2, <2>4
<1>4. ToldOnceAndInOrder'
  BY <1>1, <1>3 DEF ToldOnceAndInOrder, FirstNew, Tell
<1>5. SubTypeOK'
  BY <1>1, <1>2 DEF SubInv, SubTypeOK, Tell, file
<1>6. LoopInv'
  BY DEF SubInv, LoopInv, Tell
<1>7. ASSUME NEW e \in Range(told)
      PROVE  e < Head(chunk)
  <2> DEFINE all == told \o chunk
             b == offset \div 2
  <2>1. PICK i \in DOMAIN told : told[i] = e
    BY <1>7 DEF Range
  <2>2. Len(told) \in Nat /\ Len(chunk) \in Nat /\ Len(chunk) > 0 /\ i \in 1 .. Len(told)
    BY <1>1, <2>1
  <2>3. DOMAIN all = 1 .. Len(told) + Len(chunk) /\ all[i] = e /\ all[Len(told) + 1] = Head(chunk)
    BY <1>1, <2>1, <2>2, ConcatProperties
  <2>4. i \in DOMAIN all /\ Len(told) + 1 \in DOMAIN all /\ i < Len(told) + 1
    BY <2>2, <2>3
  <2>5. offset \in Nat /\ start \in Nat /\ start + 3 \in Nat
    BY DEF SubInv, SubTypeOK
  <2>6. b \in Nat /\ FirstNew \in Nat
    BY <2>5, Halves DEF FirstNew
  <2>7. all = [j \in 1 .. b + 1 - FirstNew |-> FirstNew + j - 1]
    BY <1>1 DEF Through
  <2> HIDE DEF all, b
  <2>8. all[i] = FirstNew + i - 1 /\ all[Len(told) + 1] = FirstNew + (Len(told) + 1) - 1
    BY <2>4, <2>7
  <2>9. QED BY <2>2, <2>3, <2>4, <2>6, <2>8
<1>8. QED BY <1>2, <1>4, <1>5, <1>6, <1>7 DEF SubInv

LEMMA SubStepInv == ASSUME SubInv, SubStep PROVE SubInv'
BY WriteInv, NotifyInv, MeasureInv, FireInv, BeginInv, ReadTailInv, PassAgainInv, RestInv,
   DisposeInv DEF SubStep, LoopStep

LEMMA SubInitInv == ASSUME SubInit PROVE SubInv
<1>1. SubTypeOK
  <2>1. passes \in 0 .. MaxPasses - 1 /\ offset \in 0 .. size /\ start \in 0 .. offset
    BY SubscriptionAssumption DEF SubInit
  <2>2. chunk \in Seq(Events) /\ told \in Seq(Events)
    BY DEF SubInit
  <2>3. QED BY <2>1, <2>2 DEF SubInit, SubTypeOK
<1>2. LoopInv /\ ToldOnceAndInOrder
  BY DEF SubInit, LoopInv, ToldOnceAndInOrder
<1>3. QED BY <1>1, <1>2 DEF SubInv

LEMMA SubSameInv == ASSUME SubInv, UNCHANGED subVars PROVE SubInv'
<1>1. ToldOnceAndInOrder'
  BY SameTold DEF SubInv, subVars, loop
<1>2. SubTypeOK'
  BY DEF SubInv, SubTypeOK, subVars, loop, file
<1>3. LoopInv'
  BY DEF SubInv, LoopInv, subVars, loop
<1>4. QED BY <1>1, <1>2, <1>3 DEF SubInv

-----------------------------------------------------------------------------
(* The control plane *)

\* What InOrder says of a sequence of forwarded and one of told events.
InOrder(w, t) ==
    /\ Range(w) = Range(t)
    /\ \A i \in DOMAIN w : \A e \in Range(t) : e < w[i] => \E k \in 1 .. i : w[k] = e

\* An event later than all others may be told and forwarded last.
LEMMA InOrderAppend ==
    ASSUME NEW w \in Seq(Events), NEW t \in Seq(Events), NEW x \in Events,
           InOrder(w, t), \A e \in Range(t) : e < x
    PROVE  InOrder(Append(w, x), Append(t, x))
<1> DEFINE v == Append(w, x)
           u == Append(t, x)
<1>1. /\ DOMAIN v = 1 .. Len(w) + 1 /\ v[Len(w) + 1] = x /\ \A i \in 1 .. Len(w) : v[i] = w[i]
      /\ DOMAIN u = 1 .. Len(t) + 1 /\ u[Len(t) + 1] = x /\ \A i \in 1 .. Len(t) : u[i] = t[i]
      /\ DOMAIN w = 1 .. Len(w) /\ Len(w) \in Nat /\ DOMAIN t = 1 .. Len(t) /\ Len(t) \in Nat
  OBVIOUS
<1> HIDE DEF v, u
<1>2. Range(v) = Range(w) \cup {x}
  BY <1>1 DEF Range
<1>3. Range(u) = Range(t) \cup {x}
  BY <1>1 DEF Range
<1>4. Range(w) = Range(t) /\ \A e \in Range(t) : e \in Nat
  <2>1. \A e \in Range(t) : e \in Events
    BY DEF Range
  <2>2. QED BY <2>1 DEF InOrder, Events
<1>5. ASSUME NEW i \in DOMAIN v, NEW e \in Range(u), e < v[i]
      PROVE  \E k \in 1 .. i : v[k] = e
  <2>1. CASE i \in 1 .. Len(w)
    <3>1. v[i] = w[i] /\ w[i] \in Range(t)
      BY <1>1, <1>4, <2>1 DEF Range
    <3>2. w[i] < x /\ w[i] \in Nat /\ x \in Nat
      BY <1>4, <3>1 DEF Events
    <3>3. e # x
      BY <1>5, <3>1, <3>2
    <3>4. e \in Range(t) /\ e < w[i]
      BY <1>3, <1>5, <3>1, <3>3
    <3>5. PICK k \in 1 .. i : w[k] = e
      BY <1>1, <2>1, <3>4 DEF InOrder
    <3>6. v[k] = e
      BY <1>1, <2>1, <3>5
    <3>7. QED BY <3>6
  <2>2. CASE i = Len(w) + 1
    <3>1. v[i] = x /\ x \in Nat
      BY <1>1, <2>2 DEF Events
    <3>2. e \in Range(w)
      BY <1>3, <1>4, <1>5, <3>1
    <3>3. PICK k \in DOMAIN w : w[k] = e
      BY <3>2 DEF Range
    <3>4. k \in 1 .. i /\ v[k] = e
      BY <1>1, <2>2, <3>3
    <3>5. QED BY <3>4
  <2>3. QED BY <1>1, <1>5, <2>1, <2>2
<1>6. InOrder(v, u)
  BY <1>2, <1>3, <1>4, <1>5 DEF InOrder
<1>7. QED BY <1>6 DEF v, u

\* Where the parts of a sequence lie in it.
LEMMA PartsOf ==
    ASSUME NEW S, NEW a \in Seq(S), NEW b \in Seq(S)
    PROVE  /\ a \o b \in Seq(S)
           /\ Len(a) \in Nat /\ Len(b) \in Nat /\ Len(a \o b) = Len(a) + Len(b)
           /\ DOMAIN (a \o b) = 1 .. Len(a) + Len(b)
           /\ \A i \in 1 .. Len(a) : (a \o b)[i] = a[i]
           /\ \A i \in 1 .. Len(b) : (a \o b)[Len(a) + i] = b[i]
<1>1. Len(a) \in Nat /\ Len(b) \in Nat
  OBVIOUS
<1>2. a \o b \in Seq(S) /\ Len(a \o b) = Len(a) + Len(b)
  BY ConcatProperties
<1>3. DOMAIN (a \o b) = 1 .. Len(a) + Len(b)
  BY <1>2
<1>4. ASSUME NEW i \in 1 .. Len(a) PROVE (a \o b)[i] = a[i]
  <2>1. i \in 1 .. Len(a) + Len(b) /\ i <= Len(a)
    BY <1>1
  <2>2. QED BY <2>1, ConcatProperties
<1>5. ASSUME NEW i \in 1 .. Len(b) PROVE (a \o b)[Len(a) + i] = b[i]
  <2>1. Len(a) + i \in 1 .. Len(a) + Len(b) /\ ~(Len(a) + i <= Len(a))
        /\ (Len(a) + i) - Len(a) = i
    BY <1>1
  <2>2. QED BY <2>1, ConcatProperties
<1>6. QED BY <1>1, <1>2, <1>3, <1>4, <1>5

\* The sequence v is w, but for a part that comes a second time right behind itself.
Twice(v, w, la, lb, lc) ==
    /\ DOMAIN w = 1 .. la + lb + lc /\ DOMAIN v = 1 .. la + lb + lb + lc
    /\ \A i \in 1 .. la + lb : v[i] = w[i]
    /\ \A i \in 1 .. lb : v[la + lb + i] = w[la + i]
    /\ \A i \in 1 .. lc : v[la + lb + lb + i] = w[la + lb + i]

LEMMA TwiceInOrder ==
    ASSUME NEW la \in Nat, NEW lb \in Nat, NEW lc \in Nat, NEW w, NEW v, NEW t,
           Twice(v, w, la, lb, lc), InOrder(w, t)
    PROVE  InOrder(v, t)
<1>0. DOMAIN w = 1 .. la + lb + lc /\ DOMAIN v = 1 .. la + lb + lb + lc
  BY DEF Twice
<1>1. \A i \in 1 .. la + lb : i \in DOMAIN w /\ i \in DOMAIN v /\ v[i] = w[i]
  BY <1>0 DEF Twice
<1>2. \A i \in 1 .. lb : /\ la + i \in DOMAIN w /\ la + lb + i \in DOMAIN v
                         /\ v[la + lb + i] = w[la + i]
  BY <1>0 DEF Twice
<1>3. \A i \in 1 .. lc : /\ la + lb + i \in DOMAIN w /\ la + lb + lb + i \in DOMAIN v
                         /\ v[la + lb + lb + i] = w[la + lb + i]
  <2>1. \A i \in 1 .. lc : la + lb + i \in 1 .. la + lb + lc
    OBVIOUS
  <2>2. \A i \in 1 .. lc : la + lb + lb + i \in 1 .. la + lb + lb + lc
    OBVIOUS
  <2>3. QED BY <1>0, <2>1, <2>2 DEF Twice
\* Each place of the longer sequence has an earlier one in the shorter one, and back.
<1>4. ASSUME NEW j \in DOMAIN v
       PROVE  \E i \in DOMAIN w : v[j] = w[i] /\ \A k \in 1 .. i : \E m \in 1 .. j : v[m] = w[k]
  <2>1. CASE j \in 1 .. la + lb
    <3>1. j \in DOMAIN w /\ v[j] = w[j]
      BY <1>1, <2>1
    <3>2. \A k \in 1 .. j : k \in 1 .. j /\ v[k] = w[k]
      BY <1>1, <2>1
    <3>3. QED BY <3>1, <3>2
  <2>2. CASE j > la + lb /\ j <= la + lb + lb
    <3>1. j - (la + lb) \in 1 .. lb
      BY <1>0, <2>2
    <3>2. PICK i \in 1 .. lb : i = j - (la + lb)
      BY <3>1
    <3>3. la + i \in DOMAIN w /\ v[j] = w[la + i]
      <4>1. j = la + lb + i
        BY <1>0, <2>2, <3>2
      <4>2. QED BY <1>2, <4>1
    <3>4. \A k \in 1 .. la + i : k \in 1 .. j /\ v[k] = w[k]
      BY <1>0, <1>1, <2>2, <3>2
    <3>5. QED BY <3>3, <3>4
  <2>3. CASE j > la + lb + lb
    <3>1. j - (la + lb + lb) \in 1 .. lc
      BY <1>0, <2>3
    <3>2. PICK i \in 1 .. lc : i = j - (la + lb + lb)
      BY <3>1
    <3>3. la + lb + i \in DOMAIN w /\ v[j] = w[la + lb + i]
      <4>1. j = la + lb + lb + i
        BY <1>0, <2>3, <3>2
      <4>2. QED BY <1>3, <4>1
    <3>4. ASSUME NEW k \in 1 .. la + lb + i
          PROVE  \E m \in 1 .. j : v[m] = w[k]
      <4>1. CASE k <= la + lb
        <5>1. k \in 1 .. la + lb /\ k \in 1 .. j
          BY <1>0, <2>3, <4>1
        <5>2. QED BY <1>1, <5>1
      <4>2. CASE ~(k <= la + lb)
        <5>1. k - (la + lb) \in 1 .. lc
          BY <3>2, <4>2
        <5>2. PICK n \in 1 .. lc : n = k - (la + lb)
          BY <5>1
        <5>3. la + lb + lb + n \in 1 .. j /\ w[k] = w[la + lb + n]
          BY <1>0, <2>3, <3>2, <5>2
        <5>4. QED BY <1>3, <5>2, <5>3
      <4>3. QED BY <4>1, <4>2
    <3>5. QED BY <3>3, <3>4
  <2>4. QED BY <1>0, <2>1, <2>2, <2>3
<1>5. ASSUME NEW i \in DOMAIN w
       PROVE  \E j \in DOMAIN v : v[j] = w[i]
  <2>1. CASE i <= la + lb
    BY <1>0, <1>1, <2>1
  <2>2. CASE ~(i <= la + lb)
    <3>1. i - (la + lb) \in 1 .. lc
      BY <1>0, <2>2
    <3>2. PICK n \in 1 .. lc : n = i - (la + lb)
      BY <3>1
    <3>3. w[i] = w[la + lb + n]
      BY <1>0, <3>2
    <3>4. QED BY <1>3, <3>2, <3>3
  <2>3. QED BY <2>1, <2>2
<1>6. Range(v) = Range(w)
  BY <1>4, <1>5 DEF Range
<1>7. ASSUME NEW j \in DOMAIN v, NEW e \in Range(t), e < v[j]
       PROVE  \E m \in 1 .. j : v[m] = e
  <2>1. PICK i \in DOMAIN w : v[j] = w[i] /\ \A k \in 1 .. i : \E m \in 1 .. j : v[m] = w[k]
    BY <1>4
  <2>2. \E k \in 1 .. i : w[k] = e
    BY <1>7, <2>1 DEF InOrder
  <2>3. QED BY <2>1, <2>2
<1>8. QED BY <1>6, <1>7 DEF InOrder

\* A part that comes a second time, right behind itself, changes nothing.
LEMMA InOrderTwice ==
    ASSUME NEW a \in Seq(Events), NEW b \in Seq(Events), NEW c \in Seq(Events), NEW t,
           InOrder((a \o b) \o c, t)
    PROVE  InOrder(((a \o b) \o b) \o c, t)
<1>1. PICK la, lb, lc, ab, abb, w, v :
           /\ la = Len(a) /\ lb = Len(b) /\ lc = Len(c)
           /\ ab = a \o b /\ abb = ab \o b /\ w = ab \o c /\ v = abb \o c
  OBVIOUS
<1>2. la \in Nat /\ lb \in Nat /\ lc \in Nat
  BY <1>1
<1>3. /\ ab \in Seq(Events) /\ Len(ab) = la + lb
      /\ \A i \in 1 .. la : ab[i] = a[i]
      /\ \A i \in 1 .. lb : ab[la + i] = b[i]
  <2>1. /\ a \o b \in Seq(Events) /\ Len(a \o b) = Len(a) + Len(b)
        /\ \A i \in 1 .. Len(a) : (a \o b)[i] = a[i]
        /\ \A i \in 1 .. Len(b) : (a \o b)[Len(a) + i] = b[i]
    BY PartsOf
  <2>2. QED BY <1>1, <2>1
<1>4. /\ abb \in Seq(Events) /\ Len(abb) = la + lb + lb
      /\ \A i \in 1 .. la + lb : abb[i] = ab[i]
      /\ \A i \in 1 .. lb : abb[la + lb + i] = b[i]
  BY <1>1, <1>3, PartsOf
<1>5. /\ DOMAIN w = 1 .. la + lb + lc
      /\ \A i \in 1 .. la + lb : w[i] = ab[i]
      /\ \A i \in 1 .. lc : w[la + lb + i] = c[i]
  BY <1>1, <1>3, PartsOf
<1>6. /\ DOMAIN v = 1 .. la + lb + lb + lc
      /\ \A i \in 1 .. la + lb + lb : v[i] = abb[i]
      /\ \A i \in 1 .. lc : v[la + lb + lb + i] = c[i]
  BY <1>1, <1>4, PartsOf
<1>7. \A i \in 1 .. la + lb : v[i] = w[i]
  <2> TAKE i \in 1 .. la + lb
  <2>1. i \in 1 .. la + lb + lb
    BY <1>2
  <2>2. QED BY <1>4, <1>5, <1>6, <2>1
<1>8. \A i \in 1 .. lb : v[la + lb + i] = w[la + i]
  <2> TAKE i \in 1 .. lb
  <2>1. la + lb + i \in 1 .. la + lb + lb /\ la + i \in 1 .. la + lb
    BY <1>2
  <2>2. QED BY <1>3, <1>4, <1>5, <1>6, <2>1
<1>9. \A i \in 1 .. lc : v[la + lb + lb + i] = w[la + lb + i]
  BY <1>5, <1>6
<1>10. InOrder(w, t)
  BY <1>1
<1>11. Twice(v, w, la, lb, lc)
  BY <1>5, <1>6, <1>7, <1>8, <1>9 DEF Twice
<1>12. InOrder(v, t)
  BY <1>2, <1>10, <1>11, TwiceInOrder
<1>13. QED BY <1>1, <1>12

\* A step that forwards and tells nothing new.
LEMMA SameForwarded ==
    ASSUME SyncInv, UNCHANGED <<told, doubled>>, Forwarded' = Forwarded
    PROVE  ForwardedOnce' /\ ForwardedInOrder'
<1>1. ForwardedOnce'
  BY DEF SyncInv, ForwardedOnce
<1>2. ForwardedInOrder'
  BY DEF SyncInv, ForwardedInOrder
<1>3. QED BY <1>1, <1>2

LEMMA SubStepSync == ASSUME SyncInv, SubStep, UNCHANGED syncVars PROVE SyncInv'
<1>1. told' = told
  BY DEF SubStep, LoopStep, Write, Notify, Measure, Fire, Begin, ReadTail, PassAgain, Rest,
         Dispose, loop
<1>2. SyncTypeOK'
  BY DEF SyncInv, SyncTypeOK, syncVars
<1>3. ForwardedOnce' /\ ForwardedInOrder'
  BY <1>1, SameForwarded DEF syncVars, Forwarded
<1>4. QED BY <1>2, <1>3 DEF SyncInv

LEMMA SameSync == ASSUME SyncInv, UNCHANGED vars PROVE SyncInv'
<1>1. UNCHANGED syncVars /\ told' = told
  BY DEF vars, subVars
<1>2. SyncTypeOK'
  BY <1>1 DEF SyncInv, SyncTypeOK, syncVars
<1>3. ForwardedOnce' /\ ForwardedInOrder'
  BY <1>1, SameForwarded DEF syncVars, Forwarded
<1>4. QED BY <1>2, <1>3 DEF SyncInv

\* The queue's end is where an event that is told comes to.
LEMMA TellAndKeepSync ==
    ASSUME SyncInv, told \in Seq(Events), TellAndKeep,
           Head(chunk) \in Events, \A e \in Range(told) : e < Head(chunk)
    PROVE  SyncInv'
<1> DEFINE x == Head(chunk)
<1>1. /\ accepted \in Seq(Events) /\ batch \in Seq(Events) /\ pending \in Seq(Events)
      /\ x \in Events
  BY DEF SyncInv, SyncTypeOK
<1>2. told' = Append(told, x) /\ pending' = Append(pending, x)
      /\ UNCHANGED <<cycle, batch, accepted, doubled, troubles>>
  BY DEF TellAndKeep, Tell
<1> HIDE DEF x
<1>3. SyncTypeOK'
  <2>1. pending' \in Seq(Events)
    BY <1>1, <1>2
  <2>2. QED BY <1>2, <2>1 DEF SyncInv, SyncTypeOK
<1>4. accepted \o batch \in Seq(Events) /\ Forwarded \in Seq(Events)
  BY <1>1, ConcatProperties DEF Forwarded
<1>5. Forwarded' = Append(Forwarded, x)
  <2>1. <<x>> \in Seq(Events)
    BY <1>1
  <2>2. Forwarded' = (accepted \o batch) \o (pending \o <<x>>)
    BY <1>1, <1>2, AppendIsConcat DEF Forwarded
  <2>3. Forwarded' = Forwarded \o <<x>>
    BY <1>1, <1>4, <2>1, <2>2, Regroup DEF Forwarded
  <2>4. QED BY <1>1, <1>4, <2>3, AppendIsConcat
<1>6. ForwardedOnce'
  BY <1>2, <1>5 DEF SyncInv, ForwardedOnce
<1>7. ForwardedInOrder'
  <2>1. InOrder(Forwarded, told)
    BY DEF SyncInv, ForwardedInOrder, InOrder
  <2>2. InOrder(Append(Forwarded, x), Append(told, x))
    BY <1>1, <1>4, <2>1, InOrderAppend DEF x
  <2>3. QED BY <1>2, <1>5, <2>2 DEF ForwardedInOrder, InOrder
<1>8. QED BY <1>3, <1>6, <1>7 DEF SyncInv

LEMMA TickSync == ASSUME SyncInv, Tick PROVE SyncInv'
<1>1. SyncTypeOK'
  BY DEF SyncInv, SyncTypeOK, Tick
<1>2. ForwardedOnce' /\ ForwardedInOrder'
  BY SameForwarded DEF Tick, subVars, Forwarded
<1>3. QED BY <1>1, <1>2 DEF SyncInv

LEMMA PoliciesAllowSync == ASSUME SyncInv, PoliciesAllow PROVE SyncInv'
<1>1. SyncTypeOK'
  BY DEF SyncInv, SyncTypeOK, PoliciesAllow
<1>2. ForwardedOnce' /\ ForwardedInOrder'
  BY SameForwarded DEF PoliciesAllow, subVars, Forwarded
<1>3. QED BY <1>1, <1>2 DEF SyncInv

LEMMA TroubleCounted == ASSUME SyncTypeOK, Trouble PROVE troubles' \in 0 .. MaxTroubles
BY SyncAssumption DEF SyncTypeOK, Trouble

LEMMA CycleFailsSync == ASSUME SyncInv, CycleFails PROVE SyncInv'
<1>1. troubles' \in 0 .. MaxTroubles
  BY TroubleCounted DEF SyncInv, CycleFails
<1>2. SyncTypeOK'
  BY <1>1 DEF SyncInv, SyncTypeOK, CycleFails
<1>3. ForwardedOnce' /\ ForwardedInOrder'
  BY SameForwarded DEF CycleFails, subVars, Forwarded
<1>4. QED BY <1>2, <1>3 DEF SyncInv

\* No push is under way, so the batch that is overwritten is empty.
LEMMA HeartbeatSync == ASSUME SyncInv, Heartbeat PROVE SyncInv'
<1>1. /\ batch = <<>> /\ accepted \in Seq(Events) /\ pending \in Seq(Events)
      /\ batch' = pending /\ pending' = <<>>
      /\ UNCHANGED <<told, accepted, doubled, troubles>>
  BY DEF SyncInv, SyncTypeOK, Heartbeat, subVars
<1>2. SyncTypeOK'
  BY <1>1 DEF SyncInv, SyncTypeOK, Heartbeat
<1>3. Forwarded' = Forwarded
  BY <1>1, ConcatEmptySeq, ConcatProperties DEF Forwarded
<1>4. QED BY <1>1, <1>2, <1>3, SameForwarded DEF SyncInv

LEMMA PushSync == ASSUME SyncInv, Push PROVE SyncInv'
<1>1. /\ batch \in Seq(Events) /\ accepted \in Seq(Events)
      /\ batch' = <<>> /\ accepted' = accepted \o batch /\ cycle' = "none"
      /\ UNCHANGED <<told, pending, doubled, troubles>>
  BY DEF SyncInv, SyncTypeOK, Push, subVars
<1>2. accepted' \in Seq(Events)
  BY <1>1, ConcatProperties
<1>3. SyncTypeOK'
  BY <1>1, <1>2 DEF SyncInv, SyncTypeOK
<1>4. Forwarded' = Forwarded
  BY <1>1, <1>2, ConcatEmptySeq DEF Forwarded
<1>5. QED BY <1>1, <1>3, <1>4, SameForwarded DEF SyncInv

LEMMA PushFailsSync == ASSUME SyncInv, PushFails PROVE SyncInv'
<1>1. /\ batch \in Seq(Events) /\ accepted \in Seq(Events) /\ pending \in Seq(Events)
      /\ batch' = <<>> /\ pending' = batch \o pending /\ cycle' = "none"
      /\ UNCHANGED <<told, accepted, doubled>>
  BY DEF SyncInv, SyncTypeOK, PushFails, Requeue, subVars
<1>2. troubles' \in 0 .. MaxTroubles
  BY TroubleCounted DEF SyncInv, PushFails
<1>3. pending' \in Seq(Events)
  BY <1>1, ConcatProperties
<1>4. SyncTypeOK'
  BY <1>1, <1>2, <1>3 DEF SyncInv, SyncTypeOK
<1>5. Forwarded' = Forwarded
  <2>1. Forwarded' = accepted \o (batch \o pending)
    BY <1>1, ConcatEmptySeq DEF Forwarded
  <2>2. QED BY <1>1, <2>1, Regroup DEF Forwarded
<1>6. QED BY <1>1, <1>4, <1>5, SameForwarded DEF SyncInv

\* The batch is at the control plane and comes there a second time, right behind itself.
LEMMA PushUnansweredSync == ASSUME SyncInv, PushUnanswered PROVE SyncInv'
<1>1. /\ batch \in Seq(Events) /\ accepted \in Seq(Events) /\ pending \in Seq(Events)
      /\ batch' = <<>> /\ pending' = batch \o pending /\ cycle' = "none"
      /\ accepted' = accepted \o batch /\ doubled' = TRUE
      /\ told' = told
  BY DEF SyncInv, SyncTypeOK, PushUnanswered, Requeue, subVars
<1>2. troubles' \in 0 .. MaxTroubles
  BY TroubleCounted DEF SyncInv, PushUnanswered
<1>3. accepted' \in Seq(Events) /\ pending' \in Seq(Events)
  BY <1>1, ConcatProperties
<1>4. SyncTypeOK'
  BY <1>1, <1>2, <1>3 DEF SyncInv, SyncTypeOK
<1>5. Forwarded' = ((accepted \o batch) \o batch) \o pending
  <2>1. Forwarded' = (accepted \o batch) \o (batch \o pending)
    BY <1>1, <1>3, ConcatEmptySeq DEF Forwarded
  <2>2. PICK ab : ab = accepted \o batch
    OBVIOUS
  <2>3. ab \in Seq(Events)
    BY <1>1, <1>3, <2>2
  <2>4. (ab \o batch) \o pending = ab \o (batch \o pending)
    BY <1>1, <2>3, Regroup
  <2>5. QED BY <2>1, <2>2, <2>4
<1>6. InOrder((accepted \o batch) \o pending, told)
  BY DEF SyncInv, ForwardedInOrder, InOrder, Forwarded
<1>7. InOrder(((accepted \o batch) \o batch) \o pending, told)
  BY <1>1, <1>6, InOrderTwice
<1>8. ForwardedInOrder'
  BY <1>1, <1>5, <1>7 DEF ForwardedInOrder, InOrder
<1>9. ForwardedOnce'
  BY <1>1 DEF ForwardedOnce
<1>10. QED BY <1>4, <1>8, <1>9 DEF SyncInv

-----------------------------------------------------------------------------
LEMMA InitInv == ASSUME Init PROVE Inv
<1>1. SubInv
  BY SubInitInv DEF Init
<1>2. /\ accepted = <<>> /\ batch = <<>> /\ pending = <<>> /\ told = <<>>
      /\ cycle = "none" /\ doubled = FALSE /\ troubles = 0
  BY DEF Init, SubInit
<1>3. SyncTypeOK
  <2>1. pending \in Seq(Events) /\ batch \in Seq(Events) /\ accepted \in Seq(Events)
    BY <1>2
  <2>2. troubles \in 0 .. MaxTroubles
    BY <1>2, SyncAssumption
  <2>3. QED BY <1>2, <2>1, <2>2 DEF SyncTypeOK
<1>4. Forwarded = <<>>
  <2>1. <<>> \in Seq(Events)
    OBVIOUS
  <2>2. QED BY <1>2, <2>1, ConcatEmptySeq DEF Forwarded
<1>5. ForwardedOnce
  BY <1>2, <1>4 DEF ForwardedOnce
<1>6. ForwardedInOrder
  <2>1. Range(Forwarded) = Range(told) /\ Range(told) = {}
    BY <1>2, <1>4 DEF Range
  <2>2. QED BY <2>1 DEF ForwardedInOrder
<1>7. QED BY <1>1, <1>3, <1>5, <1>6 DEF Inv, SyncInv

LEMMA NextInv == ASSUME Inv, [Next]_vars PROVE Inv'
<1>1. SubInv /\ SyncInv /\ told \in Seq(Events)
  BY DEF Inv, SubInv, SubTypeOK
<1>2. CASE SubStep /\ UNCHANGED syncVars
  BY <1>1, <1>2, SubStepInv, SubStepSync DEF Inv
<1>3. CASE TellAndKeep
  <2>1. Tell
    BY <1>3 DEF TellAndKeep
  <2>2. QED BY <1>1, <1>3, <2>1, TellInv, TellAndKeepSync DEF Inv
<1>4. CASE Tick
  BY <1>1, <1>4, SubSameInv, TickSync DEF Inv, Tick
<1>5. CASE PoliciesAllow
  BY <1>1, <1>5, SubSameInv, PoliciesAllowSync DEF Inv, PoliciesAllow
<1>6. CASE Heartbeat
  BY <1>1, <1>6, SubSameInv, HeartbeatSync DEF Inv, Heartbeat
<1>7. CASE Push
  BY <1>1, <1>7, SubSameInv, PushSync DEF Inv, Push
<1>8. CASE CycleFails
  BY <1>1, <1>8, SubSameInv, CycleFailsSync DEF Inv, CycleFails
<1>9. CASE PushFails
  BY <1>1, <1>9, SubSameInv, PushFailsSync DEF Inv, PushFails
<1>10. CASE PushUnanswered
  BY <1>1, <1>10, SubSameInv, PushUnansweredSync DEF Inv, PushUnanswered
<1>11. CASE UNCHANGED vars
  <2>1. UNCHANGED subVars
    BY <1>11 DEF vars
  <2>2. QED BY <1>1, <1>11, <2>1, SubSameInv, SameSync DEF Inv
<1>12. QED BY <1>2, <1>3, <1>4, <1>5, <1>6, <1>7, <1>8, <1>9, <1>10, <1>11 DEF Next, Trip

\* The inductive invariant of a subscription that is forwarded to the control plane:
\* EventStore.subscribe and wrapEventSubscriberWithControlPlaneSync.
THEOREM SyncInvHolds == Spec => []Inv
<1>1. Init => Inv
  BY InitInv
<1>2. Inv /\ [Next]_vars => Inv'
  BY NextInv
<1>3. QED BY <1>1, <1>2, PTL DEF Spec

\* The types of the subscription's and the cycles' state; a batch is held exactly during
\* its push (createControlPlaneSyncState, subscribe).
THEOREM SyncTypes == Spec => []TypeOK
<1>1. Inv => TypeOK
  BY DEF Inv, SubInv, SyncInv, SyncTypeOK, TypeOK
<1>2. QED BY <1>1, SyncInvHolds, PTL

\* The callback of a subscription is called with each event that was written after its
\* start once and in order, however writes and reads cut the lines (subscribe).
THEOREM EventsToldOnce == Spec => []ToldOnceAndInOrder
<1>1. Inv => ToldOnceAndInOrder
  BY DEF Inv, SubInv
<1>2. QED BY <1>1, SyncInvHolds, PTL

\* While no answer is lost, what is at the control plane, under way to it and queued for
\* it is what the subscriber was told of (runSyncCycle, the wrapped callback).
THEOREM EventsForwardedOnce == Spec => []ForwardedOnce
<1>1. Inv => ForwardedOnce
  BY DEF Inv, SyncInv
<1>2. QED BY <1>1, SyncInvHolds, PTL

\* However many answers are lost, no event is forwarded that was not told, none is left
\* out, and none comes before the earlier ones (runSyncCycle's unshift).
THEOREM EventsForwardedInOrder == Spec => []ForwardedInOrder
<1>1. Inv => ForwardedInOrder
  BY DEF Inv, SyncInv
<1>2. QED BY <1>1, SyncInvHolds, PTL
=============================================================================
