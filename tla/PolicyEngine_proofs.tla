------------------------- MODULE PolicyEngine_proofs --------------------------
(***************************************************************************)
(* Proofs about PolicyEngine, for any number of layers and statements: the *)
(* pass with its flags and exits comes to the answer that the statements   *)
(* define.                                                                 *)
(*                                                                         *)
(* The flags hard and approval say what the rules have said so far, and,   *)
(* while neither is set, the effective decision is the closed form's       *)
(* answer for the statements so far (Inv).  That is all a step needs: it   *)
(* appends the new last statement (LastStatement, EffectiveAfter).         *)
(***************************************************************************)
EXTENDS PolicyEngine, TLAPS

\* A statement lifts every deny of the statements so far.
Lifted == \E i \in Opinions : Lifting(i) /\ \A j \in Opinions : said[j].effect = "deny" => j < i

\* The last opinion.
IsLast(i) == \A j \in Opinions : j <= i

FlagsTell ==
    /\ hard <=> "deny" \in Decisions
    /\ approval <=> "approval_required" \in Decisions

\* What effective is while no rule has denied or wanted approval: the effect of the
\* last opinion, if a deny, if any, was lifted before.
EffectiveTells ==
    ~hard /\ ~approval =>
        \/ Lifted /\ \E i \in Opinions : IsLast(i) /\ effective = said[i].effect
        \/ ~Lifted /\ effective = "deny"

LayersTell ==
    /\ layers = 0 => said = <<>>
    /\ layers > 0 => said # <<>> /\ ~said[1].rule

VerdictTells ==
    verdict # "none" =>
        verdict = IF hard THEN "deny" ELSE IF approval THEN "approval_required" ELSE effective

Inv == TypeOK /\ FlagsTell /\ EffectiveTells /\ LayersTell /\ VerdictTells

-----------------------------------------------------------------------------
(* Appending a statement. *)

LEMMA AppendFacts ==
    ASSUME NEW S, NEW s \in Seq(S), NEW x \in S
    PROVE  /\ Append(s, x) \in Seq(S) /\ Append(s, x) # <<>>
           /\ DOMAIN s = 1..Len(s) /\ Len(s) \in Nat
           /\ DOMAIN Append(s, x) = 1..(Len(s) + 1)
           /\ Len(Append(s, x)) = Len(s) + 1
           /\ \A i \in 1..Len(s) : Append(s, x)[i] = s[i]
           /\ Append(s, x)[Len(s) + 1] = x
           /\ Len(s) = 0 => s = <<>>
OBVIOUS

LEMMA DecisionsAfter ==
    ASSUME TypeOK, NEW x \in Openings \cup Rules, said' = Append(said, x)
    PROVE  \A e : e \in Decisions' <=> e \in Decisions \/ (x.rule /\ e = x.effect)
<1> DEFINE n == Len(said) + 1
<1>1. /\ DOMAIN said = 1..Len(said) /\ Len(said) \in Nat
      /\ DOMAIN said' = 1..n /\ said'[n] = x
      /\ \A i \in 1..Len(said) : said'[i] = said[i]
  BY AppendFacts DEF TypeOK
<1>2. /\ DOMAIN said' = DOMAIN said \cup {n} /\ n \notin DOMAIN said
      /\ \A i \in DOMAIN said : said'[i] = said[i]
      /\ said'[n] = x
  BY <1>1
<1> HIDE DEF n
<1>3. ASSUME NEW e
      PROVE  e \in Decisions' <=> e \in Decisions \/ (x.rule /\ e = x.effect)
  <2>1. ASSUME e \in Decisions' PROVE e \in Decisions \/ (x.rule /\ e = x.effect)
    <3>1. PICK i \in DOMAIN said' : said'[i].rule /\ e = said'[i].effect
      BY <2>1, Zenon DEF Decisions
    <3>2. CASE i = n
      BY <1>2, <3>1, <3>2, Zenon
    <3>3. CASE i \in DOMAIN said
      <4>1. said[i].rule /\ e = said[i].effect
        BY <1>2, <3>1, <3>3, Zenon
      <4> QED BY <3>3, <4>1, Zenon DEF Decisions
    <3> QED BY <1>2, <3>2, <3>3
  <2>2. ASSUME e \in Decisions PROVE e \in Decisions'
    <3>1. PICK i \in DOMAIN said : said[i].rule /\ e = said[i].effect
      BY <2>2, Zenon DEF Decisions
    <3>2. i \in DOMAIN said' /\ said'[i].rule /\ e = said'[i].effect
      BY <1>2, <3>1, Zenon
    <3> QED BY <3>2, Zenon DEF Decisions
  <2>3. ASSUME x.rule, e = x.effect PROVE e \in Decisions'
    <3>1. n \in DOMAIN said' /\ said'[n].rule /\ e = said'[n].effect
      BY <1>2, <2>3, Zenon
    <3> QED BY <3>1, Zenon DEF Decisions
  <2> QED BY <2>1, <2>2, <2>3
<1> QED BY <1>3

\* What the last statement makes of the opinions and of Lifted.
LEMMA LastStatement ==
    ASSUME TypeOK, NEW x \in Openings \cup Rules, said' = Append(said, x),
           NEW n, n = Len(said) + 1
    PROVE  /\ x.effect = "none" => /\ Opinions' = Opinions
                                   /\ \A i \in Opinions : said'[i] = said[i]
                                   /\ Lifted' <=> Lifted
           /\ x.effect # "none" =>
                /\ n \in Opinions' /\ said'[n].effect = x.effect
                /\ \A j \in Opinions' : j <= n
                /\ Lifted' <=> /\ x.effect # "deny"
                               /\ \/ Lifted \/ x.loosen \/ n = 1
                                  \/ x.effect = "approval_required"
<1>1. /\ DOMAIN said = 1..Len(said) /\ Len(said) \in Nat
      /\ DOMAIN said' = 1..n /\ said'[n] = x
      /\ \A i \in 1..Len(said) : said'[i] = said[i]
  BY AppendFacts DEF TypeOK
<1>2. /\ Opinions \subseteq 1..Len(said)
      /\ \A i \in 1..Len(said) : i \in Opinions' <=> i \in Opinions
      /\ n \in Opinions' <=> x.effect # "none"
      /\ Opinions' \subseteq 1..Len(said) \cup {n}
  BY <1>1 DEF Opinions
<1>3. \A i \in Opinions : i < n /\ n \notin Opinions /\ i \in Nat
  BY <1>1, <1>2
<1>4. \A i \in Opinions : Lifting(i)' <=> Lifting(i)
  BY <1>1, <1>2 DEF Lifting, HasLeave, PassesWithoutLeave
<1>5. CASE x.effect = "none"
  <2>1. Opinions' = Opinions
    BY <1>1, <1>2, <1>5
  <2>2. \A i \in Opinions : said'[i] = said[i]
    BY <1>1, <1>2
  <2>3. Lifted' <=> Lifted
    BY <1>4, <2>1, <2>2, Zenon DEF Lifted
  <2> QED BY <1>5, <2>1, <2>2, <2>3
<1>6. CASE x.effect # "none"
  <2>1. Opinions' = Opinions \cup {n}
    BY <1>1, <1>2, <1>6
  <2>2. \A i \in Opinions : said'[i] = said[i]
    BY <1>1, <1>2
  <2>3. \A j \in Opinions' : j <= n
    BY <1>1, <1>3, <2>1
  <2>4. CASE x.effect = "deny"
    <3>1. ~Lifted'
      <4>1. SUFFICES ASSUME NEW i \in Opinions', said'[n].effect = "deny" => n < i PROVE FALSE
        BY <2>1 DEF Lifted
      <4> QED BY <1>1, <1>2, <2>4, <4>1
    <3> QED BY <1>1, <1>2, <1>6, <2>3, <2>4, <3>1
  <2>5. CASE x.effect # "deny"
    <3>1. Lifting(n)' <=> x.loosen \/ n = 1 \/ x.effect = "approval_required"
      BY <1>1, <2>5 DEF Lifting, HasLeave, PassesWithoutLeave
    <3>2. Lifted => Lifted'
      <4>1. SUFFICES ASSUME NEW i \in Opinions, Lifting(i),
                            \A j \in Opinions : said[j].effect = "deny" => j < i
                     PROVE  Lifted'
        BY DEF Lifted
      <4>2. \A j \in Opinions' : said'[j].effect = "deny" => j < i
        BY <1>1, <2>1, <2>2, <2>5, <4>1
      <4>3. i \in Opinions' /\ Lifting(i)'
        BY <1>4, <2>1, <4>1
      <4> QED BY <4>2, <4>3 DEF Lifted
    <3>3. Lifting(n)' => Lifted'
      <4>1. \A j \in Opinions' : said'[j].effect = "deny" => j < n
        BY <1>1, <1>3, <2>1, <2>5
      <4> QED BY <2>1, <4>1 DEF Lifted
    <3>4. Lifted' => Lifted \/ Lifting(n)'
      <4>1. SUFFICES ASSUME NEW i \in Opinions', Lifting(i)', i # n,
                            \A j \in Opinions' : said'[j].effect = "deny" => j < i
                     PROVE  Lifted
        BY DEF Lifted
      <4>2. i \in Opinions /\ Lifting(i)
        BY <1>4, <2>1, <4>1
      <4>3. \A j \in Opinions : said[j].effect = "deny" => j < i
        BY <2>1, <2>2, <4>1
      <4> QED BY <4>2, <4>3 DEF Lifted
    <3>5. Lifted' <=> Lifted \/ x.loosen \/ n = 1 \/ x.effect = "approval_required"
      BY <3>1, <3>2, <3>3, <3>4
    <3> QED BY <1>1, <1>2, <1>6, <2>3, <2>5, <3>5
  <2> QED BY <2>4, <2>5
<1> QED BY <1>5, <1>6

-----------------------------------------------------------------------------
(* The steps preserve the invariant. *)

\* Where a deny was lifted, the last opinion is no deny.
LEMMA LiftedIsNoDeny ==
    ASSUME TypeOK, Lifted, NEW i \in Opinions, IsLast(i)
    PROVE  said[i].effect # "deny"
<1>1. Opinions \subseteq Nat
  BY AppendFacts DEF TypeOK, Opinions
<1>2. PICK k \in Opinions : \A j \in Opinions : said[j].effect = "deny" => j < k
  BY DEF Lifted
<1>3. k <= i
  BY DEF IsLast
<1> QED BY <1>1, <1>2, <1>3

\* An opinion that lifts, or finds no deny, has the word; one that is held back
\* leaves the deny that is there.
LEMMA EffectiveAfter ==
    ASSUME Inv, ~hard, ~approval, NEW x \in Openings \cup Rules,
           said' = Append(said, x),
           effective' = IF x.effect = "none" \/ (said # <<>> /\ effective = "deny"
                                                 /\ x.effect = "allow" /\ ~x.loosen)
                        THEN effective ELSE x.effect
    PROVE  EffectiveTells'
<1> PICK n : n = Len(said) + 1
  OBVIOUS
<1>0. TypeOK /\ EffectiveTells
  BY DEF Inv
<1>1. (n = 1 <=> said = <<>>) /\ x.loosen \in BOOLEAN /\ x.effect \in Effects \cup {"none"}
  <2>1. n = 1 <=> said = <<>>
    BY <1>0, AppendFacts DEF TypeOK
  <2>2. x.loosen \in BOOLEAN /\ x.effect \in Effects \cup {"none"}
    BY DEF Openings, Rules
  <2> QED BY <2>1, <2>2
<1>2. CASE x.effect = "none"
  <2>1. Opinions' = Opinions /\ (Lifted' <=> Lifted)
        /\ \A i \in Opinions : said'[i] = said[i]
    BY <1>0, <1>2, LastStatement
  <2>2. effective' = effective
    BY <1>2, Zenon
  <2> QED BY <1>0, <2>1, <2>2 DEF EffectiveTells, IsLast
<1>3. CASE x.effect # "none"
  <2>1. /\ n \in Opinions' /\ said'[n].effect = x.effect
        /\ IsLast(n)'
        /\ Lifted' <=> /\ x.effect # "deny"
                       /\ \/ Lifted \/ x.loosen \/ n = 1
                          \/ x.effect = "approval_required"
    BY <1>0, <1>3, LastStatement DEF IsLast
  <2>2. CASE said # <<>> /\ effective = "deny" /\ x.effect = "allow" /\ ~x.loosen
    <3>1. ~Lifted
      BY <1>0, <2>2, LiftedIsNoDeny DEF EffectiveTells
    <3>2. ~Lifted' /\ effective' = "deny"
      BY <1>1, <2>1, <2>2, <3>1
    <3> QED BY <3>2 DEF EffectiveTells
  <2>3. CASE ~(said # <<>> /\ effective = "deny" /\ x.effect = "allow" /\ ~x.loosen)
    <3>1. effective' = x.effect
      BY <1>3, <2>3
    <3>2. CASE x.effect = "deny"
      BY <2>1, <3>1, <3>2 DEF EffectiveTells
    <3>3. CASE x.effect # "deny"
      <4>1. effective # "deny" => Lifted
        BY <1>0 DEF EffectiveTells
      <4>2. Lifted'
        BY <1>1, <1>3, <2>1, <2>3, <3>3, <4>1 DEF Effects
      <4> QED BY <2>1, <3>1, <4>2 DEF EffectiveTells
    <3> QED BY <3>2, <3>3
  <2> QED BY <2>2, <2>3
<1> QED BY <1>2, <1>3

LEMMA InitInv == Init => Inv
<1> SUFFICES ASSUME Init PROVE Inv
  OBVIOUS
<1>1. TypeOK
  <2>1. <<>> \in Seq(Openings \cup Rules)
    OBVIOUS
  <2> QED BY <2>1 DEF Init, TypeOK, Effects
<1>2. Decisions = {} /\ Opinions = {}
  <2>1. said = <<>> /\ DOMAIN said = {}
    BY DEF Init
  <2> QED BY <2>1, Zenon DEF Decisions, Opinions
<1>3. FlagsTell /\ EffectiveTells
  BY <1>2 DEF Init, FlagsTell, EffectiveTells, Lifted
<1> QED BY <1>1, <1>3 DEF Init, Inv, LayersTell, VerdictTells

LEMMA OpenLayerInv ==
    ASSUME Inv, verdict = "none", NEW d \in Effects \cup {"none"}, NEW l \in BOOLEAN, OpenLayer(d, l)
    PROVE  Inv'
<1> DEFINE x == [rule |-> FALSE, effect |-> d, loosen |-> l]
<1>1. x \in Openings \cup Rules /\ ~x.rule /\ x.effect = d /\ x.loosen = l
  BY DEF Openings
<1> HIDE DEF x
<1>2. said' = Append(said, x) /\ TypeOK
  BY DEF Inv, OpenLayer, x
<1>3. UNCHANGED <<hard, approval, verdict>> /\ layers' = layers + 1
  BY DEF OpenLayer
<1>4. TypeOK'
  <2>1. said' \in Seq(Openings \cup Rules)
    BY <1>1, <1>2, AppendFacts DEF TypeOK
  <2>2. effective' \in Effects
    BY DEF Inv, TypeOK, OpenLayer, Effects
  <2> QED BY <1>2, <1>3, <2>1, <2>2 DEF TypeOK
<1>5. FlagsTell'
  BY <1>1, <1>2, <1>3, DecisionsAfter DEF Inv, FlagsTell
<1>6. EffectiveTells'
  <2>1. said # <<>> <=> layers > 0
    BY DEF Inv, LayersTell, TypeOK
  <2>2. effective' = IF x.effect = "none" \/ (said # <<>> /\ effective = "deny"
                                             /\ x.effect = "allow" /\ ~x.loosen)
                     THEN effective ELSE x.effect
    BY <1>1, <2>1 DEF OpenLayer
  <2>3. CASE ~hard /\ ~approval
    BY <1>1, <1>2, <2>2, <2>3, EffectiveAfter
  <2>4. CASE hard \/ approval
    BY <1>3, <2>4 DEF EffectiveTells
  <2> QED BY <2>3, <2>4
<1>7. LayersTell'
  <2>1. layers \in Nat /\ said' # <<>> /\ said'[1] = IF said = <<>> THEN x ELSE said[1]
    BY <1>1, <1>2, AppendFacts DEF TypeOK
  <2>2. ~said'[1].rule
    BY <1>1, <2>1 DEF Inv, LayersTell
  <2> QED BY <1>3, <2>1, <2>2 DEF LayersTell
<1>8. VerdictTells'
  BY <1>3 DEF VerdictTells
<1> QED BY <1>4, <1>5, <1>6, <1>7, <1>8 DEF Inv

LEMMA MatchInv ==
    ASSUME Inv, verdict = "none", NEW e \in Effects, Match(e)
    PROVE  Inv'
<1> DEFINE x == [rule |-> TRUE, effect |-> e, loosen |-> CanLoosen]
<1>0. TypeOK /\ layers > 0 /\ said # <<>>
  BY DEF Inv, LayersTell, Match
<1>1. x \in Openings \cup Rules /\ x.rule /\ x.effect = e /\ x.loosen = CanLoosen
  <2>1. Len(said) \in DOMAIN said
    BY <1>0, AppendFacts DEF TypeOK
  <2>2. said[Len(said)] \in Openings \cup Rules
    BY <1>0, <2>1 DEF TypeOK
  <2>3. CanLoosen \in BOOLEAN
    BY <2>2 DEF CanLoosen, Openings, Rules
  <2> QED BY <2>3 DEF Rules
<1> HIDE DEF x
<1>2. said' = Append(said, x)
  BY DEF Match, x
<1>3. UNCHANGED <<layers, verdict>>
  BY DEF Match
<1>4. \A f : f \in Decisions' <=> f \in Decisions \/ f = e
  BY <1>0, <1>1, <1>2, DecisionsAfter
<1>5. said' \in Seq(Openings \cup Rules)
  BY <1>0, <1>1, <1>2, AppendFacts DEF TypeOK
<1>6. LayersTell'
  <2>1. said' # <<>> /\ said'[1] = said[1]
    BY <1>0, <1>1, <1>2, AppendFacts DEF TypeOK
  <2> QED BY <1>0, <1>3, <2>1 DEF Inv, LayersTell
<1>7. VerdictTells'
  BY <1>3 DEF VerdictTells
<1>8. CASE e = "deny" /\ MatchDeny
  <2>1. TypeOK'
    BY <1>0, <1>3, <1>5, <1>8 DEF TypeOK, MatchDeny, Effects
  <2>2. FlagsTell'
    BY <1>4, <1>8 DEF Inv, FlagsTell, MatchDeny
  <2>3. EffectiveTells'
    BY <1>8 DEF MatchDeny, EffectiveTells
  <2> QED BY <1>6, <1>7, <2>1, <2>2, <2>3 DEF Inv
<1>9. CASE e = "approval_required" /\ MatchApproval
  <2>1. TypeOK'
    BY <1>0, <1>3, <1>5, <1>9 DEF TypeOK, MatchApproval, Effects
  <2>2. FlagsTell'
    BY <1>4, <1>9 DEF Inv, FlagsTell, MatchApproval
  <2>3. EffectiveTells'
    BY <1>9 DEF MatchApproval, EffectiveTells
  <2> QED BY <1>6, <1>7, <2>1, <2>2, <2>3 DEF Inv
<1>10. CASE e = "allow" /\ MatchAllow
  <2>1. TypeOK'
    BY <1>0, <1>3, <1>5, <1>10 DEF TypeOK, MatchAllow, Effects
  <2>2. FlagsTell'
    BY <1>4, <1>10 DEF Inv, FlagsTell, MatchAllow
  <2>3. CASE ~hard /\ ~approval
    <3>1. effective' = IF x.effect = "none" \/ (said # <<>> /\ effective = "deny"
                                               /\ x.effect = "allow" /\ ~x.loosen)
                       THEN effective ELSE x.effect
      BY <1>0, <1>1, <1>10 DEF MatchAllow
    <3>2. EffectiveTells'
      BY <1>1, <1>2, <2>3, <3>1, EffectiveAfter
    <3> QED BY <1>6, <1>7, <2>1, <2>2, <3>2 DEF Inv
  <2>4. CASE hard \/ approval
    <3>1. EffectiveTells'
      BY <1>10, <2>4 DEF MatchAllow, EffectiveTells
    <3> QED BY <1>6, <1>7, <2>1, <2>2, <3>1 DEF Inv
  <2> QED BY <2>3, <2>4
<1> QED BY <1>8, <1>9, <1>10 DEF Match

LEMMA ConcludeInv ==
    ASSUME Inv, Conclude
    PROVE  Inv'
<1>1. UNCHANGED <<said, layers, effective, hard, approval>>
  BY DEF Conclude
<1>2. TypeOK' /\ VerdictTells'
  BY <1>1 DEF Conclude, Inv, TypeOK, VerdictTells, Effects
<1>3. Decisions' = Decisions /\ Opinions' = Opinions /\ (Lifted' <=> Lifted)
  BY <1>1 DEF Decisions, Opinions, Lifted, Lifting, HasLeave, PassesWithoutLeave
<1>4. FlagsTell' /\ LayersTell'
  BY <1>1, <1>3 DEF Inv, FlagsTell, LayersTell
<1>5. EffectiveTells'
  BY <1>1, <1>3 DEF Inv, EffectiveTells, IsLast
<1> QED BY <1>2, <1>4, <1>5 DEF Inv

\* The invariant holds throughout.
THEOREM PolicyInv == Spec => []Inv
<1>1. Inv /\ [Next]_vars => Inv'
  <2> SUFFICES ASSUME Inv, [Next]_vars PROVE Inv'
    OBVIOUS
  <2>1. ASSUME NEW d \in Effects \cup {"none"}, NEW l \in BOOLEAN, verdict = "none", OpenLayer(d, l)
        PROVE  Inv'
    BY <2>1, OpenLayerInv
  <2>2. ASSUME NEW e \in Effects, verdict = "none", Match(e) PROVE Inv'
    BY <2>2, MatchInv
  <2>3. CASE Conclude
    BY <2>3, ConcludeInv
  <2>4. CASE UNCHANGED vars
    <3>1. Decisions' = Decisions /\ Opinions' = Opinions /\ (Lifted' <=> Lifted)
      BY <2>4 DEF vars, Decisions, Opinions, Lifted, Lifting, HasLeave, PassesWithoutLeave
    <3>2. TypeOK' /\ VerdictTells' /\ FlagsTell' /\ LayersTell'
      BY <2>4, <3>1 DEF vars, Inv, TypeOK, VerdictTells, FlagsTell, LayersTell
    <3>3. EffectiveTells'
      BY <2>4, <3>1 DEF vars, Inv, EffectiveTells, IsLast
    <3> QED BY <3>2, <3>3 DEF Inv
  <2> QED BY <2>1, <2>2, <2>3, <2>4 DEF Next
<1> QED BY <1>1, InitInv, PTL DEF Spec

-----------------------------------------------------------------------------
(* What follows. *)

\* The engine's state has its types (policy-engine.ts evaluate).
THEOREM PolicyTypes == Spec => []TypeOK
<1>1. Inv => TypeOK
  BY DEF Inv
<1> QED BY <1>1, PolicyInv, PTL

\* evaluate's one pass with its flags and exits gives the answer the statements define.
THEOREM PassIsClosedForm == Spec => []AgreesWithClosedForm
<1>1. ASSUME Inv PROVE AgreesWithClosedForm
  <2> SUFFICES ASSUME verdict # "none" PROVE verdict = ClosedForm
    BY DEF AgreesWithClosedForm
  <2>1. verdict = IF hard THEN "deny" ELSE IF approval THEN "approval_required" ELSE effective
    BY <1>1 DEF Inv, VerdictTells
  <2>2. FlagsTell /\ EffectiveTells /\ TypeOK
    BY <1>1 DEF Inv
  <2>3. CASE hard \/ approval
    BY <2>1, <2>2, <2>3 DEF FlagsTell, ClosedForm
  <2>4. CASE ~hard /\ ~approval
    <3>1. "deny" \notin Decisions /\ "approval_required" \notin Decisions /\ verdict = effective
      BY <2>1, <2>2, <2>4 DEF FlagsTell
    <3>2. CASE Lifted
      <4>1. PICK i \in Opinions : IsLast(i) /\ effective = said[i].effect
        BY <2>2, <2>4, <3>2 DEF EffectiveTells
      <4>2. Opinions \subseteq Nat
        BY <2>2, AppendFacts DEF TypeOK, Opinions
      <4>3. (CHOOSE k \in Opinions : \A j \in Opinions : j <= k) = i
        <5>1. \A k \in Opinions : (\A j \in Opinions : j <= k) => k = i
          BY <4>1, <4>2 DEF IsLast
        <5> QED BY <4>1, <5>1 DEF IsLast
      <4>4. ClosedForm = said[CHOOSE k \in Opinions : \A j \in Opinions : j <= k].effect
        BY <3>1, <3>2, Zenon DEF ClosedForm, Lifted
      <4> QED BY <3>1, <4>1, <4>3, <4>4
    <3>3. CASE ~Lifted
      <4>1. ClosedForm = "deny"
        BY <3>1, <3>3, Zenon DEF ClosedForm, Lifted
      <4> QED BY <2>2, <2>4, <3>1, <3>3, <4>1 DEF EffectiveTells
    <3> QED BY <3>2, <3>3
  <2> QED BY <2>3, <2>4
<1> QED BY <1>1, PolicyInv, PTL

\* Where no default and no rule wants approval, loosening needs leave as documented
\* (AllowNeedsLeave): approval_required is the only way around it (policy-engine.ts
\* evaluate, the guard of the defaults).
THEOREM LooseningNeedsLeave ==
    Spec => []((\A i \in DOMAIN said : said[i].effect # "approval_required") => AllowNeedsLeave)
<1>1. ASSUME Inv, \A i \in DOMAIN said : said[i].effect # "approval_required" PROVE AllowNeedsLeave
  <2> SUFFICES ASSUME verdict = "allow", NEW d \in DOMAIN said, said[d].effect = "deny"
               PROVE  \E j \in DOMAIN said : d < j /\ said[j].loosen
    BY DEF AllowNeedsLeave
  <2>1. verdict = IF hard THEN "deny" ELSE IF approval THEN "approval_required" ELSE effective
    BY <1>1 DEF Inv, VerdictTells
  <2>2. Lifted
    BY <1>1, <2>1 DEF Inv, EffectiveTells
  <2>3. DOMAIN said \subseteq Nat \ {0}
    BY <1>1, AppendFacts DEF Inv, TypeOK
  <2>4. PICK i \in Opinions : Lifting(i) /\ \A j \in Opinions : said[j].effect = "deny" => j < i
    BY <2>2 DEF Lifted
  <2>5. d \in Opinions /\ i \in DOMAIN said
    BY DEF Opinions
  <2>6. d < i /\ i # 1
    BY <2>3, <2>4, <2>5
  <2>7. said[i].loosen
    BY <1>1, <2>4, <2>5, <2>6 DEF Lifting, HasLeave, PassesWithoutLeave
  <2> QED BY <2>5, <2>6, <2>7
<1> QED BY <1>1, PolicyInv, PTL

\* A rule that denies is final, whatever later layers say (policy-engine.ts hasHardDeny).
THEOREM DenyIsFinal == Spec => []DenyWins
<1>1. Inv => DenyWins
  BY DEF Inv, FlagsTell, VerdictTells, DenyWins
<1> QED BY <1>1, PolicyInv, PTL

\* A tool call gets the engine's answer, although it looks at the decisions one by one
\* (toPolicyHookDecisions, evaluateAccess).
THEOREM CallsGetTheVerdict == Spec => []AccessAgrees
<1>1. ASSUME Inv PROVE AccessAgrees
  <2> SUFFICES ASSUME verdict # "none" PROVE Access("allow") = verdict /\ Access("deny") = "deny"
    BY DEF AccessAgrees
  <2>1. FlagsTell /\ VerdictTells /\ TypeOK
    BY <1>1 DEF Inv
  <2>2. verdict \in Effects
    BY <2>1 DEF TypeOK
  <2>3. "deny" \in Decisions => verdict = "deny"
    BY <2>1 DEF FlagsTell, VerdictTells
  <2>4. "approval_required" \in Decisions => verdict \in {"deny", "approval_required"}
    BY <2>1 DEF FlagsTell, VerdictTells
  <2>5. "deny" \in HookDecisions <=> verdict = "deny"
    BY <2>3 DEF HookDecisions
  <2>6. verdict # "deny" => ("approval_required" \in HookDecisions <=> verdict = "approval_required")
    BY <2>4 DEF HookDecisions
  <2>7. Access("allow") = verdict
    BY <2>2, <2>5, <2>6 DEF Access, Effects
  <2>8. Access("deny") = "deny"
    BY DEF Access
  <2> QED BY <2>7, <2>8
<1> QED BY <1>1, PolicyInv, PTL
=============================================================================
