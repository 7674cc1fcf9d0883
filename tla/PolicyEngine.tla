----------------------------- MODULE PolicyEngine -----------------------------
(***************************************************************************)
(* PolicyEngine.evaluate and what the kernel does with its answer: the     *)
(* layers, sorted, are gone through statement by statement, a layer's      *)
(* default first and then the rules of it that match.  Whether a rule's    *)
(* trigger and condition match is the context's choice: only the matching  *)
(* rules appear.                                                           *)
(***************************************************************************)
EXTENDS Naturals, Sequences

CONSTANTS MaxLayers,    \* bound: layers
          MaxSaid       \* bound: statements

ASSUME PolicyAssumption == MaxLayers \in Nat /\ MaxSaid \in Nat

VARIABLES
    said,       \* the statements so far: layers' openings and rules
    layers,     \* how many layers have been opened
    effective,  \* effectiveDecision
    hard,       \* hasHardDeny
    approval,   \* hasApprovalRequired
    verdict     \* the final decision, or "none"

vars == <<said, layers, effective, hard, approval, verdict>>

Effects == {"allow", "deny", "approval_required"}

\* A layer's opening says its default, if it has one, and whether it may loosen.
Openings == [rule : {FALSE}, effect : Effects \cup {"none"}, loosen : BOOLEAN]

\* A rule has its layer's leave to loosen.
Rules == [rule : {TRUE}, effect : Effects, loosen : BOOLEAN]

CanLoosen == said[Len(said)].loosen

\* The effects of the rules that matched.
Decisions == {said[i].effect : i \in {j \in DOMAIN said : said[j].rule}}

-----------------------------------------------------------------------------
\* Mutation of OpenLayer: a default may loosen without leave.
OpenLayerLoosely(d, l) ==
    /\ layers < MaxLayers
    /\ effective' = IF d # "none" THEN d ELSE effective
    /\ said' = Append(said, [rule |-> FALSE, effect |-> d, loosen |-> l])
    /\ layers' = layers + 1
    /\ UNCHANGED <<hard, approval, verdict>>

\* A default replaces the effective decision, except that one of allow needs leave
\* to replace a deny that an earlier layer has left.
OpenLayer(d, l) ==
    /\ layers < MaxLayers
    /\ effective' = IF d = "none" \/ (layers > 0 /\ effective = "deny" /\ d = "allow" /\ ~l)
                    THEN effective ELSE d
    /\ said' = Append(said, [rule |-> FALSE, effect |-> d, loosen |-> l])
    /\ layers' = layers + 1
    /\ UNCHANGED <<hard, approval, verdict>>

\* Mutation of MatchDeny: a deny rule is not remembered.
MatchDenySoftly ==
    /\ effective' = "deny"
    /\ UNCHANGED <<hard, approval>>

MatchDeny ==
    /\ effective' = "deny" /\ hard' = TRUE
    /\ UNCHANGED approval

MatchApproval ==
    /\ effective' = IF effective # "deny" \/ CanLoosen THEN "approval_required" ELSE effective
    /\ approval' = TRUE
    /\ UNCHANGED hard

MatchAllow ==
    /\ effective' = IF effective # "deny" \/ CanLoosen THEN "allow" ELSE effective
    /\ UNCHANGED <<hard, approval>>

Match(e) ==
    /\ layers > 0
    /\ \/ e = "deny" /\ MatchDeny
       \/ e = "approval_required" /\ MatchApproval
       \/ e = "allow" /\ MatchAllow
    /\ said' = Append(said, [rule |-> TRUE, effect |-> e, loosen |-> CanLoosen])
    /\ UNCHANGED <<layers, verdict>>

Conclude ==
    /\ verdict' = IF hard THEN "deny"
                  ELSE IF approval THEN "approval_required" ELSE effective
    /\ UNCHANGED <<said, layers, effective, hard, approval>>

Init ==
    /\ said = <<>> /\ layers = 0
    /\ effective = "deny" /\ hard = FALSE /\ approval = FALSE
    /\ verdict = "none"

Next ==
    /\ verdict = "none"
    /\ \/ /\ Len(said) < MaxSaid
          /\ \/ \E d \in Effects \cup {"none"}, l \in BOOLEAN : OpenLayer(d, l)
             \/ \E e \in Effects : Match(e)
       \/ Conclude

Spec == Init /\ [][Next]_vars

-----------------------------------------------------------------------------
(* What a tool call makes of the answer. *)

\* Mutation of HookDecisions: a decision that no rule has made is added only when
\* there are no rules.
HookDecisionsOfRules == IF Decisions = {} THEN {verdict} ELSE Decisions

\* toPolicyHookDecisions: the rules' decisions, and the final one if they do not
\* show it.
HookDecisions ==
    IF Decisions = {} \/ verdict \in {"deny", "approval_required"}
    THEN Decisions \cup {verdict} ELSE Decisions

\* evaluateAccess after the hook; builtin is the decision of the builtin hook.
Access(builtin) ==
    LET decisions == IF builtin = "deny" THEN {builtin} ELSE {builtin} \cup HookDecisions
    IN  IF "deny" \in decisions THEN "deny"
        ELSE IF "approval_required" \in decisions THEN "approval_required" ELSE "allow"

-----------------------------------------------------------------------------
(* What the answer is, and what it should be. *)

TypeOK ==
    /\ said \in Seq(Openings \cup Rules) /\ layers \in Nat
    /\ effective \in Effects /\ hard \in BOOLEAN /\ approval \in BOOLEAN
    /\ verdict \in Effects \cup {"none"}

\* The statements that matter when no rule denies or wants approval: defaults and
\* the rules that allow.
Opinions == {i \in DOMAIN said : said[i].effect # "none"}

\* A statement with leave to take an inherited deny away: its layer may loosen, or it
\* is the very first default and inherits none.
HasLeave(i) == said[i].loosen \/ i = 1

\* What the code lets pass besides: a default of approval_required replaces a deny
\* whatever its layer's leave, and since the effective decision is then no deny any
\* more, later layers need no leave either.  The documents say otherwise: the run
\* policy_loosening shows it with AllowNeedsLeave.
PassesWithoutLeave(i) == said[i].effect = "approval_required"

Lifting(i) == said[i].effect # "deny" /\ (HasLeave(i) \/ PassesWithoutLeave(i))

\* The code's answer as a function of the whole of the statements.  Without rules that
\* deny or want approval it is deny unless a statement after the last deny lifts it;
\* then the last word counts.  A rule that wants approval decides over any default of
\* deny, and its layer needs no leave for that.
ClosedForm ==
    IF "deny" \in Decisions THEN "deny"
    ELSE IF "approval_required" \in Decisions THEN "approval_required"
    ELSE IF \E i \in Opinions : Lifting(i) /\ \A j \in Opinions : said[j].effect = "deny" => j < i
         THEN said[CHOOSE i \in Opinions : \A j \in Opinions : j <= i].effect
         ELSE "deny"

\* The one pass over layers and rules, with its flags and its early exits, comes to
\* that answer: nothing but the statements' kinds, their order and their leave counts.
AgreesWithClosedForm == verdict # "none" => verdict = ClosedForm

\* What the documents promise: a layer "can only tighten (deny), not loosen, unless
\* explicitly granted allow_loosening".  What is allowed after a default or a rule of
\* deny has leave for it.
AllowNeedsLeave ==
    verdict = "allow" =>
        \A i \in DOMAIN said : said[i].effect = "deny" => \E j \in DOMAIN said : i < j /\ said[j].loosen

\* A rule that denies is final: whatever later rules, defaults and layers with
\* leave to loosen say, the answer is deny.
DenyWins == verdict # "none" /\ "deny" \in Decisions => verdict = "deny"

\* A tool call, which looks at the decisions one by one and not at the final one,
\* is allowed, held or denied as the final decision says, unless a builtin denies it.
AccessAgrees ==
    verdict # "none" => Access("allow") = verdict /\ Access("deny") = "deny"
=============================================================================
