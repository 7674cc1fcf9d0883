----------------------------- MODULE MCWorkUnits -----------------------------
(* Two agents of one clone and one of another, at most two commands at a time.  *)
EXTENDS WorkUnits, TLC

CONSTANTS a1, a2, a3, w1, w2

MCAgents == {a1, a2, a3}
MCWUs == {w1, w2}
MCHome == [a \in MCAgents |-> IF a = a3 THEN "c2" ELSE "c1"]
MCClones == {"c1", "c2"}
Sym == Permutations({a1, a2}) \cup Permutations(MCWUs)
=============================================================================
