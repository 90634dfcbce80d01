-------------------------- MODULE MCMatchLifecycle --------------------------
EXTENDS MatchLifecycle, TLC

CONSTANTS w1, w2, bride, groom, rival

(* The couple can write to each other; the rival only to the bride. *)
MCPairs == {<<groom, bride>>, <<bride, groom>>, <<rival, bride>>}

(* One interest: columns mix within a row. *)
MCOnePair == {<<groom, bride>>}

(* Bounds: all three interests meet while at most one handler was cut off; an *)
(* answer to an ended interest, and what follows it, concerns at most two.    *)
Explored ==
  \/ disturbed["revival"] = 0 /\ disturbed["death"] <= 1
  \/ Sent # Pairs

MCSymmetry == Permutations({w1, w2})
=============================================================================
