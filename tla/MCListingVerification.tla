----------------------- MODULE MCListingVerification -----------------------
EXTENDS ListingVerification, FiniteSets, TLC

CONSTANTS w1, w2, o1, o2

(* Bounds: handlers that follow one another have every constant to use; once  *)
(* two have overlapped, one request, two editions, one case and two           *)
(* disturbances are enough to mix the columns of a row.                       *)
Explored ==
  \/ Free({"overlap"})
  \/ /\ Cardinality(Raised) <= 1
     /\ listing.edition <= 2
     /\ cases <= 1
     /\ disturbed["overlap"] + disturbed["death"] + disturbed["case"] <= 2

(* Officers and workers are interchangeable. *)
MCSymmetry == Permutations({o1, o2}) \cup Permutations({w1, w2})
=============================================================================
