------------------------ MODULE MCAvailabilityWindow ------------------------
(* AvailabilityWindow with the small sets TLC explores. *)
EXTENDS AvailabilityWindow, TLC

CONSTANTS w1, w2, b1, b2, b3

TwoWorkers    == {w1, w2}
ThreeBookings == {b1, b2, b3}

Symmetry == Permutations(Workers) \cup Permutations(Bookings)
=============================================================================
