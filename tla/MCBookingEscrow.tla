-------------------------- MODULE MCBookingEscrow --------------------------
(* BookingEscrow with the small sets TLC explores. *)
EXTENDS BookingEscrow, TLC

CONSTANTS w1, w2, c1

(* One worker serves the requests one after another, two interleave them. *)
OneWorker  == {w1}
TwoWorkers == {w1, w2}
NoCases    == {}
OneCase    == {c1}

Everything == AllOps \cup {"request_settlement", "close", "reopen", "payout_account"}

(* What two instalments can reach: without the balance nothing completes. *)
Racing == PayoutOps \cup {"pay", "start_work", "complete_work", "cancel", "payout_account"}

(* Raising and deciding a case while the booking goes on. *)
Disputes == {"pay", "start_work", "raise", "decide", "cancel"}

(* Work is started and released for while a case is raised: nobody cancels. *)
Releases == {"pay", "start_work", "raise", "decide"}

(* One unit of an instalment of two, and more than the instalment. *)
SettledShares == {1, 3}

Symmetry == Permutations(Workers)
=============================================================================
