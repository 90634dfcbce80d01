------------------------------- MODULE Relay -------------------------------
(***************************************************************************)
(* What an outbox promises its producers: an event that was recorded is    *)
(* delivered at least once and only then retired, and every recorded event *)
(* is retired in the end.                                                  *)
(***************************************************************************)
CONSTANT Events

VARIABLES recorded, delivered, retired

vars == <<recorded, delivered, retired>>

Init == recorded = {} /\ delivered = {} /\ retired = {}

Record(e) ==
  /\ e \in Events \ recorded
  /\ recorded' = recorded \cup {e}
  /\ UNCHANGED <<delivered, retired>>

Deliver(e) ==
  /\ e \in recorded \ retired
  /\ delivered' = delivered \cup {e}
  /\ UNCHANGED <<recorded, retired>>

Retire(e) ==
  /\ e \in delivered \ retired
  /\ retired' = retired \cup {e}
  /\ UNCHANGED <<recorded, delivered>>

Next == \E e \in Events : Record(e) \/ Deliver(e) \/ Retire(e)

(* An event already on record waits for nothing else to be delivered. *)
Fairness ==
  \A e \in Events : WF_vars(Deliver(e) /\ e \notin delivered) /\ WF_vars(Retire(e))

Safety == Init /\ [][Next]_vars
Spec   == Safety /\ Fairness
=============================================================================
