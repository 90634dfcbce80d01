-------------------------- MODULE CapacityPromise --------------------------
(***************************************************************************)
(* What a published window promises the families that book it: it has a    *)
(* capacity, a place is taken only while one is left, and the provider     *)
(* never shrinks the window below the places already taken.                *)
(***************************************************************************)
EXTENDS Naturals, FiniteSets

CONSTANTS
  Bookings,     \* the bookings that ask for the window
  MaxCapacity   \* what one window may take at most

VARIABLES
  capacity,     \* places on sale, none once the window is withdrawn
  holders       \* the bookings that hold a place

promise == <<capacity, holders>>

Init ==
  /\ capacity \in 1..MaxCapacity
  /\ holders = {}

Take(b) ==
  /\ b \notin holders
  /\ Cardinality(holders) < capacity
  /\ holders' = holders \cup {b}
  /\ UNCHANGED capacity

GiveBack(b) ==
  /\ b \in holders
  /\ holders' = holders \ {b}
  /\ UNCHANGED capacity

Resize(n) ==
  /\ Cardinality(holders) <= n
  /\ capacity' = n
  /\ UNCHANGED holders

Next ==
  \/ \E b \in Bookings : Take(b) \/ GiveBack(b)
  \/ \E n \in 0..MaxCapacity : Resize(n)

Spec == Init /\ [][Next]_promise
=============================================================================
