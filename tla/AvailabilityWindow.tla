------------------------- MODULE AvailabilityWindow -------------------------
(***************************************************************************)
(* One window of a provider's calendar and the bookings that ask for it.   *)
(*                                                                         *)
(* Asking and accepting change the window's counters in a transaction that *)
(* holds its row. Cancelling, re-sizing, blocking and deleting read the    *)
(* window, decide, and save what they read, with no lock: each is a small  *)
(* process of a load and a save. The booking itself is read before any     *)
(* transaction begins, by every operation.                                 *)
(*                                                                         *)
(* UnlockedRunAlone states under which overlap the counters can be         *)
(* trusted: when it is TRUE a request that takes no lock overlaps nothing, *)
(* while the locked ones still overlap each other. The program itself      *)
(* gives no such guarantee; FALSE is what it does.                         *)
(***************************************************************************)
EXTENDS Naturals, FiniteSets

CONSTANTS
  Workers,            \* the requests that can be in flight at once
  Bookings,           \* the bookings that can ever be made against the window
  NoBooking,
  MaxCapacity,        \* MAX_SLOT_CAPACITY
  UnlockedRunAlone,   \* requests without a lock overlap no other
  RequestsMayDie      \* a request may be cut off between two of its steps

ASSUME NoBookingAssumption == NoBooking \notin Bookings
ASSUME FiniteAssumption    == IsFiniteSet(Bookings)
ASSUME CapacityAssumption  == MaxCapacity \in Nat \ {0}
ASSUME OverlapAssumption   == /\ UnlockedRunAlone \in BOOLEAN
                              /\ RequestsMayDie \in BOOLEAN

VARIABLES
  window,   \* the row of vendor_availability_slots
  stage,    \* how far each booking has come
  req       \* the requests in flight

vars == <<window, stage, req>>

-----------------------------------------------------------------------------
(* "accepted" stands for every stage from the advance being payable until  *)
(* the job is over; "quoted" for a quotation waiting on the buyer.         *)

Stages == {"none", "requested", "quoted", "accepted", "cancelled"}

Open     == {b \in Bookings : stage[b] \in {"requested", "quoted"}}
Accepted == {b \in Bookings : stage[b] = "accepted"}
LiveOnes == Open \cup Accepted

Capacities == 1..MaxCapacity

Windows == [exists: BOOLEAN, blocked: BOOLEAN, capacity: Capacities,
            confirmed: Nat, pending: Nat]

Created(n) == [exists |-> TRUE, blocked |-> FALSE, capacity |-> n,
               confirmed |-> 0, pending |-> 0]

Deleted == [Created(1) EXCEPT !.exists = FALSE]

BookingOps  == {"accept", "send", "withdraw", "cancel"}
WindowOps   == {"update", "block", "unblock", "remove"}
UnlockedOps == WindowOps \cup {"cancel"}

Requests ==
  [op: BookingOps \cup WindowOps \cup {"none"},
   at: {"idle", "loaded", "saved", "releasing"},
   booking: Bookings \cup {NoBooking}, stage: Stages,
   window: Windows, capacity: Capacities]

Idle == [op |-> "none", at |-> "idle", booking |-> NoBooking, stage |-> "none",
         window |-> Deleted, capacity |-> 1]

At(w, op, step) == req[w].op = op /\ req[w].at = step

Answer(w) == req' = [req EXCEPT ![w] = Idle]

Init ==
  /\ window \in {Created(n) : n \in Capacities}
  /\ stage = [b \in Bookings |-> "none"]
  /\ req = [w \in Workers |-> Idle]

(* Whether operation op may begin next to what is in flight. *)
MayOverlap(op) ==
  UnlockedRunAlone =>
    \A v \in Workers : req[v].op \notin UnlockedOps /\ (op \in UnlockedOps => req[v].op = "none")

Free(w, op) == req[w].op = "none" /\ MayOverlap(op)

-----------------------------------------------------------------------------
(* Asking: one transaction that holds the window's row *)

HasRoom(slot) == slot.exists /\ slot.confirmed < slot.capacity

Ask(b) ==
  /\ MayOverlap("ask")
  /\ stage[b] = "none"
  /\ HasRoom(window)
  /\ ~window.blocked
  /\ window' = [window EXCEPT !.pending = @ + 1]
  /\ stage' = [stage EXCEPT ![b] = "requested"]
  /\ UNCHANGED req

-----------------------------------------------------------------------------
(* Operations on a booking: they read it, check its stage, then save it *)

Permitted(op, s) ==
  \/ op = "accept"   /\ s \in {"requested", "quoted"}
  \/ op = "send"     /\ s = "requested"
  \/ op = "withdraw" /\ s = "quoted"
  \/ op = "cancel"   /\ s \in {"requested", "quoted", "accepted"}

Load(w, op, b) ==
  /\ Free(w, op)
  /\ Permitted(op, stage[b])
  /\ req' = [req EXCEPT ![w] = [Idle EXCEPT !.op = op, !.at = "loaded",
                                            !.booking = b, !.stage = stage[b]]]
  /\ UNCHANGED <<window, stage>>

(* Slip: the request is taken off a count that has none. *)
CountedUnguarded(slot) ==
  IF slot.exists THEN [slot EXCEPT !.confirmed = @ + 1, !.pending = @ - 1] ELSE slot

(* A request becomes a confirmed place, in the window's two counters. *)
Counted(slot) ==
  IF slot.exists
    THEN [slot EXCEPT !.confirmed = @ + 1, !.pending = IF @ > 0 THEN @ - 1 ELSE 0]
    ELSE slot

(* Slip: the capacity is trusted from the request. *)
AcceptsAnyway(slot) == TRUE

(* A window that is gone refuses nobody. *)
Accepts(slot) == slot.exists => HasRoom(slot)

(* The provider or the buyer agrees to the price: the place is spent and   *)
(* the booking saved in one transaction, on the booking as it was read.    *)
Accept(w) ==
  /\ At(w, "accept", "loaded")
  /\ IF Accepts(window)
       THEN /\ window' = Counted(window)
            /\ stage' = [stage EXCEPT ![req[w].booking] = "accepted"]
       ELSE UNCHANGED <<window, stage>>
  /\ Answer(w)

(* Sending a quotation, and taking it back or declining it. *)
Quote(w) ==
  /\ \/ /\ At(w, "send", "loaded")
        /\ stage' = [stage EXCEPT ![req[w].booking] = "quoted"]
     \/ /\ At(w, "withdraw", "loaded")
        /\ stage' = [stage EXCEPT ![req[w].booking] = "requested"]
  /\ Answer(w)
  /\ UNCHANGED window

-----------------------------------------------------------------------------
(* Cancelling: the booking first, then its place, neither under a lock *)

Cancel(w) ==
  /\ At(w, "cancel", "loaded")
  /\ stage' = [stage EXCEPT ![req[w].booking] = "cancelled"]
  /\ req' = [req EXCEPT ![w].at = "saved"]
  /\ UNCHANGED window

ReleaseLoad(w) ==
  /\ At(w, "cancel", "saved")
  /\ IF window.exists
       THEN req' = [req EXCEPT ![w].at = "releasing", ![w].window = window]
       ELSE Answer(w)
  /\ UNCHANGED <<window, stage>>

(* Slip: the stage the booking was cancelled from is not asked for. *)
ReturnedAlways(slot, was) ==
  [slot EXCEPT !.confirmed = IF @ > 0 THEN @ - 1 ELSE 0,
               !.pending = IF @ > 0 THEN @ - 1 ELSE 0]

(* Which counter comes down depends on the stage the booking was left at. *)
Returned(slot, was) ==
  IF was = "accepted" THEN [slot EXCEPT !.confirmed = IF @ > 0 THEN @ - 1 ELSE 0]
                      ELSE [slot EXCEPT !.pending = IF @ > 0 THEN @ - 1 ELSE 0]

(* Saving a row that was deleted meanwhile inserts it again. *)
ReleaseSave(w) ==
  /\ At(w, "cancel", "releasing")
  /\ window' = Returned(req[w].window, req[w].stage)
  /\ Answer(w)
  /\ UNCHANGED stage

-----------------------------------------------------------------------------
(* The provider's own changes to the window *)

(* Slip: the new capacity is not held against the places taken. *)
MayShrink(op, slot, n) ==
  /\ slot.exists
  /\ \/ op = "update"
     \/ op = "block"   /\ slot.confirmed = 0 /\ ~slot.blocked
     \/ op = "unblock" /\ slot.blocked
     \/ op = "remove"  /\ slot.confirmed = 0 /\ slot.pending = 0

MayChange(op, slot, n) ==
  /\ slot.exists
  /\ \/ op = "update"  /\ n >= slot.confirmed
     \/ op = "block"   /\ slot.confirmed = 0 /\ ~slot.blocked
     \/ op = "unblock" /\ slot.blocked
     \/ op = "remove"  /\ slot.confirmed = 0 /\ slot.pending = 0

LoadWindow(w, op, n) ==
  /\ Free(w, op)
  /\ MayChange(op, window, n)
  /\ op # "update" => n = 1
  /\ req' = [req EXCEPT ![w] = [Idle EXCEPT !.op = op, !.at = "loaded",
                                            !.window = window, !.capacity = n]]
  /\ UNCHANGED <<window, stage>>

Changed(op, slot, n) ==
  CASE op = "update"  -> [slot EXCEPT !.capacity = n]
    [] op = "block"   -> [slot EXCEPT !.blocked = TRUE]
    [] op = "unblock" -> [slot EXCEPT !.blocked = FALSE]
    [] op = "remove"  -> Deleted

SaveWindow(w) ==
  /\ req[w].op \in WindowOps
  /\ window' = Changed(req[w].op, req[w].window, req[w].capacity)
  /\ Answer(w)
  /\ UNCHANGED stage

RequestDies(w) ==
  /\ RequestsMayDie
  /\ req[w].op # "none"
  /\ Answer(w)
  /\ UNCHANGED <<window, stage>>

Next ==
  \/ \E b \in Bookings : Ask(b)
  \/ \E w \in Workers :
       \/ \E op \in BookingOps, b \in Bookings : Load(w, op, b)
       \/ \E op \in WindowOps, n \in Capacities : LoadWindow(w, op, n)
       \/ Accept(w) \/ Quote(w) \/ SaveWindow(w)
       \/ Cancel(w) \/ ReleaseLoad(w) \/ ReleaseSave(w)
       \/ RequestDies(w)

Spec == Init /\ [][Next]_vars

-----------------------------------------------------------------------------
(* Properties *)

(* The window and the requests keep their shape. *)
TypeOK ==
  /\ window \in Windows
  /\ stage \in [Bookings -> Stages]
  /\ req \in [Workers -> Requests]

(* A published window never carries more accepted jobs than it has places, *)
(* whatever accepts, quotations and re-sizings overlap (confirm, update,   *)
(* release).                                                               *)
NoOverbooking == window.exists => Cardinality(Accepted) <= window.capacity

(* Deleting a window strands nobody: once it is gone no booking that asked *)
(* for it is open or accepted, although the check reads two counters and   *)
(* never the bookings (remove).                                            *)
DeletedWindowIsUnused == ~window.exists => LiveOnes = {}

(* What a buyer may rely on: the counters and their checks amount to       *)
(* CapacityPromise, with the accepted bookings as the holders of a place   *)
(* and no capacity once the window is deleted.                             *)
Promise == INSTANCE CapacityPromise
             WITH capacity <- IF window.exists THEN window.capacity ELSE 0,
                  holders  <- Accepted
PromiseKept == Promise!Spec
=============================================================================
