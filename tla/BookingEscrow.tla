--------------------------- MODULE BookingEscrow ---------------------------
(***************************************************************************)
(* One accepted booking of the marketplace: its stage, the instalments     *)
(* held in escrow for it, the support cases about it, and the requests     *)
(* that are being served at the same time.                                 *)
(*                                                                         *)
(* A handler of the backend is a sequence of database statements and       *)
(* gateway calls with no lock around it, except where the code takes one.  *)
(* Each request is therefore a small process: it loads the booking, runs   *)
(* its checks, saves the entity it loaded (overwriting whatever was saved  *)
(* in between) and then walks over the payment rows it had listed. Only    *)
(* the checks between a load and a save, which write nothing, are one      *)
(* step. With a single worker the requests are served one after another;   *)
(* with several they interleave.                                           *)
(*                                                                         *)
(* Amounts are in units of escrow: an instalment is Amount units, of which *)
(* a settlement may send some to the provider and the rest to the buyer.   *)
(***************************************************************************)
EXTENDS Naturals, Integers, FiniteSets

CONSTANTS
  Workers,            \* the requests that can be in flight at once
  NoWorker,
  Cases,              \* the support cases that can ever be raised
  NoCase,
  MaxPayments,        \* bound: payment rows ever written on the booking
  Amount,             \* units of one instalment
  SettledAmounts,     \* what an administrator may enter on a partial settlement
  MaxLedger,          \* bound: where the gateway's counters saturate
  Operations,         \* the endpoints a run exercises
  GatewayMayRefuse,   \* the gateway may answer that nothing moved
  RequestsMayDie      \* a request may be cut off between two of its steps

ASSUME WorkersAssumption == NoWorker \notin Workers
ASSUME CasesAssumption   == NoCase \notin Cases
ASSUME BoundsAssumption  == /\ MaxPayments \in Nat
                            /\ Amount \in Nat \ {0}
                            /\ SettledAmounts \subseteq Nat \ {0}
                            /\ MaxLedger \in Nat \ {0}
ASSUME FaultsAssumption  == /\ GatewayMayRefuse \in BOOLEAN
                            /\ RequestsMayDie \in BOOLEAN

VARIABLES
  booking,       \* the row of bookings
  slotReturned,  \* times the booking gave its place in the window back
  payment,       \* the rows of payments, by id
  transferred,   \* what the gateway really sent to the provider, by payment
  refunded,      \* what the gateway really returned to the buyer, by payment
  account,       \* whether the provider has a linked payout account
  cases,         \* the rows of support_cases about this booking
  bookingLock,   \* the worker whose transaction holds the booking row
  rowLock,       \* the worker whose transaction holds a payment row
  req            \* the requests in flight

vars == <<booking, slotReturned, payment, transferred, refunded, account,
          cases, bookingLock, rowLock, req>>

-----------------------------------------------------------------------------
(* Stages, instalments and payments *)

BookingStatuses ==
  {"payment_pending", "confirmed", "in_progress", "completed_pending_final",
   "completed", "disputed", "cancelled"}

Allowed ==
  [s \in BookingStatuses |->
     CASE s = "payment_pending" -> {"confirmed", "cancelled"}
       [] s = "confirmed"       -> {"in_progress", "cancelled"}
       [] s = "in_progress"     -> {"completed_pending_final", "disputed", "cancelled"}
       [] s = "completed_pending_final" -> {"completed", "disputed", "cancelled"}
       [] s = "completed"       -> {"disputed"}
       [] s = "disputed"        -> {"completed", "cancelled"}
       [] s = "cancelled"       -> {}]

HoldsSlot ==
  {"payment_pending", "confirmed", "in_progress", "completed_pending_final"}

Milestones == {"advance", "second", "final"}

Live == {"held", "disputed", "released", "pending_payout", "partially_settled"}
Dead == {"refunded"}
PaymentStatuses == Live \cup Dead \cup {"absent"}

(* The statuses the partial unique index on (booking, milestone) covers. *)
Indexed == {"held", "disputed", "released", "partially_settled"}

PaymentIds == 1..MaxPayments

(* Bound: giving the place back is counted up to twice, once too often. *)
MaxReturned == 2

Bookings == [status: BookingStatuses, delivered: BOOLEAN, accepted: BOOLEAN]
(* due: the provider's share as the row records it (payoutAmount). *)
Payments == [milestone: Milestones, cash: BOOLEAN, status: PaymentStatuses,
             due: 0..Amount]

NoPayment == [milestone |-> "advance", cash |-> FALSE, status |-> "absent", due |-> 0]

Rows(status) == {p \in PaymentIds : payment[p].status \in status}

(* Rows the gateway knows of: a cash payment has no providerRef. *)
GatewayRows(status) == {p \in Rows(status) : ~payment[p].cash}

HasHeld(m) ==
  \E p \in Rows({"held", "released", "disputed"}) : payment[p].milestone = m

Collected(m) == \E p \in Rows(Live) : payment[p].milestone = m

(* Whether the unique index lets row p take this status. *)
IndexAllows(p, status) ==
  status \in Indexed =>
    \A q \in Rows(Indexed) \ {p} : payment[q].milestone # payment[p].milestone

-----------------------------------------------------------------------------
(* Support cases. Every status between OPEN and ADMIN_REVIEW is in flight. *)

CaseStatuses == {"none", "in_flight", "resolved", "closed"}
CaseKinds    == {"booking", "payment"}
CaseRows     == [status: CaseStatuses, kind: CaseKinds, previous: BookingStatuses]

OpenCase == \E c \in Cases : cases[c].status = "in_flight"

Outcomes == {"release", "refund", "partial", "no_action"}

-----------------------------------------------------------------------------
(* Requests *)

SaveOps    == {"start_work", "complete_work", "mark_completed",
               "confirm_delivery", "cancel"}
ReleaseOps == {"start_work", "mark_completed", "confirm_delivery", "settle"}
PayoutOps  == {"release_payout", "retry_payouts"}
AllOps     == SaveOps \cup ReleaseOps \cup PayoutOps \cup {"pay", "raise", "decide"}

Stages == {"idle", "loaded", "checked", "saved", "listed", "sent", "answered",
           "mark", "marking"}

Requests ==
  [op: AllOps \cup {"none"}, at: Stages, seen: Bookings,
   rows: SUBSET PaymentIds, row: PaymentIds \cup {0},
   sent: BOOLEAN, back: BOOLEAN, dest: BOOLEAN,
   share: 0..Amount, left: Nat,
   case: Cases \cup {NoCase}, outcome: Outcomes, restore: BookingStatuses]

NewBooking == [status |-> "payment_pending", delivered |-> FALSE, accepted |-> FALSE]

Idle ==
  [op |-> "none", at |-> "idle", seen |-> NewBooking, rows |-> {}, row |-> 0,
   sent |-> FALSE, back |-> FALSE, dest |-> FALSE, share |-> 0, left |-> 0,
   case |-> NoCase, outcome |-> "no_action", restore |-> "payment_pending"]

At(w, ops, stage) == req[w].op \in ops /\ req[w].at = stage

Free(w, op) == req[w].at = "idle" /\ op \in Operations

(* How a request goes on: to its next stage, or to its answer. *)
Update(w, r)   == req' = [req EXCEPT ![w] = r]
Goto(w, stage) == Update(w, [req[w] EXCEPT !.at = stage])
Answer(w)      == Update(w, Idle)

(* The rest of a loop over listed payment rows, and the stage after it. *)
AfterRow(r, p, after) ==
  IF r.rows \ {p} = {} /\ after = "idle" THEN Idle
  ELSE [r EXCEPT !.rows = @ \ {p}, !.row = 0, !.share = 0,
                 !.sent = FALSE, !.back = FALSE,
                 !.at = IF r.rows \ {p} = {} THEN after ELSE "listed"]

NextRow(w, p, after) == Update(w, AfterRow(req[w], p, after))

Init ==
  /\ booking = NewBooking
  /\ slotReturned = 0
  /\ payment = [p \in PaymentIds |-> NoPayment]
  /\ transferred = [p \in PaymentIds |-> 0]
  /\ refunded = [p \in PaymentIds |-> 0]
  /\ account \in BOOLEAN
  /\ cases = [c \in Cases |-> [status |-> "none", kind |-> "booking",
                               previous |-> "payment_pending"]]
  /\ bookingLock = NoWorker
  /\ rowLock = [p \in PaymentIds |-> NoWorker]
  /\ req = [w \in Workers |-> Idle]

-----------------------------------------------------------------------------
(* The payment gateway. A transfer has no idempotency key; a refund is     *)
(* keyed by its receipt, so asking again moves nothing more.               *)

Capped(n) == IF n > MaxLedger THEN MaxLedger ELSE n

Sends(p, units, dest, ok) ==
  /\ ok => dest
  /\ dest /\ ~GatewayMayRefuse => ok
  /\ transferred' = IF ok THEN [transferred EXCEPT ![p] = Capped(@ + units)]
                          ELSE transferred

Returns(p, units, ok) ==
  /\ ~GatewayMayRefuse => ok
  /\ refunded' = IF ok /\ refunded[p] = 0
                   THEN [refunded EXCEPT ![p] = Capped(units)] ELSE refunded

(* UPDATE payments SET status, payoutAmount WHERE id: unconditional, but   *)
(* it waits for a row lock and fails on the unique index.                  *)
WriteRow(w, p, status, due, after) ==
  /\ rowLock[p] = NoWorker
  /\ IF IndexAllows(p, status)
       THEN /\ payment' = [payment EXCEPT ![p].status = status, ![p].due = due]
            /\ NextRow(w, p, after)
       ELSE /\ Answer(w)
            /\ UNCHANGED payment

-----------------------------------------------------------------------------
(* Loading the booking, the first step of every request about it *)

Load(w, op) ==
  /\ Free(w, op)
  /\ op \in SaveOps \cup {"settle"}
  /\ Update(w, [req[w] EXCEPT !.op = op, !.at = "loaded", !.seen = booking])
  /\ UNCHANGED <<booking, slotReturned, payment, transferred, refunded, account,
                 cases, bookingLock, rowLock>>

MayStart(b) == "in_progress" \in Allowed[b.status] /\ HasHeld("advance")

(* Slip: the second instalment is not asked for. *)
MayDeliverUnpaid(b) == ~OpenCase /\ "completed_pending_final" \in Allowed[b.status]

MayDeliver(b) ==
  /\ ~OpenCase
  /\ HasHeld("second")
  /\ "completed_pending_final" \in Allowed[b.status]

(* Slip: the balance alone completes the job. *)
MayMarkUnaccepted(b) ==
  b.status = "completed_pending_final" /\ ~OpenCase /\ Collected("final")

MayMarkCompleted(b) ==
  /\ b.status = "completed_pending_final"
  /\ ~OpenCase
  /\ Collected("final")
  /\ b.delivered => b.accepted

MayConfirmDelivery(b) == b.delivered /\ ~b.accepted /\ ~OpenCase

MaySettle(b) ==
  /\ b.status = "completed"
  /\ b.delivered => b.accepted
  /\ ~OpenCase

(* Slip: an open case does not stop a cancellation. *)
MayCancelFrozen(b) == "cancelled" \in Allowed[b.status]

MayCancel(b) == ~OpenCase /\ "cancelled" \in Allowed[b.status]

Permitted(op, b) ==
  \/ op = "start_work" /\ MayStart(b)
  \/ op = "complete_work" /\ MayDeliver(b)
  \/ op = "mark_completed" /\ MayMarkCompleted(b)
  \/ op = "confirm_delivery" /\ MayConfirmDelivery(b)
  \/ op = "settle" /\ MaySettle(b)
  \/ op = "cancel" /\ MayCancel(b)

Check(w) ==
  /\ At(w, SaveOps \cup {"settle"}, "loaded")
  /\ IF Permitted(req[w].op, req[w].seen)
       THEN Goto(w, IF req[w].op = "settle" THEN "saved" ELSE "checked")
       ELSE Answer(w)
  /\ UNCHANGED <<booking, slotReturned, payment, transferred, refunded, account,
                 cases, bookingLock, rowLock>>

(* The entity as each operation leaves it: every other column is what was  *)
(* loaded, however old that is.                                            *)
Entity(op, b) ==
  CASE op = "start_work"       -> [b EXCEPT !.status = "in_progress"]
    [] op = "complete_work"    -> [b EXCEPT !.status = "completed_pending_final",
                                            !.delivered = TRUE]
    [] op = "mark_completed"   -> [b EXCEPT !.status = "completed"]
    [] op = "confirm_delivery" -> [b EXCEPT !.accepted = TRUE]
    [] op = "cancel"           -> [b EXCEPT !.status = "cancelled"]

Save(w) ==
  /\ At(w, SaveOps, "checked")
  /\ bookingLock = NoWorker
  /\ booking' = Entity(req[w].op, req[w].seen)
  /\ IF req[w].op = "complete_work" THEN Answer(w) ELSE Goto(w, "saved")
  /\ UNCHANGED <<slotReturned, payment, transferred, refunded, account, cases,
                 bookingLock, rowLock>>

-----------------------------------------------------------------------------
(* Releasing held instalments to the provider *)

ReleaseScope(op) == IF op = "start_work" THEN {"advance"} ELSE Milestones

ReleaseDue(w) ==
  LET op == req[w].op
      b  == Entity(op, req[w].seen)
  IN  \/ op = "settle"
      \/ op = "start_work" /\ ~OpenCase
      \/ /\ op \in {"mark_completed", "confirm_delivery"}
         /\ b.status = "completed"
         /\ b.delivered => b.accepted
         /\ ~OpenCase

ReleaseList(w) ==
  LET held == {p \in GatewayRows({"held"}) :
                 payment[p].milestone \in ReleaseScope(req[w].op)}
  IN  /\ At(w, ReleaseOps, "saved")
      /\ IF ReleaseDue(w) /\ held # {}
           THEN Update(w, [req[w] EXCEPT !.at = "listed", !.rows = held,
                                         !.dest = account])
           ELSE Answer(w)
      /\ UNCHANGED <<booking, slotReturned, payment, transferred, refunded,
                     account, cases, bookingLock, rowLock>>

PayoutShare(p) == IF payment[p].due > 0 THEN payment[p].due ELSE Amount

ReleaseTransfer(w, p) ==
  /\ At(w, ReleaseOps, "listed")
  /\ p \in req[w].rows
  /\ \E ok \in BOOLEAN :
       /\ Sends(p, PayoutShare(p), req[w].dest, ok)
       /\ Update(w, [req[w] EXCEPT !.at = "answered", !.row = p, !.sent = ok,
                                   !.share = PayoutShare(p)])
  /\ UNCHANGED <<booking, slotReturned, payment, refunded, account, cases,
                 bookingLock, rowLock>>

ReleaseWrite(w, p) ==
  /\ At(w, ReleaseOps, "answered")
  /\ p = req[w].row
  /\ WriteRow(w, p, IF req[w].sent THEN "released" ELSE "pending_payout",
              req[w].share, "idle")
  /\ UNCHANGED <<booking, slotReturned, transferred, refunded, account, cases,
                 bookingLock, rowLock>>

-----------------------------------------------------------------------------
(* Paying an instalment: one transaction that holds the booking row *)

PayBegin(w) ==
  /\ Free(w, "pay")
  /\ bookingLock = NoWorker
  /\ bookingLock' = w
  /\ Update(w, [req[w] EXCEPT !.op = "pay", !.at = "checked",
                              !.seen = booking, !.rows = Rows(Live)])
  /\ UNCHANGED <<booking, slotReturned, payment, transferred, refunded, account,
                 cases, rowLock>>

MilestoneStates(m) ==
  CASE m = "advance" -> {"payment_pending"}
    [] m = "second"  -> {"in_progress"}
    [] m = "final"   -> {"completed_pending_final"}

Earlier(m) ==
  CASE m = "advance" -> {}
    [] m = "second"  -> {"advance"}
    [] m = "final"   -> {"advance", "second"}

MilestoneAllowed(b, m, live) ==
  /\ Earlier(m) \subseteq {payment[q].milestone : q \in live}
  /\ b.status \in MilestoneStates(m)

(* Slip: only what the unique index covers counts as paid. *)
AlreadyIndexed(m, live) == \E q \in live \cap Rows(Indexed) : payment[q].milestone = m

AlreadyPaid(m, live) == \E q \in live : payment[q].milestone = m

FirstFree(p) == payment[p].status = "absent" /\ \A q \in 1..(p - 1) : payment[q].status # "absent"

(* Slip: cash is held in escrow like the rest. *)
CashHeld(m, cash) == [milestone |-> m, cash |-> cash, due |-> Amount, status |-> "held"]

(* The row an instalment is recorded as. *)
Recorded(m, cash) ==
  [milestone |-> m, cash |-> cash, due |-> Amount,
   status |-> IF cash THEN "released" ELSE "held"]

PayCommit(w, m, cash, p) ==
  /\ At(w, {"pay"}, "checked")
  /\ ~AlreadyPaid(m, req[w].rows)
  /\ MilestoneAllowed(req[w].seen, m, req[w].rows)
  /\ FirstFree(p)
  /\ \A q \in Rows(Indexed) : payment[q].milestone # m
  /\ payment' = [payment EXCEPT ![p] = Recorded(m, cash)]
  /\ booking' = IF m = "advance" THEN [req[w].seen EXCEPT !.status = "confirmed"]
                                 ELSE req[w].seen
  /\ bookingLock' = NoWorker
  /\ Answer(w)
  /\ UNCHANGED <<slotReturned, transferred, refunded, account, cases, rowLock>>

PayRollback(w) ==
  /\ At(w, {"pay"}, "checked")
  /\ bookingLock' = NoWorker
  /\ Answer(w)
  /\ UNCHANGED <<booking, slotReturned, payment, transferred, refunded, account,
                 cases, rowLock>>

-----------------------------------------------------------------------------
(* Cancelling: the slot goes back, then each held row is refunded *)

RefundableFrozen == GatewayRows({"held", "disputed"})  \* Slip: frozen rows too.
Refundable == GatewayRows({"held"})

CancelList(w) ==
  LET held == Refundable
  IN  /\ At(w, {"cancel"}, "saved")
      /\ slotReturned' = IF req[w].seen.status \in HoldsSlot /\ slotReturned < MaxReturned
                           THEN slotReturned + 1 ELSE slotReturned
      /\ IF held = {} THEN Answer(w)
         ELSE Update(w, [req[w] EXCEPT !.at = "listed", !.rows = held])
      /\ UNCHANGED <<booking, payment, transferred, refunded, account, cases,
                     bookingLock, rowLock>>

CancelRefund(w, p) ==
  /\ At(w, {"cancel"}, "listed")
  /\ p \in req[w].rows
  /\ \E ok \in BOOLEAN :
       /\ Returns(p, Amount, ok)
       /\ Update(w, [req[w] EXCEPT !.at = "answered", !.row = p, !.back = ok])
  /\ UNCHANGED <<booking, slotReturned, payment, transferred, account, cases,
                 bookingLock, rowLock>>

(* Slip: the refund is recorded whatever the gateway answered. *)
CancelWriteAnyway(w, p) ==
  /\ At(w, {"cancel"}, "answered")
  /\ p = req[w].row
  /\ WriteRow(w, p, "refunded", 0, "idle")
  /\ UNCHANGED <<booking, slotReturned, transferred, refunded, account, cases,
                 bookingLock, rowLock>>

CancelWrite(w, p) ==
  /\ At(w, {"cancel"}, "answered")
  /\ p = req[w].row
  /\ IF req[w].back
       THEN WriteRow(w, p, "refunded", 0, "idle")
       ELSE /\ rowLock[p] = NoWorker
            /\ NextRow(w, p, "idle")
            /\ UNCHANGED payment
  /\ UNCHANGED <<booking, slotReturned, transferred, refunded, account, cases,
                 bookingLock, rowLock>>

-----------------------------------------------------------------------------
(* Moving an owed payout: the provider's button and the nightly sweep *)

PayoutList(w, op) ==
  /\ Free(w, op)
  /\ op \in PayoutOps
  /\ op = "release_payout" => ~OpenCase /\ account
  /\ Rows({"pending_payout"}) # {}
  /\ Update(w, [req[w] EXCEPT !.op = op, !.at = "listed",
                              !.rows = Rows({"pending_payout"}), !.dest = account])
  /\ UNCHANGED <<booking, slotReturned, payment, transferred, refunded, account,
                 cases, bookingLock, rowLock>>

(* The button sends to the account it read once, the sweep reads it again  *)
(* for every row.                                                          *)
PayoutDestination(w) == IF req[w].op = "release_payout" THEN req[w].dest ELSE account

ClaimableUnlocked(p) == payment[p].status = "pending_payout"  \* Slip: no row lock.
Claimable(p) == rowLock[p] = NoWorker /\ payment[p].status = "pending_payout"

PayoutClaim(w, p) ==
  /\ At(w, PayoutOps, "listed")
  /\ p \in req[w].rows
  /\ Claimable(p)
  /\ PayoutDestination(w)
  /\ \E ok \in BOOLEAN :
       /\ Sends(p, payment[p].due, PayoutDestination(w), ok)
       /\ Update(w, [req[w] EXCEPT !.at = "answered", !.row = p, !.sent = ok])
  /\ rowLock' = [rowLock EXCEPT ![p] = w]
  /\ UNCHANGED <<booking, slotReturned, payment, refunded, account, cases,
                 bookingLock>>

PayoutSkip(w, p) ==
  /\ At(w, PayoutOps, "listed")
  /\ p \in req[w].rows
  /\ ~Claimable(p) \/ ~PayoutDestination(w)
  /\ NextRow(w, p, "idle")
  /\ UNCHANGED <<booking, slotReturned, payment, transferred, refunded, account,
                 cases, bookingLock, rowLock>>

PayoutWrite(w, p) ==
  /\ At(w, PayoutOps, "answered")
  /\ p = req[w].row
  /\ LET written == req[w].sent /\ payment[p].status = "pending_payout"
     IN  /\ payment' = IF written /\ IndexAllows(p, "released")
                         THEN [payment EXCEPT ![p].status = "released"] ELSE payment
         /\ IF written /\ ~IndexAllows(p, "released") THEN Answer(w)
                                                       ELSE NextRow(w, p, "idle")
  /\ rowLock' = [rowLock EXCEPT ![p] = NoWorker]
  /\ UNCHANGED <<booking, slotReturned, transferred, refunded, account, cases,
                 bookingLock>>

-----------------------------------------------------------------------------
(* Raising a case: the case first, then every held row, then the booking *)

Unused(c) == cases[c].status = "none" /\ \A v \in Workers : req[v].case # c

RaiseLoad(w, c) ==
  /\ Free(w, "raise")
  /\ Unused(c)
  /\ Update(w, [req[w] EXCEPT !.op = "raise", !.at = "loaded", !.case = c,
                              !.seen = booking])
  /\ UNCHANGED <<booking, slotReturned, payment, transferred, refunded, account,
                 cases, bookingLock, rowLock>>

RaiseSave(w, c) ==
  /\ At(w, {"raise"}, "loaded")
  /\ c = req[w].case
  /\ cases' = [cases EXCEPT ![c] = [status |-> "in_flight", kind |-> "booking",
                                    previous |-> req[w].seen.status]]
  /\ Update(w, [req[w] EXCEPT !.at = "saved", !.restore = "disputed"])
  /\ UNCHANGED <<booking, slotReturned, payment, transferred, refunded, account,
                 bookingLock, rowLock>>

FreezeList(w) ==
  /\ At(w, {"raise"}, "saved")
  /\ Update(w, [req[w] EXCEPT !.rows = Rows({"held"}),
                              !.at = IF Rows({"held"}) = {} THEN "mark" ELSE "listed"])
  /\ UNCHANGED <<booking, slotReturned, payment, transferred, refunded, account,
                 cases, bookingLock, rowLock>>

FreezeWrite(w, p) ==
  /\ At(w, {"raise"}, "listed")
  /\ p \in req[w].rows
  /\ WriteRow(w, p, "disputed", payment[p].due, "mark")
  /\ UNCHANGED <<booking, slotReturned, transferred, refunded, account, cases,
                 bookingLock, rowLock>>

MarkLoad(w) ==
  /\ At(w, {"raise", "decide"}, "mark")
  /\ Update(w, [req[w] EXCEPT !.at = "marking", !.seen = booking])
  /\ UNCHANGED <<booking, slotReturned, payment, transferred, refunded, account,
                 cases, bookingLock, rowLock>>

MarkSave(w) ==
  /\ At(w, {"raise", "decide"}, "marking")
  /\ bookingLock = NoWorker
  /\ booking' = [req[w].seen EXCEPT !.status = req[w].restore]
  /\ Answer(w)
  /\ UNCHANGED <<slotReturned, payment, transferred, refunded, account, cases,
                 bookingLock, rowLock>>

(* The provider asks about money it is owed: an ordinary case about the    *)
(* payment that freezes nothing, yet counts as open on the booking.        *)
RequestSettlement(w, c) ==
  /\ Free(w, "request_settlement")
  /\ Unused(c)
  /\ Rows({"pending_payout", "held"}) # {}
  /\ \A d \in Cases : ~(cases[d].kind = "payment" /\ cases[d].status = "in_flight")
  /\ cases' = [cases EXCEPT ![c] = [status |-> "in_flight", kind |-> "payment",
                                    previous |-> @.previous]]
  /\ UNCHANGED <<booking, slotReturned, payment, transferred, refunded, account,
                 bookingLock, rowLock, req>>

-----------------------------------------------------------------------------
(* An administrator's decision: the case, the money, then the booking *)

DecideLoad(w, c, outcome, amount) ==
  /\ Free(w, "decide")
  /\ cases[c].status \in {"in_flight", "resolved"}
  /\ Update(w, [req[w] EXCEPT !.op = "decide", !.at = "loaded", !.case = c,
                              !.outcome = outcome,
                              !.left = IF outcome = "partial" THEN amount ELSE 0,
                              !.restore = IF outcome = "refund" THEN "cancelled"
                                                                   ELSE cases[c].previous])
  /\ UNCHANGED <<booking, slotReturned, payment, transferred, refunded, account,
                 cases, bookingLock, rowLock>>

DecideSave(w, c) ==
  /\ At(w, {"decide"}, "loaded")
  /\ c = req[w].case
  /\ cases' = [cases EXCEPT ![c].status = "resolved"]
  /\ IF cases[c].kind = "booking" THEN Goto(w, "saved") ELSE Answer(w)
  /\ UNCHANGED <<booking, slotReturned, payment, transferred, refunded, account,
                 bookingLock, rowLock>>

DecideList(w) ==
  LET disputed == IF req[w].outcome = "no_action" THEN Rows({"disputed"})
                                                  ELSE GatewayRows({"disputed"})
  IN  /\ At(w, {"decide"}, "saved")
      /\ Update(w, [req[w] EXCEPT !.rows = disputed, !.dest = account,
                                  !.at = IF disputed = {} THEN "mark" ELSE "listed"])
      /\ UNCHANGED <<booking, slotReturned, payment, transferred, refunded,
                     account, cases, bookingLock, rowLock>>

UnfreezeWrite(w, p) ==
  /\ At(w, {"decide"}, "listed")
  /\ req[w].outcome = "no_action"
  /\ p \in req[w].rows
  /\ WriteRow(w, p, "held", payment[p].due, "mark")
  /\ UNCHANGED <<booking, slotReturned, transferred, refunded, account, cases,
                 bookingLock, rowLock>>

ToProviderUncapped(w) ==  \* Slip: a partial settlement larger than the row.
  CASE req[w].outcome = "release" -> Amount
    [] req[w].outcome = "partial" -> req[w].left
    [] OTHER -> 0

(* What of this instalment the settlement gives the provider. *)
ToProvider(w) ==
  CASE req[w].outcome = "release" -> Amount
    [] req[w].outcome = "partial" -> IF req[w].left < Amount THEN req[w].left ELSE Amount
    [] OTHER -> 0

SettleTransfer(w, p) ==
  /\ At(w, {"decide"}, "listed")
  /\ req[w].outcome # "no_action"
  /\ p \in req[w].rows
  /\ \E ok \in BOOLEAN :
       /\ IF ToProvider(w) > 0 THEN Sends(p, ToProvider(w), req[w].dest, ok)
                               ELSE ok /\ UNCHANGED transferred
       /\ Update(w, [req[w] EXCEPT !.at = "sent", !.row = p, !.sent = ok,
                                   !.share = ToProvider(w),
                                   !.left = IF req[w].outcome = "partial"
                                                 THEN @ - ToProvider(w) ELSE @])
  /\ UNCHANGED <<booking, slotReturned, payment, refunded, account, cases,
                 bookingLock, rowLock>>

SettleRefund(w, p) ==
  /\ At(w, {"decide"}, "sent")
  /\ p = req[w].row
  /\ \E ok \in BOOLEAN :
       /\ IF req[w].share < Amount THEN Returns(p, Amount - req[w].share, ok)
                                   ELSE ok /\ UNCHANGED refunded
       /\ Update(w, [req[w] EXCEPT !.at = "answered", !.back = ok])
  /\ UNCHANGED <<booking, slotReturned, payment, transferred, account, cases,
                 bookingLock, rowLock>>

(* Slip: a split instalment stays frozen. *)
SettledStatusFrozen(w) ==
  CASE ~req[w].sent         -> "pending_payout"
    [] req[w].sent /\ req[w].share = 0      -> "refunded"
    [] req[w].sent /\ req[w].share = Amount -> "released"
    [] OTHER                -> "disputed"

SettledStatus(w) ==
  CASE ~req[w].sent              -> "pending_payout"
    [] req[w].sent /\ req[w].share = 0      -> "refunded"
    [] req[w].sent /\ req[w].share = Amount -> "released"
    [] OTHER                     -> "partially_settled"

(* Slip: the settlement is recorded whatever the gateway answered. *)
SettleWriteAnyway(w, p) ==
  /\ At(w, {"decide"}, "answered")
  /\ p = req[w].row
  /\ WriteRow(w, p, SettledStatus(w), req[w].share, "mark")
  /\ UNCHANGED <<booking, slotReturned, transferred, refunded, account, cases,
                 bookingLock, rowLock>>

(* A refund the gateway did not confirm leaves the row disputed. *)
SettleWrite(w, p) ==
  /\ At(w, {"decide"}, "answered")
  /\ p = req[w].row
  /\ IF req[w].back
       THEN WriteRow(w, p, SettledStatus(w), req[w].share, "mark")
       ELSE /\ rowLock[p] = NoWorker
            /\ NextRow(w, p, "mark")
            /\ UNCHANGED payment
  /\ UNCHANGED <<booking, slotReturned, transferred, refunded, account, cases,
                 bookingLock, rowLock>>

(* The raiser may close a case whatever its state; an administrator only a *)
(* resolved one.                                                           *)
CloseCase(w, c) ==
  /\ Free(w, "close")
  /\ cases[c].status \in {"in_flight", "resolved"}
  /\ cases' = [cases EXCEPT ![c].status = "closed"]
  /\ UNCHANGED <<booking, slotReturned, payment, transferred, refunded, account,
                 bookingLock, rowLock, req>>

(* Findings and allocations are accepted on a finished case, and put it    *)
(* back among those in flight.                                             *)
ReopenCase(w, c) ==
  /\ Free(w, "reopen")
  /\ cases[c].status \in {"resolved", "closed"}
  /\ cases' = [cases EXCEPT ![c].status = "in_flight"]
  /\ UNCHANGED <<booking, slotReturned, payment, transferred, refunded, account,
                 bookingLock, rowLock, req>>

-----------------------------------------------------------------------------
(* The provider's linked account, and requests cut off half way *)

ChangeAccount(w) ==
  /\ Free(w, "payout_account")
  /\ account' = ~account
  /\ UNCHANGED <<booking, slotReturned, payment, transferred, refunded, cases,
                 bookingLock, rowLock, req>>

RequestDies(w) ==
  /\ RequestsMayDie
  /\ req[w].at # "idle"
  /\ Answer(w)
  /\ bookingLock' = IF bookingLock = w THEN NoWorker ELSE bookingLock
  /\ rowLock' = [p \in PaymentIds |-> IF rowLock[p] = w THEN NoWorker ELSE rowLock[p]]
  /\ UNCHANGED <<booking, slotReturned, payment, transferred, refunded, account,
                 cases>>

BookingSteps(w) ==
  \/ \E op \in SaveOps \cup {"settle"} : Load(w, op)
  \/ Check(w)
  \/ Save(w)
  \/ ReleaseList(w)
  \/ \E p \in PaymentIds : ReleaseTransfer(w, p) \/ ReleaseWrite(w, p)
  \/ PayBegin(w)
  \/ \E m \in Milestones, cash \in BOOLEAN, p \in PaymentIds : PayCommit(w, m, cash, p)
  \/ PayRollback(w)
  \/ CancelList(w)
  \/ \E p \in PaymentIds : CancelRefund(w, p) \/ CancelWrite(w, p)

PayoutSteps(w) ==
  \/ \E op \in PayoutOps : PayoutList(w, op)
  \/ \E p \in PaymentIds : PayoutClaim(w, p) \/ PayoutSkip(w, p) \/ PayoutWrite(w, p)

CaseSteps(w) ==
  \/ \E c \in Cases : RaiseLoad(w, c) \/ RaiseSave(w, c) \/ DecideSave(w, c)
  \/ \E c \in Cases, o \in Outcomes \ {"partial"} : DecideLoad(w, c, o, 0)
  \/ \E c \in Cases, n \in SettledAmounts : DecideLoad(w, c, "partial", n)
  \/ \E c \in Cases : RequestSettlement(w, c) \/ CloseCase(w, c) \/ ReopenCase(w, c)
  \/ FreezeList(w) \/ DecideList(w) \/ MarkLoad(w) \/ MarkSave(w)
  \/ \E p \in PaymentIds :
       \/ FreezeWrite(w, p) \/ UnfreezeWrite(w, p)
       \/ SettleTransfer(w, p) \/ SettleRefund(w, p) \/ SettleWrite(w, p)

Next ==
  \E w \in Workers :
    \/ BookingSteps(w) \/ PayoutSteps(w) \/ CaseSteps(w)
    \/ ChangeAccount(w) \/ RequestDies(w)

Spec == Init /\ [][Next]_vars

-----------------------------------------------------------------------------
(* Properties *)

(* Every variable keeps its shape: a row has a status of its enum, a lock  *)
(* is held by a worker or by nobody, a request is at a stage of its        *)
(* handler.                                                                *)
TypeOK ==
  /\ booking \in Bookings
  /\ slotReturned \in 0..MaxReturned
  /\ payment \in [PaymentIds -> Payments]
  /\ transferred \in [PaymentIds -> 0..MaxLedger]
  /\ refunded \in [PaymentIds -> 0..MaxLedger]
  /\ account \in BOOLEAN
  /\ cases \in [Cases -> CaseRows]
  /\ bookingLock \in Workers \cup {NoWorker}
  /\ rowLock \in [PaymentIds -> Workers \cup {NoWorker}]
  /\ req \in [Workers -> Requests]

(* The instalments that were ever charged, whatever became of them. *)
Charged == {payment[p].milestone : p \in Rows(PaymentStatuses \ {"absent"})}

(* The instalments a stage of the booking presupposes. *)
Presupposes(stage) ==
  CASE stage \in {"confirmed", "in_progress"} -> {"advance"}
    [] stage = "completed_pending_final"      -> {"advance", "second"}
    [] stage = "completed"                    -> Milestones
    [] OTHER                                  -> {}

(* Money and work alternate: the booking never stands at a stage whose     *)
(* instalments were not collected first, whatever requests overlap, cases  *)
(* put stages back, or stale saves overwrite each other (startWork,        *)
(* completeWork, markCompleted, pay, markBooking).                         *)
MoneyBeforeWork == Presupposes(booking.status) \subseteq Charged

(* An instalment paid in cash never enters the escrow machinery: no        *)
(* handler freezes it, releases it, refunds it or sends it to the gateway. *)
CashStaysOutOfEscrow ==
  \A p \in PaymentIds :
    payment[p].cash => /\ payment[p].status = "released"
                       /\ transferred[p] = 0
                       /\ refunded[p] = 0

(* The ledger never claims a movement the gateway did not make: a row is   *)
(* released only after a transfer, refunded only after a refund and        *)
(* partially settled only after both (releaseHeld, releaseOnePending,      *)
(* settleDisputed, cancel).                                                *)
RecordsOnlyWhatMoved ==
  \A p \in PaymentIds : ~payment[p].cash =>
    /\ payment[p].status \in {"released", "partially_settled"} => transferred[p] > 0
    /\ payment[p].status \in {"refunded", "partially_settled"} => refunded[p] > 0

(* A booking holds at most one live payment per instalment, the ones owed  *)
(* to the provider included, which the unique index does not cover.        *)
OneLivePaymentPerMilestone ==
  \A p, q \in Rows(Live) :
    payment[p].milestone = payment[q].milestone => p = q

(* No request is being served. *)
Quiet == \A w \in Workers : req[w].at = "idle"

(* Nothing leaves the platform twice: what the provider was sent and the   *)
(* buyer was refunded of an instalment never exceeds what was collected.   *)
NoInstalmentMovesTwice ==
  \A p \in PaymentIds : transferred[p] + refunded[p] <= Amount

(* A completed job was accepted by the buyer: the balance being in is not  *)
(* enough (markCompleted, confirmDelivery).                                *)
CompletedWasAccepted == booking.status = "completed" => booking.accepted

(* A cancelled booking has given its place in the window back, once.       *)
CancelledGaveItsPlaceBack == Quiet /\ booking.status = "cancelled" => slotReturned = 1

(* An open case freezes the escrow: while one is in flight no held row is  *)
(* sent to the provider and none is refunded to the buyer.                 *)
OpenCaseFreezesEscrow ==
  [][\A p \in PaymentIds :
       OpenCase /\ payment[p].status = "held"
         => transferred'[p] = transferred[p] /\ refunded'[p] = refunded[p]]_vars

(* An owed payout is claimed by one request at a time, and stays owed      *)
(* until that request has written what the gateway answered: the button,   *)
(* the nightly sweep and the unlocked releases cannot move it meanwhile    *)
(* (releaseOnePending).                                                    *)
OwedIsClaimedByOne ==
  \A w \in Workers : At(w, PayoutOps, "answered") =>
    /\ payment[req[w].row].status = "pending_payout"
    /\ \A v \in Workers \ {w} : At(v, PayoutOps, "answered") => req[v].row # req[w].row

(* Frozen money moves by a settlement decision and by nothing else: a row  *)
(* leaves "disputed" only while a decision is being applied.               *)
FrozenMovesBySettlement ==
  [][\A p \in PaymentIds :
       payment[p].status = "disputed" /\ payment'[p].status # "disputed"
         => \E w \in Workers : req[w].op = "decide" /\ p \in req[w].rows]_vars
=============================================================================
