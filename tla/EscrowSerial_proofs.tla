------------------------- MODULE EscrowSerial_proofs -------------------------
(***************************************************************************)
(* What holds of a booking whose requests are served one after another,    *)
(* for any number of payments, cases and amounts. Where a theorem says so  *)
(* it also takes a gateway that answers yes and requests that are not cut  *)
(* off; the other theorems hold with refusals and deaths as well.          *)
(***************************************************************************)
EXTENDS EscrowLedger_proofs

USE BoundsAssumption

(* A request takes a step only when no other is being served: the requests *)
(* come in any order and from any number of workers, and do not overlap.   *)
OthersRest(w) == \A v \in Workers \ {w} : req[v].at = "idle"

SerialNext ==
  \E w \in Workers :
    /\ OthersRest(w)
    /\ \/ BookingSteps(w) \/ PayoutSteps(w) \/ CaseSteps(w)
       \/ ChangeAccount(w) \/ RequestDies(w)

SerialSpec == Init /\ [][SerialNext]_vars

-----------------------------------------------------------------------------
(* The inductive invariant *)

(* The status a request found on every row it listed. *)
ListedAs(op) ==
  CASE op \in PayoutOps -> "pending_payout"
    [] op = "decide"    -> "disputed"
    [] OTHER            -> "held"

OnRows(w) == req[w].at \in {"listed", "sent", "answered"}

(* What a request read is still so: nobody else wrote meanwhile. *)
Fresh(w) ==
  /\ OnRows(w) => \A p \in req[w].rows : payment[p].status = ListedAs(req[w].op)
  /\ req[w].op = "pay" => req[w].at = "checked" /\ req[w].rows = Rows(Live)
  /\ req[w].at \in {"checked", "marking"} => req[w].seen = booking
  /\ req[w].at = "loaded" /\ req[w].op # "decide" => req[w].seen = booking

(* A request that has asked whether a case is open, and was told no. *)
Unfrozen(w) ==
  \/ req[w].op \in ReleaseOps /\ OnRows(w)
  \/ req[w].op = "settle" /\ req[w].at = "saved"
  \/ req[w].op = "cancel" /\ req[w].at \notin {"idle", "loaded"}

(* Whether a booking has what the stage asks for. *)
Deserves(status, b) ==
  /\ status = "completed_pending_final" => b.delivered
  /\ status = "completed" => b.accepted

Mine(w) ==
  /\ Fresh(w)
  /\ Unfrozen(w) => ~OpenCase
  /\ Deserves(req[w].restore, booking)
  /\ req[w].op = "mark_completed" /\ req[w].at = "checked" => booking.accepted

SerialInv ==
  /\ OneLivePaymentPerMilestone
  /\ Deserves(booking.status, booking)
  /\ \A c \in Cases : Deserves(cases[c].previous, booking)
  /\ \A w \in Workers : Mine(w)

-----------------------------------------------------------------------------
(* The shape of a step *)

(* The others have nothing in hand, before a step and after it. *)
Alone(w) == \A v \in Workers \ {w} : req[v] = Idle /\ req'[v] = Idle

LEMMA IdleFact ==
  /\ Idle.at = "idle" /\ Idle.op = "none" /\ Idle.rows = {}
  /\ Idle.restore = "payment_pending"
BY DEF Idle

(* Who has nothing in hand claims nothing. *)
LEMMA EveryonesMine ==
  ASSUME NEW w \in Workers, Alone(w), Mine(w)'
  PROVE  \A v \in Workers : Mine(v)'
<1>1. ASSUME NEW v \in Workers, req'[v] = Idle PROVE Mine(v)'
  BY <1>1, IdleFact DEF Mine, Fresh, Unfrozen, OnRows, Deserves, ReleaseOps
<1> QED BY <1>1 DEF Alone

LEMMA UpdateFact ==
  ASSUME TypeOK, NEW w \in Workers, NEW r, Update(w, r)
  PROVE  req'[w] = r
BY DEF TypeOK, Update

LEMMA ListedAsFact == \A op : ListedAs(op) \in {"pending_payout", "disputed", "held"}
BY DEF ListedAs

(* A request that ends claims nothing. *)
LEMMA AnswerMine ==
  ASSUME TypeOK, NEW w \in Workers, Answer(w)
  PROVE  Mine(w)'
<1>1. req'[w] = Idle
  BY UpdateFact DEF Answer
<1>2. /\ Idle.at = "idle" /\ Idle.op = "none" /\ Idle.restore = "payment_pending"
  BY DEF Idle
<1> QED BY <1>1, <1>2 DEF Mine, Fresh, Unfrozen, OnRows, Deserves, ReleaseOps

(* The next row of a list, or what comes after it. *)
LEMMA NextRowFact ==
  ASSUME TypeOK, NEW w \in Workers, NEW p, NEW after \in {"idle", "mark"},
         NextRow(w, p, after)
  PROVE  \/ req'[w] = Idle
         \/ /\ req'[w].at \in {"listed", "mark"} /\ req'[w].rows = req[w].rows \ {p}
            /\ req'[w].op = req[w].op /\ req'[w].restore = req[w].restore
<1> DEFINE r == req[w]
           stage == IF r.rows \ {p} = {} THEN after ELSE "listed"
           s == [r EXCEPT !.rows = @ \ {p}, !.row = 0, !.share = 0,
                          !.sent = FALSE, !.back = FALSE, !.at = stage]
<1>1. req'[w] = AfterRow(req[w], p, after)
  BY UpdateFact DEF NextRow
<1>2. CASE r.rows \ {p} = {} /\ after = "idle"
  BY <1>1, <1>2 DEF AfterRow
<1>3. CASE ~(r.rows \ {p} = {} /\ after = "idle")
  <2>1. AfterRow(r, p, after) = s
    BY <1>3 DEF AfterRow
  <2>2. /\ s.at \in {"listed", "mark"} /\ s.rows = r.rows \ {p} /\ s.op = r.op
        /\ s.restore = r.restore
    BY <1>3 DEF TypeOK, Requests
  <2> HIDE DEF s
  <2> QED BY <1>1, <2>1, <2>2
<1> QED BY <1>2, <1>3

(* One request goes on, and the tables stay as they are. *)
LEMMA SerialMove ==
  ASSUME SerialInv, NEW w \in Workers, Alone(w),
         UNCHANGED <<booking, cases, payment>>, Mine(w)'
  PROVE  SerialInv'
<1>1. OneLivePaymentPerMilestone'
  BY DEF SerialInv, OneLivePaymentPerMilestone, Rows
<1> QED BY <1>1, EveryonesMine DEF SerialInv

LEMMA SerialNextRow ==
  ASSUME TypeOK, SerialInv, NEW w \in Workers, Alone(w), OnRows(w), req[w].op # "pay",
         NEW p, NEW after \in {"idle", "mark"}, NextRow(w, p, after),
         UNCHANGED <<booking, cases>>,
         \A q \in req[w].rows \ {p} : payment'[q] = payment[q]
  PROVE  Mine(w)'
<1>1. Mine(w)
  BY DEF SerialInv
<1>2. CASE req'[w] = Idle
  <2>1. Idle.at = "idle" /\ Idle.op = "none" /\ Idle.restore = "payment_pending"
    BY DEF Idle
  <2> QED BY <1>2, <2>1 DEF Mine, Fresh, Unfrozen, OnRows, Deserves, ReleaseOps
<1>3. CASE /\ req'[w].at \in {"listed", "mark"} /\ req'[w].rows = req[w].rows \ {p}
           /\ req'[w].op = req[w].op /\ req'[w].restore = req[w].restore
  <2>1. Fresh(w)'
    BY <1>1, <1>3 DEF Mine, Fresh, OnRows
  <2>2. Unfrozen(w)' => ~OpenCase'
    <3>1. Unfrozen(w)' => Unfrozen(w)
      BY <1>3 DEF Unfrozen, OnRows
    <3> QED BY <1>1, <3>1 DEF Mine, OpenCase
  <2>3. Deserves(req[w].restore, booking)'
    BY <1>1, <1>3 DEF Mine, Deserves
  <2> QED BY <1>3, <2>1, <2>2, <2>3 DEF Mine
<1> QED BY <1>2, <1>3, NextRowFact

(* The rows at hand are charged and live. *)
LEMMA RowsAtHand ==
  ASSUME TypeOK, LedgerInv, SerialInv, NEW w \in Workers, OnRows(w)
  PROVE  /\ req[w].op # "pay"
         /\ \A p \in req[w].rows : /\ p \in Escrowed /\ p \in PaymentIds /\ p \in Rows(Live)
                                   /\ payment[p].status = ListedAs(req[w].op)
         /\ req[w].at \in {"sent", "answered"} => req[w].row \in req[w].rows
<1>1. Fresh(w) /\ Accounts(req[w], Escrowed, Sent, Back)
  BY DEF SerialInv, Mine, LedgerInv
<1>2. req[w].op # "pay"
  BY <1>1 DEF Fresh, OnRows
<1>3. ASSUME NEW p \in req[w].rows
      PROVE  /\ p \in Escrowed /\ p \in PaymentIds /\ p \in Rows(Live)
             /\ payment[p].status = ListedAs(req[w].op)
  <2>1. p \in Escrowed /\ p \in PaymentIds /\ payment[p].status = ListedAs(req[w].op)
    BY <1>1, <1>2, <1>3 DEF Accounts, Escrowed, Fresh
  <2>2. ListedAs(req[w].op) \in Live
    BY ListedAsFact DEF Live
  <2> QED BY <2>1, <2>2 DEF Rows
<1> QED BY <1>1, <1>2, <1>3 DEF Accounts

(* A live row takes another status: no second row becomes live. *)
LEMMA OneLiveKept ==
  ASSUME TypeOK, SerialInv, NEW p \in Rows(Live),
         payment'[p].milestone = payment[p].milestone,
         \A q \in PaymentIds \ {p} : payment'[q] = payment[q]
  PROVE  OneLivePaymentPerMilestone'
<1>1. \A q \in Rows(Live)' : q \in Rows(Live) /\ payment'[q].milestone = payment[q].milestone
  BY DEF Rows
<1> QED BY <1>1 DEF SerialInv, OneLivePaymentPerMilestone

LEMMA SerialWriteRow ==
  ASSUME TypeOK, LedgerInv, SerialInv, NEW w \in Workers, Alone(w), OnRows(w),
         NEW p \in req[w].rows, NEW status, NEW due, NEW after \in {"idle", "mark"},
         WriteRow(w, p, status, due, after), UNCHANGED <<booking, cases>>
  PROVE  SerialInv'
<1>1. p \in PaymentIds /\ p \in Rows(Live) /\ req[w].op # "pay"
  BY RowsAtHand
<1>2. CASE IndexAllows(p, status)
  <2>1. payment' = [payment EXCEPT ![p].status = status, ![p].due = due]
        /\ NextRow(w, p, after)
    BY <1>2 DEF WriteRow
  <2>2. /\ payment'[p].milestone = payment[p].milestone
        /\ \A q \in PaymentIds \ {p} : payment'[q] = payment[q]
    BY <1>1, <2>1 DEF TypeOK, Payments
  <2>3. OneLivePaymentPerMilestone'
    BY <1>1, <2>2, OneLiveKept
  <2>4. Mine(w)'
    <3>1. \A q \in req[w].rows : q \in PaymentIds
      BY RowsAtHand
    <3> QED BY <1>1, <2>1, <2>2, <3>1, SerialNextRow
  <2> QED BY <2>3, <2>4, EveryonesMine DEF SerialInv
<1>3. CASE ~IndexAllows(p, status)
  <2>1. Answer(w) /\ UNCHANGED payment
    BY <1>3 DEF WriteRow
  <2> QED BY <2>1, AnswerMine, SerialMove
<1> QED BY <1>2, <1>3
-----------------------------------------------------------------------------
(* Every step keeps the invariant *)

LEMMA LoadSerial ==
  ASSUME TypeOK, SerialInv, NEW w \in Workers, Alone(w),
         NEW op \in SaveOps \cup {"settle"}, Load(w, op)
  PROVE  SerialInv'
<1> DEFINE r == [req[w] EXCEPT !.op = op, !.at = "loaded", !.seen = booking]
<1>1. Update(w, r) /\ UNCHANGED <<booking, cases, payment>>
  BY DEF Load
<1>2. r.op = op /\ r.at = "loaded" /\ r.seen = booking /\ r.restore = req[w].restore
  BY DEF TypeOK, Requests
<1> HIDE DEF r
<1>3. req'[w] = r
  BY <1>1, UpdateFact
<1>4. Mine(w)'
  BY <1>1, <1>2, <1>3 DEF Mine, Fresh, Unfrozen, OnRows, SerialInv, SaveOps
<1> QED BY <1>1, <1>4, SerialMove

LEMMA CheckSerial ==
  ASSUME TypeOK, SerialInv, NEW w \in Workers, Alone(w), Check(w)
  PROVE  SerialInv'
<1> DEFINE stage == IF req[w].op = "settle" THEN "saved" ELSE "checked"
           r     == [req[w] EXCEPT !.at = stage]
<1>1. /\ req[w].op \in SaveOps \cup {"settle"} /\ req[w].at = "loaded"
      /\ UNCHANGED <<booking, cases, payment>>
  BY DEF Check, At
<1>2. CASE Permitted(req[w].op, req[w].seen) /\ Update(w, r)
  <2>1. /\ r.op = req[w].op /\ r.at = stage /\ r.seen = req[w].seen
        /\ r.restore = req[w].restore
    BY DEF TypeOK, Requests
  <2> HIDE DEF r
  <2>2. req'[w] = r
    BY <1>2, UpdateFact
  <2>3. req[w].seen = booking /\ req[w].op # "pay"
    BY <1>1 DEF SerialInv, Mine, Fresh, SaveOps
  <2>4. /\ req[w].op \in {"settle", "cancel"} => ~OpenCase
        /\ req[w].op = "mark_completed" => booking.accepted
    BY <1>2, <2>3 DEF Permitted, MaySettle, MayCancel, MayMarkCompleted, SerialInv, Deserves
  <2>5. OpenCase' = OpenCase
    BY <1>1 DEF OpenCase
  <2>6. Mine(w)'
    BY <1>1, <2>1, <2>2, <2>3, <2>4, <2>5 DEF Mine, Fresh, Unfrozen, OnRows, SerialInv
  <2> QED BY <1>1, <2>6, SerialMove
<1>3. CASE Answer(w)
  BY <1>1, <1>3, AnswerMine, SerialMove
<1> QED BY <1>2, <1>3 DEF Check, Goto

(* Stages and marks only grow while nobody else writes. *)
LEMMA BookingSaved ==
  ASSUME SerialInv, NEW w \in Workers, Alone(w), Mine(w)', UNCHANGED <<cases, payment>>,
         booking.delivered => booking'.delivered, booking.accepted => booking'.accepted,
         Deserves(booking'.status, booking')
  PROVE  SerialInv'
<1>1. OneLivePaymentPerMilestone'
  BY DEF SerialInv, OneLivePaymentPerMilestone, Rows
<1>2. \A c \in Cases : Deserves(cases'[c].previous, booking')
  BY DEF SerialInv, Deserves
<1> QED BY <1>1, <1>2, EveryonesMine DEF SerialInv

LEMMA SaveSerial ==
  ASSUME TypeOK, SerialInv, NEW w \in Workers, Alone(w), Save(w)
  PROVE  SerialInv'
<1> DEFINE r == [req[w] EXCEPT !.at = "saved"]
<1>1. /\ req[w].op \in SaveOps /\ req[w].at = "checked"
      /\ booking' = Entity(req[w].op, req[w].seen)
      /\ UNCHANGED <<cases, payment>>
  BY DEF Save, At
<1>2. req[w].seen = booking /\ booking \in Bookings /\ Mine(w)
  BY <1>1 DEF SerialInv, Mine, Fresh, TypeOK
<1>3. /\ booking.delivered => booking'.delivered
      /\ booking.accepted => booking'.accepted
      /\ Deserves(booking'.status, booking')
  <2>1. Deserves(booking.status, booking)
    BY DEF SerialInv
  <2>2. req[w].op = "mark_completed" => booking.accepted
    BY <1>1, <1>2 DEF Mine
  <2> QED BY <1>1, <1>2, <2>1, <2>2 DEF Entity, Deserves, Bookings, SaveOps
<1>4. CASE Update(w, r)
  <2>1. r.op = req[w].op /\ r.at = "saved" /\ r.restore = req[w].restore
    BY DEF TypeOK, Requests
  <2> HIDE DEF r
  <2>2. req'[w] = r
    BY <1>4, UpdateFact
  <2>3. r.op = "cancel" => ~OpenCase
    BY <1>1, <1>2, <2>1 DEF Mine, Unfrozen
  <2>4. Mine(w)'
    BY <1>1, <1>2, <1>3, <2>1, <2>2, <2>3
       DEF Mine, Fresh, Unfrozen, OnRows, Deserves, OpenCase, SaveOps
  <2> QED BY <1>1, <1>3, <2>4, BookingSaved
<1>5. CASE Answer(w)
  BY <1>1, <1>3, <1>5, AnswerMine, BookingSaved
<1> QED BY <1>4, <1>5 DEF Save, Goto

LEMMA ReleaseListSerial ==
  ASSUME TypeOK, SerialInv, NEW w \in Workers, Alone(w), ReleaseList(w)
  PROVE  SerialInv'
<1> DEFINE held == {p \in GatewayRows({"held"}) :
                      payment[p].milestone \in ReleaseScope(req[w].op)}
           r    == [req[w] EXCEPT !.at = "listed", !.rows = held, !.dest = account]
<1>1. /\ req[w].op \in ReleaseOps /\ req[w].at = "saved"
      /\ UNCHANGED <<booking, cases, payment>>
  BY DEF ReleaseList, At
<1>2. CASE ReleaseDue(w) /\ Update(w, r)
  <2>1. \A p \in held : payment[p].status = "held"
    BY DEF GatewayRows, Rows
  <2>2. /\ r.op = req[w].op /\ r.at = "listed" /\ r.rows = held
        /\ r.restore = req[w].restore
    BY DEF TypeOK, Requests
  <2> HIDE DEF r, held
  <2>3. req'[w] = r
    BY <1>2, UpdateFact
  <2>4. ~OpenCase
    BY <1>1, <1>2 DEF ReleaseDue, SerialInv, Mine, Unfrozen
  <2>5. ListedAs(req[w].op) = "held"
    BY <1>1 DEF ListedAs, ReleaseOps, PayoutOps
  <2>6. Fresh(w)'
    BY <1>1, <2>1, <2>2, <2>3, <2>5 DEF Fresh, OnRows, ReleaseOps
  <2>7. Mine(w)'
    BY <1>1, <2>2, <2>3, <2>4, <2>6 DEF Mine, OpenCase, SerialInv
  <2> QED BY <1>1, <2>7, SerialMove
<1>3. CASE Answer(w)
  BY <1>1, <1>3, AnswerMine, SerialMove
<1> QED BY <1>2, <1>3 DEF ReleaseList

(* A call to the gateway about a listed row. *)
LEMMA CallSerial ==
  ASSUME SerialInv, NEW w \in Workers, Alone(w),
         OnRows(w), req[w].op # "pay", req'[w].at \in {"sent", "answered"},
         req'[w].op = req[w].op, req'[w].rows = req[w].rows, req'[w].restore = req[w].restore,
         UNCHANGED <<booking, cases, payment>>
  PROVE  SerialInv'
<1>1. Mine(w)
  BY DEF SerialInv
<1>2. Fresh(w)'
  BY <1>1 DEF Mine, Fresh, OnRows
<1>3. Unfrozen(w)' => ~OpenCase'
  <2>1. Unfrozen(w)' => Unfrozen(w)
    BY DEF Unfrozen, OnRows
  <2> QED BY <1>1, <2>1 DEF Mine, OpenCase
<1>4. Mine(w)'
  BY <1>1, <1>2, <1>3 DEF Mine
<1> QED BY <1>4, SerialMove

LEMMA ReleaseTransferSerial ==
  ASSUME TypeOK, SerialInv, NEW w \in Workers, Alone(w), NEW p, ReleaseTransfer(w, p)
  PROVE  SerialInv'
<1>1. PICK ok \in BOOLEAN :
        Update(w, [req[w] EXCEPT !.at = "answered", !.row = p, !.sent = ok,
                                 !.share = PayoutShare(p)])
  BY DEF ReleaseTransfer
<1> DEFINE r == [req[w] EXCEPT !.at = "answered", !.row = p, !.sent = ok,
                               !.share = PayoutShare(p)]
<1>2. /\ OnRows(w) /\ req[w].op # "pay" /\ UNCHANGED <<booking, cases, payment>>
  BY DEF ReleaseTransfer, At, OnRows, ReleaseOps
<1>3. /\ r.at = "answered" /\ r.rows = req[w].rows /\ r.op = req[w].op
      /\ r.restore = req[w].restore
  BY DEF TypeOK, Requests
<1>4. req'[w] = r
  BY <1>1, UpdateFact
<1> HIDE DEF r
<1> QED BY <1>2, <1>3, <1>4, CallSerial

LEMMA ReleaseWriteSerial ==
  ASSUME TypeOK, LedgerInv, SerialInv, NEW w \in Workers, Alone(w), NEW p,
         ReleaseWrite(w, p)
  PROVE  SerialInv'
<1>1. /\ OnRows(w) /\ p \in req[w].rows /\ UNCHANGED <<booking, cases>>
  BY RowsAtHand DEF ReleaseWrite, At, OnRows
<1> QED BY <1>1, SerialWriteRow DEF ReleaseWrite

LEMMA PayBeginSerial ==
  ASSUME TypeOK, SerialInv, NEW w \in Workers, Alone(w), PayBegin(w)
  PROVE  SerialInv'
<1> DEFINE r == [req[w] EXCEPT !.op = "pay", !.at = "checked",
                               !.seen = booking, !.rows = Rows(Live)]
<1>1. Update(w, r) /\ UNCHANGED <<booking, cases, payment>>
  BY DEF PayBegin
<1>2. /\ r.op = "pay" /\ r.at = "checked" /\ r.seen = booking /\ r.rows = Rows(Live)
      /\ r.restore = req[w].restore
  BY DEF TypeOK, Requests
<1> HIDE DEF r
<1>3. req'[w] = r
  BY <1>1, UpdateFact
<1>4. Rows(Live)' = Rows(Live)
  BY <1>1 DEF Rows
<1>5. Mine(w)'
  BY <1>1, <1>2, <1>3, <1>4 DEF Mine, Fresh, Unfrozen, OnRows, SerialInv, ReleaseOps
<1> QED BY <1>1, <1>5, SerialMove

LEMMA PayCommitSerial ==
  ASSUME TypeOK, SerialInv, NEW w \in Workers, Alone(w), NEW m \in Milestones,
         NEW cash \in BOOLEAN, NEW p \in PaymentIds, PayCommit(w, m, cash, p)
  PROVE  SerialInv'
<1>1. /\ req[w].op = "pay" /\ req[w].at = "checked" /\ ~AlreadyPaid(m, req[w].rows)
      /\ payment' = [payment EXCEPT ![p] = Recorded(m, cash)]
      /\ booking' = IF m = "advance" THEN [req[w].seen EXCEPT !.status = "confirmed"]
                                     ELSE req[w].seen
      /\ Answer(w) /\ UNCHANGED cases
  BY DEF PayCommit, At
<1>2. req[w].seen = booking /\ req[w].rows = Rows(Live) /\ booking \in Bookings
  BY <1>1 DEF SerialInv, Mine, Fresh, TypeOK
<1>3. OneLivePaymentPerMilestone'
  <2>1. /\ payment'[p].milestone = m
        /\ \A q \in PaymentIds \ {p} : payment'[q] = payment[q]
    BY <1>1 DEF TypeOK, Recorded
  <2>2. \A q \in Rows(Live) : payment[q].milestone # m
    BY <1>1, <1>2 DEF AlreadyPaid
  <2>3. \A q \in Rows(Live)' : q = p \/ (q \in Rows(Live) /\ payment'[q] = payment[q])
    BY <2>1 DEF Rows
  <2> QED BY <2>1, <2>2, <2>3 DEF SerialInv, OneLivePaymentPerMilestone
<1>4. /\ booking.delivered = booking'.delivered /\ booking.accepted = booking'.accepted
      /\ Deserves(booking'.status, booking')
  BY <1>1, <1>2 DEF Bookings, SerialInv, Deserves
<1>5. \A c \in Cases : Deserves(cases'[c].previous, booking')
  BY <1>1, <1>4 DEF SerialInv, Deserves
<1>6. Mine(w)'
  BY <1>1, AnswerMine
<1> QED BY <1>3, <1>4, <1>5, <1>6, EveryonesMine DEF SerialInv

LEMMA CancelListSerial ==
  ASSUME TypeOK, SerialInv, NEW w \in Workers, Alone(w), CancelList(w)
  PROVE  SerialInv'
<1> DEFINE r == [req[w] EXCEPT !.at = "listed", !.rows = Refundable]
<1>1. /\ req[w].op = "cancel" /\ req[w].at = "saved"
      /\ (Answer(w) \/ Update(w, r)) /\ UNCHANGED <<booking, cases, payment>>
  BY DEF CancelList, At
<1>2. CASE Update(w, r)
  <2>1. \A p \in Refundable : payment[p].status = "held"
    BY DEF Refundable, GatewayRows, Rows
  <2>2. r.op = "cancel" /\ r.at = "listed" /\ r.rows = Refundable /\ r.restore = req[w].restore
    BY <1>1 DEF TypeOK, Requests
  <2> HIDE DEF r
  <2>3. req'[w] = r
    BY <1>2, UpdateFact
  <2>4. ~OpenCase /\ ListedAs("cancel") = "held"
    BY <1>1 DEF SerialInv, Mine, Unfrozen, ListedAs, PayoutOps
  <2>5. Fresh(w)' /\ UNCHANGED <<booking, cases, payment>>
    BY <1>1, <2>1, <2>2, <2>3, <2>4 DEF Fresh, OnRows, CancelList
  <2>6. Mine(w)'
    BY <2>2, <2>3, <2>4, <2>5 DEF Mine, OpenCase, SerialInv
  <2> QED BY <2>5, <2>6, SerialMove
<1>3. CASE Answer(w)
  BY <1>3, AnswerMine, SerialMove DEF CancelList
<1> QED BY <1>1, <1>2, <1>3

LEMMA CancelRefundSerial ==
  ASSUME TypeOK, SerialInv, NEW w \in Workers, Alone(w), NEW p, CancelRefund(w, p)
  PROVE  SerialInv'
<1>1. PICK ok \in BOOLEAN :
        Update(w, [req[w] EXCEPT !.at = "answered", !.row = p, !.back = ok])
  BY DEF CancelRefund
<1> DEFINE r == [req[w] EXCEPT !.at = "answered", !.row = p, !.back = ok]
<1>2. /\ OnRows(w) /\ req[w].op # "pay" /\ UNCHANGED <<booking, cases, payment>>
  BY DEF CancelRefund, At, OnRows
<1>3. /\ r.at = "answered" /\ r.rows = req[w].rows /\ r.op = req[w].op
      /\ r.restore = req[w].restore
  BY DEF TypeOK, Requests
<1>4. req'[w] = r
  BY <1>1, UpdateFact
<1> HIDE DEF r
<1> QED BY <1>2, <1>3, <1>4, CallSerial

LEMMA CancelWriteSerial ==
  ASSUME TypeOK, LedgerInv, SerialInv, NEW w \in Workers, Alone(w), NEW p,
         CancelWrite(w, p)
  PROVE  SerialInv'
<1>1. OnRows(w) /\ p \in req[w].rows /\ req[w].op # "pay" /\ UNCHANGED <<booking, cases>>
  BY RowsAtHand DEF CancelWrite, At, OnRows
<1>2. CASE req[w].back
  BY <1>1, <1>2, SerialWriteRow DEF CancelWrite
<1>3. CASE ~req[w].back
  <2>1. NextRow(w, p, "idle") /\ UNCHANGED payment
    BY <1>3 DEF CancelWrite
  <2> QED BY <1>1, <2>1, SerialNextRow, SerialMove
<1> QED BY <1>2, <1>3

LEMMA PayoutListSerial ==
  ASSUME TypeOK, SerialInv, NEW w \in Workers, Alone(w), NEW op \in PayoutOps,
         PayoutList(w, op)
  PROVE  SerialInv'
<1> DEFINE r == [req[w] EXCEPT !.op = op, !.at = "listed",
                               !.rows = Rows({"pending_payout"}), !.dest = account]
<1>1. Update(w, r) /\ UNCHANGED <<booking, cases, payment>>
  BY DEF PayoutList
<1>2. /\ r.op = op /\ r.at = "listed" /\ r.rows = Rows({"pending_payout"})
      /\ r.restore = req[w].restore
  BY DEF TypeOK, Requests
<1> HIDE DEF r
<1>3. req'[w] = r
  BY <1>1, UpdateFact
<1>4. \A p \in r.rows : payment'[p].status = ListedAs(op)
  <2>1. ListedAs(op) = "pending_payout"
    BY DEF ListedAs, PayoutOps
  <2>2. \A p \in Rows({"pending_payout"}) : payment[p].status = "pending_payout"
    BY DEF Rows
  <2> QED BY <1>1, <1>2, <2>1, <2>2
<1>5. Mine(w)'
  BY <1>1, <1>2, <1>3, <1>4
     DEF Mine, Fresh, Unfrozen, OnRows, SerialInv, ReleaseOps, PayoutOps
<1> QED BY <1>1, <1>5, SerialMove

LEMMA PayoutClaimSerial ==
  ASSUME TypeOK, SerialInv, NEW w \in Workers, Alone(w), NEW p, PayoutClaim(w, p)
  PROVE  SerialInv'
<1>1. PICK ok \in BOOLEAN :
        Update(w, [req[w] EXCEPT !.at = "answered", !.row = p, !.sent = ok])
  BY DEF PayoutClaim
<1> DEFINE r == [req[w] EXCEPT !.at = "answered", !.row = p, !.sent = ok]
<1>2. /\ OnRows(w) /\ req[w].op # "pay" /\ UNCHANGED <<booking, cases, payment>>
  BY DEF PayoutClaim, At, OnRows, PayoutOps
<1>3. /\ r.at = "answered" /\ r.rows = req[w].rows /\ r.op = req[w].op
      /\ r.restore = req[w].restore
  BY DEF TypeOK, Requests
<1>4. req'[w] = r
  BY <1>1, UpdateFact
<1> HIDE DEF r
<1> QED BY <1>2, <1>3, <1>4, CallSerial

LEMMA PayoutSkipSerial ==
  ASSUME TypeOK, SerialInv, NEW w \in Workers, Alone(w), NEW p, PayoutSkip(w, p)
  PROVE  SerialInv'
<1>1. /\ OnRows(w) /\ req[w].op # "pay" /\ NextRow(w, p, "idle")
      /\ UNCHANGED <<booking, cases, payment>>
  BY DEF PayoutSkip, At, OnRows, PayoutOps
<1> QED BY <1>1, SerialNextRow, SerialMove

LEMMA PayoutWriteSerial ==
  ASSUME TypeOK, LedgerInv, SerialInv, NEW w \in Workers, Alone(w), NEW p,
         PayoutWrite(w, p)
  PROVE  SerialInv'
<1>1. /\ OnRows(w) /\ req[w].op # "pay" /\ p \in req[w].rows
      /\ p \in PaymentIds /\ p \in Rows(Live)
      /\ (\A q \in req[w].rows : q \in PaymentIds)
      /\ (Answer(w) \/ NextRow(w, p, "idle")) /\ UNCHANGED <<booking, cases>>
  BY RowsAtHand DEF PayoutWrite, At, OnRows
<1>2. /\ \A q \in PaymentIds \ {p} : payment'[q] = payment[q]
      /\ payment'[p].milestone = payment[p].milestone
  BY <1>1 DEF PayoutWrite, TypeOK, Payments
<1>3. Mine(w)'
  BY <1>1, <1>2, AnswerMine, SerialNextRow
<1>4. OneLivePaymentPerMilestone'
  BY <1>1, <1>2, OneLiveKept
<1> QED BY <1>1, <1>3, <1>4, EveryonesMine DEF SerialInv

-----------------------------------------------------------------------------
(* Support cases *)

LEMMA RaiseLoadSerial ==
  ASSUME TypeOK, SerialInv, NEW w \in Workers, Alone(w), NEW c, RaiseLoad(w, c)
  PROVE  SerialInv'
<1> DEFINE r == [req[w] EXCEPT !.op = "raise", !.at = "loaded", !.case = c,
                               !.seen = booking]
<1>1. Update(w, r) /\ UNCHANGED <<booking, cases, payment>>
  BY DEF RaiseLoad
<1>2. r.op = "raise" /\ r.at = "loaded" /\ r.seen = booking /\ r.restore = req[w].restore
  BY DEF TypeOK, Requests
<1> HIDE DEF r
<1>3. req'[w] = r
  BY <1>1, UpdateFact
<1>4. Mine(w)'
  BY <1>1, <1>2, <1>3 DEF Mine, Fresh, Unfrozen, OnRows, SerialInv, ReleaseOps
<1> QED BY <1>1, <1>4, SerialMove

(* The case remembers the stage of a booking nobody has touched since. *)
LEMMA RaiseSaveSerial ==
  ASSUME TypeOK, SerialInv, NEW w \in Workers, Alone(w), NEW c \in Cases,
         RaiseSave(w, c)
  PROVE  SerialInv'
<1> DEFINE r == [req[w] EXCEPT !.at = "saved", !.restore = "disputed"]
<1>1. /\ req[w].op = "raise" /\ req[w].at = "loaded" /\ Update(w, r)
      /\ cases' = [cases EXCEPT ![c] = [status |-> "in_flight", kind |-> "booking",
                                        previous |-> req[w].seen.status]]
      /\ UNCHANGED <<booking, payment>>
  BY DEF RaiseSave, At
<1>2. r.op = "raise" /\ r.at = "saved" /\ r.restore = "disputed"
  BY <1>1 DEF TypeOK, Requests
<1> HIDE DEF r
<1>3. req'[w] = r
  BY <1>1, UpdateFact
<1>4. Mine(w)'
  BY <1>2, <1>3 DEF Mine, Fresh, Unfrozen, OnRows, Deserves, ReleaseOps
<1>5. ASSUME NEW d \in Cases PROVE Deserves(cases'[d].previous, booking')
  <2>1. req[w].seen = booking
    BY <1>1 DEF SerialInv, Mine, Fresh
  <2>2. cases'[d].previous \in {cases[d].previous, booking.status}
    BY <1>1, <2>1 DEF TypeOK
  <2> QED BY <1>1, <2>2 DEF SerialInv
<1>6. OneLivePaymentPerMilestone'
  BY <1>1 DEF SerialInv, OneLivePaymentPerMilestone, Rows
<1> QED BY <1>1, <1>4, <1>5, <1>6, EveryonesMine DEF SerialInv

LEMMA FreezeListSerial ==
  ASSUME TypeOK, SerialInv, NEW w \in Workers, Alone(w), FreezeList(w)
  PROVE  SerialInv'
<1> DEFINE stage == IF Rows({"held"}) = {} THEN "mark" ELSE "listed"
           r     == [req[w] EXCEPT !.rows = Rows({"held"}), !.at = stage]
<1>1. req[w].op = "raise" /\ Update(w, r) /\ UNCHANGED <<booking, cases, payment>>
  BY DEF FreezeList, At
<1>2. /\ r.op = "raise" /\ r.at \in {"mark", "listed"} /\ r.rows = Rows({"held"})
      /\ r.restore = req[w].restore
  BY <1>1 DEF TypeOK, Requests
<1> HIDE DEF r
<1>3. req'[w] = r
  BY <1>1, UpdateFact
<1>4. \A p \in r.rows : payment'[p].status = ListedAs("raise")
  BY <1>1, <1>2 DEF Rows, ListedAs, PayoutOps
<1>5. Mine(w)'
  BY <1>1, <1>2, <1>3, <1>4 DEF Mine, Fresh, Unfrozen, OnRows, SerialInv, ReleaseOps
<1> QED BY <1>1, <1>5, SerialMove

LEMMA FreezeWriteSerial ==
  ASSUME TypeOK, LedgerInv, SerialInv, NEW w \in Workers, Alone(w), NEW p,
         FreezeWrite(w, p)
  PROVE  SerialInv'
<1>1. OnRows(w) /\ p \in req[w].rows /\ UNCHANGED <<booking, cases>>
  BY DEF FreezeWrite, At, OnRows
<1> QED BY <1>1, SerialWriteRow DEF FreezeWrite

LEMMA MarkLoadSerial ==
  ASSUME TypeOK, SerialInv, NEW w \in Workers, Alone(w), MarkLoad(w)
  PROVE  SerialInv'
<1> DEFINE r == [req[w] EXCEPT !.at = "marking", !.seen = booking]
<1>1. /\ req[w].op \in {"raise", "decide"} /\ Update(w, r)
      /\ UNCHANGED <<booking, cases, payment>>
  BY DEF MarkLoad, At
<1>2. r.op = req[w].op /\ r.at = "marking" /\ r.seen = booking /\ r.restore = req[w].restore
  BY DEF TypeOK, Requests
<1> HIDE DEF r
<1>3. req'[w] = r
  BY <1>1, UpdateFact
<1>4. Mine(w)'
  BY <1>1, <1>2, <1>3 DEF Mine, Fresh, Unfrozen, OnRows, SerialInv, ReleaseOps
<1> QED BY <1>1, <1>4, SerialMove

LEMMA MarkSaveSerial ==
  ASSUME TypeOK, SerialInv, NEW w \in Workers, Alone(w), MarkSave(w)
  PROVE  SerialInv'
<1>1. /\ req[w].at = "marking" /\ booking' = [req[w].seen EXCEPT !.status = req[w].restore]
      /\ Answer(w) /\ UNCHANGED <<cases, payment>>
  BY DEF MarkSave, At
<1>2. req[w].seen = booking /\ Deserves(req[w].restore, booking) /\ booking \in Bookings
  BY <1>1 DEF SerialInv, Mine, Fresh, TypeOK
<1>3. /\ booking'.status = req[w].restore
      /\ booking'.delivered = booking.delivered /\ booking'.accepted = booking.accepted
  BY <1>1, <1>2 DEF Bookings
<1>4. Deserves(booking'.status, booking')
  BY <1>2, <1>3 DEF Deserves
<1> QED BY <1>1, <1>3, <1>4, AnswerMine, BookingSaved

LEMMA DecideLoadSerial ==
  ASSUME TypeOK, SerialInv, NEW w \in Workers, Alone(w), NEW c \in Cases, NEW outcome,
         NEW amount, DecideLoad(w, c, outcome, amount)
  PROVE  SerialInv'
<1> DEFINE restore == IF outcome = "refund" THEN "cancelled" ELSE cases[c].previous
           left    == IF outcome = "partial" THEN amount ELSE 0
           r == [req[w] EXCEPT !.op = "decide", !.at = "loaded", !.case = c,
                               !.outcome = outcome, !.left = left, !.restore = restore]
<1>1. Update(w, r) /\ UNCHANGED <<booking, cases, payment>>
  BY DEF DecideLoad
<1>2. Deserves(restore, booking)
  BY DEF SerialInv, Deserves
<1>3. r.op = "decide" /\ r.at = "loaded" /\ r.restore = restore
  BY DEF TypeOK, Requests
<1> HIDE DEF r, restore
<1>4. req'[w] = r
  BY <1>1, UpdateFact
<1>5. Mine(w)'
  BY <1>1, <1>2, <1>3, <1>4 DEF Mine, Fresh, Unfrozen, OnRows, SerialInv, ReleaseOps
<1> QED BY <1>1, <1>5, SerialMove

(* A step of the desk that changes the status of a case and nothing else *)
(* that matters here, while no release or cancellation is at work.       *)
LEMMA CaseMoves ==
  ASSUME TypeOK, SerialInv, NEW w \in Workers, Alone(w), NEW c \in Cases,
         UNCHANGED <<booking, payment>>, cases'[c].previous = cases[c].previous,
         \A d \in Cases \ {c} : cases'[d] = cases[d],
         Fresh(w)', ~Unfrozen(w)', Deserves(req'[w].restore, booking),
         ~(req'[w].op = "mark_completed" /\ req'[w].at = "checked")
  PROVE  SerialInv'
<1>1. Mine(w)'
  BY DEF Mine
<1>2. \A d \in Cases : Deserves(cases'[d].previous, booking')
  BY DEF SerialInv
<1>3. OneLivePaymentPerMilestone'
  BY DEF SerialInv, OneLivePaymentPerMilestone, Rows
<1> QED BY <1>1, <1>2, <1>3, EveryonesMine DEF SerialInv

LEMMA DecideSaveSerial ==
  ASSUME TypeOK, SerialInv, NEW w \in Workers, Alone(w), NEW c \in Cases,
         DecideSave(w, c)
  PROVE  SerialInv'
<1> DEFINE r == [req[w] EXCEPT !.at = "saved"]
<1>1. /\ req[w].op = "decide" /\ (Update(w, r) \/ Answer(w))
      /\ cases' = [cases EXCEPT ![c].status = "resolved"] /\ UNCHANGED <<booking, payment>>
  BY DEF DecideSave, At, Goto
<1>2. /\ cases'[c].previous = cases[c].previous
      /\ \A d \in Cases \ {c} : cases'[d] = cases[d]
  BY <1>1 DEF TypeOK, CaseRows
<1>3. r.op = "decide" /\ r.at = "saved" /\ r.restore = req[w].restore
  BY <1>1 DEF TypeOK, Requests
<1>4. Idle.op = "none" /\ Idle.at = "idle" /\ Idle.restore = "payment_pending"
  BY DEF Idle
<1> HIDE DEF r
<1>5. req'[w] = r \/ req'[w] = Idle
  BY <1>1, UpdateFact DEF Answer
<1>6. /\ Fresh(w)' /\ ~Unfrozen(w)' /\ Deserves(req'[w].restore, booking)
      /\ ~(req'[w].op = "mark_completed" /\ req'[w].at = "checked")
  BY <1>1, <1>3, <1>4, <1>5
     DEF SerialInv, Mine, Fresh, Unfrozen, OnRows, Deserves, ReleaseOps
<1> QED BY <1>1, <1>2, <1>6, CaseMoves

(* The one-step handlers of the desk start from rest. *)
LEMMA DeskSerial ==
  ASSUME TypeOK, SerialInv, NEW w \in Workers, Alone(w), NEW c \in Cases,
         RequestSettlement(w, c) \/ CloseCase(w, c) \/ ReopenCase(w, c)
  PROVE  SerialInv'
<1>1. /\ req[w].at = "idle" /\ UNCHANGED <<booking, payment, req>>
  BY DEF RequestSettlement, CloseCase, ReopenCase, Free
<1>2. /\ cases'[c].previous = cases[c].previous
      /\ \A d \in Cases \ {c} : cases'[d] = cases[d]
  BY DEF RequestSettlement, CloseCase, ReopenCase, TypeOK, CaseRows
<1>3. /\ Fresh(w)' /\ ~Unfrozen(w)' /\ Deserves(req'[w].restore, booking)
      /\ ~(req'[w].op = "mark_completed" /\ req'[w].at = "checked")
  BY <1>1 DEF SerialInv, Mine, Fresh, Unfrozen, OnRows
<1> QED BY <1>1, <1>2, <1>3, CaseMoves

LEMMA DecideListSerial ==
  ASSUME TypeOK, SerialInv, NEW w \in Workers, Alone(w), DecideList(w)
  PROVE  SerialInv'
<1> DEFINE disputed == IF req[w].outcome = "no_action" THEN Rows({"disputed"})
                                                       ELSE GatewayRows({"disputed"})
           stage == IF disputed = {} THEN "mark" ELSE "listed"
           r == [req[w] EXCEPT !.rows = disputed, !.dest = account, !.at = stage]
<1>1. req[w].op = "decide" /\ Update(w, r) /\ UNCHANGED <<booking, cases, payment>>
  BY DEF DecideList, At
<1>2. \A p \in disputed : payment'[p].status = ListedAs("decide")
  BY <1>1 DEF Rows, GatewayRows, ListedAs, PayoutOps
<1> HIDE DEF disputed
<1>3. /\ r.op = "decide" /\ r.at \in {"mark", "listed"} /\ r.rows = disputed
      /\ r.restore = req[w].restore
  BY <1>1 DEF TypeOK, Requests
<1> HIDE DEF r
<1>4. req'[w] = r
  BY <1>1, UpdateFact
<1>5. Mine(w)'
  BY <1>1, <1>2, <1>3, <1>4 DEF Mine, Fresh, Unfrozen, OnRows, SerialInv, ReleaseOps
<1> QED BY <1>1, <1>5, SerialMove

LEMMA UnfreezeWriteSerial ==
  ASSUME TypeOK, LedgerInv, SerialInv, NEW w \in Workers, Alone(w), NEW p,
         UnfreezeWrite(w, p)
  PROVE  SerialInv'
<1>1. OnRows(w) /\ p \in req[w].rows /\ UNCHANGED <<booking, cases>>
  BY DEF UnfreezeWrite, At, OnRows
<1> QED BY <1>1, SerialWriteRow DEF UnfreezeWrite

LEMMA SettleTransferSerial ==
  ASSUME TypeOK, SerialInv, NEW w \in Workers, Alone(w), NEW p, SettleTransfer(w, p)
  PROVE  SerialInv'
<1> DEFINE left == IF req[w].outcome = "partial" THEN req[w].left - ToProvider(w)
                                                 ELSE req[w].left
<1>1. PICK ok \in BOOLEAN :
        Update(w, [req[w] EXCEPT !.at = "sent", !.row = p, !.sent = ok,
                                 !.share = ToProvider(w), !.left = left])
  BY DEF SettleTransfer
<1> DEFINE r == [req[w] EXCEPT !.at = "sent", !.row = p, !.sent = ok,
                               !.share = ToProvider(w), !.left = left]
<1>2. /\ OnRows(w) /\ req[w].op # "pay" /\ UNCHANGED <<booking, cases, payment>>
  BY DEF SettleTransfer, At, OnRows
<1>3. /\ r.at = "sent" /\ r.rows = req[w].rows /\ r.op = req[w].op
      /\ r.restore = req[w].restore
  BY DEF TypeOK, Requests
<1>4. req'[w] = r
  BY <1>1, UpdateFact
<1> HIDE DEF r
<1> QED BY <1>2, <1>3, <1>4, CallSerial

LEMMA SettleRefundSerial ==
  ASSUME TypeOK, SerialInv, NEW w \in Workers, Alone(w), NEW p, SettleRefund(w, p)
  PROVE  SerialInv'
<1>1. PICK ok \in BOOLEAN : Update(w, [req[w] EXCEPT !.at = "answered", !.back = ok])
  BY DEF SettleRefund
<1> DEFINE r == [req[w] EXCEPT !.at = "answered", !.back = ok]
<1>2. /\ OnRows(w) /\ req[w].op # "pay" /\ UNCHANGED <<booking, cases, payment>>
  BY DEF SettleRefund, At, OnRows
<1>3. /\ r.at = "answered" /\ r.rows = req[w].rows /\ r.op = req[w].op
      /\ r.restore = req[w].restore
  BY DEF TypeOK, Requests
<1>4. req'[w] = r
  BY <1>1, UpdateFact
<1> HIDE DEF r
<1> QED BY <1>2, <1>3, <1>4, CallSerial

LEMMA SettleWriteSerial ==
  ASSUME TypeOK, LedgerInv, SerialInv, NEW w \in Workers, Alone(w), NEW p,
         SettleWrite(w, p)
  PROVE  SerialInv'
<1>1. OnRows(w) /\ p \in req[w].rows /\ req[w].op # "pay" /\ UNCHANGED <<booking, cases>>
  BY RowsAtHand DEF SettleWrite, At, OnRows
<1>2. CASE req[w].back
  BY <1>1, <1>2, SerialWriteRow DEF SettleWrite
<1>3. CASE ~req[w].back
  <2>1. NextRow(w, p, "mark") /\ UNCHANGED payment
    BY <1>3 DEF SettleWrite
  <2> QED BY <1>1, <2>1, SerialNextRow, SerialMove
<1> QED BY <1>2, <1>3

-----------------------------------------------------------------------------
(* Who is not being served has nothing in hand *)

Resting == \A w \in Workers : req[w].at = "idle" => req[w] = Idle

Takes(w) ==
  \/ BookingSteps(w) \/ PayoutSteps(w) \/ CaseSteps(w)
  \/ ChangeAccount(w) \/ RequestDies(w)

(* A step is about one request, which goes on or is answered. *)
GoesOn(w) ==
  \/ UNCHANGED req
  \/ \E r : Update(w, r) /\ (r.at = "idle" => r = Idle)

LEMMA AnswerGoes == ASSUME NEW w, Answer(w) PROVE GoesOn(w)
BY DEF Answer, GoesOn

LEMMA UpdateGoes ==
  ASSUME NEW w, NEW r, Update(w, r), r.at # "idle" PROVE GoesOn(w)
BY DEF GoesOn

LEMMA GotoGoes ==
  ASSUME TypeOK, NEW w \in Workers, NEW stage, stage # "idle", Goto(w, stage)
  PROVE  GoesOn(w)
<1> DEFINE r == [req[w] EXCEPT !.at = stage]
<1>1. Update(w, r) /\ r.at = stage
  BY DEF Goto, TypeOK, Requests
<1> HIDE DEF r
<1> QED BY <1>1, UpdateGoes

LEMMA NextRowGoes ==
  ASSUME TypeOK, NEW w \in Workers, NEW p, NEW after \in {"idle", "mark"},
         NextRow(w, p, after)
  PROVE  GoesOn(w)
<1>1. Update(w, req'[w])
  BY UpdateFact DEF NextRow
<1>2. req'[w].at = "idle" => req'[w] = Idle
  BY NextRowFact
<1> QED BY <1>1, <1>2 DEF GoesOn

LEMMA WriteRowGoes ==
  ASSUME TypeOK, NEW w \in Workers, NEW p, NEW status, NEW due,
         NEW after \in {"idle", "mark"}, WriteRow(w, p, status, due, after)
  PROVE  GoesOn(w)
BY AnswerGoes, NextRowGoes DEF WriteRow

LEMMA BookingGoes ==
  ASSUME TypeOK, NEW w \in Workers, BookingSteps(w) PROVE GoesOn(w)
<1>1. ASSUME NEW op, Load(w, op) PROVE GoesOn(w)
  <2> DEFINE r == [req[w] EXCEPT !.op = op, !.at = "loaded", !.seen = booking]
  <2>1. Update(w, r) /\ r.at = "loaded"
    BY <1>1 DEF Load, TypeOK, Requests
  <2> HIDE DEF r
  <2> QED BY <2>1, UpdateGoes
<1>2. CASE Check(w) \/ Save(w)
  <2>1. Answer(w) \/ \E stage \in {"saved", "checked"} : Goto(w, stage)
    BY <1>2 DEF Check, Save
  <2> QED BY <2>1, AnswerGoes, GotoGoes
<1>3. CASE ReleaseList(w)
  <2> DEFINE held == {p \in GatewayRows({"held"}) :
                        payment[p].milestone \in ReleaseScope(req[w].op)}
             r    == [req[w] EXCEPT !.at = "listed", !.rows = held, !.dest = account]
  <2>1. Answer(w) \/ Update(w, r)
    BY <1>3 DEF ReleaseList
  <2>2. r.at = "listed"
    BY DEF TypeOK, Requests
  <2> HIDE DEF r
  <2> QED BY <2>1, <2>2, AnswerGoes, UpdateGoes
<1>4. ASSUME NEW p, ReleaseTransfer(w, p) PROVE GoesOn(w)
  <2>1. PICK ok \in BOOLEAN :
          Update(w, [req[w] EXCEPT !.at = "answered", !.row = p, !.sent = ok,
                                   !.share = PayoutShare(p)])
    BY <1>4 DEF ReleaseTransfer
  <2> DEFINE r == [req[w] EXCEPT !.at = "answered", !.row = p, !.sent = ok,
                                 !.share = PayoutShare(p)]
  <2>2. r.at = "answered"
    BY DEF TypeOK, Requests
  <2> HIDE DEF r
  <2> QED BY <2>1, <2>2, UpdateGoes DEF r
<1>5. CASE PayBegin(w)
  <2> DEFINE r == [req[w] EXCEPT !.op = "pay", !.at = "checked",
                                 !.seen = booking, !.rows = Rows(Live)]
  <2>1. Update(w, r) /\ r.at = "checked"
    BY <1>5 DEF PayBegin, TypeOK, Requests
  <2> HIDE DEF r
  <2> QED BY <2>1, UpdateGoes
<1>6. CASE CancelList(w)
  <2> DEFINE r == [req[w] EXCEPT !.at = "listed", !.rows = Refundable]
  <2>1. Answer(w) \/ Update(w, r)
    BY <1>6 DEF CancelList
  <2>2. r.at = "listed"
    BY DEF TypeOK, Requests
  <2> HIDE DEF r
  <2> QED BY <2>1, <2>2, AnswerGoes, UpdateGoes
<1>7. ASSUME NEW p, CancelRefund(w, p) PROVE GoesOn(w)
  <2>1. PICK ok \in BOOLEAN :
          Update(w, [req[w] EXCEPT !.at = "answered", !.row = p, !.back = ok])
    BY <1>7 DEF CancelRefund
  <2> DEFINE r == [req[w] EXCEPT !.at = "answered", !.row = p, !.back = ok]
  <2>2. r.at = "answered"
    BY DEF TypeOK, Requests
  <2> HIDE DEF r
  <2> QED BY <2>1, <2>2, UpdateGoes DEF r
<1>8. ASSUME NEW p, ReleaseWrite(w, p) \/ CancelWrite(w, p) PROVE GoesOn(w)
  BY <1>8, WriteRowGoes, NextRowGoes DEF ReleaseWrite, CancelWrite
<1>9. ASSUME NEW m, NEW cash, NEW p, PayCommit(w, m, cash, p) \/ PayRollback(w)
      PROVE  GoesOn(w)
  BY <1>9, AnswerGoes DEF PayCommit, PayRollback
<1> QED BY <1>1, <1>2, <1>3, <1>4, <1>5, <1>6, <1>7, <1>8, <1>9 DEF BookingSteps

LEMMA PayoutGoes ==
  ASSUME TypeOK, NEW w \in Workers, PayoutSteps(w) PROVE GoesOn(w)
<1>1. ASSUME NEW op, PayoutList(w, op) PROVE GoesOn(w)
  <2> DEFINE r == [req[w] EXCEPT !.op = op, !.at = "listed",
                                 !.rows = Rows({"pending_payout"}), !.dest = account]
  <2>1. Update(w, r) /\ r.at = "listed"
    BY <1>1 DEF PayoutList, TypeOK, Requests
  <2> HIDE DEF r
  <2> QED BY <2>1, UpdateGoes
<1>2. ASSUME NEW p, PayoutClaim(w, p) PROVE GoesOn(w)
  <2>1. PICK ok \in BOOLEAN :
          Update(w, [req[w] EXCEPT !.at = "answered", !.row = p, !.sent = ok])
    BY <1>2 DEF PayoutClaim
  <2> DEFINE r == [req[w] EXCEPT !.at = "answered", !.row = p, !.sent = ok]
  <2>2. r.at = "answered"
    BY DEF TypeOK, Requests
  <2> HIDE DEF r
  <2> QED BY <2>1, <2>2, UpdateGoes DEF r
<1>3. ASSUME NEW p, PayoutSkip(w, p) \/ PayoutWrite(w, p) PROVE GoesOn(w)
  BY <1>3, AnswerGoes, NextRowGoes DEF PayoutSkip, PayoutWrite
<1> QED BY <1>1, <1>2, <1>3 DEF PayoutSteps

LEMMA CaseGoes ==
  ASSUME TypeOK, NEW w \in Workers, CaseSteps(w) PROVE GoesOn(w)
<1>1. ASSUME NEW c, RaiseLoad(w, c) PROVE GoesOn(w)
  <2> DEFINE r == [req[w] EXCEPT !.op = "raise", !.at = "loaded", !.case = c,
                                 !.seen = booking]
  <2>1. Update(w, r) /\ r.at = "loaded"
    BY <1>1 DEF RaiseLoad, TypeOK, Requests
  <2> HIDE DEF r
  <2> QED BY <2>1, UpdateGoes
<1>2. ASSUME NEW c, RaiseSave(w, c) PROVE GoesOn(w)
  <2> DEFINE r == [req[w] EXCEPT !.at = "saved", !.restore = "disputed"]
  <2>1. Update(w, r) /\ r.at = "saved"
    BY <1>2 DEF RaiseSave, TypeOK, Requests
  <2> HIDE DEF r
  <2> QED BY <2>1, UpdateGoes
<1>3. ASSUME NEW c, DecideSave(w, c) PROVE GoesOn(w)
  <2>1. Answer(w) \/ Goto(w, "saved")
    BY <1>3 DEF DecideSave
  <2> QED BY <2>1, AnswerGoes, GotoGoes
<1>4. ASSUME NEW c, NEW o, NEW n, DecideLoad(w, c, o, n) PROVE GoesOn(w)
  <2> DEFINE restore == IF o = "refund" THEN "cancelled" ELSE cases[c].previous
             left    == IF o = "partial" THEN n ELSE 0
             r == [req[w] EXCEPT !.op = "decide", !.at = "loaded", !.case = c,
                                 !.outcome = o, !.left = left, !.restore = restore]
  <2>1. Update(w, r) /\ r.at = "loaded"
    BY <1>4 DEF DecideLoad, TypeOK, Requests
  <2> HIDE DEF r
  <2> QED BY <2>1, UpdateGoes
<1>5. ASSUME NEW c, RequestSettlement(w, c) \/ CloseCase(w, c) \/ ReopenCase(w, c)
      PROVE  GoesOn(w)
  BY <1>5 DEF RequestSettlement, CloseCase, ReopenCase, GoesOn
<1>6. CASE FreezeList(w)
  <2> DEFINE stage == IF Rows({"held"}) = {} THEN "mark" ELSE "listed"
             r == [req[w] EXCEPT !.rows = Rows({"held"}), !.at = stage]
  <2>1. Update(w, r) /\ r.at # "idle"
    BY <1>6 DEF FreezeList, TypeOK, Requests
  <2> HIDE DEF r
  <2> QED BY <2>1, UpdateGoes
<1>7. CASE DecideList(w)
  <2> DEFINE disputed == IF req[w].outcome = "no_action" THEN Rows({"disputed"})
                                                         ELSE GatewayRows({"disputed"})
             stage == IF disputed = {} THEN "mark" ELSE "listed"
             r == [req[w] EXCEPT !.rows = disputed, !.dest = account, !.at = stage]
  <2>1. Update(w, r)
    BY <1>7 DEF DecideList
  <2>2. r.at # "idle"
    BY DEF TypeOK, Requests
  <2> HIDE DEF r
  <2> QED BY <2>1, <2>2, UpdateGoes
<1>8. CASE MarkLoad(w)
  <2> DEFINE r == [req[w] EXCEPT !.at = "marking", !.seen = booking]
  <2>1. Update(w, r) /\ r.at = "marking"
    BY <1>8 DEF MarkLoad, TypeOK, Requests
  <2> HIDE DEF r
  <2> QED BY <2>1, UpdateGoes
<1>9. CASE MarkSave(w)
  BY <1>9, AnswerGoes DEF MarkSave
<1>10. ASSUME NEW p, FreezeWrite(w, p) \/ UnfreezeWrite(w, p) \/ SettleWrite(w, p)
       PROVE  GoesOn(w)
  BY <1>10, WriteRowGoes, NextRowGoes DEF FreezeWrite, UnfreezeWrite, SettleWrite
<1>11. ASSUME NEW p, SettleTransfer(w, p) PROVE GoesOn(w)
  <2> DEFINE left == IF req[w].outcome = "partial" THEN req[w].left - ToProvider(w)
                                                   ELSE req[w].left
  <2>1. PICK ok \in BOOLEAN :
          Update(w, [req[w] EXCEPT !.at = "sent", !.row = p, !.sent = ok,
                                   !.share = ToProvider(w), !.left = left])
    BY <1>11 DEF SettleTransfer
  <2> DEFINE r == [req[w] EXCEPT !.at = "sent", !.row = p, !.sent = ok,
                                 !.share = ToProvider(w), !.left = left]
  <2>2. r.at = "sent"
    BY DEF TypeOK, Requests
  <2> HIDE DEF r
  <2> QED BY <2>1, <2>2, UpdateGoes DEF r
<1>12. ASSUME NEW p, SettleRefund(w, p) PROVE GoesOn(w)
  <2>1. PICK ok \in BOOLEAN : Update(w, [req[w] EXCEPT !.at = "answered", !.back = ok])
    BY <1>12 DEF SettleRefund
  <2> DEFINE r == [req[w] EXCEPT !.at = "answered", !.back = ok]
  <2>2. r.at = "answered"
    BY DEF TypeOK, Requests
  <2> HIDE DEF r
  <2> QED BY <2>1, <2>2, UpdateGoes DEF r
<1> QED BY <1>1, <1>2, <1>3, <1>4, <1>5, <1>6, <1>7, <1>8, <1>9, <1>10, <1>11, <1>12
        DEF CaseSteps

LEMMA TakesGoes ==
  ASSUME TypeOK, NEW w \in Workers, Takes(w) PROVE GoesOn(w)
<1>1. CASE ChangeAccount(w) \/ RequestDies(w)
  BY <1>1, AnswerGoes DEF ChangeAccount, RequestDies, GoesOn
<1> QED BY <1>1, BookingGoes, PayoutGoes, CaseGoes DEF Takes

LEMMA GoesAlone ==
  ASSUME TypeOK, NEW w \in Workers, GoesOn(w), NEW v \in Workers \ {w}
  PROVE  req'[v] = req[v]
BY DEF GoesOn, Update, TypeOK

LEMMA StaysAlone ==
  ASSUME TypeOK, Resting, NEW w \in Workers, OthersRest(w), Takes(w)
  PROVE  Alone(w)
BY TakesGoes, GoesAlone DEF Resting, OthersRest, Alone

LEMMA NextResting ==
  ASSUME TypeOK, Resting, [Next]_vars
  PROVE  Resting'
<1>1. CASE Next
  <2>1. PICK w \in Workers : Takes(w)
    BY <1>1 DEF Next, Takes
  <2>2. \A v \in Workers \ {w} : req'[v] = req[v]
    BY <2>1, TakesGoes, GoesAlone
  <2>3. req'[w].at = "idle" => req'[w] = Idle
    BY <2>1, TakesGoes, UpdateFact DEF GoesOn, Resting
  <2> QED BY <2>2, <2>3 DEF Resting
<1>2. CASE UNCHANGED vars
  BY <1>2 DEF vars, Resting
<1> QED BY <1>1, <1>2

(* Whatever the interleaving, a worker that is not serving a request keeps *)
(* nothing of an earlier one.                                              *)
LEMMA RestHolds == Spec => []Resting
<1>1. Init => Resting
  BY DEF Init, Resting
<1>2. TypeOK /\ Resting /\ [Next]_vars => Resting'
  BY NextResting
<1> QED BY <1>1, <1>2, TypeCorrect, PTL DEF Spec

(* Taking turns is one of the ways the system may run. *)
LEMMA SerialSteps == [SerialNext]_vars => [Next]_vars
BY DEF SerialNext, Next

-----------------------------------------------------------------------------
(* The invariant *)

LEMMA InitSerial == Init => SerialInv
<1> SUFFICES ASSUME Init PROVE SerialInv
  OBVIOUS
<1>1. /\ \A p \in PaymentIds : payment[p].status = "absent"
      /\ \A w \in Workers : req[w] = Idle
      /\ booking.status = "payment_pending"
      /\ \A c \in Cases : cases[c].previous = "payment_pending"
  BY DEF Init, NoPayment, NewBooking
<1>2. OneLivePaymentPerMilestone
  BY <1>1 DEF OneLivePaymentPerMilestone, Rows, Live
<1>3. /\ Idle.at = "idle" /\ Idle.op = "none" /\ Idle.restore = "payment_pending"
  BY DEF Idle
<1> QED BY <1>1, <1>2, <1>3
        DEF SerialInv, Mine, Fresh, Unfrozen, OnRows, Deserves, ReleaseOps

LEMMA BookingStepsSerial ==
  ASSUME TypeOK, LedgerInv, SerialInv, NEW w \in Workers, Alone(w), BookingSteps(w)
  PROVE  SerialInv'
<1>1. CASE PayRollback(w)
  BY <1>1, AnswerMine, SerialMove DEF PayRollback
<1> QED BY <1>1, LoadSerial, CheckSerial, SaveSerial, ReleaseListSerial,
       ReleaseTransferSerial, ReleaseWriteSerial, PayBeginSerial, PayCommitSerial,
       CancelListSerial, CancelRefundSerial, CancelWriteSerial DEF BookingSteps

LEMMA PayoutStepsSerial ==
  ASSUME TypeOK, LedgerInv, SerialInv, NEW w \in Workers, Alone(w), PayoutSteps(w)
  PROVE  SerialInv'
BY PayoutListSerial, PayoutClaimSerial, PayoutSkipSerial, PayoutWriteSerial DEF PayoutSteps

LEMMA CaseStepsSerial ==
  ASSUME TypeOK, LedgerInv, SerialInv, NEW w \in Workers, Alone(w), CaseSteps(w)
  PROVE  SerialInv'
BY RaiseLoadSerial, RaiseSaveSerial, DecideLoadSerial, DecideSaveSerial, DeskSerial,
   FreezeListSerial, DecideListSerial, MarkLoadSerial, MarkSaveSerial, FreezeWriteSerial,
   UnfreezeWriteSerial, SettleTransferSerial, SettleRefundSerial, SettleWriteSerial
   DEF CaseSteps

LEMMA NextSerial ==
  TypeOK /\ LedgerInv /\ Resting /\ SerialInv /\ [SerialNext]_vars => SerialInv'
<1> SUFFICES ASSUME TypeOK, LedgerInv, Resting, SerialInv, [SerialNext]_vars PROVE SerialInv'
  OBVIOUS
<1>1. CASE UNCHANGED <<booking, cases, payment, req>>
  BY <1>1 DEF SerialInv, Mine, Fresh, Unfrozen, OnRows, OpenCase, OneLivePaymentPerMilestone,
     Rows
<1>2. ASSUME NEW w \in Workers, ChangeAccount(w) PROVE SerialInv'
  BY <1>1, <1>2 DEF ChangeAccount
<1>3. ASSUME NEW w \in Workers, Alone(w), RequestDies(w) PROVE SerialInv'
  BY <1>3, AnswerMine, SerialMove DEF RequestDies
<1>4. CASE UNCHANGED vars
  BY <1>1, <1>4 DEF vars
<1>5. CASE SerialNext
  <2>1. PICK w \in Workers : OthersRest(w) /\ Takes(w)
    BY <1>5 DEF SerialNext, Takes
  <2>2. Alone(w)
    BY <2>1, StaysAlone
  <2> QED BY <1>2, <1>3, <2>1, <2>2, BookingStepsSerial, PayoutStepsSerial,
             CaseStepsSerial DEF Takes
<1> QED BY <1>4, <1>5

LEMMA SerialHolds == SerialSpec => []SerialInv
<1> QED BY NextSerial, InitSerial, SerialSteps, RestHolds, TypeCorrect, LedgerHolds, PTL
        DEF Spec, SerialSpec
-----------------------------------------------------------------------------
(* The properties *)

(* Served one after another, and whatever the gateway refuses or cuts off, *)
(* the requests never leave a booking with two live payments for the same  *)
(* instalment, the ones owed to the provider included: the unique index    *)
(* does not cover those, the checks of pay do.                             *)
THEOREM OnePaymentPerInstalment == SerialSpec => []OneLivePaymentPerMilestone
<1>1. SerialInv => OneLivePaymentPerMilestone
  BY DEF SerialInv
<1> QED BY <1>1, SerialHolds, PTL

(* Served one after another, the requests complete a job only when its     *)
(* buyer has accepted it: by marking it completed, and by a case that puts *)
(* the stage back.                                                         *)
THEOREM CompletionWasAccepted == SerialSpec => []CompletedWasAccepted
<1>1. SerialInv => CompletedWasAccepted
  BY DEF SerialInv, Deserves, CompletedWasAccepted
<1> QED BY <1>1, SerialHolds, PTL

(* A row that is written was read as its operation reads rows: a disputed  *)
(* one is written by a decision only.                                      *)
LEMMA WritesDisputed ==
  ASSUME TypeOK, LedgerInv, SerialInv, NEW w \in Workers, OnRows(w), NEW q \in req[w].rows,
         \A p \in PaymentIds \ {q} : payment'[p] = payment[p],
         NEW p \in PaymentIds, payment[p].status = "disputed", payment'[p].status # "disputed"
  PROVE  req[w].op = "decide" /\ p \in req[w].rows
<1>1. p = q /\ payment[q].status = ListedAs(req[w].op)
  BY RowsAtHand
<1> QED BY <1>1 DEF ListedAs, PayoutOps

LEMMA WriteRowFrame ==
  ASSUME TypeOK, NEW w, NEW q, NEW status, NEW due, NEW after,
         WriteRow(w, q, status, due, after)
  PROVE  \A p \in PaymentIds \ {q} : payment'[p] = payment[p]
BY DEF WriteRow, TypeOK

LEMMA WriteDisputed ==
  ASSUME TypeOK, LedgerInv, SerialInv, NEW w \in Workers, OnRows(w), NEW q \in req[w].rows,
         NEW status, NEW due, NEW after, WriteRow(w, q, status, due, after),
         NEW p \in PaymentIds, payment[p].status = "disputed", payment'[p].status # "disputed"
  PROVE  req[w].op = "decide" /\ p \in req[w].rows
<1>1. \A x \in PaymentIds \ {q} : payment'[x] = payment[x]
  BY WriteRowFrame
<1> QED BY <1>1, WritesDisputed

(* Served one after another, the requests take a disputed instalment out   *)
(* of dispute only while an administrator's decision is being applied to   *)
(* it: no release, refund, payout or payment writes over a frozen row.     *)
THEOREM FrozenIsSettledOnly == SerialSpec => FrozenMovesBySettlement
<1> DEFINE Step == \A p \in PaymentIds :
             payment[p].status = "disputed" /\ payment'[p].status # "disputed"
               => \E w \in Workers : req[w].op = "decide" /\ p \in req[w].rows
<1>1. TypeOK /\ LedgerInv /\ SerialInv /\ [Next]_vars => [Step]_vars
  <2> SUFFICES ASSUME TypeOK, LedgerInv, SerialInv, Next, NEW p \in PaymentIds,
                      payment[p].status = "disputed", payment'[p].status # "disputed"
               PROVE  \E w \in Workers : req[w].op = "decide" /\ p \in req[w].rows
    OBVIOUS
  <2>1. PICK w \in Workers : \/ BookingSteps(w) \/ PayoutSteps(w) \/ CaseSteps(w)
                             \/ ChangeAccount(w) \/ RequestDies(w)
    BY DEF Next
  <2>2. CASE BookingSteps(w)
    <3>1. payment' # payment
      OBVIOUS
    <3>2. CASE \E m \in Milestones, cash \in BOOLEAN, q \in PaymentIds : PayCommit(w, m, cash, q)
      <4>1. PICK m \in Milestones, cash \in BOOLEAN, q \in PaymentIds : PayCommit(w, m, cash, q)
        BY <3>2
      <4>2. payment' = [payment EXCEPT ![q] = Recorded(m, cash)]
            /\ payment[q].status = "absent"
        BY <4>1 DEF PayCommit, FirstFree
      <4> QED BY <4>2 DEF TypeOK
    <3>3. CASE \E q \in PaymentIds : ReleaseWrite(w, q) \/ CancelWrite(w, q)
      <4>1. PICK q \in PaymentIds : ReleaseWrite(w, q) \/ CancelWrite(w, q)
        BY <3>3
      <4>2. OnRows(w) /\ q \in req[w].rows
        BY <4>1, RowsAtHand DEF ReleaseWrite, CancelWrite, At, OnRows
      <4>3. CASE ReleaseWrite(w, q)
        BY <4>2, <4>3, WriteDisputed DEF ReleaseWrite
      <4>4. CASE CancelWrite(w, q) /\ req[w].back
        BY <4>2, <4>4, WriteDisputed DEF CancelWrite
      <4>5. CASE CancelWrite(w, q) /\ ~req[w].back
        BY <3>1, <4>5 DEF CancelWrite
      <4> QED BY <4>1, <4>3, <4>4, <4>5
    <3> QED BY <2>2, <3>1, <3>2, <3>3 DEF BookingSteps, Load, Check, Save, ReleaseList,
          ReleaseTransfer, PayBegin, PayRollback, CancelList, CancelRefund
  <2>3. CASE PayoutSteps(w)
    <3>1. PICK q \in PaymentIds : PayoutWrite(w, q)
      BY <2>3 DEF PayoutSteps, PayoutList, PayoutClaim, PayoutSkip
    <3>2. OnRows(w) /\ q \in req[w].rows
      BY <3>1, RowsAtHand DEF PayoutWrite, At, OnRows
    <3>3. \A x \in PaymentIds \ {q} : payment'[x] = payment[x]
      BY <3>1 DEF PayoutWrite, TypeOK
    <3> QED BY <3>2, <3>3, WritesDisputed
  <2>4. CASE CaseSteps(w)
    <3>1. payment' # payment
      OBVIOUS
    <3>2. PICK q \in PaymentIds : FreezeWrite(w, q) \/ UnfreezeWrite(w, q) \/ SettleWrite(w, q)
      BY <2>4, <3>1 DEF CaseSteps, RaiseLoad, RaiseSave, DecideSave, DecideLoad,
         RequestSettlement, CloseCase, ReopenCase, FreezeList, DecideList, MarkLoad,
         MarkSave, SettleTransfer, SettleRefund
    <3>3. OnRows(w) /\ q \in req[w].rows
      BY <3>2, RowsAtHand DEF FreezeWrite, UnfreezeWrite, SettleWrite, At, OnRows
    <3>4. CASE FreezeWrite(w, q) \/ UnfreezeWrite(w, q)
      BY <3>3, <3>4, WriteDisputed DEF FreezeWrite, UnfreezeWrite
    <3>5. CASE SettleWrite(w, q) /\ req[w].back
      BY <3>3, <3>5, WriteDisputed DEF SettleWrite
    <3>6. CASE SettleWrite(w, q) /\ ~req[w].back
      BY <3>1, <3>6 DEF SettleWrite
    <3> QED BY <3>2, <3>4, <3>5, <3>6
  <2>5. CASE ChangeAccount(w) \/ RequestDies(w)
    BY <2>5 DEF ChangeAccount, RequestDies
  <2> QED BY <2>1, <2>2, <2>3, <2>4, <2>5
<1> HIDE DEF Step
<1>2. SerialSpec => [][Step]_vars
  BY <1>1, SerialHolds, SerialSteps, TypeCorrect, LedgerHolds, PTL DEF Spec, SerialSpec
<1> QED BY <1>2 DEF FrozenMovesBySettlement, Step

(* The gateway is asked about a row that was read as its operation reads   *)
(* rows.                                                                   *)
LEMMA TransfersOne ==
  ASSUME TypeOK, NEW q, NEW units, NEW dest, NEW ok, Sends(q, units, dest, ok),
         NEW p \in PaymentIds \ {q}
  PROVE  transferred'[p] = transferred[p]
BY DEF Sends, TypeOK

LEMMA ReturnsOne ==
  ASSUME TypeOK, NEW q, NEW units, NEW ok, Returns(q, units, ok), NEW p \in PaymentIds \ {q}
  PROVE  refunded'[p] = refunded[p]
BY DEF Returns, TypeOK

(* Served one after another, the requests keep their hands off the money   *)
(* while a case is open: a held instalment is neither sent to the provider *)
(* nor refunded to the buyer.                                              *)
THEOREM OpenCaseStopsTheMoney == SerialSpec => OpenCaseFreezesEscrow
<1> DEFINE Step == \A p \in PaymentIds :
             OpenCase /\ payment[p].status = "held"
               => transferred'[p] = transferred[p] /\ refunded'[p] = refunded[p]
<1>1. TypeOK /\ LedgerInv /\ SerialInv /\ [Next]_vars => [Step]_vars
  <2> SUFFICES ASSUME TypeOK, LedgerInv, SerialInv, Next, NEW p \in PaymentIds,
                      OpenCase, payment[p].status = "held"
               PROVE  transferred'[p] = transferred[p] /\ refunded'[p] = refunded[p]
    OBVIOUS
  <2>1. PICK w \in Workers : \/ BookingSteps(w) \/ PayoutSteps(w) \/ CaseSteps(w)
                             \/ ChangeAccount(w) \/ RequestDies(w)
    BY DEF Next
  <2>2. ~Unfrozen(w)
    BY DEF SerialInv, Mine
  <2>3. CASE BookingSteps(w)
    <3>1. ~(\E q \in PaymentIds : ReleaseTransfer(w, q) \/ CancelRefund(w, q))
      BY <2>2 DEF ReleaseTransfer, CancelRefund, Unfrozen, OnRows, At
    <3> QED BY <2>3, <3>1 DEF BookingSteps, Load, Check, Save, ReleaseList,
          ReleaseWrite, PayBegin, PayCommit, PayRollback, CancelList, CancelWrite
  <2>4. CASE PayoutSteps(w)
    <3>1. CASE \E q \in PaymentIds : PayoutClaim(w, q)
      <4>1. PICK q \in PaymentIds : PayoutClaim(w, q)
        BY <3>1
      <4>2. PICK ok \in BOOLEAN : Sends(q, payment[q].due, PayoutDestination(w), ok)
        BY <4>1 DEF PayoutClaim
      <4>3. q # p /\ UNCHANGED refunded
        BY <4>1 DEF PayoutClaim, Claimable
      <4> QED BY <4>2, <4>3, TransfersOne
    <3> QED BY <2>4, <3>1 DEF PayoutSteps, PayoutList, PayoutSkip, PayoutWrite
  <2>5. CASE CaseSteps(w)
    <3>1. CASE \E q \in PaymentIds : SettleTransfer(w, q)
      <4>1. PICK q \in PaymentIds : SettleTransfer(w, q)
        BY <3>1
      <4>2. /\ UNCHANGED refunded
            /\ UNCHANGED transferred
               \/ \E ok \in BOOLEAN : Sends(q, ToProvider(w), req[w].dest, ok)
        BY <4>1 DEF SettleTransfer
      <4>3. q # p
        BY <4>1, RowsAtHand DEF SettleTransfer, At, OnRows, ListedAs, PayoutOps
      <4> QED BY <4>2, <4>3, TransfersOne
    <3>2. CASE \E q \in PaymentIds : SettleRefund(w, q)
      <4>1. PICK q \in PaymentIds : SettleRefund(w, q)
        BY <3>2
      <4>2. /\ UNCHANGED transferred
            /\ UNCHANGED refunded
               \/ \E ok \in BOOLEAN : Returns(q, Amount - req[w].share, ok)
        BY <4>1 DEF SettleRefund
      <4>3. q # p
        BY <4>1, RowsAtHand DEF SettleRefund, At, OnRows, ListedAs, PayoutOps
      <4> QED BY <4>2, <4>3, ReturnsOne
    <3> QED BY <2>5, <3>1, <3>2 DEF CaseSteps, RaiseLoad, RaiseSave, DecideSave, DecideLoad,
         RequestSettlement, CloseCase, ReopenCase, FreezeList, DecideList, MarkLoad,
         MarkSave, FreezeWrite, UnfreezeWrite, SettleWrite
  <2>6. CASE ChangeAccount(w) \/ RequestDies(w)
    BY <2>6 DEF ChangeAccount, RequestDies
  <2> QED BY <2>1, <2>3, <2>4, <2>5, <2>6
<1> HIDE DEF Step
<1>2. SerialSpec => [][Step]_vars
  BY <1>1, SerialHolds, SerialSteps, TypeCorrect, LedgerHolds, PTL DEF Spec, SerialSpec
<1> QED BY <1>2 DEF OpenCaseFreezesEscrow, Step
=============================================================================
