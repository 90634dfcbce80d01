------------------------ MODULE BookingEscrow_proofs ------------------------
EXTENDS BookingEscrow, TLAPS

USE BoundsAssumption

(***************************************************************************)
(* Requests keep their shape.                                              *)
(***************************************************************************)

(* What every step does to the table of requests. *)
LEMMA UpdateType ==
  ASSUME TypeOK, NEW w \in Workers, NEW r \in Requests, Update(w, r)
  PROVE  req' \in [Workers -> Requests]
  BY DEF Update, TypeOK

LEMMA IdleType == Idle \in Requests
  BY CasesAssumption DEF Idle, Requests, NewBooking, Bookings, BookingStatuses,
     AllOps, Stages, Outcomes

LEMMA AnswerType ==
  ASSUME TypeOK, NEW w \in Workers, Answer(w)
  PROVE  req' \in [Workers -> Requests]
  BY IdleType, UpdateType DEF Answer

LEMMA GotoType ==
  ASSUME TypeOK, NEW w \in Workers, NEW s \in Stages, Goto(w, s)
  PROVE  req' \in [Workers -> Requests]
<1>1. req[w] \in Requests
  BY DEF TypeOK
<1>2. [req[w] EXCEPT !.at = s] \in Requests
  BY <1>1 DEF Requests
<1>3. QED
  BY <1>2, UpdateType DEF Goto

LEMMA AfterRowType ==
  ASSUME NEW r \in Requests, NEW p \in PaymentIds, NEW s \in Stages
  PROVE  AfterRow(r, p, s) \in Requests
<1> DEFINE stage == IF r.rows \ {p} = {} THEN s ELSE "listed"
<1>1. stage \in Stages
  BY DEF Stages
<1> HIDE DEF stage
<1>2. r.rows \ {p} \in SUBSET PaymentIds /\ 0 \in 0..Amount
  BY DEF Requests
<1>3. [r EXCEPT !.rows = @ \ {p}, !.row = 0, !.share = 0,
                !.sent = FALSE, !.back = FALSE, !.at = stage] \in Requests
  BY <1>1, <1>2 DEF Requests
<1>4. QED
  BY <1>3, IdleType DEF AfterRow, stage

LEMMA NextRowType ==
  ASSUME TypeOK, NEW w \in Workers, NEW p \in PaymentIds, NEW s \in Stages,
         NextRow(w, p, s)
  PROVE  req' \in [Workers -> Requests]
<1>1. AfterRow(req[w], p, s) \in Requests
  BY AfterRowType DEF TypeOK
<1>2. QED
  BY <1>1, UpdateType DEF NextRow

(***************************************************************************)
(* Payment rows keep their shape.                                          *)
(***************************************************************************)

LEMMA WriteRowType ==
  ASSUME TypeOK, NEW w \in Workers, NEW p \in PaymentIds,
         NEW status \in PaymentStatuses, NEW due \in 0..Amount,
         NEW after \in Stages, WriteRow(w, p, status, due, after)
  PROVE  /\ payment' \in [PaymentIds -> Payments]
         /\ req' \in [Workers -> Requests]
<1>1. CASE IndexAllows(p, status)
  <2>1. payment' = [payment EXCEPT ![p].status = status, ![p].due = due]
    BY <1>1 DEF WriteRow
  <2>2. payment \in [PaymentIds -> Payments] /\ payment[p] \in Payments
    BY DEF TypeOK
  <2>3. [payment[p] EXCEPT !.status = status, !.due = due] \in Payments
    BY <2>2 DEF Payments
  <2>4. payment' = [payment EXCEPT ![p] = [payment[p] EXCEPT !.status = status, !.due = due]]
    BY <2>1, <2>2
  <2>5. QED
    BY <1>1, <2>2, <2>3, <2>4, NextRowType DEF WriteRow
<1>2. CASE ~IndexAllows(p, status)
  BY <1>2, AnswerType DEF WriteRow, TypeOK
<1>3. QED
  BY <1>1, <1>2

LEMMA SendsType ==
  ASSUME TypeOK, NEW p \in PaymentIds, NEW n \in Nat, NEW ok \in BOOLEAN,
         NEW dest \in BOOLEAN, Sends(p, n, dest, ok)
  PROVE  transferred' \in [PaymentIds -> 0..MaxLedger]
  BY DEF Sends, Capped, TypeOK

LEMMA ReturnsType ==
  ASSUME TypeOK, NEW p \in PaymentIds, NEW n \in Nat, NEW ok \in BOOLEAN,
         Returns(p, n, ok)
  PROVE  refunded' \in [PaymentIds -> 0..MaxLedger]
  BY DEF Returns, Capped, TypeOK

(***************************************************************************)
(* Every step keeps every variable's shape.                                *)
(***************************************************************************)

LEMMA RowTypes ==
  ASSUME TypeOK, NEW w \in Workers
  PROVE  /\ req[w] \in Requests
         /\ \A p \in PaymentIds : payment[p] \in Payments /\ PayoutShare(p) \in 0..Amount
         /\ \A S : Rows(S) \in SUBSET PaymentIds /\ GatewayRows(S) \in SUBSET PaymentIds
  BY DEF TypeOK, PayoutShare, Payments, Rows, GatewayRows

LEMMA BookingStepsType ==
  ASSUME TypeOK, NEW w \in Workers, BookingSteps(w)
  PROVE  TypeOK'
<1> USE RowTypes
<1>1. ASSUME NEW op \in SaveOps \cup {"settle"}, Load(w, op) PROVE TypeOK'
  <2>1. booking \in Bookings /\ op \in AllOps \cup {"none"} /\ "loaded" \in Stages
    BY <1>1 DEF TypeOK, AllOps, ReleaseOps, Stages
  <2>2. [req[w] EXCEPT !.op = op, !.at = "loaded", !.seen = booking] \in Requests
    BY <2>1 DEF Requests
  <2>3. QED
    BY <1>1, <2>2, UpdateType DEF Load, TypeOK
<1>2. CASE Check(w)
  <2>1. req' \in [Workers -> Requests]
    <3>1. CASE Permitted(req[w].op, req[w].seen)
      <4> DEFINE stage == IF req[w].op = "settle" THEN "saved" ELSE "checked"
      <4>1. stage \in Stages /\ Goto(w, stage)
        BY <1>2, <3>1 DEF Check, Stages
      <4>2. QED
        BY <4>1, GotoType
    <3>2. CASE ~Permitted(req[w].op, req[w].seen)
      BY <1>2, <3>2, AnswerType DEF Check
    <3>3. QED
      BY <3>1, <3>2
  <2>2. QED
    BY <1>2, <2>1 DEF Check, TypeOK
<1>3. CASE Save(w)
  <2>1. req' \in [Workers -> Requests]
    BY <1>3, AnswerType, GotoType DEF Save, Stages
  <2>2. req[w].seen \in Bookings /\ req[w].op \in SaveOps
    BY <1>3 DEF Save, At, Requests
  <2>3. Entity(req[w].op, req[w].seen) \in Bookings
    BY <2>2 DEF Entity, Bookings, BookingStatuses, SaveOps
  <2>4. QED
    BY <1>3, <2>1, <2>3 DEF Save, TypeOK
<1>4. CASE ReleaseList(w)
  <2> DEFINE held == {p \in GatewayRows({"held"}) :
                        payment[p].milestone \in ReleaseScope(req[w].op)}
  <2>1. [req[w] EXCEPT !.at = "listed", !.rows = held, !.dest = account] \in Requests
    <3>1. held \in SUBSET PaymentIds
      OBVIOUS
    <3>2. account \in BOOLEAN /\ "listed" \in Stages
      BY DEF TypeOK, Stages
    <3> HIDE DEF held
    <3>3. QED
      BY <3>1, <3>2 DEF Requests
  <2>2. req' \in [Workers -> Requests]
    BY <1>4, <2>1, UpdateType, AnswerType DEF ReleaseList
  <2>3. QED
    BY <1>4, <2>2 DEF ReleaseList, TypeOK
<1>5. ASSUME NEW p \in PaymentIds, ReleaseTransfer(w, p) PROVE TypeOK'
  <2>1. PICK ok \in BOOLEAN :
          /\ Sends(p, PayoutShare(p), req[w].dest, ok)
          /\ Update(w, [req[w] EXCEPT !.at = "answered", !.row = p, !.sent = ok,
                                      !.share = PayoutShare(p)])
    BY <1>5 DEF ReleaseTransfer
  <2>2. [req[w] EXCEPT !.at = "answered", !.row = p, !.sent = ok,
                       !.share = PayoutShare(p)] \in Requests
    <3>1. PayoutShare(p) \in 0..Amount /\ "answered" \in Stages
      BY DEF Stages
    <3>2. QED
      BY <3>1 DEF Requests
  <2>3. PayoutShare(p) \in Nat /\ req[w].dest \in BOOLEAN
    BY DEF Requests
  <2>4. transferred' \in [PaymentIds -> 0..MaxLedger]
    BY <2>1, <2>3, SendsType
  <2>5. QED
    BY <1>5, <2>1, <2>2, <2>4, UpdateType DEF ReleaseTransfer, TypeOK
<1>6. ASSUME NEW p \in PaymentIds, ReleaseWrite(w, p) PROVE TypeOK'
  <2> DEFINE status == IF req[w].sent THEN "released" ELSE "pending_payout"
  <2>1. status \in PaymentStatuses /\ req[w].share \in 0..Amount /\ "idle" \in Stages
    BY DEF PaymentStatuses, Live, Requests, Stages
  <2>2. WriteRow(w, p, status, req[w].share, "idle")
    BY <1>6 DEF ReleaseWrite
  <2>3. QED
    BY <1>6, <2>1, <2>2, WriteRowType DEF ReleaseWrite, TypeOK
<1>7. CASE PayBegin(w)
  <2>1. [req[w] EXCEPT !.op = "pay", !.at = "checked", !.seen = booking,
                       !.rows = Rows(Live)] \in Requests
    <3>1. booking \in Bookings /\ "pay" \in AllOps /\ "checked" \in Stages
      BY DEF TypeOK, AllOps, Stages
    <3>2. QED
      BY <3>1 DEF Requests
  <2>2. QED
    BY <1>7, <2>1, UpdateType DEF PayBegin, TypeOK
<1>8. ASSUME NEW m \in Milestones, NEW cash \in BOOLEAN, NEW p \in PaymentIds,
             PayCommit(w, m, cash, p)
      PROVE  TypeOK'
  <2>1. Recorded(m, cash) \in Payments
    BY DEF Recorded, Payments, PaymentStatuses, Live
  <2>2. payment' \in [PaymentIds -> Payments]
    BY <1>8, <2>1 DEF PayCommit, TypeOK
  <2>3. booking' \in Bookings
    <3>1. req[w].seen \in Bookings
      BY DEF Requests
    <3>2. [req[w].seen EXCEPT !.status = "confirmed"] \in Bookings
      BY <3>1 DEF Bookings, BookingStatuses
    <3>3. QED
      BY <1>8, <3>1, <3>2 DEF PayCommit
  <2>4. QED
    BY <1>8, <2>2, <2>3, AnswerType DEF PayCommit, TypeOK
<1>9. CASE PayRollback(w)
  BY <1>9, AnswerType DEF PayRollback, TypeOK
<1>10. CASE CancelList(w)
  <2>1. [req[w] EXCEPT !.at = "listed", !.rows = Refundable] \in Requests
    <3>1. Refundable \in SUBSET PaymentIds /\ "listed" \in Stages
      BY DEF Refundable, Stages
    <3>2. QED
      BY <3>1 DEF Requests
  <2>2. req' \in [Workers -> Requests]
    BY <1>10, <2>1, UpdateType, AnswerType DEF CancelList
  <2>3. slotReturned' \in 0..MaxReturned
    BY <1>10 DEF CancelList, TypeOK, MaxReturned
  <2>4. QED
    BY <1>10, <2>2, <2>3 DEF CancelList, TypeOK
<1>11. ASSUME NEW p \in PaymentIds, CancelRefund(w, p) PROVE TypeOK'
  <2>1. PICK ok \in BOOLEAN :
          /\ Returns(p, Amount, ok)
          /\ Update(w, [req[w] EXCEPT !.at = "answered", !.row = p, !.back = ok])
    BY <1>11 DEF CancelRefund
  <2>2. [req[w] EXCEPT !.at = "answered", !.row = p, !.back = ok] \in Requests
    BY DEF Requests, Stages
  <2>3. refunded' \in [PaymentIds -> 0..MaxLedger]
    BY <2>1, ReturnsType
  <2>4. QED
    BY <1>11, <2>1, <2>2, <2>3, UpdateType DEF CancelRefund, TypeOK
<1>12. ASSUME NEW p \in PaymentIds, CancelWrite(w, p) PROVE TypeOK'
  <2>1. "refunded" \in PaymentStatuses /\ 0 \in 0..Amount /\ "idle" \in Stages
    BY DEF PaymentStatuses, Dead, Stages
  <2>2. CASE req[w].back
    BY <1>12, <2>1, <2>2, WriteRowType DEF CancelWrite, TypeOK
  <2>3. CASE ~req[w].back
    BY <1>12, <2>1, <2>3, NextRowType DEF CancelWrite, TypeOK
  <2>4. QED
    BY <2>2, <2>3
<1>13. QED
  BY <1>1, <1>2, <1>3, <1>4, <1>5, <1>6, <1>7, <1>8, <1>9, <1>10, <1>11, <1>12
  DEF BookingSteps

LEMMA PayoutStepsType ==
  ASSUME TypeOK, NEW w \in Workers, PayoutSteps(w)
  PROVE  TypeOK'
<1> USE RowTypes
<1>1. ASSUME NEW op \in PayoutOps, PayoutList(w, op) PROVE TypeOK'
  <2>1. [req[w] EXCEPT !.op = op, !.at = "listed",
                       !.rows = Rows({"pending_payout"}), !.dest = account] \in Requests
    <3>1. account \in BOOLEAN /\ op \in AllOps \cup {"none"} /\ "listed" \in Stages
      BY DEF TypeOK, AllOps, Stages
    <3>2. QED
      BY <3>1 DEF Requests
  <2>2. QED
    BY <1>1, <2>1, UpdateType DEF PayoutList, TypeOK
<1>2. ASSUME NEW p \in PaymentIds, PayoutClaim(w, p) PROVE TypeOK'
  <2>1. PICK ok \in BOOLEAN :
          /\ Sends(p, payment[p].due, PayoutDestination(w), ok)
          /\ Update(w, [req[w] EXCEPT !.at = "answered", !.row = p, !.sent = ok])
    BY <1>2 DEF PayoutClaim
  <2>2. [req[w] EXCEPT !.at = "answered", !.row = p, !.sent = ok] \in Requests
    BY DEF Requests, Stages
  <2>3. payment[p].due \in Nat /\ PayoutDestination(w) \in BOOLEAN
    BY DEF Payments, PayoutDestination, Requests, TypeOK
  <2>4. transferred' \in [PaymentIds -> 0..MaxLedger]
    BY <2>1, <2>3, SendsType
  <2>5. rowLock' \in [PaymentIds -> Workers \cup {NoWorker}]
    BY <1>2 DEF PayoutClaim, TypeOK
  <2>6. QED
    BY <1>2, <2>1, <2>2, <2>4, <2>5, UpdateType DEF PayoutClaim, TypeOK
<1>3. ASSUME NEW p \in PaymentIds, PayoutSkip(w, p) PROVE TypeOK'
  BY <1>3, NextRowType DEF PayoutSkip, TypeOK, Stages
<1>4. ASSUME NEW p \in PaymentIds, PayoutWrite(w, p) PROVE TypeOK'
  <2>1. payment' \in [PaymentIds -> Payments]
    <3>1. [payment[p] EXCEPT !.status = "released"] \in Payments
      BY DEF Payments, PaymentStatuses, Live
    <3>2. payment' = payment \/ payment' = [payment EXCEPT ![p] = [payment[p] EXCEPT !.status = "released"]]
      BY <1>4 DEF PayoutWrite, TypeOK
    <3>3. QED
      BY <3>1, <3>2 DEF TypeOK
  <2>2. rowLock' \in [PaymentIds -> Workers \cup {NoWorker}]
    BY <1>4 DEF PayoutWrite, TypeOK
  <2>3. req' \in [Workers -> Requests]
    <3>1. Answer(w) \/ NextRow(w, p, "idle")
      BY <1>4 DEF PayoutWrite
    <3>2. "idle" \in Stages
      BY DEF Stages
    <3>3. QED
      BY <3>1, <3>2, AnswerType, NextRowType
  <2>4. QED
    BY <1>4, <2>1, <2>2, <2>3 DEF PayoutWrite, TypeOK
<1>5. QED
  BY <1>1, <1>2, <1>3, <1>4 DEF PayoutSteps

LEMMA CaseStepsType ==
  ASSUME TypeOK, NEW w \in Workers, CaseSteps(w)
  PROVE  TypeOK'
<1> USE RowTypes
<1>1. ASSUME NEW c \in Cases, RaiseLoad(w, c) PROVE TypeOK'
  <2>1. [req[w] EXCEPT !.op = "raise", !.at = "loaded", !.case = c,
                       !.seen = booking] \in Requests
    <3>1. booking \in Bookings /\ "raise" \in AllOps /\ "loaded" \in Stages
      BY DEF TypeOK, AllOps, Stages
    <3>2. QED
      BY <3>1 DEF Requests
  <2>2. QED
    BY <1>1, <2>1, UpdateType DEF RaiseLoad, TypeOK
<1>2. ASSUME NEW c \in Cases, RaiseSave(w, c) PROVE TypeOK'
  <2>1. [req[w] EXCEPT !.at = "saved", !.restore = "disputed"] \in Requests
    BY DEF Requests, Stages, BookingStatuses
  <2>2. [status |-> "in_flight", kind |-> "booking", previous |-> req[w].seen.status] \in CaseRows
    BY DEF CaseRows, CaseStatuses, CaseKinds, Requests, Bookings
  <2>3. cases' \in [Cases -> CaseRows]
    BY <1>2, <2>2 DEF RaiseSave, TypeOK
  <2>4. QED
    BY <1>2, <2>1, <2>3, UpdateType DEF RaiseSave, TypeOK
<1>3. ASSUME NEW c \in Cases, DecideSave(w, c) PROVE TypeOK'
  <2>1. cases' \in [Cases -> CaseRows]
    <3>1. [cases[c] EXCEPT !.status = "resolved"] \in CaseRows
      BY DEF TypeOK, CaseRows, CaseStatuses
    <3>2. cases' = [cases EXCEPT ![c] = [cases[c] EXCEPT !.status = "resolved"]]
      BY <1>3 DEF DecideSave, TypeOK
    <3>3. QED
      BY <3>1, <3>2 DEF TypeOK
  <2>2. req' \in [Workers -> Requests]
    BY <1>3, GotoType, AnswerType DEF DecideSave, Stages
  <2>3. QED
    BY <1>3, <2>1, <2>2 DEF DecideSave, TypeOK
<1>4. ASSUME NEW c \in Cases, NEW o \in Outcomes, NEW n \in Nat, DecideLoad(w, c, o, n)
      PROVE TypeOK'
  <2> DEFINE left == IF o = "partial" THEN n ELSE 0
             back == IF o = "refund" THEN "cancelled" ELSE cases[c].previous
  <2>1. left \in Nat /\ back \in BookingStatuses /\ "loaded" \in Stages
        /\ "decide" \in AllOps \cup {"none"}
    BY DEF TypeOK, CaseRows, BookingStatuses, Stages, AllOps
  <2>2. Update(w, [req[w] EXCEPT !.op = "decide", !.at = "loaded", !.case = c,
                                 !.outcome = o, !.left = left, !.restore = back])
    BY <1>4 DEF DecideLoad
  <2> HIDE DEF left, back
  <2>3. [req[w] EXCEPT !.op = "decide", !.at = "loaded", !.case = c,
                       !.outcome = o, !.left = left, !.restore = back] \in Requests
    BY <2>1 DEF Requests
  <2>4. QED
    BY <1>4, <2>2, <2>3, UpdateType DEF DecideLoad, TypeOK
<1>5. ASSUME NEW c \in Cases,
             RequestSettlement(w, c) \/ CloseCase(w, c) \/ ReopenCase(w, c)
      PROVE  TypeOK'
  <2>1. \A s \in CaseStatuses : [cases[c] EXCEPT !.status = s] \in CaseRows
    BY DEF TypeOK, CaseRows
  <2>2. [status |-> "in_flight", kind |-> "payment", previous |-> cases[c].previous] \in CaseRows
    BY DEF TypeOK, CaseRows, CaseStatuses, CaseKinds
  <2>3. cases' \in [Cases -> CaseRows]
    <3>1. CASE RequestSettlement(w, c)
      BY <3>1, <2>2 DEF RequestSettlement, TypeOK
    <3>2. CASE CloseCase(w, c)
      <4>1. cases' = [cases EXCEPT ![c] = [cases[c] EXCEPT !.status = "closed"]]
        BY <3>2 DEF CloseCase, TypeOK
      <4>2. QED
        BY <4>1, <2>1 DEF TypeOK, CaseStatuses
    <3>3. CASE ReopenCase(w, c)
      <4>1. cases' = [cases EXCEPT ![c] = [cases[c] EXCEPT !.status = "in_flight"]]
        BY <3>3 DEF ReopenCase, TypeOK
      <4>2. QED
        BY <4>1, <2>1 DEF TypeOK, CaseStatuses
    <3>4. QED
      BY <1>5, <3>1, <3>2, <3>3
  <2>4. QED
    BY <1>5, <2>3 DEF RequestSettlement, CloseCase, ReopenCase, TypeOK
<1>6. CASE FreezeList(w)
  <2> DEFINE stage == IF Rows({"held"}) = {} THEN "mark" ELSE "listed"
  <2>1. stage \in Stages /\ Update(w, [req[w] EXCEPT !.rows = Rows({"held"}), !.at = stage])
    BY <1>6 DEF FreezeList, Stages
  <2> HIDE DEF stage
  <2>2. [req[w] EXCEPT !.rows = Rows({"held"}), !.at = stage] \in Requests
    BY <2>1 DEF Requests
  <2>3. QED
    BY <1>6, <2>1, <2>2, UpdateType DEF FreezeList, TypeOK
<1>7. CASE DecideList(w)
  <2> DEFINE disputed == IF req[w].outcome = "no_action" THEN Rows({"disputed"})
                                                         ELSE GatewayRows({"disputed"})
             stage    == IF disputed = {} THEN "mark" ELSE "listed"
  <2>1. /\ disputed \in SUBSET PaymentIds /\ stage \in Stages
        /\ Update(w, [req[w] EXCEPT !.rows = disputed, !.dest = account, !.at = stage])
    BY <1>7 DEF DecideList, Stages
  <2> HIDE DEF disputed, stage
  <2>2. [req[w] EXCEPT !.rows = disputed, !.dest = account, !.at = stage] \in Requests
    BY <2>1 DEF Requests, TypeOK
  <2>3. QED
    BY <1>7, <2>1, <2>2, UpdateType DEF DecideList, TypeOK
<1>8. CASE MarkLoad(w)
  <2>1. [req[w] EXCEPT !.at = "marking", !.seen = booking] \in Requests
    <3>1. booking \in Bookings /\ "marking" \in Stages
      BY DEF TypeOK, Stages
    <3>2. QED
      BY <3>1 DEF Requests
  <2>2. QED
    BY <1>8, <2>1, UpdateType DEF MarkLoad, TypeOK
<1>9. CASE MarkSave(w)
  <2>1. [req[w].seen EXCEPT !.status = req[w].restore] \in Bookings
    BY DEF Requests, Bookings
  <2>2. QED
    BY <1>9, <2>1, AnswerType DEF MarkSave, TypeOK
<1>10. ASSUME NEW p \in PaymentIds, FreezeWrite(w, p) \/ UnfreezeWrite(w, p) PROVE TypeOK'
  <2>1. {"disputed", "held"} \subseteq PaymentStatuses /\ "mark" \in Stages
    BY DEF PaymentStatuses, Live, Stages
  <2>2. payment[p].due \in 0..Amount
    BY DEF Payments
  <2>3. QED
    BY <1>10, <2>1, <2>2, WriteRowType DEF FreezeWrite, UnfreezeWrite, TypeOK
<1>11. ASSUME NEW p \in PaymentIds, SettleTransfer(w, p) PROVE TypeOK'
  <2>1. /\ ToProvider(w) \in 0..Amount
        /\ req[w].outcome = "partial" => req[w].left - ToProvider(w) \in Nat
    BY DEF ToProvider, Requests
  <2>2. PICK ok \in BOOLEAN :
          /\ IF ToProvider(w) > 0 THEN Sends(p, ToProvider(w), req[w].dest, ok)
                                  ELSE ok /\ UNCHANGED transferred
          /\ Update(w, [req[w] EXCEPT !.at = "sent", !.row = p, !.sent = ok,
                                      !.share = ToProvider(w),
                                      !.left = IF req[w].outcome = "partial"
                                                 THEN @ - ToProvider(w) ELSE @])
    BY <1>11 DEF SettleTransfer
  <2> DEFINE left == IF req[w].outcome = "partial" THEN req[w].left - ToProvider(w)
                                                   ELSE req[w].left
  <2>3. left \in Nat /\ "sent" \in Stages
    BY <2>1 DEF Requests, Stages
  <2> HIDE DEF left
  <2>4. [req[w] EXCEPT !.at = "sent", !.row = p, !.sent = ok,
                       !.share = ToProvider(w), !.left = left] \in Requests
    BY <2>1, <2>3 DEF Requests
  <2>5. transferred' \in [PaymentIds -> 0..MaxLedger]
    BY <2>1, <2>2, SendsType DEF Requests, TypeOK
  <2>6. QED
    BY <1>11, <2>2, <2>4, <2>5, UpdateType DEF left, SettleTransfer, TypeOK
<1>12. ASSUME NEW p \in PaymentIds, SettleRefund(w, p) PROVE TypeOK'
  <2>1. PICK ok \in BOOLEAN :
          /\ IF req[w].share < Amount THEN Returns(p, Amount - req[w].share, ok)
                                      ELSE ok /\ UNCHANGED refunded
          /\ Update(w, [req[w] EXCEPT !.at = "answered", !.back = ok])
    BY <1>12 DEF SettleRefund
  <2>2. [req[w] EXCEPT !.at = "answered", !.back = ok] \in Requests
    BY DEF Requests, Stages
  <2>3. refunded' \in [PaymentIds -> 0..MaxLedger]
    <3>1. req[w].share < Amount => Amount - req[w].share \in Nat
      BY DEF Requests
    <3>2. refunded \in [PaymentIds -> 0..MaxLedger]
      BY DEF TypeOK
    <3>3. QED
      BY <2>1, <3>1, <3>2, ReturnsType
  <2>4. QED
    BY <1>12, <2>1, <2>2, <2>3, UpdateType DEF SettleRefund, TypeOK
<1>13. ASSUME NEW p \in PaymentIds, SettleWrite(w, p) PROVE TypeOK'
  <2>1. SettledStatus(w) \in PaymentStatuses /\ req[w].share \in 0..Amount /\ "mark" \in Stages
    BY DEF SettledStatus, PaymentStatuses, Live, Dead, Requests, Stages
  <2>2. CASE req[w].back
    BY <1>13, <2>1, <2>2, WriteRowType DEF SettleWrite, TypeOK
  <2>3. CASE ~req[w].back
    BY <1>13, <2>1, <2>3, NextRowType DEF SettleWrite, TypeOK
  <2>4. QED
    BY <2>2, <2>3
<1>14. Outcomes \ {"partial"} \subseteq Outcomes /\ "partial" \in Outcomes /\ 0 \in Nat
       /\ SettledAmounts \subseteq Nat
  BY DEF Outcomes
<1>15. QED
  BY <1>1, <1>2, <1>3, <1>4, <1>5, <1>6, <1>7, <1>8, <1>9, <1>10, <1>11, <1>12,
     <1>13, <1>14 DEF CaseSteps

LEMMA InitType == Init => TypeOK
<1> SUFFICES ASSUME Init PROVE TypeOK
  OBVIOUS
<1>1. NewBooking \in Bookings
  BY DEF NewBooking, Bookings, BookingStatuses
<1>2. NoPayment \in Payments
  BY DEF NoPayment, Payments, Milestones, PaymentStatuses
<1>3. cases \in [Cases -> CaseRows]
  BY DEF Init, CaseRows, CaseStatuses, CaseKinds, BookingStatuses
<1>4. req \in [Workers -> Requests]
  BY IdleType DEF Init
<1>5. QED
  BY <1>1, <1>2, <1>3, <1>4 DEF Init, TypeOK, MaxReturned

LEMMA NextType == TypeOK /\ [Next]_vars => TypeOK'
<1> SUFFICES ASSUME TypeOK, [Next]_vars PROVE TypeOK'
  OBVIOUS
<1>1. ASSUME NEW w \in Workers, ChangeAccount(w) PROVE TypeOK'
  BY <1>1 DEF ChangeAccount, TypeOK
<1>2. ASSUME NEW w \in Workers, RequestDies(w) PROVE TypeOK'
  BY <1>2, AnswerType DEF RequestDies, TypeOK
<1>3. CASE UNCHANGED vars
  BY <1>3 DEF vars, TypeOK
<1>4. QED
  BY <1>1, <1>2, <1>3, BookingStepsType, PayoutStepsType, CaseStepsType DEF Next

(* However many requests overlap, are cut off or are refused by the        *)
(* gateway, every row keeps a status of its enum and every request a stage *)
(* of its handler.                                                         *)
THEOREM TypeCorrect == Spec => []TypeOK
  BY InitType, NextType, PTL DEF Spec

(***************************************************************************)
(* A payment row, once written, is never erased and never changes the      *)
(* instalment it is for or the way it was paid.                            *)
(***************************************************************************)

Kept ==
  \A p \in PaymentIds : payment[p].status # "absent" =>
    /\ payment'[p].status # "absent"
    /\ payment'[p].milestone = payment[p].milestone
    /\ payment'[p].cash = payment[p].cash

LEMMA WriteRowKeeps ==
  ASSUME TypeOK, NEW w \in Workers, NEW p \in PaymentIds, NEW status, NEW due,
         NEW after, status # "absent", WriteRow(w, p, status, due, after)
  PROVE  Kept
  BY DEF WriteRow, Kept, TypeOK, Payments

LEMMA BookingStepsKeep ==
  ASSUME TypeOK, NEW w \in Workers, BookingSteps(w)
  PROVE  Kept
<1>1. ASSUME NEW p \in PaymentIds, ReleaseWrite(w, p) PROVE Kept
  <2> DEFINE status == IF req[w].sent THEN "released" ELSE "pending_payout"
  <2>1. WriteRow(w, p, status, req[w].share, "idle") /\ status # "absent"
    BY <1>1 DEF ReleaseWrite
  <2>2. QED
    BY <2>1, WriteRowKeeps
<1>2. ASSUME NEW p \in PaymentIds, CancelWrite(w, p) PROVE Kept
  <2>1. CASE req[w].back
    BY <1>2, <2>1, WriteRowKeeps DEF CancelWrite
  <2>2. CASE ~req[w].back
    BY <1>2, <2>2 DEF CancelWrite, Kept
  <2>3. QED
    BY <2>1, <2>2
<1>3. ASSUME NEW m \in Milestones, NEW cash \in BOOLEAN, NEW p \in PaymentIds,
             PayCommit(w, m, cash, p)
      PROVE  Kept
  BY <1>3 DEF PayCommit, FirstFree, Kept, TypeOK
<1>4. CASE UNCHANGED payment
  BY <1>4 DEF Kept
<1>5. QED
  BY <1>1, <1>2, <1>3, <1>4 DEF BookingSteps, Load, Check, Save, ReleaseList,
     ReleaseTransfer, PayBegin, PayRollback, CancelList, CancelRefund

LEMMA PayoutStepsKeep ==
  ASSUME TypeOK, NEW w \in Workers, PayoutSteps(w)
  PROVE  Kept
<1>1. ASSUME NEW p \in PaymentIds, PayoutWrite(w, p) PROVE Kept
  BY <1>1 DEF PayoutWrite, Kept, TypeOK, Payments
<1>2. CASE UNCHANGED payment
  BY <1>2 DEF Kept
<1>3. QED
  BY <1>1, <1>2 DEF PayoutSteps, PayoutList, PayoutClaim, PayoutSkip

LEMMA CaseStepsKeep ==
  ASSUME TypeOK, NEW w \in Workers, CaseSteps(w)
  PROVE  Kept
<1>1. ASSUME NEW p \in PaymentIds, FreezeWrite(w, p) \/ UnfreezeWrite(w, p) PROVE Kept
  BY <1>1, WriteRowKeeps DEF FreezeWrite, UnfreezeWrite
<1>2. ASSUME NEW p \in PaymentIds, SettleWrite(w, p) PROVE Kept
  <2>1. SettledStatus(w) # "absent"
    BY DEF SettledStatus
  <2>2. CASE req[w].back
    BY <1>2, <2>1, <2>2, WriteRowKeeps DEF SettleWrite
  <2>3. CASE ~req[w].back
    BY <1>2, <2>3 DEF SettleWrite, Kept
  <2>4. QED
    BY <2>2, <2>3
<1>3. CASE UNCHANGED payment
  BY <1>3 DEF Kept
<1>4. QED
  BY <1>1, <1>2, <1>3 DEF CaseSteps, RaiseLoad, RaiseSave, DecideSave, DecideLoad,
     RequestSettlement, CloseCase, ReopenCase, FreezeList, DecideList, MarkLoad,
     MarkSave, SettleTransfer, SettleRefund

LEMMA NextKeeps == TypeOK /\ [Next]_vars => Kept
<1> SUFFICES ASSUME TypeOK, [Next]_vars PROVE Kept
  OBVIOUS
<1>1. CASE UNCHANGED payment
  BY <1>1 DEF Kept
<1>2. QED
  BY <1>1, BookingStepsKeep, PayoutStepsKeep, CaseStepsKeep
  DEF Next, ChangeAccount, RequestDies, vars

LEMMA ChargedGrows == TypeOK /\ [Next]_vars => Charged \subseteq Charged'
<1> SUFFICES ASSUME TypeOK, [Next]_vars, NEW p \in PaymentIds,
                    payment[p].status # "absent"
             PROVE  payment[p].milestone \in Charged'
  BY DEF Charged, Rows
<1>1. /\ payment'[p].status # "absent"
      /\ payment'[p].milestone = payment[p].milestone
  BY NextKeeps DEF Kept
<1>2. payment'[p].status \in PaymentStatuses
  BY NextType DEF TypeOK, Payments
<1>3. QED
  BY <1>1, <1>2 DEF Charged, Rows

(***************************************************************************)
(* Money before work. A stage can come back in three ways: from a stale    *)
(* entity a request loaded, from the stage it is about to restore, and     *)
(* from the stage a case recorded. Each of them was reached with its       *)
(* instalments charged, and what was charged stays charged.                *)
(***************************************************************************)

ReqFunded(r, C) ==
  /\ Presupposes(r.seen.status) \subseteq C
  /\ Presupposes(r.restore) \subseteq C
  /\ r.op \in SaveOps /\ r.at = "checked"
       => Presupposes(Entity(r.op, r.seen).status) \subseteq C

MoneyInv ==
  /\ MoneyBeforeWork
  /\ \A w \in Workers : ReqFunded(req[w], Charged)
  /\ \A c \in Cases : Presupposes(cases[c].previous) \subseteq Charged

LEMMA NothingPresupposed ==
  \A s \in {"payment_pending", "disputed", "cancelled"} : Presupposes(s) = {}
  BY DEF Presupposes

LEMMA ReqFundedGrows ==
  ASSUME NEW C, NEW D, C \subseteq D, NEW r, ReqFunded(r, C)
  PROVE  ReqFunded(r, D)
  BY DEF ReqFunded

LEMMA IdleFunded == ASSUME NEW C PROVE ReqFunded(Idle, C)
  BY NothingPresupposed DEF ReqFunded, Idle, NewBooking, SaveOps

(* A request that goes on without loading, checking or choosing a stage. *)
LEMMA MovedFunded ==
  ASSUME NEW C, NEW r, NEW s, ReqFunded(r, C), s.seen = r.seen,
         s.restore = r.restore, s.at # "checked"
  PROVE  ReqFunded(s, C)
  BY DEF ReqFunded

LEMMA AfterRowFunded ==
  ASSUME NEW C, NEW r \in Requests, NEW p, NEW after \in Stages \ {"checked"},
         ReqFunded(r, C)
  PROVE  ReqFunded(AfterRow(r, p, after), C)
<1> DEFINE stage == IF r.rows \ {p} = {} THEN after ELSE "listed"
           s     == [r EXCEPT !.rows = @ \ {p}, !.row = 0, !.share = 0,
                              !.sent = FALSE, !.back = FALSE, !.at = stage]
<1>1. s.seen = r.seen /\ s.restore = r.restore /\ s.at # "checked"
  BY DEF Requests, Stages
<1>2. ReqFunded(s, C)
  <2> HIDE DEF s
  <2>1. QED
    BY <1>1, MovedFunded
<1>3. QED
  BY <1>2, IdleFunded DEF AfterRow

(* The step lemma: one request moves to a funded record. *)
LEMMA MoneyStep ==
  ASSUME TypeOK, MoneyInv, Charged \subseteq Charged',
         NEW w \in Workers, NEW r, Update(w, r), ReqFunded(r, Charged'),
         Presupposes(booking'.status) \subseteq Charged',
         \A c \in Cases : Presupposes(cases'[c].previous) \subseteq Charged'
  PROVE  MoneyInv'
<1>1. \A v \in Workers : req'[v] = IF v = w THEN r ELSE req[v]
  BY DEF Update, TypeOK
<1>2. \A v \in Workers : ReqFunded(req'[v], Charged')
  BY <1>1, ReqFundedGrows DEF MoneyInv
<1>3. QED
  BY <1>2 DEF MoneyInv, MoneyBeforeWork

(* The same for steps that leave the booking and the cases alone. *)
LEMMA MoneyMove ==
  ASSUME TypeOK, MoneyInv, Charged \subseteq Charged', NEW w \in Workers,
         NEW r, Update(w, r), ReqFunded(r, Charged),
         UNCHANGED <<booking, cases>>
  PROVE  MoneyInv'
<1>1. /\ Presupposes(booking'.status) \subseteq Charged'
      /\ \A c \in Cases : Presupposes(cases'[c].previous) \subseteq Charged'
  BY DEF MoneyInv, MoneyBeforeWork
<1>2. ReqFunded(r, Charged')
  BY ReqFundedGrows
<1>3. QED
  BY <1>1, <1>2, MoneyStep

LEMMA MoneyWriteRow ==
  ASSUME TypeOK, MoneyInv, Charged \subseteq Charged', NEW w \in Workers,
         NEW p \in PaymentIds, NEW status, NEW due, NEW after \in Stages \ {"checked"},
         WriteRow(w, p, status, due, after) \/ NextRow(w, p, after) \/ Answer(w),
         UNCHANGED <<booking, cases>>
  PROVE  MoneyInv'
<1>1. NextRow(w, p, after) \/ Answer(w)
  BY DEF WriteRow
<1>2. ReqFunded(AfterRow(req[w], p, after), Charged)
  BY AfterRowFunded DEF MoneyInv, TypeOK
<1>3. QED
  BY <1>1, <1>2, IdleFunded, MoneyMove DEF NextRow, Answer

LEMMA MoneyAnswer ==
  ASSUME TypeOK, MoneyInv, Charged \subseteq Charged', NEW w \in Workers,
         Answer(w), UNCHANGED <<booking, cases>>
  PROVE  MoneyInv'
  BY IdleFunded, MoneyMove DEF Answer

LEMMA BookingStepsMoney ==
  ASSUME TypeOK, TypeOK', MoneyInv, Charged \subseteq Charged', NEW w \in Workers,
         BookingSteps(w)
  PROVE  MoneyInv'
<1>1. req[w] \in Requests /\ ReqFunded(req[w], Charged) /\ MoneyBeforeWork
  BY DEF TypeOK, MoneyInv
<1>2. ASSUME NEW op \in SaveOps \cup {"settle"}, Load(w, op) PROVE MoneyInv'
  <2> DEFINE r == [req[w] EXCEPT !.op = op, !.at = "loaded", !.seen = booking]
  <2>1. r.seen = booking /\ r.restore = req[w].restore /\ r.at = "loaded"
    BY <1>1 DEF Requests
  <2>2. ReqFunded(r, Charged)
    BY <1>1, <2>1 DEF ReqFunded, MoneyBeforeWork
  <2> HIDE DEF r
  <2>3. QED
    BY <1>2, <2>2, MoneyMove DEF Load, r
<1>3. CASE Check(w)
  <2>1. CASE Permitted(req[w].op, req[w].seen)
    <3> DEFINE stage == IF req[w].op = "settle" THEN "saved" ELSE "checked"
               r     == [req[w] EXCEPT !.at = stage]
    <3>1. /\ r.seen = req[w].seen /\ r.restore = req[w].restore /\ r.op = req[w].op
          /\ Update(w, r)
      BY <1>1, <1>3, <2>1 DEF Requests, Check, Goto
    <3>2. ASSUME req[w].op \in SaveOps
          PROVE  Presupposes(Entity(req[w].op, req[w].seen).status) \subseteq Charged
      <4> DEFINE b == req[w].seen
      <4>0. b \in Bookings /\ Presupposes(b.status) \subseteq Charged
        BY <1>1 DEF Requests, ReqFunded
      <4>00. \A m \in Milestones : HasHeld(m) \/ Collected(m) => m \in Charged
        BY DEF HasHeld, Collected, Charged, Rows, PaymentStatuses, Live
      <4>1. CASE req[w].op = "start_work"
        <5>1. b.status = "confirmed" /\ Entity(req[w].op, b).status = "in_progress"
          BY <2>1, <4>0, <4>1 DEF Permitted, MayStart, Allowed, Entity, Bookings, BookingStatuses
        <5>2. QED
          BY <4>0, <5>1 DEF Presupposes
      <4>2. CASE req[w].op = "complete_work"
        <5>1. /\ b.status = "in_progress" /\ HasHeld("second")
              /\ Entity(req[w].op, b).status = "completed_pending_final"
          BY <2>1, <4>0, <4>2 DEF Permitted, MayDeliver, Allowed, Entity, Bookings, BookingStatuses
        <5>2. QED
          BY <4>0, <4>00, <5>1 DEF Presupposes, Milestones
      <4>3. CASE req[w].op = "mark_completed"
        <5>1. /\ b.status = "completed_pending_final" /\ Collected("final")
              /\ Entity(req[w].op, b).status = "completed"
          BY <2>1, <4>0, <4>3 DEF Permitted, MayMarkCompleted, Entity, Bookings
        <5>2. QED
          BY <4>0, <4>00, <5>1 DEF Presupposes, Milestones
      <4>4. CASE req[w].op = "confirm_delivery"
        <5>1. Entity(req[w].op, b).status = b.status
          BY <4>0, <4>4 DEF Entity, Bookings
        <5>2. QED
          BY <4>0, <5>1
      <4>5. CASE req[w].op = "cancel"
        <5>1. Entity(req[w].op, b).status = "cancelled"
          BY <4>0, <4>5 DEF Entity, Bookings
        <5>2. QED
          BY <5>1, NothingPresupposed
      <4>6. QED
        BY <3>2, <4>1, <4>2, <4>3, <4>4, <4>5 DEF SaveOps
    <3> HIDE DEF r
    <3>3. ReqFunded(r, Charged)
      BY <1>1, <3>1, <3>2 DEF ReqFunded
    <3>4. QED
      BY <1>3, <3>1, <3>3, MoneyMove DEF Check
  <2>2. CASE ~Permitted(req[w].op, req[w].seen)
    BY <1>3, <2>2, MoneyAnswer DEF Check
  <2>3. QED
    BY <2>1, <2>2
<1>4. CASE Save(w)
  <2> DEFINE r == IF req[w].op = "complete_work" THEN Idle ELSE [req[w] EXCEPT !.at = "saved"]
  <2>1. Update(w, r)
    BY <1>4 DEF Save, Answer, Goto
  <2>2. [req[w] EXCEPT !.at = "saved"].seen = req[w].seen
        /\ [req[w] EXCEPT !.at = "saved"].restore = req[w].restore
        /\ [req[w] EXCEPT !.at = "saved"].at # "checked"
    BY <1>1 DEF Requests
  <2>3. ReqFunded(r, Charged)
    BY <1>1, <2>2, IdleFunded, MovedFunded
  <2>4. ReqFunded(r, Charged')
    <3> HIDE DEF r
    <3>1. QED
      BY <2>3, ReqFundedGrows
  <2>5. Presupposes(booking'.status) \subseteq Charged'
    BY <1>1, <1>4 DEF Save, At, ReqFunded
  <2>6. \A c \in Cases : Presupposes(cases'[c].previous) \subseteq Charged'
    BY <1>4 DEF Save, MoneyInv
  <2> HIDE DEF r
  <2>7. QED
    BY <2>1, <2>4, <2>5, <2>6, MoneyStep
<1>5. CASE ReleaseList(w)
  <2> DEFINE held == {p \in GatewayRows({"held"}) :
                        payment[p].milestone \in ReleaseScope(req[w].op)}
             r    == [req[w] EXCEPT !.at = "listed", !.rows = held, !.dest = account]
  <2>1. Update(w, r) \/ Answer(w)
    BY <1>5 DEF ReleaseList
  <2>2. r.seen = req[w].seen /\ r.restore = req[w].restore /\ r.at # "checked"
    BY <1>1 DEF Requests
  <2> HIDE DEF r
  <2>3. QED
    BY <1>1, <1>5, <2>1, <2>2, MovedFunded, MoneyMove, MoneyAnswer DEF ReleaseList
<1>6. ASSUME NEW p \in PaymentIds, ReleaseTransfer(w, p) PROVE MoneyInv'
  <2>1. PICK ok \in BOOLEAN :
          Update(w, [req[w] EXCEPT !.at = "answered", !.row = p, !.sent = ok,
                                   !.share = PayoutShare(p)])
    BY <1>6 DEF ReleaseTransfer
  <2> DEFINE r == [req[w] EXCEPT !.at = "answered", !.row = p, !.sent = ok,
                                 !.share = PayoutShare(p)]
  <2>2. r.seen = req[w].seen /\ r.restore = req[w].restore /\ r.at # "checked"
    BY <1>1 DEF Requests
  <2>3. Update(w, r)
    BY <2>1
  <2> HIDE DEF r
  <2>4. QED
    BY <1>1, <1>6, <2>2, <2>3, MovedFunded, MoneyMove DEF ReleaseTransfer
<1>7. ASSUME NEW p \in PaymentIds, ReleaseWrite(w, p) PROVE MoneyInv'
  <2> DEFINE status == IF req[w].sent THEN "released" ELSE "pending_payout"
  <2>1. WriteRow(w, p, status, req[w].share, "idle") /\ "idle" \in Stages \ {"checked"}
    BY <1>7 DEF ReleaseWrite, Stages
  <2> HIDE DEF status
  <2>2. QED
    BY <1>7, <2>1, MoneyWriteRow DEF ReleaseWrite
<1>8. CASE PayBegin(w)
  <2> DEFINE r == [req[w] EXCEPT !.op = "pay", !.at = "checked", !.seen = booking,
                                 !.rows = Rows(Live)]
  <2>1. r.seen = booking /\ r.restore = req[w].restore /\ r.op \notin SaveOps
    BY <1>1 DEF Requests, SaveOps
  <2>2. ReqFunded(r, Charged)
    <3> HIDE DEF r
    <3>1. QED
      BY <1>1, <2>1 DEF ReqFunded, MoneyBeforeWork
  <2>3. Update(w, r)
    BY <1>8 DEF PayBegin
  <2> HIDE DEF r
  <2>4. QED
    BY <1>8, <2>2, <2>3, MoneyMove DEF PayBegin
<1>9. ASSUME NEW m \in Milestones, NEW cash \in BOOLEAN, NEW p \in PaymentIds,
             PayCommit(w, m, cash, p)
      PROVE  MoneyInv'
  <2>1. m \in Charged'
    <3>1. payment'[p] = Recorded(m, cash)
      BY <1>9 DEF PayCommit, TypeOK
    <3>2. payment'[p].milestone = m /\ payment'[p].status \in PaymentStatuses \ {"absent"}
      BY <3>1 DEF Recorded, PaymentStatuses, Live
    <3>3. QED
      BY <3>2 DEF Charged, Rows
  <2>2. Presupposes(booking'.status) \subseteq Charged'
    <3>1. CASE m = "advance"
      <4>1. booking'.status = "confirmed"
        BY <1>1, <1>9, <3>1 DEF PayCommit, Requests, Bookings
      <4>2. QED
        BY <2>1, <3>1, <4>1 DEF Presupposes
    <3>2. CASE m # "advance"
      BY <1>1, <1>9, <3>2 DEF PayCommit, ReqFunded
    <3>3. QED
      BY <3>1, <3>2
  <2>3. \A c \in Cases : Presupposes(cases'[c].previous) \subseteq Charged'
    BY <1>9 DEF PayCommit, MoneyInv
  <2>4. Update(w, Idle)
    BY <1>9 DEF PayCommit, Answer
  <2>5. QED
    BY <2>2, <2>3, <2>4, IdleFunded, MoneyStep
<1>10. CASE PayRollback(w)
  BY <1>10, MoneyAnswer DEF PayRollback
<1>11. CASE CancelList(w)
  <2> DEFINE r == [req[w] EXCEPT !.at = "listed", !.rows = Refundable]
  <2>1. Update(w, r) \/ Answer(w)
    BY <1>11 DEF CancelList
  <2>2. r.seen = req[w].seen /\ r.restore = req[w].restore /\ r.at # "checked"
    BY <1>1 DEF Requests
  <2> HIDE DEF r
  <2>3. QED
    BY <1>1, <1>11, <2>1, <2>2, MovedFunded, MoneyMove, MoneyAnswer DEF CancelList
<1>12. ASSUME NEW p \in PaymentIds, CancelRefund(w, p) PROVE MoneyInv'
  <2>1. PICK ok \in BOOLEAN :
          Update(w, [req[w] EXCEPT !.at = "answered", !.row = p, !.back = ok])
    BY <1>12 DEF CancelRefund
  <2> DEFINE r == [req[w] EXCEPT !.at = "answered", !.row = p, !.back = ok]
  <2>2. r.seen = req[w].seen /\ r.restore = req[w].restore /\ r.at # "checked"
    BY <1>1 DEF Requests
  <2>3. Update(w, r)
    BY <2>1
  <2> HIDE DEF r
  <2>4. QED
    BY <1>1, <1>12, <2>2, <2>3, MovedFunded, MoneyMove DEF CancelRefund
<1>13. ASSUME NEW p \in PaymentIds, CancelWrite(w, p) PROVE MoneyInv'
  <2>1. WriteRow(w, p, "refunded", 0, "idle") \/ NextRow(w, p, "idle")
    BY <1>13 DEF CancelWrite
  <2>2. "idle" \in Stages \ {"checked"}
    BY DEF Stages
  <2>3. QED
    BY <1>13, <2>1, <2>2, MoneyWriteRow DEF CancelWrite
<1>14. QED
  BY <1>2, <1>3, <1>4, <1>5, <1>6, <1>7, <1>8, <1>9, <1>10, <1>11, <1>12, <1>13
  DEF BookingSteps

LEMMA PayoutStepsMoney ==
  ASSUME TypeOK, MoneyInv, Charged \subseteq Charged', NEW w \in Workers,
         PayoutSteps(w)
  PROVE  MoneyInv'
<1>1. req[w] \in Requests /\ ReqFunded(req[w], Charged) /\ "idle" \in Stages \ {"checked"}
  BY DEF TypeOK, MoneyInv, Stages
<1>2. ASSUME NEW op \in PayoutOps, PayoutList(w, op) PROVE MoneyInv'
  <2> DEFINE r == [req[w] EXCEPT !.op = op, !.at = "listed",
                                 !.rows = Rows({"pending_payout"}), !.dest = account]
  <2>1. r.seen = req[w].seen /\ r.restore = req[w].restore /\ r.at # "checked"
    BY <1>1 DEF Requests
  <2>2. Update(w, r)
    BY <1>2 DEF PayoutList
  <2> HIDE DEF r
  <2>3. QED
    BY <1>1, <1>2, <2>1, <2>2, MovedFunded, MoneyMove DEF PayoutList
<1>3. ASSUME NEW p \in PaymentIds, PayoutClaim(w, p) PROVE MoneyInv'
  <2>1. PICK ok \in BOOLEAN :
          Update(w, [req[w] EXCEPT !.at = "answered", !.row = p, !.sent = ok])
    BY <1>3 DEF PayoutClaim
  <2> DEFINE r == [req[w] EXCEPT !.at = "answered", !.row = p, !.sent = ok]
  <2>2. r.seen = req[w].seen /\ r.restore = req[w].restore /\ r.at # "checked"
    BY <1>1 DEF Requests
  <2>3. Update(w, r)
    BY <2>1
  <2> HIDE DEF r
  <2>4. QED
    BY <1>1, <1>3, <2>2, <2>3, MovedFunded, MoneyMove DEF PayoutClaim
<1>4. ASSUME NEW p \in PaymentIds, PayoutSkip(w, p) \/ PayoutWrite(w, p) PROVE MoneyInv'
  BY <1>1, <1>4, MoneyWriteRow DEF PayoutSkip, PayoutWrite
<1>5. QED
  BY <1>2, <1>3, <1>4 DEF PayoutSteps

LEMMA CaseStepsMoney ==
  ASSUME TypeOK, TypeOK', MoneyInv, Charged \subseteq Charged', NEW w \in Workers,
         CaseSteps(w)
  PROVE  MoneyInv'
<1>1. /\ req[w] \in Requests /\ ReqFunded(req[w], Charged) /\ MoneyBeforeWork
      /\ \A c \in Cases : cases[c] \in CaseRows /\ Presupposes(cases[c].previous) \subseteq Charged
      /\ \A c \in Cases : Presupposes(cases[c].previous) \subseteq Charged'
      /\ Presupposes(booking.status) \subseteq Charged'
  BY DEF TypeOK, MoneyInv, MoneyBeforeWork
<1>2. ASSUME NEW c \in Cases, RaiseLoad(w, c) PROVE MoneyInv'
  <2> DEFINE r == [req[w] EXCEPT !.op = "raise", !.at = "loaded", !.case = c, !.seen = booking]
  <2>1. r.seen = booking /\ r.restore = req[w].restore /\ r.at = "loaded"
    BY <1>1 DEF Requests
  <2>2. Update(w, r)
    BY <1>2 DEF RaiseLoad
  <2> HIDE DEF r
  <2>3. ReqFunded(r, Charged)
    BY <1>1, <2>1 DEF ReqFunded, MoneyBeforeWork
  <2>4. QED
    BY <1>2, <2>2, <2>3, MoneyMove DEF RaiseLoad
<1>3. ASSUME NEW c \in Cases, RaiseSave(w, c) PROVE MoneyInv'
  <2> DEFINE r == [req[w] EXCEPT !.at = "saved", !.restore = "disputed"]
  <2>1. r.seen = req[w].seen /\ r.restore = "disputed" /\ r.at = "saved"
    BY <1>1 DEF Requests
  <2>2. Update(w, r)
    BY <1>3 DEF RaiseSave
  <2> HIDE DEF r
  <2>3. ReqFunded(r, Charged')
    BY <1>1, <2>1, NothingPresupposed DEF ReqFunded
  <2>4. \A d \in Cases : Presupposes(cases'[d].previous) \subseteq Charged'
    <3>1. Presupposes(req[w].seen.status) \subseteq Charged'
      BY <1>1 DEF ReqFunded
    <3>2. \A d \in Cases : cases'[d].previous = IF d = c THEN req[w].seen.status
                                                         ELSE cases[d].previous
      BY <1>3 DEF RaiseSave, TypeOK
    <3>3. QED
      BY <1>1, <3>1, <3>2
  <2>5. QED
    BY <1>1, <1>3, <2>2, <2>3, <2>4, MoneyStep DEF RaiseSave
<1>4. ASSUME NEW c \in Cases, DecideSave(w, c) PROVE MoneyInv'
  <2> DEFINE moved == [req[w] EXCEPT !.at = "saved"]
             r     == IF cases[c].kind = "booking" THEN moved ELSE Idle
  <2>1. moved.seen = req[w].seen /\ moved.restore = req[w].restore /\ moved.at # "checked"
    BY <1>1 DEF Requests
  <2>2. Update(w, r)
    BY <1>4 DEF DecideSave, Goto, Answer
  <2>3. ReqFunded(moved, Charged')
    <3> HIDE DEF moved
    <3>1. QED
      BY <1>1, <2>1, MovedFunded, ReqFundedGrows
  <2>4. ReqFunded(r, Charged')
    BY <2>3, IdleFunded
  <2>5. \A d \in Cases : cases'[d].previous = cases[d].previous
    BY <1>1, <1>4 DEF DecideSave, TypeOK, CaseRows
  <2> HIDE DEF r
  <2>6. QED
    BY <1>1, <1>4, <2>2, <2>4, <2>5, MoneyStep DEF DecideSave
<1>5. ASSUME NEW c \in Cases, NEW o, NEW n, DecideLoad(w, c, o, n) PROVE MoneyInv'
  <2> DEFINE back == IF o = "refund" THEN "cancelled" ELSE cases[c].previous
             left == IF o = "partial" THEN n ELSE 0
             r    == [req[w] EXCEPT !.op = "decide", !.at = "loaded", !.case = c,
                                    !.outcome = o, !.left = left, !.restore = back]
  <2>1. r.seen = req[w].seen /\ r.restore = back /\ r.at = "loaded"
    BY <1>1 DEF Requests
  <2>2. Update(w, r)
    BY <1>5 DEF DecideLoad
  <2>3. Presupposes(back) \subseteq Charged
    BY <1>1, NothingPresupposed
  <2> HIDE DEF r, back
  <2>4. ReqFunded(r, Charged)
    BY <1>1, <2>1, <2>3 DEF ReqFunded
  <2>5. QED
    BY <1>5, <2>2, <2>4, MoneyMove DEF DecideLoad
<1>6. ASSUME NEW c \in Cases,
             RequestSettlement(w, c) \/ CloseCase(w, c) \/ ReopenCase(w, c)
      PROVE  MoneyInv'
  <2>1. \A d \in Cases : cases'[d].previous = cases[d].previous
    BY <1>1, <1>6 DEF RequestSettlement, CloseCase, ReopenCase, TypeOK, CaseRows
  <2>2. Update(w, req[w])
    BY <1>6 DEF RequestSettlement, CloseCase, ReopenCase, Update, TypeOK
  <2>3. ReqFunded(req[w], Charged')
    BY <1>1, ReqFundedGrows
  <2>4. booking' = booking
    BY <1>6 DEF RequestSettlement, CloseCase, ReopenCase
  <2>5. QED
    BY <1>1, <2>1, <2>2, <2>3, <2>4, MoneyStep
<1>7. CASE FreezeList(w)
  <2> DEFINE r == [req[w] EXCEPT !.rows = Rows({"held"}),
                                 !.at = IF Rows({"held"}) = {} THEN "mark" ELSE "listed"]
  <2>1. r.seen = req[w].seen /\ r.restore = req[w].restore /\ r.at # "checked"
    BY <1>1 DEF Requests
  <2>2. Update(w, r)
    BY <1>7 DEF FreezeList
  <2> HIDE DEF r
  <2>3. QED
    BY <1>1, <1>7, <2>1, <2>2, MovedFunded, MoneyMove DEF FreezeList
<1>8. CASE DecideList(w)
  <2> DEFINE disputed == IF req[w].outcome = "no_action" THEN Rows({"disputed"})
                                                         ELSE GatewayRows({"disputed"})
             r == [req[w] EXCEPT !.rows = disputed, !.dest = account,
                                 !.at = IF disputed = {} THEN "mark" ELSE "listed"]
  <2>1. r.seen = req[w].seen /\ r.restore = req[w].restore /\ r.at # "checked"
    BY <1>1 DEF Requests
  <2>2. Update(w, r)
    BY <1>8 DEF DecideList
  <2> HIDE DEF r
  <2>3. QED
    BY <1>1, <1>8, <2>1, <2>2, MovedFunded, MoneyMove DEF DecideList
<1>9. CASE MarkLoad(w)
  <2> DEFINE r == [req[w] EXCEPT !.at = "marking", !.seen = booking]
  <2>1. r.seen = booking /\ r.restore = req[w].restore /\ r.at = "marking"
    BY <1>1 DEF Requests
  <2>2. Update(w, r)
    BY <1>9 DEF MarkLoad
  <2> HIDE DEF r
  <2>3. ReqFunded(r, Charged)
    BY <1>1, <2>1 DEF ReqFunded, MoneyBeforeWork
  <2>4. QED
    BY <1>9, <2>2, <2>3, MoneyMove DEF MarkLoad
<1>10. CASE MarkSave(w)
  <2>1. booking'.status = req[w].restore
    BY <1>1, <1>10 DEF MarkSave, Requests, Bookings
  <2>2. Presupposes(booking'.status) \subseteq Charged'
    BY <1>1, <2>1 DEF ReqFunded
  <2>3. UNCHANGED cases /\ Update(w, Idle)
    BY <1>10 DEF MarkSave, Answer
  <2>4. QED
    BY <1>1, <2>2, <2>3, IdleFunded, MoneyStep
<1>11. ASSUME NEW p \in PaymentIds,
              FreezeWrite(w, p) \/ UnfreezeWrite(w, p) \/ SettleWrite(w, p)
       PROVE  MoneyInv'
  <2>1. "mark" \in Stages \ {"checked"}
    BY DEF Stages
  <2>2. QED
    BY <1>11, <2>1, MoneyWriteRow DEF FreezeWrite, UnfreezeWrite, SettleWrite
<1>12. ASSUME NEW p \in PaymentIds, SettleTransfer(w, p) PROVE MoneyInv'
  <2>1. PICK ok \in BOOLEAN :
          Update(w, [req[w] EXCEPT !.at = "sent", !.row = p, !.sent = ok,
                                   !.share = ToProvider(w),
                                   !.left = IF req[w].outcome = "partial"
                                              THEN @ - ToProvider(w) ELSE @])
    BY <1>12 DEF SettleTransfer
  <2> DEFINE r == [req[w] EXCEPT !.at = "sent", !.row = p, !.sent = ok,
                                 !.share = ToProvider(w),
                                 !.left = IF req[w].outcome = "partial"
                                            THEN @ - ToProvider(w) ELSE @]
  <2>2. r.seen = req[w].seen /\ r.restore = req[w].restore /\ r.at # "checked"
    BY <1>1 DEF Requests
  <2>3. Update(w, r)
    BY <2>1
  <2> HIDE DEF r
  <2>4. QED
    BY <1>1, <1>12, <2>2, <2>3, MovedFunded, MoneyMove DEF SettleTransfer
<1>13. ASSUME NEW p \in PaymentIds, SettleRefund(w, p) PROVE MoneyInv'
  <2>1. PICK ok \in BOOLEAN : Update(w, [req[w] EXCEPT !.at = "answered", !.back = ok])
    BY <1>13 DEF SettleRefund
  <2> DEFINE r == [req[w] EXCEPT !.at = "answered", !.back = ok]
  <2>2. r.seen = req[w].seen /\ r.restore = req[w].restore /\ r.at # "checked"
    BY <1>1 DEF Requests
  <2>3. Update(w, r)
    BY <2>1
  <2> HIDE DEF r
  <2>4. QED
    BY <1>1, <1>13, <2>2, <2>3, MovedFunded, MoneyMove DEF SettleRefund
<1>14. QED
  BY <1>2, <1>3, <1>4, <1>5, <1>6, <1>7, <1>8, <1>9, <1>10, <1>11, <1>12, <1>13
  DEF CaseSteps

LEMMA InitMoney == Init => MoneyInv
<1> SUFFICES ASSUME Init PROVE MoneyInv
  OBVIOUS
<1>1. /\ booking.status = "payment_pending"
      /\ \A c \in Cases : cases[c].previous = "payment_pending"
      /\ \A w \in Workers : req[w] = Idle
  BY DEF Init, NewBooking
<1>2. QED
  BY <1>1, NothingPresupposed, IdleFunded DEF MoneyInv, MoneyBeforeWork

LEMMA NextMoney == TypeOK /\ TypeOK' /\ MoneyInv /\ [Next]_vars => MoneyInv'
<1> SUFFICES ASSUME TypeOK, TypeOK', MoneyInv, [Next]_vars PROVE MoneyInv'
  OBVIOUS
<1>1. Charged \subseteq Charged'
  BY ChargedGrows
<1>2. ASSUME NEW w \in Workers, ChangeAccount(w) PROVE MoneyInv'
  BY <1>2 DEF ChangeAccount, MoneyInv, MoneyBeforeWork, Charged, Rows
<1>3. ASSUME NEW w \in Workers, RequestDies(w) PROVE MoneyInv'
  BY <1>1, <1>3, MoneyAnswer DEF RequestDies
<1>4. CASE UNCHANGED vars
  BY <1>4 DEF vars, MoneyInv, MoneyBeforeWork, Charged, Rows
<1>5. QED
  BY <1>1, <1>2, <1>3, <1>4, BookingStepsMoney, PayoutStepsMoney, CaseStepsMoney
  DEF Next

(* Money and work alternate, for any number of overlapping requests, cases *)
(* and payment rows: the booking never stands at a stage whose instalments *)
(* were not charged first.                                                 *)
THEOREM MoneyComesFirst == Spec => []MoneyBeforeWork
<1>1. Init => TypeOK /\ MoneyInv
  BY InitType, InitMoney
<1>2. TypeOK /\ MoneyInv /\ [Next]_vars => (TypeOK /\ MoneyInv)'
  BY NextType, NextMoney
<1>3. MoneyInv => MoneyBeforeWork
  BY DEF MoneyInv
<1>4. QED
  BY <1>1, <1>2, <1>3, PTL DEF Spec

(***************************************************************************)
(* An owed payout is claimed by one request. The row lock is what makes it *)
(* so: a worker holds the lock of a row exactly while it waits for the     *)
(* gateway about that row, and nobody writes a locked row.                 *)
(***************************************************************************)

Claims(r, p) == r.op \in PayoutOps /\ r.at = "answered" /\ r.row = p

ClaimInv ==
  /\ \A p \in PaymentIds, w \in Workers : rowLock[p] = w <=> Claims(req[w], p)
  /\ \A w \in Workers : At(w, PayoutOps, "answered") => req[w].row \in PaymentIds
  /\ \A p \in PaymentIds : rowLock[p] # NoWorker => payment[p].status = "pending_payout"

(* A step that neither takes nor gives back a claim. *)
LEMMA ClaimMove ==
  ASSUME TypeOK, TypeOK', ClaimInv, NEW w \in Workers, NEW r, Update(w, r),
         ~(req[w].op \in PayoutOps /\ req[w].at = "answered"),
         ~(r.op \in PayoutOps /\ r.at = "answered"),
         UNCHANGED rowLock,
         \A p \in PaymentIds : rowLock[p] # NoWorker => payment'[p].status = payment[p].status
  PROVE  ClaimInv'
<1>1. \A v \in Workers : req'[v] = IF v = w THEN r ELSE req[v]
  BY DEF Update, TypeOK
<1>2. ASSUME NEW p \in PaymentIds, NEW v \in Workers
      PROVE  rowLock'[p] = v <=> Claims(req'[v], p)
  BY <1>1, <1>2 DEF ClaimInv, Claims
<1>3. ASSUME NEW v \in Workers, req'[v].op \in PayoutOps, req'[v].at = "answered"
      PROVE  req'[v].row \in PaymentIds
  BY <1>1, <1>3 DEF ClaimInv, At
<1>4. QED
  BY <1>2, <1>3 DEF ClaimInv, At

LEMMA ClaimWriteRow ==
  ASSUME TypeOK, TypeOK', ClaimInv, NEW w \in Workers, NEW p \in PaymentIds,
         NEW status, NEW due, NEW after \in Stages \ {"answered"},
         req[w].op \notin PayoutOps \/ req[w].at # "answered",
         \/ WriteRow(w, p, status, due, after)
         \/ UNCHANGED payment /\ (NextRow(w, p, after) \/ Answer(w)),
         UNCHANGED rowLock
  PROVE  ClaimInv'
<1>1. AfterRow(req[w], p, after).at # "answered" /\ Idle.at # "answered"
  BY DEF AfterRow, Idle, TypeOK, Requests
<1>2. Update(w, AfterRow(req[w], p, after)) \/ Update(w, Idle)
  BY DEF WriteRow, NextRow, Answer
<1>3. \A q \in PaymentIds : rowLock[q] # NoWorker => payment'[q].status = payment[q].status
  BY DEF WriteRow, TypeOK
<1>4. QED
  BY <1>1, <1>2, <1>3, ClaimMove

LEMMA BookingStepsClaim ==
  ASSUME TypeOK, TypeOK', ClaimInv, NEW w \in Workers, BookingSteps(w)
  PROVE  ClaimInv'
<1>1. req[w] \in Requests /\ "idle" \in Stages \ {"answered"} /\ Idle.at # "answered"
  BY DEF TypeOK, Stages, Idle
<1>2. ASSUME NEW op \in SaveOps \cup {"settle"}, Load(w, op) PROVE ClaimInv'
  <2> DEFINE r == [req[w] EXCEPT !.op = op, !.at = "loaded", !.seen = booking]
  <2>1. r.at = "loaded" /\ req[w].at = "idle"
    BY <1>1, <1>2 DEF Requests, Load, Free
  <2>2. Update(w, r)
    BY <1>2 DEF Load
  <2> HIDE DEF r
  <2>3. QED
    BY <1>2, <2>1, <2>2, ClaimMove DEF Load
<1>3. CASE Check(w)
  <2>1. PICK s \in Stages : s # "answered" /\ (Update(w, [req[w] EXCEPT !.at = s]) \/ Update(w, Idle))
    BY <1>3 DEF Check, Goto, Answer, Stages
  <2>2. [req[w] EXCEPT !.at = s].at = s /\ req[w].at = "loaded"
    BY <1>1, <1>3 DEF Requests, Check, At
  <2>3. QED
    BY <1>1, <1>3, <2>1, <2>2, ClaimMove DEF Check
<1>4. CASE Save(w)
  <2>1. Update(w, [req[w] EXCEPT !.at = "saved"]) \/ Update(w, Idle)
    BY <1>4 DEF Save, Goto, Answer
  <2>2. [req[w] EXCEPT !.at = "saved"].at = "saved" /\ req[w].at = "checked"
    BY <1>1, <1>4 DEF Requests, Save, At
  <2>3. QED
    BY <1>1, <1>4, <2>1, <2>2, ClaimMove DEF Save
<1>5. CASE ReleaseList(w) \/ CancelList(w)
  <2>1. PICK r : r.at # "answered" /\ Update(w, r)
    <3>1. PICK S, d : \/ Update(w, [req[w] EXCEPT !.at = "listed", !.rows = S, !.dest = d])
                      \/ Update(w, [req[w] EXCEPT !.at = "listed", !.rows = S])
                      \/ Update(w, Idle)
      BY <1>5 DEF ReleaseList, CancelList, Answer
    <3>2. /\ [req[w] EXCEPT !.at = "listed", !.rows = S, !.dest = d].at = "listed"
          /\ [req[w] EXCEPT !.at = "listed", !.rows = S].at = "listed"
      BY <1>1 DEF Requests
    <3>3. QED
      BY <1>1, <3>1, <3>2
  <2>2. req[w].at = "saved"
    BY <1>5 DEF ReleaseList, CancelList, At
  <2>3. QED
    BY <1>5, <2>1, <2>2, ClaimMove DEF ReleaseList, CancelList
<1>6. ASSUME NEW p \in PaymentIds, ReleaseTransfer(w, p) \/ CancelRefund(w, p) PROVE ClaimInv'
  <2>1. req[w].op \in ReleaseOps \cup {"cancel"} /\ req[w].op \notin PayoutOps
    BY <1>6 DEF ReleaseTransfer, CancelRefund, At, ReleaseOps, PayoutOps
  <2>2. PICK r : r.op = req[w].op /\ Update(w, r)
    <3>1. CASE ReleaseTransfer(w, p)
      <4>1. PICK ok \in BOOLEAN :
              Update(w, [req[w] EXCEPT !.at = "answered", !.row = p, !.sent = ok,
                                       !.share = PayoutShare(p)])
        BY <3>1 DEF ReleaseTransfer
      <4>2. [req[w] EXCEPT !.at = "answered", !.row = p, !.sent = ok,
                           !.share = PayoutShare(p)].op = req[w].op
        BY <1>1 DEF Requests
      <4>3. QED
        BY <4>1, <4>2
    <3>2. CASE CancelRefund(w, p)
      <4>1. PICK ok \in BOOLEAN :
              Update(w, [req[w] EXCEPT !.at = "answered", !.row = p, !.back = ok])
        BY <3>2 DEF CancelRefund
      <4>2. [req[w] EXCEPT !.at = "answered", !.row = p, !.back = ok].op = req[w].op
        BY <1>1 DEF Requests
      <4>3. QED
        BY <4>1, <4>2
    <3>3. QED
      BY <1>6, <3>1, <3>2
  <2>3. QED
    BY <1>6, <2>1, <2>2, ClaimMove DEF ReleaseTransfer, CancelRefund
<1>7. ASSUME NEW p \in PaymentIds, ReleaseWrite(w, p) \/ CancelWrite(w, p) PROVE ClaimInv'
  <2>1. req[w].op \notin PayoutOps
    BY <1>7 DEF ReleaseWrite, CancelWrite, At, ReleaseOps, PayoutOps
  <2>2. PICK s, d : \/ WriteRow(w, p, s, d, "idle")
                    \/ UNCHANGED payment /\ NextRow(w, p, "idle")
    BY <1>7 DEF ReleaseWrite, CancelWrite
  <2>3. QED
    BY <1>1, <1>7, <2>1, <2>2, ClaimWriteRow DEF ReleaseWrite, CancelWrite
<1>8. CASE PayBegin(w)
  <2> DEFINE r == [req[w] EXCEPT !.op = "pay", !.at = "checked", !.seen = booking,
                                 !.rows = Rows(Live)]
  <2>1. r.at = "checked" /\ req[w].at = "idle"
    BY <1>1, <1>8 DEF Requests, PayBegin, Free
  <2>2. Update(w, r)
    BY <1>8 DEF PayBegin
  <2> HIDE DEF r
  <2>3. QED
    BY <1>8, <2>1, <2>2, ClaimMove DEF PayBegin
<1>9. ASSUME NEW m \in Milestones, NEW cash \in BOOLEAN, NEW p \in PaymentIds,
             PayCommit(w, m, cash, p)
      PROVE  ClaimInv'
  <2>1. req[w].at = "checked" /\ Update(w, Idle)
    BY <1>9 DEF PayCommit, At, Answer
  <2>2. payment[p].status = "absent"
    BY <1>9 DEF PayCommit, FirstFree
  <2>3. \A q \in PaymentIds : rowLock[q] # NoWorker => payment'[q].status = payment[q].status
    BY <1>9, <2>2 DEF PayCommit, ClaimInv, TypeOK
  <2>4. QED
    BY <1>1, <1>9, <2>1, <2>3, ClaimMove DEF PayCommit
<1>10. CASE PayRollback(w)
  <2>1. req[w].at = "checked" /\ Update(w, Idle)
    BY <1>10 DEF PayRollback, At, Answer
  <2>2. QED
    BY <1>1, <1>10, <2>1, ClaimMove DEF PayRollback
<1>11. QED
  BY <1>2, <1>3, <1>4, <1>5, <1>6, <1>7, <1>8, <1>9, <1>10 DEF BookingSteps

LEMMA PayoutStepsClaim ==
  ASSUME TypeOK, TypeOK', ClaimInv, NEW w \in Workers, PayoutSteps(w)
  PROVE  ClaimInv'
<1>1. req[w] \in Requests /\ "idle" \in Stages \ {"answered"}
  BY DEF TypeOK, Stages
<1>2. ASSUME NEW op \in PayoutOps, PayoutList(w, op) PROVE ClaimInv'
  <2> DEFINE r == [req[w] EXCEPT !.op = op, !.at = "listed",
                                 !.rows = Rows({"pending_payout"}), !.dest = account]
  <2>1. r.at = "listed" /\ req[w].at = "idle"
    BY <1>1, <1>2 DEF Requests, PayoutList, Free
  <2>2. Update(w, r)
    BY <1>2 DEF PayoutList
  <2> HIDE DEF r
  <2>3. QED
    BY <1>2, <2>1, <2>2, ClaimMove DEF PayoutList
<1>3. ASSUME NEW p \in PaymentIds, PayoutClaim(w, p) PROVE ClaimInv'
  <2>1. PICK ok \in BOOLEAN :
          Update(w, [req[w] EXCEPT !.at = "answered", !.row = p, !.sent = ok])
    BY <1>3 DEF PayoutClaim
  <2> DEFINE r == [req[w] EXCEPT !.at = "answered", !.row = p, !.sent = ok]
  <2>2. r.at = "answered" /\ r.op \in PayoutOps /\ r.row = p
    BY <1>1, <1>3 DEF Requests, PayoutClaim, At
  <2>3. \A v \in Workers : req'[v] = IF v = w THEN r ELSE req[v]
    BY <2>1 DEF Update, TypeOK
  <2> HIDE DEF r
  <2>4. /\ rowLock[p] = NoWorker /\ payment[p].status = "pending_payout"
        /\ req[w].at = "listed" /\ UNCHANGED payment
        /\ \A q \in PaymentIds : rowLock'[q] = IF q = p THEN w ELSE rowLock[q]
    BY <1>3 DEF PayoutClaim, Claimable, At, TypeOK
  <2>5. ASSUME NEW q \in PaymentIds, NEW v \in Workers
        PROVE  rowLock'[q] = v <=> Claims(req'[v], q)
    <3>1. CASE v = w
      <4>1. ~Claims(req[w], q) /\ rowLock[q] # w
        BY <2>4 DEF ClaimInv, Claims
      <4>2. QED
        BY <2>2, <2>3, <2>4, <3>1, <4>1 DEF Claims
    <3>2. CASE v # w
      <4>1. rowLock[p] # v
        BY <2>4, WorkersAssumption
      <4>2. QED
        BY <2>3, <2>4, <3>2, <4>1 DEF ClaimInv
    <3>3. QED
      BY <3>1, <3>2
  <2>6. \A v \in Workers : req'[v].op \in PayoutOps /\ req'[v].at = "answered"
                             => req'[v].row \in PaymentIds
    BY <2>2, <2>3 DEF ClaimInv, At
  <2>7. QED
    BY <2>4, <2>5, <2>6 DEF ClaimInv, At
<1>4. ASSUME NEW p \in PaymentIds, PayoutSkip(w, p) PROVE ClaimInv'
  <2>1. req[w].at = "listed"
    BY <1>4 DEF PayoutSkip, At
  <2>2. QED
    BY <1>1, <1>4, <2>1, ClaimWriteRow DEF PayoutSkip
<1>5. ASSUME NEW p \in PaymentIds, PayoutWrite(w, p) PROVE ClaimInv'
  <2> DEFINE r == req'[w]
  <2>1. r.at # "answered"
    <3>1. r = Idle \/ r = AfterRow(req[w], p, "idle")
      BY <1>5 DEF PayoutWrite, Answer, NextRow, Update, TypeOK
    <3>2. AfterRow(req[w], p, "idle").at # "answered" /\ Idle.at # "answered"
      BY <1>1 DEF AfterRow, Idle, Requests
    <3>3. QED
      BY <3>1, <3>2
  <2>2. \A v \in Workers : req'[v] = IF v = w THEN r ELSE req[v]
    BY <1>5 DEF PayoutWrite, Answer, NextRow, Update, TypeOK
  <2> HIDE DEF r
  <2>3. Claims(req[w], p) /\ \A q \in PaymentIds : q # p => ~Claims(req[w], q)
    BY <1>5 DEF PayoutWrite, At, Claims
  <2>4. /\ \A q \in PaymentIds : rowLock'[q] = IF q = p THEN NoWorker ELSE rowLock[q]
        /\ \A q \in PaymentIds : q # p => payment'[q] = payment[q]
    BY <1>5 DEF PayoutWrite, TypeOK
  <2>5. ASSUME NEW q \in PaymentIds, NEW v \in Workers
        PROVE  rowLock'[q] = v <=> Claims(req'[v], q)
    <3>1. CASE v = w
      BY <2>1, <2>2, <2>3, <2>4, <3>1, WorkersAssumption DEF ClaimInv, Claims
    <3>2. CASE v # w
      <4>1. rowLock[p] = w
        BY <2>3 DEF ClaimInv
      <4>2. QED
        BY <2>2, <2>4, <3>2, <4>1, WorkersAssumption DEF ClaimInv
    <3>3. QED
      BY <3>1, <3>2
  <2>6. \A v \in Workers : req'[v].op \in PayoutOps /\ req'[v].at = "answered"
                             => req'[v].row \in PaymentIds
    BY <2>1, <2>2 DEF ClaimInv, At
  <2>7. QED
    BY <2>4, <2>5, <2>6 DEF ClaimInv, At
<1>6. QED
  BY <1>2, <1>3, <1>4, <1>5 DEF PayoutSteps

LEMMA CaseStepsClaim ==
  ASSUME TypeOK, TypeOK', ClaimInv, NEW w \in Workers, CaseSteps(w)
  PROVE  ClaimInv'
<1>1. /\ req[w] \in Requests /\ Idle.at # "answered"
      /\ "mark" \in Stages \ {"answered"}
      /\ {"raise", "decide"} \cap PayoutOps = {}
  BY DEF TypeOK, Stages, Idle, PayoutOps
<1>2. ASSUME NEW c \in Cases,
             RequestSettlement(w, c) \/ CloseCase(w, c) \/ ReopenCase(w, c)
      PROVE  ClaimInv'
  BY <1>2 DEF RequestSettlement, CloseCase, ReopenCase, ClaimInv, At
<1>3. ASSUME NEW c \in Cases, NEW o, NEW n, RaiseLoad(w, c) \/ DecideLoad(w, c, o, n)
      PROVE  ClaimInv'
  <2>1. CASE RaiseLoad(w, c)
    <3> DEFINE r == [req[w] EXCEPT !.op = "raise", !.at = "loaded", !.case = c, !.seen = booking]
    <3>1. r.at = "loaded" /\ req[w].at = "idle"
      BY <1>1, <2>1 DEF Requests, RaiseLoad, Free
    <3>2. Update(w, r)
      BY <2>1 DEF RaiseLoad
    <3> HIDE DEF r
    <3>3. QED
      BY <2>1, <3>1, <3>2, ClaimMove DEF RaiseLoad
  <2>2. CASE DecideLoad(w, c, o, n)
    <3> DEFINE back == IF o = "refund" THEN "cancelled" ELSE cases[c].previous
               left == IF o = "partial" THEN n ELSE 0
               r    == [req[w] EXCEPT !.op = "decide", !.at = "loaded", !.case = c,
                                      !.outcome = o, !.left = left, !.restore = back]
    <3>1. r.at = "loaded" /\ req[w].at = "idle"
      BY <1>1, <2>2 DEF Requests, DecideLoad, Free
    <3>2. Update(w, r)
      BY <2>2 DEF DecideLoad
    <3> HIDE DEF r
    <3>3. QED
      BY <2>2, <3>1, <3>2, ClaimMove DEF DecideLoad
  <2>3. QED
    BY <1>3, <2>1, <2>2
<1>4. ASSUME NEW c \in Cases, RaiseSave(w, c) \/ DecideSave(w, c) PROVE ClaimInv'
  <2>1. PICK r : r.at # "answered" /\ Update(w, r)
    <3>1. \/ Update(w, [req[w] EXCEPT !.at = "saved", !.restore = "disputed"])
          \/ Update(w, [req[w] EXCEPT !.at = "saved"])
          \/ Update(w, Idle)
      BY <1>4 DEF RaiseSave, DecideSave, Goto, Answer
    <3>2. /\ [req[w] EXCEPT !.at = "saved", !.restore = "disputed"].at = "saved"
          /\ [req[w] EXCEPT !.at = "saved"].at = "saved"
      BY <1>1 DEF Requests
    <3>3. QED
      BY <1>1, <3>1, <3>2
  <2>2. req[w].at = "loaded" /\ UNCHANGED <<payment, rowLock>>
    BY <1>4 DEF RaiseSave, DecideSave, At
  <2>3. QED
    BY <2>1, <2>2, ClaimMove
<1>5. CASE FreezeList(w) \/ DecideList(w) \/ MarkLoad(w)
  <2>1. PICK r : r.at # "answered" /\ Update(w, r)
    <3>1. CASE FreezeList(w)
      <4> DEFINE r == [req[w] EXCEPT !.rows = Rows({"held"}),
                                     !.at = IF Rows({"held"}) = {} THEN "mark" ELSE "listed"]
      <4>1. r.at # "answered" /\ Update(w, r)
        BY <1>1, <3>1 DEF Requests, FreezeList
      <4> HIDE DEF r
      <4>2. QED
        BY <4>1
    <3>2. CASE DecideList(w)
      <4> DEFINE disputed == IF req[w].outcome = "no_action" THEN Rows({"disputed"})
                                                             ELSE GatewayRows({"disputed"})
                 r == [req[w] EXCEPT !.rows = disputed, !.dest = account,
                                     !.at = IF disputed = {} THEN "mark" ELSE "listed"]
      <4>1. r.at # "answered" /\ Update(w, r)
        BY <1>1, <3>2 DEF Requests, DecideList
      <4> HIDE DEF r
      <4>2. QED
        BY <4>1
    <3>3. CASE MarkLoad(w)
      <4> DEFINE r == [req[w] EXCEPT !.at = "marking", !.seen = booking]
      <4>1. r.at # "answered" /\ Update(w, r)
        BY <1>1, <3>3 DEF Requests, MarkLoad
      <4> HIDE DEF r
      <4>2. QED
        BY <4>1
    <3>4. QED
      BY <1>5, <3>1, <3>2, <3>3
  <2>2. req[w].at \in {"saved", "mark"} /\ UNCHANGED <<payment, rowLock>>
    BY <1>5 DEF FreezeList, DecideList, MarkLoad, At
  <2>3. QED
    BY <2>1, <2>2, ClaimMove
<1>6. CASE MarkSave(w)
  <2>1. req[w].at = "marking" /\ Update(w, Idle) /\ UNCHANGED <<payment, rowLock>>
    BY <1>6 DEF MarkSave, At, Answer
  <2>2. QED
    BY <1>1, <2>1, ClaimMove
<1>7. ASSUME NEW p \in PaymentIds,
             FreezeWrite(w, p) \/ UnfreezeWrite(w, p) \/ SettleWrite(w, p)
      PROVE  ClaimInv'
  <2>1. req[w].op \notin PayoutOps /\ UNCHANGED rowLock
    BY <1>1, <1>7 DEF FreezeWrite, UnfreezeWrite, SettleWrite, At
  <2>2. PICK s, d : \/ WriteRow(w, p, s, d, "mark")
                    \/ UNCHANGED payment /\ NextRow(w, p, "mark")
    BY <1>7 DEF FreezeWrite, UnfreezeWrite, SettleWrite
  <2>3. QED
    BY <1>1, <2>1, <2>2, ClaimWriteRow
<1>8. ASSUME NEW p \in PaymentIds, SettleTransfer(w, p) \/ SettleRefund(w, p) PROVE ClaimInv'
  <2>1. req[w].op \notin PayoutOps /\ UNCHANGED <<payment, rowLock>>
    BY <1>1, <1>8 DEF SettleTransfer, SettleRefund, At
  <2>2. PICK r : r.op = req[w].op /\ Update(w, r)
    <3>1. CASE SettleTransfer(w, p)
      <4>1. PICK ok \in BOOLEAN :
              Update(w, [req[w] EXCEPT !.at = "sent", !.row = p, !.sent = ok,
                                       !.share = ToProvider(w),
                                       !.left = IF req[w].outcome = "partial"
                                                  THEN @ - ToProvider(w) ELSE @])
        BY <3>1 DEF SettleTransfer
      <4>2. [req[w] EXCEPT !.at = "sent", !.row = p, !.sent = ok,
                           !.share = ToProvider(w),
                           !.left = IF req[w].outcome = "partial"
                                      THEN @ - ToProvider(w) ELSE @].op = req[w].op
        BY <1>1 DEF Requests
      <4>3. QED
        BY <4>1, <4>2
    <3>2. CASE SettleRefund(w, p)
      <4>1. PICK ok \in BOOLEAN : Update(w, [req[w] EXCEPT !.at = "answered", !.back = ok])
        BY <3>2 DEF SettleRefund
      <4>2. [req[w] EXCEPT !.at = "answered", !.back = ok].op = req[w].op
        BY <1>1 DEF Requests
      <4>3. QED
        BY <4>1, <4>2
    <3>3. QED
      BY <1>8, <3>1, <3>2
  <2>3. QED
    BY <2>1, <2>2, ClaimMove
<1>9. QED
  BY <1>2, <1>3, <1>4, <1>5, <1>6, <1>7, <1>8 DEF CaseSteps

LEMMA DiesClaim ==
  ASSUME TypeOK, TypeOK', ClaimInv, NEW w \in Workers, RequestDies(w)
  PROVE  ClaimInv'
<1>1. \A v \in Workers : req'[v] = IF v = w THEN Idle ELSE req[v]
  BY DEF RequestDies, Answer, Update, TypeOK
<1>2. /\ \A q \in PaymentIds : rowLock'[q] = IF rowLock[q] = w THEN NoWorker ELSE rowLock[q]
      /\ UNCHANGED payment /\ Idle.at # "answered"
  BY DEF RequestDies, Idle
<1>3. ASSUME NEW q \in PaymentIds, NEW v \in Workers
      PROVE  rowLock'[q] = v <=> Claims(req'[v], q)
  BY <1>1, <1>2, WorkersAssumption DEF ClaimInv, Claims
<1>4. QED
  BY <1>1, <1>2, <1>3 DEF ClaimInv, At

(* The button and the nightly sweep never both have an owed payout out at  *)
(* the gateway, and it stays owed until the answer is written, for any     *)
(* number of overlapping requests, refusals and crashes.                   *)
THEOREM OwedHasOneClaim == Spec => []OwedIsClaimedByOne
<1>1. Init => ClaimInv
  BY WorkersAssumption DEF Init, ClaimInv, Claims, Idle, At
<1>2. TypeOK /\ TypeOK' /\ ClaimInv /\ [Next]_vars => ClaimInv'
  <2> SUFFICES ASSUME TypeOK, TypeOK', ClaimInv, [Next]_vars PROVE ClaimInv'
    OBVIOUS
  <2>1. ASSUME NEW w \in Workers, ChangeAccount(w) PROVE ClaimInv'
    BY <2>1 DEF ChangeAccount, ClaimInv, At
  <2>2. CASE UNCHANGED vars
    BY <2>2 DEF vars, ClaimInv, At
  <2>3. QED
    BY <2>1, <2>2, BookingStepsClaim, PayoutStepsClaim, CaseStepsClaim, DiesClaim DEF Next
<1>3. TypeOK /\ ClaimInv => OwedIsClaimedByOne
  <2> SUFFICES ASSUME ClaimInv, NEW w \in Workers, At(w, PayoutOps, "answered")
               PROVE  /\ payment[req[w].row].status = "pending_payout"
                      /\ \A v \in Workers \ {w} :
                           At(v, PayoutOps, "answered") => req[v].row # req[w].row
    BY DEF OwedIsClaimedByOne
  <2>1. req[w].row \in PaymentIds /\ rowLock[req[w].row] = w
    BY DEF ClaimInv, Claims, At
  <2>2. QED
    BY <2>1, WorkersAssumption DEF ClaimInv, Claims, At
<1>4. QED
  BY <1>1, <1>2, <1>3, InitType, NextType, PTL DEF Spec

=============================================================================
