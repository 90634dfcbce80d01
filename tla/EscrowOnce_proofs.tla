-------------------------- MODULE EscrowOnce_proofs --------------------------
(***************************************************************************)
(* Money leaves the escrow once, for any number of payments, cases and     *)
(* amounts: when requests are served one after another, are not cut off,   *)
(* and the gateway does what it is asked. Each of the three is needed, as  *)
(* the code keeps no record of a transfer before the row is written.       *)
(***************************************************************************)
EXTENDS EscrowSerial_proofs

USE BoundsAssumption

Reliable == ~GatewayMayRefuse /\ ~RequestsMayDie

-----------------------------------------------------------------------------
(* The inductive invariant *)

(* A request between its call to the gateway and its write. *)
Between(w) == req[w].at \in {"sent", "answered"}

(* What has moved of a row nobody is between two steps of. *)
AtRest(p) ==
  /\ payment[p].status \in {"absent", "held", "disputed"} =>
       transferred[p] = 0 /\ refunded[p] = 0
  /\ payment[p].status = "pending_payout" =>
       transferred[p] = 0 /\ refunded[p] + payment[p].due <= Amount

(* What has moved of the row a request is at. *)
Moving(w) ==
  /\ req[w].op \in ReleaseOps /\ req[w].at = "answered" /\ ~req[w].sent =>
       transferred[req[w].row] = 0 /\ refunded[req[w].row] = 0
  /\ req[w].op \in PayoutOps /\ req[w].at = "answered" => req[w].sent
  /\ req[w].op = "cancel" /\ req[w].at = "answered" => req[w].back
  /\ req[w].op = "decide" /\ Between(w) =>
       /\ transferred[req[w].row] <= IF req[w].sent THEN req[w].share ELSE 0
       /\ refunded[req[w].row] <= IF req[w].at = "sent" THEN 0 ELSE Amount - req[w].share
       /\ req[w].at = "answered" => req[w].back

OnceInv ==
  /\ NoInstalmentMovesTwice
  /\ \A w \in Workers : Moving(w)
  /\ \A p \in PaymentIds :
       (\A w \in Workers : ~(Between(w) /\ req[w].row = p)) => AtRest(p)

-----------------------------------------------------------------------------
(* The shape of a step *)

LEMMA MovedTypes ==
  ASSUME TypeOK, NEW p \in PaymentIds
  PROVE  /\ transferred[p] \in Nat /\ refunded[p] \in Nat
         /\ payment[p] \in Payments /\ payment[p].due \in 0..Amount
BY DEF TypeOK, Payments

LEMMA NotBetween == ASSUME NEW w, ~Between(w) PROVE Moving(w)
BY DEF Between, Moving

(* The request of a step works on one row, and leaves the others alone. *)
LEMMA OnceStep ==
  ASSUME OnceInv, NEW w \in Workers, Alone(w), NEW q,
         Between(w) => req[w].row = q,
         \A p \in PaymentIds \ {q} : /\ payment'[p] = payment[p]
                                     /\ transferred'[p] = transferred[p]
                                     /\ refunded'[p] = refunded[p],
         Moving(w)',
         q \in PaymentIds => /\ transferred'[q] + refunded'[q] <= Amount
                             /\ (Between(w)' /\ req'[w].row = q) \/ AtRest(q)'
  PROVE  OnceInv'
<1>1. NoInstalmentMovesTwice'
  BY DEF OnceInv, NoInstalmentMovesTwice
<1>2. ASSUME NEW p \in PaymentIds, p # q PROVE AtRest(p)'
  <2>1. AtRest(p)
    BY <1>2, IdleFact DEF OnceInv, Alone, Between
  <2> QED BY <1>2, <2>1 DEF AtRest
<1>3. \A v \in Workers : Moving(v)'
  BY IdleFact DEF Alone, Moving, Between
<1> QED BY <1>1, <1>2, <1>3 DEF OnceInv

(* No money moves, no row is written, and no call is under way. *)
LEMMA OnceMove ==
  ASSUME OnceInv, NEW w \in Workers, Alone(w), ~Between(w), ~Between(w)',
         UNCHANGED <<payment, transferred, refunded>>
  PROVE  OnceInv'
<1>1. \A p \in PaymentIds : AtRest(p) /\ transferred[p] + refunded[p] <= Amount
  BY IdleFact DEF OnceInv, Alone, Between, NoInstalmentMovesTwice
<1>2. \A p \in PaymentIds : AtRest(p)'
  BY <1>1 DEF AtRest
<1>3. Moving(w)'
  BY DEF Between, Moving
<1> QED BY <1>1, <1>2, <1>3, OnceStep

LEMMA AnswerLets ==
  ASSUME TypeOK, NEW w \in Workers, Answer(w) PROVE ~Between(w)'
BY UpdateFact DEF Answer, Idle, Between

LEMMA NextRowLets ==
  ASSUME TypeOK, NEW w \in Workers, NEW p, NEW after \in {"idle", "mark"},
         NextRow(w, p, after)
  PROVE  ~Between(w)'
BY NextRowFact DEF Idle, Between

LEMMA UpdateLets ==
  ASSUME TypeOK, NEW w \in Workers, NEW r, Update(w, r), r.at \notin {"sent", "answered"}
  PROVE  ~Between(w)'
BY UpdateFact DEF Between

(* A live row may take any status: the index never stands in the way. *)
LEMMA IndexNeverRefuses ==
  ASSUME SerialInv, NEW p \in Rows(Live), NEW status PROVE IndexAllows(p, status)
<1>1. Rows(Indexed) \subseteq Rows(Live)
  BY DEF Rows, Indexed, Live
<1> QED BY <1>1 DEF IndexAllows, SerialInv, OneLivePaymentPerMilestone

(* A row is written with what has moved of it. *)
LEMMA OnceWriteRow ==
  ASSUME TypeOK, LedgerInv, SerialInv, OnceInv, NEW w \in Workers, Alone(w), OnRows(w),
         NEW p \in req[w].rows, Between(w) => req[w].row = p,
         NEW status \in PaymentStatuses, NEW due \in 0..Amount, NEW after \in {"idle", "mark"},
         WriteRow(w, p, status, due, after), UNCHANGED <<transferred, refunded>>,
         status \in {"absent", "held", "disputed"} => transferred[p] = 0 /\ refunded[p] = 0,
         status = "pending_payout" => transferred[p] = 0 /\ refunded[p] + due <= Amount
  PROVE  OnceInv'
<1>1. p \in PaymentIds /\ p \in Rows(Live)
  BY RowsAtHand
<1>2. payment' = [payment EXCEPT ![p].status = status, ![p].due = due] /\ NextRow(w, p, after)
  BY <1>1, IndexNeverRefuses DEF WriteRow
<1>3. /\ payment'[p].status = status /\ payment'[p].due = due
      /\ \A q \in PaymentIds \ {p} : payment'[q] = payment[q]
  BY <1>1, <1>2, MovedTypes DEF TypeOK, Payments
<1>4. AtRest(p)'
  BY <1>3 DEF AtRest
<1>5. transferred[p] + refunded[p] <= Amount
  BY <1>1 DEF OnceInv, NoInstalmentMovesTwice
<1>6. ~Between(w)'
  BY <1>2, NextRowLets
<1>7. Moving(w)'
  BY <1>6 DEF Between, Moving
<1> QED BY <1>3, <1>4, <1>5, <1>7, OnceStep

-----------------------------------------------------------------------------
(* The gateway *)

LEMMA SendsMoves ==
  ASSUME TypeOK, NEW p \in PaymentIds, NEW n \in Nat, NEW dest, NEW ok \in BOOLEAN,
         Sends(p, n, dest, ok)
  PROVE  /\ \A q \in PaymentIds \ {p} : transferred'[q] = transferred[q]
         /\ ok => transferred'[p] \in Nat /\ transferred'[p] <= transferred[p] + n
         /\ ~ok => transferred'[p] = transferred[p]
         /\ ~GatewayMayRefuse /\ dest => ok
<1>1. transferred \in [PaymentIds -> 0..MaxLedger]
  BY DEF TypeOK
<1>2. Capped(transferred[p] + n) \in Nat /\ Capped(transferred[p] + n) <= transferred[p] + n
  BY <1>1 DEF Capped
<1> QED BY <1>1, <1>2 DEF Sends

LEMMA ReturnsMoves ==
  ASSUME TypeOK, NEW p \in PaymentIds, NEW n \in Nat, NEW ok \in BOOLEAN,
         Returns(p, n, ok), refunded[p] = 0
  PROVE  /\ \A q \in PaymentIds \ {p} : refunded'[q] = refunded[q]
         /\ refunded'[p] \in Nat /\ refunded'[p] <= n
         /\ ~GatewayMayRefuse => ok
<1>1. refunded \in [PaymentIds -> 0..MaxLedger]
  BY DEF TypeOK
<1>2. Capped(n) \in Nat /\ Capped(n) <= n
  BY DEF Capped
<1> QED BY <1>1, <1>2 DEF Returns

(* A request that has listed its rows and called nobody yet. *)
LEMMA ListedAtRest ==
  ASSUME TypeOK, LedgerInv, SerialInv, OnceInv, NEW w \in Workers, Alone(w),
         req[w].at = "listed", NEW p \in req[w].rows
  PROVE  /\ p \in PaymentIds /\ ~Between(w)
         /\ payment[p].status = ListedAs(req[w].op) /\ AtRest(p)
<1>1. OnRows(w) /\ ~Between(w)
  BY DEF OnRows, Between
<1>2. p \in PaymentIds /\ payment[p].status = ListedAs(req[w].op)
  BY <1>1, RowsAtHand
<1> QED BY <1>1, <1>2, IdleFact DEF OnceInv, Alone, Between

-----------------------------------------------------------------------------
(* Every step keeps the invariant *)

LEMMA ReleaseTransferOnce ==
  ASSUME TypeOK, LedgerInv, SerialInv, OnceInv, NEW w \in Workers, Alone(w), NEW p,
         ReleaseTransfer(w, p)
  PROVE  OnceInv'
<1>1. PICK ok \in BOOLEAN :
        /\ Sends(p, PayoutShare(p), req[w].dest, ok)
        /\ Update(w, [req[w] EXCEPT !.at = "answered", !.row = p, !.sent = ok,
                                    !.share = PayoutShare(p)])
  BY DEF ReleaseTransfer
<1> DEFINE r == [req[w] EXCEPT !.at = "answered", !.row = p, !.sent = ok,
                               !.share = PayoutShare(p)]
<1>2. /\ req[w].op \in ReleaseOps /\ req[w].at = "listed" /\ p \in req[w].rows
      /\ UNCHANGED <<payment, refunded>>
  BY DEF ReleaseTransfer, At
<1>3. r.at = "answered" /\ r.op = req[w].op /\ r.row = p /\ r.sent = ok
  BY DEF TypeOK, Requests
<1>4. req'[w] = r
  BY <1>1, UpdateFact
<1> HIDE DEF r
<1>5. /\ p \in PaymentIds /\ ~Between(w)
      /\ payment[p].status = ListedAs(req[w].op) /\ AtRest(p)
  BY <1>2, ListedAtRest
<1>6. ListedAs(req[w].op) = "held"
  BY <1>2 DEF ListedAs, ReleaseOps, PayoutOps
<1>7. transferred[p] = 0 /\ refunded[p] = 0
  BY <1>5, <1>6 DEF AtRest
<1>8. PayoutShare(p) \in Nat /\ PayoutShare(p) <= Amount
  BY <1>5, ShareFact
<1>9. /\ \A q \in PaymentIds \ {p} : transferred'[q] = transferred[q]
      /\ transferred'[p] + refunded'[p] <= Amount
      /\ ~ok => transferred'[p] = 0 /\ refunded'[p] = 0
  <2>1. /\ \A q \in PaymentIds \ {p} : transferred'[q] = transferred[q]
        /\ ok => transferred'[p] \in Nat /\ transferred'[p] <= transferred[p] + PayoutShare(p)
        /\ ~ok => transferred'[p] = transferred[p]
    BY <1>1, <1>5, <1>8, SendsMoves
  <2> QED BY <1>2, <1>7, <1>8, <2>1
<1>10. Moving(w)'
  BY <1>2, <1>3, <1>4, <1>9 DEF Moving, ReleaseOps, PayoutOps
<1>11. Between(w)' /\ req'[w].row = p
  BY <1>3, <1>4 DEF Between
<1> QED BY <1>2, <1>5, <1>9, <1>10, <1>11, OnceStep

LEMMA AtItsRow ==
  ASSUME TypeOK, LedgerInv, SerialInv, OnceInv, NEW w \in Workers, req[w].at = "answered"
  PROVE  /\ OnRows(w) /\ req[w].op # "pay" /\ req[w].row \in req[w].rows
         /\ req[w].row \in PaymentIds /\ req[w].row \in Rows(Live)
         /\ payment[req[w].row].status = ListedAs(req[w].op)
         /\ req[w].share \in 0..Amount
         /\ transferred[req[w].row] \in Nat /\ refunded[req[w].row] \in Nat
         /\ transferred[req[w].row] + refunded[req[w].row] <= Amount
         /\ Moving(w)
<1>1. OnRows(w)
  BY DEF OnRows
<1>2. /\ req[w].op # "pay" /\ req[w].row \in req[w].rows
      /\ req[w].row \in PaymentIds /\ req[w].row \in Rows(Live)
      /\ payment[req[w].row].status = ListedAs(req[w].op)
  BY <1>1, RowsAtHand
<1>3. req[w].share \in 0..Amount
  BY DEF TypeOK, Requests
<1> QED BY <1>1, <1>2, <1>3, MovedTypes DEF OnceInv, NoInstalmentMovesTwice

LEMMA ReleaseWriteOnce ==
  ASSUME TypeOK, LedgerInv, SerialInv, OnceInv, NEW w \in Workers, Alone(w), NEW p,
         ReleaseWrite(w, p)
  PROVE  OnceInv'
<1> DEFINE status == IF req[w].sent THEN "released" ELSE "pending_payout"
<1>1. /\ req[w].op \in ReleaseOps /\ req[w].at = "answered" /\ p = req[w].row
      /\ WriteRow(w, p, status, req[w].share, "idle") /\ UNCHANGED <<transferred, refunded>>
  BY DEF ReleaseWrite, At
<1>2. status = "pending_payout" => transferred[p] = 0 /\ refunded[p] = 0
  BY <1>1, AtItsRow DEF Moving
<1>3. status \in {"released", "pending_payout"} /\ status \in PaymentStatuses
  BY DEF PaymentStatuses, Live
<1> HIDE DEF status
<1> QED BY <1>1, <1>2, <1>3, AtItsRow, OnceWriteRow

LEMMA PayCommitOnce ==
  ASSUME TypeOK, LedgerInv, SerialInv, OnceInv, NEW w \in Workers, Alone(w),
         NEW m \in Milestones, NEW cash \in BOOLEAN, NEW p \in PaymentIds,
         PayCommit(w, m, cash, p)
  PROVE  OnceInv'
<1>1. /\ req[w].at = "checked" /\ payment[p].status = "absent" /\ Answer(w)
      /\ payment' = [payment EXCEPT ![p] = Recorded(m, cash)]
      /\ UNCHANGED <<transferred, refunded>>
  BY DEF PayCommit, FirstFree, At
<1>2. ~Between(w) /\ ~Between(w)'
  BY <1>1, AnswerLets DEF Between
<1>3. AtRest(p)
  BY <1>2, IdleFact DEF OnceInv, Alone, Between
<1>4. /\ payment'[p].status \in {"released", "held"}
      /\ \A q \in PaymentIds \ {p} : payment'[q] = payment[q]
  BY <1>1 DEF TypeOK, Recorded
<1>5. AtRest(p)' /\ transferred[p] + refunded[p] <= Amount
  BY <1>1, <1>3, <1>4 DEF AtRest, OnceInv, NoInstalmentMovesTwice
<1>6. Moving(w)'
  BY <1>2 DEF Between, Moving
<1> QED BY <1>1, <1>2, <1>4, <1>5, <1>6, OnceStep

LEMMA CancelRefundOnce ==
  ASSUME TypeOK, LedgerInv, SerialInv, OnceInv, ~GatewayMayRefuse,
         NEW w \in Workers, Alone(w), NEW p, CancelRefund(w, p)
  PROVE  OnceInv'
<1>1. PICK ok \in BOOLEAN :
        /\ Returns(p, Amount, ok)
        /\ Update(w, [req[w] EXCEPT !.at = "answered", !.row = p, !.back = ok])
  BY DEF CancelRefund
<1> DEFINE r == [req[w] EXCEPT !.at = "answered", !.row = p, !.back = ok]
<1>2. /\ req[w].op = "cancel" /\ req[w].at = "listed" /\ p \in req[w].rows
      /\ UNCHANGED <<payment, transferred>>
  BY DEF CancelRefund, At
<1>3. r.at = "answered" /\ r.op = "cancel" /\ r.row = p /\ r.back = ok
  BY <1>2 DEF TypeOK, Requests
<1>4. req'[w] = r
  BY <1>1, UpdateFact
<1> HIDE DEF r
<1>5. /\ p \in PaymentIds /\ ~Between(w)
      /\ payment[p].status = ListedAs("cancel") /\ AtRest(p)
  BY <1>2, ListedAtRest
<1>6. transferred[p] = 0 /\ refunded[p] = 0
  BY <1>5 DEF AtRest, ListedAs, PayoutOps
<1>7. /\ \A q \in PaymentIds \ {p} : refunded'[q] = refunded[q]
      /\ refunded'[p] \in Nat /\ refunded'[p] <= Amount /\ ok
  BY <1>1, <1>5, <1>6, ReturnsMoves
<1>8. transferred'[p] + refunded'[p] <= Amount
  BY <1>2, <1>6, <1>7
<1>9. Moving(w)'
  BY <1>3, <1>4, <1>7 DEF Moving, ReleaseOps, PayoutOps
<1>10. Between(w)' /\ req'[w].row = p
  BY <1>3, <1>4 DEF Between
<1> QED BY <1>2, <1>5, <1>7, <1>8, <1>9, <1>10, OnceStep

LEMMA CancelWriteOnce ==
  ASSUME TypeOK, LedgerInv, SerialInv, OnceInv, NEW w \in Workers, Alone(w), NEW p,
         CancelWrite(w, p)
  PROVE  OnceInv'
<1>1. /\ req[w].op = "cancel" /\ req[w].at = "answered" /\ p = req[w].row
      /\ UNCHANGED <<transferred, refunded>>
  BY DEF CancelWrite, At
<1>2. req[w].back
  BY <1>1, AtItsRow DEF Moving
<1>3. WriteRow(w, p, "refunded", 0, "idle")
  BY <1>2 DEF CancelWrite
<1>4. "refunded" \in PaymentStatuses /\ 0 \in 0..Amount
  BY DEF PaymentStatuses, Dead
<1> QED BY <1>1, <1>3, <1>4, AtItsRow, OnceWriteRow

LEMMA PayoutClaimOnce ==
  ASSUME TypeOK, LedgerInv, SerialInv, OnceInv, ~GatewayMayRefuse,
         NEW w \in Workers, Alone(w), NEW p, PayoutClaim(w, p)
  PROVE  OnceInv'
<1>1. PICK ok \in BOOLEAN :
        /\ Sends(p, payment[p].due, PayoutDestination(w), ok)
        /\ Update(w, [req[w] EXCEPT !.at = "answered", !.row = p, !.sent = ok])
  BY DEF PayoutClaim
<1> DEFINE r == [req[w] EXCEPT !.at = "answered", !.row = p, !.sent = ok]
<1>2. /\ req[w].op \in PayoutOps /\ req[w].at = "listed" /\ p \in req[w].rows
      /\ PayoutDestination(w) /\ payment[p].status = "pending_payout"
      /\ UNCHANGED <<payment, refunded>>
  BY DEF PayoutClaim, At, Claimable
<1>3. r.at = "answered" /\ r.op = req[w].op /\ r.row = p /\ r.sent = ok
  BY DEF TypeOK, Requests
<1>4. req'[w] = r
  BY <1>1, UpdateFact
<1> HIDE DEF r
<1>5. p \in PaymentIds /\ ~Between(w) /\ AtRest(p)
  BY <1>2, ListedAtRest
<1>6. transferred[p] = 0 /\ refunded[p] + payment[p].due <= Amount
  BY <1>2, <1>5 DEF AtRest
<1>7. payment[p].due \in Nat /\ refunded[p] \in Nat
  BY <1>5, MovedTypes
<1>8. /\ \A q \in PaymentIds \ {p} : transferred'[q] = transferred[q]
      /\ transferred'[p] \in Nat /\ transferred'[p] <= payment[p].due /\ ok
  <2>1. /\ \A q \in PaymentIds \ {p} : transferred'[q] = transferred[q]
        /\ ok => /\ transferred'[p] \in Nat
                 /\ transferred'[p] <= transferred[p] + payment[p].due
        /\ ok
    BY <1>1, <1>2, <1>5, <1>7, SendsMoves
  <2> QED BY <1>6, <1>7, <2>1
<1>9. transferred'[p] + refunded'[p] <= Amount
  BY <1>2, <1>6, <1>7, <1>8
<1>10. Moving(w)'
  BY <1>2, <1>3, <1>4, <1>8 DEF Moving, ReleaseOps, PayoutOps
<1>11. Between(w)' /\ req'[w].row = p
  BY <1>3, <1>4 DEF Between
<1> QED BY <1>2, <1>5, <1>8, <1>9, <1>10, <1>11, OnceStep

LEMMA PayoutWriteOnce ==
  ASSUME TypeOK, LedgerInv, SerialInv, OnceInv, NEW w \in Workers, Alone(w), NEW p,
         PayoutWrite(w, p)
  PROVE  OnceInv'
<1>1. /\ req[w].op \in PayoutOps /\ req[w].at = "answered" /\ p = req[w].row
      /\ UNCHANGED <<transferred, refunded>>
  BY DEF PayoutWrite, At
<1>2. /\ req[w].sent /\ payment[p].status = "pending_payout" /\ IndexAllows(p, "released")
      /\ p \in PaymentIds
  <2>1. payment[p].status = ListedAs(req[w].op) /\ p \in Rows(Live) /\ Moving(w)
        /\ p \in PaymentIds
    BY <1>1, AtItsRow
  <2>2. ListedAs(req[w].op) = "pending_payout"
    BY <1>1 DEF ListedAs, PayoutOps
  <2> QED BY <1>1, <2>1, <2>2, IndexNeverRefuses DEF Moving
<1>3. payment' = [payment EXCEPT ![p].status = "released"] /\ NextRow(w, p, "idle")
  BY <1>2 DEF PayoutWrite
<1>4. /\ payment'[p].status = "released"
      /\ \A q \in PaymentIds \ {p} : payment'[q] = payment[q]
  BY <1>2, <1>3 DEF TypeOK, Payments
<1>5. AtRest(p)'
  BY <1>4 DEF AtRest
<1>6. ~Between(w)'
  BY <1>3, NextRowLets
<1>7. Moving(w)'
  BY <1>6 DEF Between, Moving
<1> QED BY <1>1, <1>4, <1>5, <1>7, AtItsRow, OnceStep
-----------------------------------------------------------------------------
(* The desk *)

LEMMA FreezeWriteOnce ==
  ASSUME TypeOK, LedgerInv, SerialInv, OnceInv, NEW w \in Workers, Alone(w), NEW p,
         FreezeWrite(w, p)
  PROVE  OnceInv'
<1>1. /\ req[w].op = "raise" /\ req[w].at = "listed" /\ p \in req[w].rows /\ OnRows(w)
      /\ WriteRow(w, p, "disputed", payment[p].due, "mark")
      /\ UNCHANGED <<transferred, refunded>>
  BY DEF FreezeWrite, At, OnRows
<1>2. /\ p \in PaymentIds /\ ~Between(w)
      /\ payment[p].status = ListedAs("raise") /\ AtRest(p)
  BY <1>1, ListedAtRest
<1>3. transferred[p] = 0 /\ refunded[p] = 0
  BY <1>2 DEF AtRest, ListedAs, PayoutOps
<1>4. payment[p].due \in 0..Amount /\ "disputed" \in PaymentStatuses
  BY <1>2, MovedTypes DEF PaymentStatuses, Live
<1> QED BY <1>1, <1>2, <1>3, <1>4, OnceWriteRow

LEMMA UnfreezeWriteOnce ==
  ASSUME TypeOK, LedgerInv, SerialInv, OnceInv, NEW w \in Workers, Alone(w), NEW p,
         UnfreezeWrite(w, p)
  PROVE  OnceInv'
<1>1. /\ req[w].op = "decide" /\ req[w].at = "listed" /\ p \in req[w].rows /\ OnRows(w)
      /\ WriteRow(w, p, "held", payment[p].due, "mark")
      /\ UNCHANGED <<transferred, refunded>>
  BY DEF UnfreezeWrite, At, OnRows
<1>2. /\ p \in PaymentIds /\ ~Between(w)
      /\ payment[p].status = ListedAs("decide") /\ AtRest(p)
  BY <1>1, ListedAtRest
<1>3. transferred[p] = 0 /\ refunded[p] = 0
  BY <1>2 DEF AtRest, ListedAs, PayoutOps
<1>4. payment[p].due \in 0..Amount /\ "held" \in PaymentStatuses
  BY <1>2, MovedTypes DEF PaymentStatuses, Live
<1> QED BY <1>1, <1>2, <1>3, <1>4, OnceWriteRow

LEMMA SettleTransferOnce ==
  ASSUME TypeOK, LedgerInv, SerialInv, OnceInv, NEW w \in Workers, Alone(w), NEW p,
         SettleTransfer(w, p)
  PROVE  OnceInv'
<1> DEFINE share == ToProvider(w)
           left  == IF req[w].outcome = "partial" THEN req[w].left - share ELSE req[w].left
<1>1. PICK ok \in BOOLEAN :
        /\ IF share > 0 THEN Sends(p, share, req[w].dest, ok)
                        ELSE ok /\ UNCHANGED transferred
        /\ Update(w, [req[w] EXCEPT !.at = "sent", !.row = p, !.sent = ok,
                                    !.share = share, !.left = left])
  BY DEF SettleTransfer
<1> DEFINE r == [req[w] EXCEPT !.at = "sent", !.row = p, !.sent = ok,
                               !.share = share, !.left = left]
<1>2. /\ req[w].op = "decide" /\ req[w].at = "listed" /\ p \in req[w].rows
      /\ UNCHANGED <<payment, refunded>>
  BY DEF SettleTransfer, At
<1>3. share \in Nat /\ share <= Amount
  BY ToProviderFact
<1> HIDE DEF share, left
<1>4. r.at = "sent" /\ r.op = "decide" /\ r.row = p /\ r.sent = ok /\ r.share = share
  BY <1>2 DEF TypeOK, Requests
<1>5. req'[w] = r
  BY <1>1, UpdateFact
<1> HIDE DEF r
<1>6. /\ p \in PaymentIds /\ ~Between(w)
      /\ payment[p].status = ListedAs("decide") /\ AtRest(p)
  BY <1>2, ListedAtRest
<1>7. transferred[p] = 0 /\ refunded[p] = 0
  BY <1>6 DEF AtRest, ListedAs, PayoutOps
<1>8. /\ \A q \in PaymentIds \ {p} : transferred'[q] = transferred[q]
      /\ transferred'[p] \in Nat
      /\ transferred'[p] <= IF ok THEN share ELSE 0
  <2>1. CASE share > 0
    <3>1. /\ \A q \in PaymentIds \ {p} : transferred'[q] = transferred[q]
          /\ ok => /\ transferred'[p] \in Nat
                   /\ transferred'[p] <= transferred[p] + share
          /\ ~ok => transferred'[p] = transferred[p]
      BY <1>1, <1>3, <1>6, <2>1, SendsMoves
    <3> QED BY <1>3, <1>7, <3>1
  <2>2. CASE ~(share > 0)
    BY <1>1, <1>3, <1>7, <2>2
  <2> QED BY <2>1, <2>2
<1>9. transferred'[p] + refunded'[p] <= Amount
  BY <1>2, <1>3, <1>7, <1>8
<1>10. Moving(w)'
  BY <1>2, <1>4, <1>5, <1>7, <1>8 DEF Moving, ReleaseOps, PayoutOps
<1>11. Between(w)' /\ req'[w].row = p
  BY <1>4, <1>5 DEF Between
<1> QED BY <1>2, <1>6, <1>8, <1>9, <1>10, <1>11, OnceStep

LEMMA SettleRefundOnce ==
  ASSUME TypeOK, LedgerInv, SerialInv, OnceInv, ~GatewayMayRefuse,
         NEW w \in Workers, Alone(w), NEW p, SettleRefund(w, p)
  PROVE  OnceInv'
<1>1. PICK ok \in BOOLEAN :
        /\ IF req[w].share < Amount THEN Returns(p, Amount - req[w].share, ok)
                                    ELSE ok /\ UNCHANGED refunded
        /\ Update(w, [req[w] EXCEPT !.at = "answered", !.back = ok])
  BY DEF SettleRefund
<1> DEFINE r == [req[w] EXCEPT !.at = "answered", !.back = ok]
<1>2. /\ req[w].op = "decide" /\ req[w].at = "sent" /\ p = req[w].row /\ Between(w)
      /\ UNCHANGED <<payment, transferred>>
  BY DEF SettleRefund, At, Between
<1>3. /\ r.at = "answered" /\ r.op = "decide" /\ r.row = p /\ r.back = ok
      /\ r.sent = req[w].sent /\ r.share = req[w].share
  BY <1>2 DEF TypeOK, Requests
<1>4. req'[w] = r
  BY <1>1, UpdateFact
<1> HIDE DEF r
<1>5. p \in PaymentIds /\ req[w].share \in 0..Amount
  BY <1>2, RowsAtHand DEF OnRows, TypeOK, Requests
<1>6. /\ transferred[p] \in Nat /\ refunded[p] \in Nat
      /\ transferred[p] <= IF req[w].sent THEN req[w].share ELSE 0
      /\ refunded[p] = 0
  BY <1>2, <1>5, MovedTypes DEF OnceInv, Moving
<1>7. /\ \A q \in PaymentIds \ {p} : refunded'[q] = refunded[q]
      /\ refunded'[p] \in Nat /\ refunded'[p] <= Amount - req[w].share /\ ok
  <2>1. CASE req[w].share < Amount
    <3>1. Amount - req[w].share \in Nat
      BY <1>5, <2>1
    <3> QED BY <1>1, <1>5, <1>6, <2>1, <3>1, ReturnsMoves
  <2>2. CASE ~(req[w].share < Amount)
    BY <1>1, <1>5, <1>6, <2>2
  <2> QED BY <2>1, <2>2
<1>8. transferred'[p] + refunded'[p] <= Amount
  <2>1. transferred[p] <= req[w].share
    BY <1>5, <1>6
  <2> QED BY <1>2, <1>5, <1>6, <1>7, <2>1
<1>9. Moving(w)'
  BY <1>2, <1>3, <1>4, <1>6, <1>7 DEF Moving, ReleaseOps, PayoutOps
<1>10. Between(w)' /\ req'[w].row = p
  BY <1>3, <1>4 DEF Between
<1> QED BY <1>2, <1>5, <1>7, <1>8, <1>9, <1>10, OnceStep

LEMMA SettleWriteOnce ==
  ASSUME TypeOK, LedgerInv, SerialInv, OnceInv, NEW w \in Workers, Alone(w), NEW p,
         SettleWrite(w, p)
  PROVE  OnceInv'
<1> DEFINE status == SettledStatus(w)
<1>1. /\ req[w].op = "decide" /\ req[w].at = "answered" /\ p = req[w].row /\ Between(w)
      /\ UNCHANGED <<transferred, refunded>>
  BY DEF SettleWrite, At, Between
<1>2. /\ req[w].back /\ refunded[p] <= Amount - req[w].share
      /\ transferred[p] <= IF req[w].sent THEN req[w].share ELSE 0
  BY <1>1, AtItsRow DEF Moving
<1>3. WriteRow(w, p, status, req[w].share, "mark")
  BY <1>2 DEF SettleWrite
<1>4. /\ status \in {"pending_payout", "refunded", "released", "partially_settled"}
      /\ status = "pending_payout" => ~req[w].sent
  BY DEF SettledStatus
<1>5. status \in PaymentStatuses
  BY <1>4 DEF PaymentStatuses, Live, Dead
<1> HIDE DEF status
<1>6. status = "pending_payout" => transferred[p] = 0 /\ refunded[p] + req[w].share <= Amount
  <2>1. req[w].share \in 0..Amount /\ transferred[p] \in Nat /\ refunded[p] \in Nat
    BY <1>1, AtItsRow
  <2> QED BY <1>2, <1>4, <2>1
<1> QED BY <1>1, <1>3, <1>4, <1>5, <1>6, AtItsRow, OnceWriteRow

-----------------------------------------------------------------------------
(* The steps that neither call the gateway nor write a row *)

LEMMA QuietBooking ==
  ASSUME TypeOK, SerialInv, NEW w \in Workers,
         \/ \E op \in SaveOps \cup {"settle"} : Load(w, op)
         \/ Check(w) \/ Save(w) \/ ReleaseList(w) \/ PayBegin(w) \/ PayRollback(w)
         \/ CancelList(w)
  PROVE  ~Between(w) /\ ~Between(w)' /\ UNCHANGED <<payment, transferred, refunded>>
<1>1. ~Between(w) /\ UNCHANGED <<payment, transferred, refunded>>
  BY DEF Between, Load, Check, Save, ReleaseList, PayBegin, PayRollback, CancelList, Free,
     At, SerialInv, Mine, Fresh
<1>2. CASE \E op \in SaveOps \cup {"settle"} : Load(w, op)
  <2>1. PICK op \in SaveOps \cup {"settle"} : Load(w, op)
    BY <1>2
  <2> DEFINE r == [req[w] EXCEPT !.op = op, !.at = "loaded", !.seen = booking]
  <2>2. Update(w, r) /\ r.at = "loaded"
    BY <2>1 DEF Load, TypeOK, Requests
  <2> HIDE DEF r
  <2> QED BY <1>1, <2>2, UpdateLets
<1>3. CASE Check(w) \/ Save(w)
  <2>1. Answer(w) \/ \E stage \in {"saved", "checked"} : Goto(w, stage)
    BY <1>3 DEF Check, Save
  <2>2. ASSUME NEW stage \in {"saved", "checked"}, Goto(w, stage) PROVE ~Between(w)'
    <3> DEFINE r == [req[w] EXCEPT !.at = stage]
    <3>1. Update(w, r) /\ r.at = stage
      BY <2>2 DEF Goto, TypeOK, Requests
    <3> HIDE DEF r
    <3> QED BY <3>1, UpdateLets
  <2> QED BY <1>1, <2>1, <2>2, AnswerLets
<1>4. CASE ReleaseList(w)
  <2> DEFINE held == {p \in GatewayRows({"held"}) :
                        payment[p].milestone \in ReleaseScope(req[w].op)}
             r    == [req[w] EXCEPT !.at = "listed", !.rows = held, !.dest = account]
  <2>1. Answer(w) \/ Update(w, r)
    BY <1>4 DEF ReleaseList
  <2>2. r.at = "listed"
    BY DEF TypeOK, Requests
  <2> HIDE DEF r
  <2> QED BY <1>1, <2>1, <2>2, AnswerLets, UpdateLets
<1>5. CASE PayBegin(w)
  <2> DEFINE r == [req[w] EXCEPT !.op = "pay", !.at = "checked",
                                 !.seen = booking, !.rows = Rows(Live)]
  <2>1. Update(w, r) /\ r.at = "checked"
    BY <1>5 DEF PayBegin, TypeOK, Requests
  <2> HIDE DEF r
  <2> QED BY <1>1, <2>1, UpdateLets
<1>6. CASE CancelList(w)
  <2> DEFINE r == [req[w] EXCEPT !.at = "listed", !.rows = Refundable]
  <2>1. Answer(w) \/ Update(w, r)
    BY <1>6 DEF CancelList
  <2>2. r.at = "listed"
    BY DEF TypeOK, Requests
  <2> HIDE DEF r
  <2> QED BY <1>1, <2>1, <2>2, AnswerLets, UpdateLets
<1>7. CASE PayRollback(w)
  BY <1>1, <1>7, AnswerLets DEF PayRollback
<1> QED BY <1>2, <1>3, <1>4, <1>5, <1>6, <1>7

LEMMA QuietPayout ==
  ASSUME TypeOK, NEW w \in Workers,
         \/ \E op \in PayoutOps : PayoutList(w, op)
         \/ \E p \in PaymentIds : PayoutSkip(w, p)
  PROVE  ~Between(w) /\ ~Between(w)' /\ UNCHANGED <<payment, transferred, refunded>>
<1>1. ~Between(w) /\ UNCHANGED <<payment, transferred, refunded>>
  BY DEF Between, PayoutList, PayoutSkip, Free, At
<1>2. CASE \E op \in PayoutOps : PayoutList(w, op)
  <2>1. PICK op \in PayoutOps : PayoutList(w, op)
    BY <1>2
  <2> DEFINE r == [req[w] EXCEPT !.op = op, !.at = "listed",
                                 !.rows = Rows({"pending_payout"}), !.dest = account]
  <2>2. Update(w, r) /\ r.at = "listed"
    BY <2>1 DEF PayoutList, TypeOK, Requests
  <2> HIDE DEF r
  <2> QED BY <1>1, <2>2, UpdateLets
<1>3. CASE \E p \in PaymentIds : PayoutSkip(w, p)
  BY <1>1, <1>3, NextRowLets DEF PayoutSkip
<1> QED BY <1>2, <1>3

LEMMA QuietDesk ==
  ASSUME TypeOK, NEW w \in Workers,
         \/ \E c \in Cases : RaiseLoad(w, c) \/ RaiseSave(w, c) \/ DecideSave(w, c)
         \/ \E c \in Cases, o \in Outcomes, n \in SettledAmounts \cup {0} :
              DecideLoad(w, c, o, n)
         \/ \E c \in Cases : RequestSettlement(w, c) \/ CloseCase(w, c) \/ ReopenCase(w, c)
         \/ FreezeList(w) \/ DecideList(w) \/ MarkLoad(w) \/ MarkSave(w)
  PROVE  ~Between(w) /\ ~Between(w)' /\ UNCHANGED <<payment, transferred, refunded>>
<1>1. ~Between(w) /\ UNCHANGED <<payment, transferred, refunded>>
  BY DEF Between, RaiseLoad, RaiseSave, DecideSave, DecideLoad, RequestSettlement, CloseCase,
     ReopenCase, FreezeList, DecideList, MarkLoad, MarkSave, Free, At
<1>2. CASE \E c \in Cases : RaiseLoad(w, c)
  <2>1. PICK c \in Cases : RaiseLoad(w, c)
    BY <1>2
  <2> DEFINE r == [req[w] EXCEPT !.op = "raise", !.at = "loaded", !.case = c,
                                 !.seen = booking]
  <2>2. Update(w, r) /\ r.at = "loaded"
    BY <2>1 DEF RaiseLoad, TypeOK, Requests
  <2> HIDE DEF r
  <2> QED BY <1>1, <2>2, UpdateLets
<1>3. CASE \E c \in Cases : RaiseSave(w, c)
  <2> DEFINE r == [req[w] EXCEPT !.at = "saved", !.restore = "disputed"]
  <2>1. Update(w, r) /\ r.at = "saved"
    BY <1>3 DEF RaiseSave, TypeOK, Requests
  <2> HIDE DEF r
  <2> QED BY <1>1, <2>1, UpdateLets
<1>4. CASE \E c \in Cases : DecideSave(w, c)
  <2> DEFINE r == [req[w] EXCEPT !.at = "saved"]
  <2>1. Answer(w) \/ Update(w, r)
    BY <1>4 DEF DecideSave, Goto
  <2>2. r.at = "saved"
    BY DEF TypeOK, Requests
  <2> HIDE DEF r
  <2> QED BY <1>1, <2>1, <2>2, AnswerLets, UpdateLets
<1>5. CASE \E c \in Cases, o \in Outcomes, n \in SettledAmounts \cup {0} :
             DecideLoad(w, c, o, n)
  <2>1. PICK c \in Cases, o \in Outcomes, n \in SettledAmounts \cup {0} :
          DecideLoad(w, c, o, n)
    BY <1>5
  <2> DEFINE restore == IF o = "refund" THEN "cancelled" ELSE cases[c].previous
             left    == IF o = "partial" THEN n ELSE 0
             r == [req[w] EXCEPT !.op = "decide", !.at = "loaded", !.case = c,
                                 !.outcome = o, !.left = left, !.restore = restore]
  <2>2. Update(w, r) /\ r.at = "loaded"
    BY <2>1 DEF DecideLoad, TypeOK, Requests
  <2> HIDE DEF r
  <2> QED BY <1>1, <2>2, UpdateLets
<1>6. CASE \E c \in Cases : RequestSettlement(w, c) \/ CloseCase(w, c) \/ ReopenCase(w, c)
  BY <1>1, <1>6 DEF RequestSettlement, CloseCase, ReopenCase, Between
<1>7. CASE FreezeList(w)
  <2> DEFINE stage == IF Rows({"held"}) = {} THEN "mark" ELSE "listed"
             r == [req[w] EXCEPT !.rows = Rows({"held"}), !.at = stage]
  <2>1. Update(w, r) /\ r.at \in {"mark", "listed"}
    BY <1>7 DEF FreezeList, TypeOK, Requests
  <2> HIDE DEF r
  <2> QED BY <1>1, <2>1, UpdateLets
<1>8. CASE DecideList(w)
  <2> DEFINE disputed == IF req[w].outcome = "no_action" THEN Rows({"disputed"})
                                                         ELSE GatewayRows({"disputed"})
             stage == IF disputed = {} THEN "mark" ELSE "listed"
             r == [req[w] EXCEPT !.rows = disputed, !.dest = account, !.at = stage]
  <2>1. Update(w, r)
    BY <1>8 DEF DecideList
  <2>2. r.at \in {"mark", "listed"}
    BY DEF TypeOK, Requests
  <2> HIDE DEF r
  <2> QED BY <1>1, <2>1, <2>2, UpdateLets
<1>9. CASE MarkLoad(w)
  <2> DEFINE r == [req[w] EXCEPT !.at = "marking", !.seen = booking]
  <2>1. Update(w, r) /\ r.at = "marking"
    BY <1>9 DEF MarkLoad, TypeOK, Requests
  <2> HIDE DEF r
  <2> QED BY <1>1, <2>1, UpdateLets
<1>10. CASE MarkSave(w)
  BY <1>1, <1>10, AnswerLets DEF MarkSave
<1> QED BY <1>2, <1>3, <1>4, <1>5, <1>6, <1>7, <1>8, <1>9, <1>10

-----------------------------------------------------------------------------
(* The invariant *)

LEMMA InitOnce == Init => OnceInv
<1> SUFFICES ASSUME Init PROVE OnceInv
  OBVIOUS
<1>1. /\ \A p \in PaymentIds : /\ payment[p].status = "absent"
                               /\ transferred[p] = 0 /\ refunded[p] = 0
      /\ \A w \in Workers : req[w].at = "idle"
  BY DEF Init, NoPayment, Idle
<1> QED BY <1>1 DEF OnceInv, NoInstalmentMovesTwice, AtRest, Moving, Between

LEMMA NextOnce ==
  ASSUME Reliable
  PROVE  /\ TypeOK /\ LedgerInv /\ Resting /\ SerialInv /\ OnceInv
         /\ [SerialNext]_vars
         => OnceInv'
<1> SUFFICES ASSUME TypeOK, LedgerInv, Resting, SerialInv, OnceInv, [SerialNext]_vars
             PROVE  OnceInv'
  OBVIOUS
<1> USE DEF Reliable
<1>1. CASE UNCHANGED <<payment, transferred, refunded, req>>
  BY <1>1 DEF OnceInv, NoInstalmentMovesTwice, AtRest, Moving, Between
<1>2. ASSUME NEW w \in Workers, Alone(w), BookingSteps(w) PROVE OnceInv'
  BY <1>2, QuietBooking, OnceMove, ReleaseTransferOnce, ReleaseWriteOnce, PayCommitOnce,
     CancelRefundOnce, CancelWriteOnce DEF BookingSteps
<1>3. ASSUME NEW w \in Workers, Alone(w), PayoutSteps(w) PROVE OnceInv'
  BY <1>3, QuietPayout, OnceMove, PayoutClaimOnce, PayoutWriteOnce DEF PayoutSteps
<1>4. ASSUME NEW w \in Workers, Alone(w), CaseSteps(w) PROVE OnceInv'
  <2>1. "partial" \in Outcomes /\ Outcomes \ {"partial"} \subseteq Outcomes
    BY DEF Outcomes
  <2>2. CASE \/ \E c \in Cases, o \in Outcomes \ {"partial"} : DecideLoad(w, c, o, 0)
             \/ \E c \in Cases, n \in SettledAmounts : DecideLoad(w, c, "partial", n)
    BY <1>4, <2>1, <2>2, QuietDesk, OnceMove
  <2> QED BY <1>4, <2>2, QuietDesk, OnceMove, FreezeWriteOnce, UnfreezeWriteOnce,
             SettleTransferOnce, SettleRefundOnce, SettleWriteOnce DEF CaseSteps
<1>5. ASSUME NEW w \in Workers, ChangeAccount(w) PROVE OnceInv'
  BY <1>1, <1>5 DEF ChangeAccount
<1>6. ASSUME NEW w \in Workers PROVE ~RequestDies(w)
  BY DEF RequestDies
<1>7. CASE UNCHANGED vars
  BY <1>1, <1>7 DEF vars
<1>8. CASE SerialNext
  <2>1. PICK w \in Workers : OthersRest(w) /\ Takes(w)
    BY <1>8 DEF SerialNext, Takes
  <2>2. Alone(w)
    BY <2>1, StaysAlone
  <2> QED BY <1>2, <1>3, <1>4, <1>5, <1>6, <2>1, <2>2 DEF Takes
<1> QED BY <1>7, <1>8

(* Served one after another and never cut off, with a gateway that does    *)
(* what it is asked, the requests send and refund of an instalment no more *)
(* than was collected, through releases, cancellations, disputes, partial  *)
(* settlements and owed payouts in any order.                              *)
THEOREM MoneyLeavesOnce ==
  ASSUME Reliable
  PROVE  SerialSpec => []NoInstalmentMovesTwice
<1>1. /\ TypeOK /\ LedgerInv /\ Resting /\ SerialInv /\ OnceInv
      /\ [SerialNext]_vars
      => OnceInv'
  BY NextOnce
<1>2. OnceInv => NoInstalmentMovesTwice
  BY DEF OnceInv
<1> QED BY <1>1, <1>2, InitOnce, SerialSteps, SerialHolds, RestHolds, TypeCorrect,
           LedgerHolds, PTL DEF Spec, SerialSpec
=============================================================================
