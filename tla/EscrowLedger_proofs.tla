------------------------- MODULE EscrowLedger_proofs -------------------------
(***************************************************************************)
(* What the rows of payments claim and what the gateway did, for any       *)
(* number of overlapping requests, with refusals and deaths: cash stays    *)
(* out of escrow, and no row records a movement that did not happen.       *)
(***************************************************************************)
EXTENDS BookingEscrow_proofs

USE BoundsAssumption

-----------------------------------------------------------------------------
(* The inductive invariant *)

(* The rows the escrow machinery works on: charged, and not in cash. *)
Escrowed == {p \in PaymentIds : payment[p].status # "absent" /\ ~payment[p].cash}

(* What the gateway has moved something of, either way. *)
Sent == {p \in PaymentIds : transferred[p] > 0}
Back == {p \in PaymentIds : refunded[p] > 0}

RowAccounted(p) ==
  /\ p \notin Escrowed => p \notin Sent /\ p \notin Back
  /\ payment[p].cash => payment[p].status = "released"
  /\ ~payment[p].cash =>
       /\ payment[p].status \in {"released", "partially_settled"} => p \in Sent
       /\ payment[p].status \in {"refunded", "partially_settled"} => p \in Back
  /\ payment[p].status = "pending_payout" => payment[p].due > 0

(* What a request may write of the row it is at: a yes from the gateway is  *)
(* a movement, and a share is only owed when there is one.                  *)
Accounts(r, escrowed, sent, back) ==
  /\ r.at = "idle" => r.rows = {}
  /\ r.op # "pay" => r.rows \subseteq escrowed
  /\ r.at \in {"sent", "answered"} =>
       /\ r.op # "pay" /\ r.row \in r.rows
       /\ r.op \in ReleaseOps => r.share > 0
       /\ r.op \in ReleaseOps \cup {"decide"} /\ ~r.sent => r.share > 0
       /\ r.op \in ReleaseOps \cup {"decide"} /\ r.sent /\ r.share > 0 => r.row \in sent
       /\ r.op \in PayoutOps /\ r.sent => r.row \in sent
       /\ r.op = "cancel" /\ r.back => r.row \in back
  /\ r.at = "answered" /\ r.op = "decide" /\ r.back /\ r.share < Amount => r.row \in back

LedgerInv ==
  /\ \A p \in PaymentIds : RowAccounted(p)
  /\ \A w \in Workers : Accounts(req[w], Escrowed, Sent, Back)

-----------------------------------------------------------------------------
(* Requests *)

LEMMA AccountsGrow ==
  ASSUME NEW r, NEW E, NEW S, NEW B, Accounts(r, E, S, B),
         NEW F, NEW T, NEW C, E \subseteq F, S \subseteq T, B \subseteq C
  PROVE  Accounts(r, F, T, C)
BY DEF Accounts

LEMMA IdleAccounts == ASSUME NEW E, NEW S, NEW B PROVE Accounts(Idle, E, S, B)
BY DEF Accounts, Idle

(* A request that is not in the middle of a row and keeps its list. *)
LEMMA BetweenRows ==
  ASSUME NEW r, NEW s, NEW E, NEW S, NEW B, Accounts(r, E, S, B),
         s.rows = r.rows, s.op = r.op,
         s.at \notin {"idle", "sent", "answered"}
  PROVE  Accounts(s, E, S, B)
BY DEF Accounts

(* A request that begins, or lists rows, away from any row. *)
LEMMA Listed ==
  ASSUME NEW s, NEW E, NEW S, NEW B,
         s.op # "pay" => s.rows \subseteq E, s.at \notin {"idle", "sent", "answered"}
  PROVE  Accounts(s, E, S, B)
BY DEF Accounts

LEMMA AfterRowAccounts ==
  ASSUME NEW r \in Requests, NEW p, NEW after \in {"idle", "mark"}, r.op # "pay",
         NEW E, NEW S, NEW B, Accounts(r, E, S, B)
  PROVE  Accounts(AfterRow(r, p, after), E, S, B)
<1> DEFINE stage == IF r.rows \ {p} = {} THEN after ELSE "listed"
           s     == [r EXCEPT !.rows = @ \ {p}, !.row = 0, !.share = 0,
                              !.sent = FALSE, !.back = FALSE, !.at = stage]
<1>1. CASE r.rows \ {p} = {} /\ after = "idle"
  BY <1>1, IdleAccounts DEF AfterRow
<1>2. CASE ~(r.rows \ {p} = {} /\ after = "idle")
  <2>1. s.at \in {"mark", "listed"} /\ s.rows = r.rows \ {p} /\ s.op = r.op
    BY <1>2 DEF Requests
  <2>2. AfterRow(r, p, after) = s
    BY <1>2 DEF AfterRow
  <2> HIDE DEF s
  <2>3. s.rows \subseteq E
    BY <2>1 DEF Accounts
  <2> QED BY <2>1, <2>2, <2>3, Listed
<1> QED BY <1>1, <1>2

-----------------------------------------------------------------------------
(* The shape of a step *)

(* One request goes on, and nothing that was charged or moved is undone. *)
LEMMA LedgerStep ==
  ASSUME TypeOK, LedgerInv, NEW w \in Workers, NEW r, Update(w, r),
         Escrowed \subseteq Escrowed', Sent \subseteq Sent', Back \subseteq Back',
         Accounts(r, Escrowed', Sent', Back'),
         \A p \in PaymentIds : RowAccounted(p)'
  PROVE  LedgerInv'
<1>1. \A v \in Workers : req'[v] = IF v = w THEN r ELSE req[v]
  BY DEF Update, TypeOK
<1>2. \A v \in Workers : Accounts(req'[v], Escrowed', Sent', Back')
  BY <1>1, AccountsGrow DEF LedgerInv
<1> QED BY <1>2 DEF LedgerInv

LEMMA BooksKept ==
  ASSUME LedgerInv, UNCHANGED <<payment, transferred, refunded>>
  PROVE  /\ Escrowed' = Escrowed /\ Sent' = Sent /\ Back' = Back
         /\ \A p \in PaymentIds : RowAccounted(p)'
BY DEF LedgerInv, Escrowed, Sent, Back, RowAccounted

(* A step that leaves the payments and the gateway alone. *)
LEMMA LedgerMove ==
  ASSUME TypeOK, LedgerInv, NEW w \in Workers, NEW r, Update(w, r),
         UNCHANGED <<payment, transferred, refunded>>,
         Accounts(r, Escrowed, Sent, Back)
  PROVE  LedgerInv'
BY BooksKept, LedgerStep

LEMMA LedgerAnswer ==
  ASSUME TypeOK, LedgerInv, NEW w \in Workers, Answer(w),
         UNCHANGED <<payment, transferred, refunded>>
  PROVE  LedgerInv'
BY IdleAccounts, LedgerMove DEF Answer

LEMMA LedgerGoto ==
  ASSUME TypeOK, LedgerInv, NEW w \in Workers, NEW stage \in {"checked", "saved"},
         Goto(w, stage), UNCHANGED <<payment, transferred, refunded>>
  PROVE  LedgerInv'
<1> DEFINE r == [req[w] EXCEPT !.at = stage]
<1>1. r.at = stage /\ r.rows = req[w].rows /\ r.op = req[w].op /\ Update(w, r)
  BY DEF TypeOK, Requests, Goto
<1> HIDE DEF r
<1>2. Accounts(r, Escrowed, Sent, Back)
  BY <1>1, BetweenRows DEF LedgerInv
<1> QED BY <1>1, <1>2, LedgerMove

LEMMA LedgerNextRow ==
  ASSUME TypeOK, LedgerInv, NEW w \in Workers, NEW p, NEW after \in {"idle", "mark"},
         req[w].op # "pay", NextRow(w, p, after),
         UNCHANGED <<payment, transferred, refunded>>
  PROVE  LedgerInv'
<1>1. Accounts(AfterRow(req[w], p, after), Escrowed, Sent, Back)
  BY AfterRowAccounts DEF TypeOK, LedgerInv
<1> QED BY <1>1, LedgerMove DEF NextRow

(* A row of the escrow takes another status: what it claims has happened. *)
LEMMA LedgerWriteRow ==
  ASSUME TypeOK, LedgerInv, NEW w \in Workers, NEW p \in Escrowed,
         NEW status \in PaymentStatuses \ {"absent"}, NEW due \in 0..Amount,
         NEW after \in {"idle", "mark"}, req[w].op # "pay",
         WriteRow(w, p, status, due, after), UNCHANGED <<transferred, refunded>>,
         status \in {"released", "partially_settled"} => p \in Sent,
         status \in {"refunded", "partially_settled"} => p \in Back,
         status = "pending_payout" => due > 0
  PROVE  LedgerInv'
<1>1. CASE IndexAllows(p, status)
  <2>1. payment' = [payment EXCEPT ![p].status = status, ![p].due = due]
        /\ NextRow(w, p, after)
    BY <1>1 DEF WriteRow
  <2>2. p \in PaymentIds /\ ~payment[p].cash /\ payment[p] \in Payments
    BY DEF Escrowed, TypeOK
  <2>3. /\ payment'[p].status = status /\ payment'[p].due = due /\ ~payment'[p].cash
        /\ \A q \in PaymentIds \ {p} : payment'[q] = payment[q]
    BY <2>1, <2>2 DEF TypeOK, Payments
  <2>4. Escrowed' = Escrowed /\ Sent' = Sent /\ Back' = Back
    <3>1. \A q \in PaymentIds : q \in Escrowed' <=> q \in Escrowed
      BY <2>2, <2>3 DEF Escrowed
    <3>2. Escrowed' \subseteq PaymentIds /\ Escrowed \subseteq PaymentIds
      BY DEF Escrowed
    <3> QED BY <3>1, <3>2 DEF Sent, Back
  <2>5. ASSUME NEW q \in PaymentIds PROVE RowAccounted(q)'
    BY <2>3, <2>4 DEF LedgerInv, RowAccounted
  <2>6. Accounts(AfterRow(req[w], p, after), Escrowed', Sent', Back')
    BY <2>4, AfterRowAccounts DEF TypeOK, LedgerInv
  <2> QED BY <2>1, <2>4, <2>5, <2>6, LedgerStep DEF NextRow
<1>2. CASE ~IndexAllows(p, status)
  BY <1>2, LedgerAnswer DEF WriteRow
<1> QED BY <1>1, <1>2

-----------------------------------------------------------------------------
(* The gateway *)

LEMMA SendsBooks ==
  ASSUME TypeOK, LedgerInv, NEW p \in Escrowed, NEW n \in Nat, NEW dest,
         NEW ok \in BOOLEAN, Sends(p, n, dest, ok), UNCHANGED <<payment, refunded>>
  PROVE  /\ Escrowed' = Escrowed /\ Sent \subseteq Sent' /\ Back' = Back
         /\ ok /\ n > 0 => p \in Sent'
         /\ \A q \in PaymentIds : RowAccounted(q)'
<1>1. p \in PaymentIds /\ transferred \in [PaymentIds -> 0..MaxLedger]
  BY DEF Escrowed, TypeOK
<1>2. /\ \A q \in PaymentIds \ {p} : transferred'[q] = transferred[q]
      /\ transferred'[p] = IF ok THEN Capped(transferred[p] + n) ELSE transferred[p]
  BY <1>1 DEF Sends
<1>3. Capped(transferred[p] + n) >= transferred[p]
      /\ (n > 0 => Capped(transferred[p] + n) > 0)
  BY <1>1 DEF Capped
<1>4. Sent \subseteq Sent' /\ (ok /\ n > 0 => p \in Sent')
      /\ \A q \in PaymentIds \ {p} : q \in Sent' => q \in Sent
  <2>1. \A q \in PaymentIds \ {p} : q \in Sent' <=> q \in Sent
    BY <1>2 DEF Sent
  <2>2. transferred'[p] >= transferred[p] /\ (ok /\ n > 0 => transferred'[p] > 0)
    BY <1>1, <1>2, <1>3
  <2>3. (p \in Sent => p \in Sent') /\ (ok /\ n > 0 => p \in Sent')
    <3>1. transferred'[p] \in Nat /\ transferred[p] \in Nat
      BY <1>1, <1>2 DEF Capped
    <3> QED BY <1>1, <2>2, <3>1 DEF Sent
  <2> QED BY <2>1, <2>3 DEF Sent
<1>5. Escrowed' = Escrowed /\ Back' = Back
  BY DEF Escrowed, Back
<1>6. ASSUME NEW q \in PaymentIds PROVE RowAccounted(q)'
  BY <1>4, <1>5 DEF LedgerInv, RowAccounted
<1> QED BY <1>4, <1>5, <1>6

LEMMA ReturnsBooks ==
  ASSUME TypeOK, LedgerInv, NEW p \in Escrowed, NEW n \in Nat \ {0},
         NEW ok \in BOOLEAN, Returns(p, n, ok), UNCHANGED <<payment, transferred>>
  PROVE  /\ Escrowed' = Escrowed /\ Sent' = Sent /\ Back \subseteq Back'
         /\ ok => p \in Back'
         /\ \A q \in PaymentIds : RowAccounted(q)'
<1>1. p \in PaymentIds /\ refunded \in [PaymentIds -> 0..MaxLedger]
  BY DEF Escrowed, TypeOK
<1>2. /\ \A q \in PaymentIds \ {p} : refunded'[q] = refunded[q]
      /\ refunded'[p] = IF ok /\ refunded[p] = 0 THEN Capped(n) ELSE refunded[p]
  BY <1>1 DEF Returns
<1>3. Capped(n) > 0
  BY DEF Capped
<1>4. Back \subseteq Back' /\ (ok => p \in Back')
      /\ \A q \in PaymentIds \ {p} : q \in Back' => q \in Back
  BY <1>1, <1>2, <1>3 DEF Back
<1>5. Escrowed' = Escrowed /\ Sent' = Sent
  BY DEF Escrowed, Sent
<1>6. ASSUME NEW q \in PaymentIds PROVE RowAccounted(q)'
  BY <1>4, <1>5 DEF LedgerInv, RowAccounted
<1> QED BY <1>4, <1>5, <1>6
-----------------------------------------------------------------------------
(* Every step keeps the books *)

(* What a request in hand may touch. *)
LEMMA InHand ==
  ASSUME TypeOK, LedgerInv, NEW w \in Workers
  PROVE  /\ req[w] \in Requests /\ Accounts(req[w], Escrowed, Sent, Back)
         /\ \A p \in req[w].rows : req[w].op # "pay" => p \in Escrowed
         /\ req[w].at \in {"sent", "answered"} =>
              req[w].op # "pay" /\ req[w].row \in Escrowed
         /\ GatewayRows(Live) \subseteq Escrowed
         /\ Rows({"pending_payout", "held", "disputed"}) \subseteq Escrowed
<1>1. req[w] \in Requests /\ Accounts(req[w], Escrowed, Sent, Back)
  BY DEF TypeOK, LedgerInv
<1>2. /\ GatewayRows(Live) \subseteq Escrowed
      /\ Rows({"pending_payout", "held", "disputed"}) \subseteq Escrowed
  BY DEF LedgerInv, RowAccounted, GatewayRows, Rows, Live, Escrowed
<1> QED BY <1>1, <1>2 DEF Accounts

LEMMA ShareFact ==
  ASSUME TypeOK, NEW p \in PaymentIds
  PROVE  PayoutShare(p) \in 0..Amount /\ PayoutShare(p) > 0
BY DEF TypeOK, PayoutShare, Payments

LEMMA LoadLedger ==
  ASSUME TypeOK, LedgerInv, NEW w \in Workers, NEW op, Load(w, op)
  PROVE  LedgerInv'
<1> DEFINE r == [req[w] EXCEPT !.op = op, !.at = "loaded", !.seen = booking]
<1>1. Update(w, r) /\ UNCHANGED <<payment, transferred, refunded>> /\ req[w].at = "idle"
  BY DEF Load, Free
<1>2. r.at = "loaded" /\ r.rows = {}
  BY <1>1 DEF TypeOK, Requests, LedgerInv, Accounts
<1> HIDE DEF r
<1>3. Accounts(r, Escrowed, Sent, Back)
  BY <1>2, Listed
<1> QED BY <1>1, <1>3, LedgerMove

LEMMA ReleaseListLedger ==
  ASSUME TypeOK, LedgerInv, NEW w \in Workers, ReleaseList(w)
  PROVE  LedgerInv'
<1> DEFINE held == {p \in GatewayRows({"held"}) :
                      payment[p].milestone \in ReleaseScope(req[w].op)}
           r    == [req[w] EXCEPT !.at = "listed", !.rows = held, !.dest = account]
<1>1. (Update(w, r) \/ Answer(w)) /\ UNCHANGED <<payment, transferred, refunded>>
  BY DEF ReleaseList
<1>2. held \subseteq Escrowed
  BY InHand DEF GatewayRows, Rows, Live
<1>3. r.at = "listed" /\ r.rows = held
  BY DEF TypeOK, Requests
<1> HIDE DEF r, held
<1>4. Accounts(r, Escrowed, Sent, Back)
  BY <1>2, <1>3, Listed
<1> QED BY <1>1, <1>4, LedgerMove, LedgerAnswer

LEMMA ReleaseTransferLedger ==
  ASSUME TypeOK, LedgerInv, NEW w \in Workers, NEW p \in PaymentIds, ReleaseTransfer(w, p)
  PROVE  LedgerInv'
<1>1. PICK ok \in BOOLEAN :
        /\ Sends(p, PayoutShare(p), req[w].dest, ok)
        /\ Update(w, [req[w] EXCEPT !.at = "answered", !.row = p, !.sent = ok,
                                    !.share = PayoutShare(p)])
  BY DEF ReleaseTransfer
<1> DEFINE r == [req[w] EXCEPT !.at = "answered", !.row = p, !.sent = ok,
                               !.share = PayoutShare(p)]
<1>2. /\ req[w].op \in ReleaseOps /\ p \in req[w].rows /\ p \in Escrowed
      /\ req[w].rows \subseteq Escrowed /\ UNCHANGED <<payment, refunded>>
  BY InHand DEF ReleaseTransfer, At, ReleaseOps
<1>3. /\ Escrowed' = Escrowed /\ Sent \subseteq Sent' /\ Back' = Back
      /\ ok => p \in Sent'
      /\ \A q \in PaymentIds : RowAccounted(q)'
  BY <1>1, <1>2, ShareFact, SendsBooks
<1>4. /\ r.at = "answered" /\ r.row = p /\ r.sent = ok /\ r.share = PayoutShare(p)
      /\ r.rows = req[w].rows /\ r.op = req[w].op
  BY InHand DEF Requests
<1> HIDE DEF r
<1>5. Accounts(r, Escrowed', Sent', Back')
  BY <1>2, <1>3, <1>4, ShareFact DEF Accounts, ReleaseOps, PayoutOps
<1> QED BY <1>1, <1>3, <1>5, LedgerStep DEF r

LEMMA ReleaseWriteLedger ==
  ASSUME TypeOK, LedgerInv, NEW w \in Workers, NEW p \in PaymentIds, ReleaseWrite(w, p)
  PROVE  LedgerInv'
<1> DEFINE status == IF req[w].sent THEN "released" ELSE "pending_payout"
<1>1. /\ req[w].op \in ReleaseOps /\ req[w].at = "answered" /\ p = req[w].row
      /\ WriteRow(w, p, status, req[w].share, "idle") /\ UNCHANGED <<transferred, refunded>>
  BY DEF ReleaseWrite, At
<1>2. p \in Escrowed /\ req[w].op # "pay" /\ req[w].share \in 0..Amount /\ req[w].share > 0
      /\ (req[w].sent => p \in Sent)
  BY <1>1, InHand DEF Accounts, Requests
<1>3. status \in PaymentStatuses \ {"absent"}
  BY DEF PaymentStatuses, Live
<1> QED BY <1>1, <1>2, <1>3, LedgerWriteRow

LEMMA PayBeginLedger ==
  ASSUME TypeOK, LedgerInv, NEW w \in Workers, PayBegin(w)
  PROVE  LedgerInv'
<1> DEFINE r == [req[w] EXCEPT !.op = "pay", !.at = "checked",
                               !.seen = booking, !.rows = Rows(Live)]
<1>1. Update(w, r) /\ UNCHANGED <<payment, transferred, refunded>>
  BY DEF PayBegin
<1>2. r.op = "pay" /\ r.at = "checked"
  BY DEF TypeOK, Requests
<1> HIDE DEF r
<1>3. Accounts(r, Escrowed, Sent, Back)
  BY <1>2, Listed
<1> QED BY <1>1, <1>3, LedgerMove

LEMMA PayCommitLedger ==
  ASSUME TypeOK, LedgerInv, NEW w \in Workers, NEW m \in Milestones,
         NEW cash \in BOOLEAN, NEW p \in PaymentIds, PayCommit(w, m, cash, p)
  PROVE  LedgerInv'
<1>1. /\ payment' = [payment EXCEPT ![p] = Recorded(m, cash)] /\ payment[p].status = "absent"
      /\ Answer(w) /\ UNCHANGED <<transferred, refunded>>
  BY DEF PayCommit, FirstFree
<1>2. /\ payment'[p] = Recorded(m, cash)
      /\ \A q \in PaymentIds \ {p} : payment'[q] = payment[q]
  BY <1>1 DEF TypeOK
<1>3. p \notin Escrowed /\ p \notin Sent /\ p \notin Back
  BY <1>1 DEF LedgerInv, RowAccounted, Escrowed
<1>4. Sent' = Sent /\ Back' = Back
  BY <1>1 DEF Sent, Back
<1>5. /\ \A q \in PaymentIds \ {p} : q \in Escrowed' <=> q \in Escrowed
      /\ Escrowed \subseteq Escrowed'
  BY <1>2, <1>3 DEF Escrowed
<1>6. RowAccounted(p)'
  BY <1>2, <1>3, <1>4 DEF RowAccounted, Recorded
<1>7. ASSUME NEW q \in PaymentIds \ {p} PROVE RowAccounted(q)'
  BY <1>2, <1>4, <1>5 DEF LedgerInv, RowAccounted
<1> QED BY <1>1, <1>4, <1>5, <1>6, <1>7, IdleAccounts, LedgerStep DEF Answer

LEMMA CancelListLedger ==
  ASSUME TypeOK, LedgerInv, NEW w \in Workers, CancelList(w)
  PROVE  LedgerInv'
<1> DEFINE r == [req[w] EXCEPT !.at = "listed", !.rows = Refundable]
<1>1. (Update(w, r) \/ Answer(w)) /\ UNCHANGED <<payment, transferred, refunded>>
  BY DEF CancelList
<1>2. Refundable \subseteq Escrowed
  BY InHand DEF Refundable, GatewayRows, Rows, Live
<1>3. r.at = "listed" /\ r.rows = Refundable
  BY DEF TypeOK, Requests
<1> HIDE DEF r
<1>4. Accounts(r, Escrowed, Sent, Back)
  BY <1>2, <1>3, Listed
<1> QED BY <1>1, <1>4, LedgerMove, LedgerAnswer

LEMMA CancelRefundLedger ==
  ASSUME TypeOK, LedgerInv, NEW w \in Workers, NEW p \in PaymentIds, CancelRefund(w, p)
  PROVE  LedgerInv'
<1>1. PICK ok \in BOOLEAN :
        /\ Returns(p, Amount, ok)
        /\ Update(w, [req[w] EXCEPT !.at = "answered", !.row = p, !.back = ok])
  BY DEF CancelRefund
<1> DEFINE r == [req[w] EXCEPT !.at = "answered", !.row = p, !.back = ok]
<1>2. /\ req[w].op = "cancel" /\ p \in req[w].rows /\ p \in Escrowed
      /\ req[w].rows \subseteq Escrowed /\ UNCHANGED <<payment, transferred>>
  BY InHand DEF CancelRefund, At
<1>3. /\ Escrowed' = Escrowed /\ Sent' = Sent /\ Back \subseteq Back'
      /\ ok => p \in Back'
      /\ \A q \in PaymentIds : RowAccounted(q)'
  BY <1>1, <1>2, ReturnsBooks
<1>4. /\ r.at = "answered" /\ r.row = p /\ r.back = ok
      /\ r.rows = req[w].rows /\ r.op = req[w].op
  BY InHand DEF Requests
<1> HIDE DEF r
<1>5. Accounts(r, Escrowed', Sent', Back')
  BY <1>2, <1>3, <1>4 DEF Accounts, ReleaseOps, PayoutOps
<1> QED BY <1>1, <1>3, <1>5, LedgerStep DEF r

LEMMA CancelWriteLedger ==
  ASSUME TypeOK, LedgerInv, NEW w \in Workers, NEW p \in PaymentIds, CancelWrite(w, p)
  PROVE  LedgerInv'
<1>1. /\ req[w].op = "cancel" /\ req[w].at = "answered" /\ p = req[w].row
      /\ UNCHANGED <<transferred, refunded>>
  BY DEF CancelWrite, At
<1>2. p \in Escrowed /\ (req[w].back => p \in Back)
  BY <1>1, InHand DEF Accounts
<1>3. "refunded" \in PaymentStatuses \ {"absent"} /\ 0 \in 0..Amount
  BY DEF PaymentStatuses, Dead
<1>4. CASE req[w].back
  BY <1>1, <1>2, <1>3, <1>4, LedgerWriteRow DEF CancelWrite
<1>5. CASE ~req[w].back
  BY <1>1, <1>5, LedgerNextRow DEF CancelWrite
<1> QED BY <1>4, <1>5
LEMMA PayoutListLedger ==
  ASSUME TypeOK, LedgerInv, NEW w \in Workers, NEW op \in PayoutOps, PayoutList(w, op)
  PROVE  LedgerInv'
<1> DEFINE r == [req[w] EXCEPT !.op = op, !.at = "listed",
                               !.rows = Rows({"pending_payout"}), !.dest = account]
<1>1. Update(w, r) /\ UNCHANGED <<payment, transferred, refunded>>
  BY DEF PayoutList
<1>2. Rows({"pending_payout"}) \subseteq Escrowed
  BY InHand DEF Rows
<1>3. r.at = "listed" /\ r.rows = Rows({"pending_payout"})
  BY DEF TypeOK, Requests
<1> HIDE DEF r
<1>4. Accounts(r, Escrowed, Sent, Back)
  BY <1>2, <1>3, Listed
<1> QED BY <1>1, <1>4, LedgerMove

LEMMA PayoutClaimLedger ==
  ASSUME TypeOK, LedgerInv, NEW w \in Workers, NEW p \in PaymentIds, PayoutClaim(w, p)
  PROVE  LedgerInv'
<1>1. PICK ok \in BOOLEAN :
        /\ Sends(p, payment[p].due, PayoutDestination(w), ok)
        /\ Update(w, [req[w] EXCEPT !.at = "answered", !.row = p, !.sent = ok])
  BY DEF PayoutClaim
<1> DEFINE r == [req[w] EXCEPT !.at = "answered", !.row = p, !.sent = ok]
<1>2. /\ req[w].op \in PayoutOps /\ p \in req[w].rows /\ p \in Escrowed
      /\ req[w].rows \subseteq Escrowed /\ UNCHANGED <<payment, refunded>>
  BY InHand DEF PayoutClaim, At, PayoutOps
<1>3. payment[p].due \in Nat /\ payment[p].due > 0
  BY DEF PayoutClaim, Claimable, LedgerInv, RowAccounted, TypeOK, Payments
<1>4. /\ Escrowed' = Escrowed /\ Sent \subseteq Sent' /\ Back' = Back
      /\ ok => p \in Sent'
      /\ \A q \in PaymentIds : RowAccounted(q)'
  BY <1>1, <1>2, <1>3, SendsBooks
<1>5. /\ r.at = "answered" /\ r.row = p /\ r.sent = ok
      /\ r.rows = req[w].rows /\ r.op = req[w].op
  BY InHand DEF Requests
<1> HIDE DEF r
<1>6. Accounts(r, Escrowed', Sent', Back')
  BY <1>2, <1>4, <1>5 DEF Accounts, ReleaseOps, PayoutOps
<1> QED BY <1>1, <1>4, <1>6, LedgerStep DEF r

LEMMA PayoutSkipLedger ==
  ASSUME TypeOK, LedgerInv, NEW w \in Workers, NEW p \in PaymentIds, PayoutSkip(w, p)
  PROVE  LedgerInv'
BY LedgerNextRow DEF PayoutSkip, At, PayoutOps

(* The sweep writes under the row's lock, and the status only. *)
LEMMA PayoutWriteLedger ==
  ASSUME TypeOK, LedgerInv, NEW w \in Workers, NEW p \in PaymentIds, PayoutWrite(w, p)
  PROVE  LedgerInv'
<1>1. /\ req[w].op \in PayoutOps /\ req[w].op # "pay" /\ req[w].at = "answered"
      /\ p = req[w].row /\ p \in Escrowed
      /\ Answer(w) \/ NextRow(w, p, "idle")
      /\ UNCHANGED <<transferred, refunded>>
  BY InHand DEF PayoutWrite, At, PayoutOps
<1>2. CASE payment' = payment
  BY <1>1, <1>2, LedgerAnswer, LedgerNextRow
<1>3. CASE req[w].sent /\ payment' = [payment EXCEPT ![p].status = "released"]
  <2>1. p \in Sent /\ ~payment[p].cash /\ payment[p] \in Payments
    BY <1>1, <1>3, InHand DEF Accounts, Escrowed, TypeOK
  <2>2. /\ payment'[p].status = "released" /\ ~payment'[p].cash
        /\ \A q \in PaymentIds \ {p} : payment'[q] = payment[q]
    BY <1>3, <2>1 DEF TypeOK, Payments
  <2>3. Sent' = Sent /\ Back' = Back
    BY <1>1 DEF Sent, Back
  <2>4. Escrowed' = Escrowed
    <3>1. \A q \in PaymentIds : q \in Escrowed' <=> q \in Escrowed
      BY <1>1, <2>2 DEF Escrowed
    <3>2. Escrowed' \subseteq PaymentIds /\ Escrowed \subseteq PaymentIds
      BY DEF Escrowed
    <3> QED BY <3>1, <3>2
  <2>5. ASSUME NEW q \in PaymentIds PROVE RowAccounted(q)'
    BY <1>1, <2>1, <2>2, <2>3, <2>4 DEF LedgerInv, RowAccounted
  <2>6. PICK r : Update(w, r) /\ Accounts(r, Escrowed, Sent, Back)
    BY <1>1, IdleAccounts, AfterRowAccounts DEF Answer, NextRow, TypeOK, LedgerInv
  <2> QED BY <2>3, <2>4, <2>5, <2>6, LedgerStep
<1> QED BY <1>2, <1>3 DEF PayoutWrite

-----------------------------------------------------------------------------
(* Support cases *)

(* A request that starts from rest, with no row on its list. *)
LEMMA FromRest ==
  ASSUME TypeOK, LedgerInv, NEW w \in Workers, req[w].at = "idle"
  PROVE  req[w].rows = {} /\ req[w] \in Requests
BY DEF TypeOK, LedgerInv, Accounts

LEMMA RaiseLoadLedger ==
  ASSUME TypeOK, LedgerInv, NEW w \in Workers, NEW c, RaiseLoad(w, c)
  PROVE  LedgerInv'
<1> DEFINE r == [req[w] EXCEPT !.op = "raise", !.at = "loaded", !.case = c,
                               !.seen = booking]
<1>1. Update(w, r) /\ UNCHANGED <<payment, transferred, refunded>> /\ req[w].at = "idle"
  BY DEF RaiseLoad, Free
<1>2. r.at = "loaded" /\ r.rows = {}
  BY <1>1, FromRest DEF Requests
<1> HIDE DEF r
<1>3. Accounts(r, Escrowed, Sent, Back)
  BY <1>2, Listed
<1> QED BY <1>1, <1>3, LedgerMove

LEMMA DecideLoadLedger ==
  ASSUME TypeOK, LedgerInv, NEW w \in Workers, NEW c, NEW outcome, NEW amount,
         DecideLoad(w, c, outcome, amount)
  PROVE  LedgerInv'
<1> DEFINE r == [req[w] EXCEPT !.op = "decide", !.at = "loaded", !.case = c,
                     !.outcome = outcome,
                     !.left = IF outcome = "partial" THEN amount ELSE 0,
                     !.restore = IF outcome = "refund" THEN "cancelled"
                                                       ELSE cases[c].previous]
<1>1. Update(w, r) /\ UNCHANGED <<payment, transferred, refunded>> /\ req[w].at = "idle"
  BY DEF DecideLoad, Free
<1>2. r.at = "loaded" /\ r.rows = {}
  BY <1>1, FromRest DEF Requests
<1> HIDE DEF r
<1>3. Accounts(r, Escrowed, Sent, Back)
  BY <1>2, Listed
<1> QED BY <1>1, <1>3, LedgerMove

LEMMA RaiseSaveLedger ==
  ASSUME TypeOK, LedgerInv, NEW w \in Workers, NEW c, RaiseSave(w, c)
  PROVE  LedgerInv'
<1> DEFINE r == [req[w] EXCEPT !.at = "saved", !.restore = "disputed"]
<1>1. Update(w, r) /\ UNCHANGED <<payment, transferred, refunded>>
  BY DEF RaiseSave
<1>2. r.at = "saved" /\ r.rows = req[w].rows /\ r.op = req[w].op
  BY DEF TypeOK, Requests
<1> HIDE DEF r
<1>3. Accounts(r, Escrowed, Sent, Back)
  BY <1>2, BetweenRows DEF LedgerInv
<1> QED BY <1>1, <1>3, LedgerMove

LEMMA FreezeListLedger ==
  ASSUME TypeOK, LedgerInv, NEW w \in Workers, FreezeList(w)
  PROVE  LedgerInv'
<1> DEFINE stage == IF Rows({"held"}) = {} THEN "mark" ELSE "listed"
           r     == [req[w] EXCEPT !.rows = Rows({"held"}), !.at = stage]
<1>1. Update(w, r) /\ UNCHANGED <<payment, transferred, refunded>>
  BY DEF FreezeList
<1>2. Rows({"held"}) \subseteq Escrowed
  BY InHand DEF Rows
<1>3. r.at \in {"mark", "listed"} /\ r.rows = Rows({"held"})
  BY DEF TypeOK, Requests
<1> HIDE DEF r
<1>4. Accounts(r, Escrowed, Sent, Back)
  BY <1>2, <1>3, Listed
<1> QED BY <1>1, <1>4, LedgerMove

LEMMA FreezeWriteLedger ==
  ASSUME TypeOK, LedgerInv, NEW w \in Workers, NEW p \in PaymentIds, FreezeWrite(w, p)
  PROVE  LedgerInv'
<1>1. /\ req[w].op = "raise" /\ p \in Escrowed /\ UNCHANGED <<transferred, refunded>>
      /\ WriteRow(w, p, "disputed", payment[p].due, "mark")
  BY InHand DEF FreezeWrite, At
<1>2. "disputed" \in PaymentStatuses \ {"absent"} /\ payment[p].due \in 0..Amount
  BY DEF PaymentStatuses, Live, TypeOK, Payments
<1> QED BY <1>1, <1>2, LedgerWriteRow

LEMMA MarkLoadLedger ==
  ASSUME TypeOK, LedgerInv, NEW w \in Workers, MarkLoad(w)
  PROVE  LedgerInv'
<1> DEFINE r == [req[w] EXCEPT !.at = "marking", !.seen = booking]
<1>1. Update(w, r) /\ UNCHANGED <<payment, transferred, refunded>>
  BY DEF MarkLoad
<1>2. r.at = "marking" /\ r.rows = req[w].rows /\ r.op = req[w].op
  BY DEF TypeOK, Requests
<1> HIDE DEF r
<1>3. Accounts(r, Escrowed, Sent, Back)
  BY <1>2, BetweenRows DEF LedgerInv
<1> QED BY <1>1, <1>3, LedgerMove

LEMMA DecideListLedger ==
  ASSUME TypeOK, LedgerInv, NEW w \in Workers, DecideList(w)
  PROVE  LedgerInv'
<1> DEFINE disputed == IF req[w].outcome = "no_action" THEN Rows({"disputed"})
                                                       ELSE GatewayRows({"disputed"})
           stage == IF disputed = {} THEN "mark" ELSE "listed"
           r == [req[w] EXCEPT !.rows = disputed, !.dest = account, !.at = stage]
<1>1. Update(w, r) /\ UNCHANGED <<payment, transferred, refunded>>
  BY DEF DecideList
<1>2. disputed \subseteq Escrowed
  BY InHand DEF GatewayRows, Rows, Live
<1> HIDE DEF disputed
<1>3. r.at \in {"mark", "listed"} /\ r.rows = disputed
  BY DEF TypeOK, Requests
<1> HIDE DEF r
<1>4. Accounts(r, Escrowed, Sent, Back)
  BY <1>2, <1>3, Listed
<1> QED BY <1>1, <1>4, LedgerMove

LEMMA UnfreezeWriteLedger ==
  ASSUME TypeOK, LedgerInv, NEW w \in Workers, NEW p \in PaymentIds, UnfreezeWrite(w, p)
  PROVE  LedgerInv'
<1>1. /\ req[w].op = "decide" /\ p \in Escrowed /\ UNCHANGED <<transferred, refunded>>
      /\ WriteRow(w, p, "held", payment[p].due, "mark")
  BY InHand DEF UnfreezeWrite, At
<1>2. "held" \in PaymentStatuses \ {"absent"} /\ payment[p].due \in 0..Amount
  BY DEF PaymentStatuses, Live, TypeOK, Payments
<1> QED BY <1>1, <1>2, LedgerWriteRow

LEMMA ToProviderFact ==
  ASSUME TypeOK, NEW w \in Workers PROVE ToProvider(w) \in 0..Amount
BY DEF TypeOK, Requests, Outcomes, ToProvider

LEMMA SettleTransferLedger ==
  ASSUME TypeOK, LedgerInv, NEW w \in Workers, NEW p \in PaymentIds, SettleTransfer(w, p)
  PROVE  LedgerInv'
<1> DEFINE share == ToProvider(w)
           left  == IF req[w].outcome = "partial" THEN req[w].left - share ELSE req[w].left
<1>1. PICK ok \in BOOLEAN :
        /\ IF share > 0 THEN Sends(p, share, req[w].dest, ok)
                        ELSE ok /\ UNCHANGED transferred
        /\ Update(w, [req[w] EXCEPT !.at = "sent", !.row = p, !.sent = ok,
                                    !.share = share, !.left = left])
  BY DEF SettleTransfer
<1> DEFINE r == [req[w] EXCEPT !.at = "sent", !.row = p, !.sent = ok,
                               !.share = share, !.left = left]
<1>2. /\ req[w].op = "decide" /\ p \in req[w].rows /\ p \in Escrowed
      /\ req[w].rows \subseteq Escrowed /\ UNCHANGED <<payment, refunded>>
  BY InHand DEF SettleTransfer, At
<1>3. share \in Nat
  BY ToProviderFact
<1> HIDE DEF share, left
<1>4. /\ Escrowed' = Escrowed /\ Sent \subseteq Sent' /\ Back' = Back
      /\ ok /\ share > 0 => p \in Sent'
      /\ \A q \in PaymentIds : RowAccounted(q)'
  BY <1>1, <1>2, <1>3, SendsBooks, BooksKept
<1>5. /\ r.at = "sent" /\ r.row = p /\ r.sent = ok /\ r.share = share
      /\ r.rows = req[w].rows /\ r.op = "decide"
  BY <1>2, InHand DEF Requests
<1>6. ~ok => share > 0
  BY <1>1
<1> HIDE DEF r
<1>7. Accounts(r, Escrowed', Sent', Back')
  BY <1>2, <1>4, <1>5, <1>6 DEF Accounts, ReleaseOps, PayoutOps
<1> QED BY <1>1, <1>4, <1>7, LedgerStep DEF r

LEMMA SettleRefundLedger ==
  ASSUME TypeOK, LedgerInv, NEW w \in Workers, NEW p \in PaymentIds, SettleRefund(w, p)
  PROVE  LedgerInv'
<1>1. PICK ok \in BOOLEAN :
        /\ IF req[w].share < Amount THEN Returns(p, Amount - req[w].share, ok)
                                    ELSE ok /\ UNCHANGED refunded
        /\ Update(w, [req[w] EXCEPT !.at = "answered", !.back = ok])
  BY DEF SettleRefund
<1> DEFINE r == [req[w] EXCEPT !.at = "answered", !.back = ok]
<1>2. /\ req[w].op = "decide" /\ req[w].at = "sent" /\ p = req[w].row /\ p \in Escrowed
      /\ UNCHANGED <<payment, transferred>>
  BY InHand DEF SettleRefund, At
<1>3. req[w].share \in 0..Amount
  BY InHand DEF Requests
<1>4. /\ Escrowed' = Escrowed /\ Sent' = Sent /\ Back \subseteq Back'
      /\ ok /\ req[w].share < Amount => p \in Back'
      /\ \A q \in PaymentIds : RowAccounted(q)'
  <2>1. CASE req[w].share < Amount
    <3>1. Amount - req[w].share \in Nat \ {0}
      BY <1>3, <2>1
    <3> QED BY <1>1, <1>2, <2>1, <3>1, ReturnsBooks
  <2>2. CASE ~(req[w].share < Amount)
    BY <1>1, <1>2, <2>2, BooksKept
  <2> QED BY <2>1, <2>2
<1>5. /\ r.at = "answered" /\ r.back = ok /\ r.row = p /\ r.sent = req[w].sent
      /\ r.share = req[w].share /\ r.rows = req[w].rows /\ r.op = "decide"
  BY <1>2, InHand DEF Requests
<1> HIDE DEF r
<1>6. Accounts(r, Escrowed', Sent', Back')
  BY <1>2, <1>4, <1>5, InHand DEF Accounts, ReleaseOps, PayoutOps
<1> QED BY <1>1, <1>4, <1>6, LedgerStep DEF r

(* A settlement is recorded when the refund is in, as what was moved. *)
LEMMA SettleWriteLedger ==
  ASSUME TypeOK, LedgerInv, NEW w \in Workers, NEW p \in PaymentIds, SettleWrite(w, p)
  PROVE  LedgerInv'
<1> DEFINE status == SettledStatus(w)
           share  == req[w].share
<1>1. /\ req[w].op = "decide" /\ req[w].at = "answered" /\ p = req[w].row /\ p \in Escrowed
      /\ UNCHANGED <<transferred, refunded>> /\ share \in 0..Amount
  BY InHand DEF SettleWrite, At, Requests
<1>2. CASE req[w].back
  <2>1. /\ ~req[w].sent => share > 0
        /\ req[w].sent /\ share > 0 => p \in Sent
        /\ share < Amount => p \in Back
    BY <1>1, <1>2, InHand DEF Accounts
  <2>2. /\ status \in PaymentStatuses \ {"absent"}
        /\ status \in {"released", "partially_settled"} => req[w].sent /\ share > 0
        /\ status \in {"refunded", "partially_settled"} => share < Amount
        /\ status = "pending_payout" => ~req[w].sent
    BY <1>1 DEF SettledStatus, PaymentStatuses, Live, Dead
  <2>3. WriteRow(w, p, status, share, "mark")
    BY <1>2 DEF SettleWrite
  <2> HIDE DEF status, share
  <2> QED BY <1>1, <2>1, <2>2, <2>3, LedgerWriteRow
<1>3. CASE ~req[w].back
  BY <1>1, <1>3, LedgerNextRow DEF SettleWrite
<1> QED BY <1>2, <1>3

-----------------------------------------------------------------------------
(* The invariant *)

LEMMA BookingStepsLedger ==
  ASSUME TypeOK, LedgerInv, NEW w \in Workers, BookingSteps(w)
  PROVE  LedgerInv'
<1>1. CASE Check(w)
  BY <1>1, LedgerGoto, LedgerAnswer DEF Check
<1>2. CASE Save(w)
  BY <1>2, LedgerGoto, LedgerAnswer DEF Save
<1>3. CASE PayRollback(w)
  BY <1>3, LedgerAnswer DEF PayRollback
<1> QED BY <1>1, <1>2, <1>3, LoadLedger, ReleaseListLedger, ReleaseTransferLedger,
       ReleaseWriteLedger, PayBeginLedger, PayCommitLedger, CancelListLedger,
       CancelRefundLedger, CancelWriteLedger DEF BookingSteps

LEMMA PayoutStepsLedger ==
  ASSUME TypeOK, LedgerInv, NEW w \in Workers, PayoutSteps(w)
  PROVE  LedgerInv'
BY PayoutListLedger, PayoutClaimLedger, PayoutSkipLedger, PayoutWriteLedger DEF PayoutSteps

LEMMA CaseStepsLedger ==
  ASSUME TypeOK, LedgerInv, NEW w \in Workers, CaseSteps(w)
  PROVE  LedgerInv'
<1>1. ASSUME NEW c \in Cases, DecideSave(w, c) PROVE LedgerInv'
  BY <1>1, LedgerGoto, LedgerAnswer DEF DecideSave
<1>2. ASSUME NEW c \in Cases, RequestSettlement(w, c) \/ CloseCase(w, c) \/ ReopenCase(w, c)
      PROVE  LedgerInv'
  <2>1. UNCHANGED <<payment, transferred, refunded, req>>
    BY <1>2 DEF RequestSettlement, CloseCase, ReopenCase
  <2> QED BY <2>1, BooksKept DEF LedgerInv
<1>3. CASE MarkSave(w)
  BY <1>3, LedgerAnswer DEF MarkSave
<1> QED BY <1>1, <1>2, <1>3, RaiseLoadLedger, RaiseSaveLedger, DecideLoadLedger,
       FreezeListLedger, DecideListLedger, MarkLoadLedger, FreezeWriteLedger,
       UnfreezeWriteLedger, SettleTransferLedger, SettleRefundLedger, SettleWriteLedger
       DEF CaseSteps

LEMMA InitLedger == Init => LedgerInv
<1> SUFFICES ASSUME Init PROVE LedgerInv
  OBVIOUS
<1>1. /\ \A p \in PaymentIds : payment[p] = NoPayment /\ transferred[p] = 0 /\ refunded[p] = 0
      /\ \A w \in Workers : req[w] = Idle
  BY DEF Init
<1>2. \A p \in PaymentIds : RowAccounted(p)
  BY <1>1 DEF RowAccounted, Escrowed, Sent, Back, NoPayment
<1> QED BY <1>1, <1>2, IdleAccounts DEF LedgerInv

LEMMA NextLedger == TypeOK /\ LedgerInv /\ [Next]_vars => LedgerInv'
<1> SUFFICES ASSUME TypeOK, LedgerInv, [Next]_vars PROVE LedgerInv'
  OBVIOUS
<1>1. ASSUME NEW w \in Workers, ChangeAccount(w) PROVE LedgerInv'
  <2>1. UNCHANGED <<payment, transferred, refunded, req>>
    BY <1>1 DEF ChangeAccount
  <2> QED BY <2>1, BooksKept DEF LedgerInv
<1>2. ASSUME NEW w \in Workers, RequestDies(w) PROVE LedgerInv'
  BY <1>2, LedgerAnswer DEF RequestDies
<1>3. CASE UNCHANGED vars
  <2>1. UNCHANGED <<payment, transferred, refunded, req>>
    BY <1>3 DEF vars
  <2> QED BY <2>1, BooksKept DEF LedgerInv
<1> QED BY <1>1, <1>2, <1>3, BookingStepsLedger, PayoutStepsLedger, CaseStepsLedger DEF Next

LEMMA LedgerHolds == Spec => []LedgerInv
<1> QED BY InitLedger, NextLedger, TypeCorrect, PTL DEF Spec

-----------------------------------------------------------------------------
(* The properties *)

(* Whatever requests overlap, are refused or die, no handler lists, freezes, *)
(* releases or refunds an instalment that was paid in cash.                  *)
THEOREM CashIsNotTouched == Spec => []CashStaysOutOfEscrow
<1>1. TypeOK /\ LedgerInv => CashStaysOutOfEscrow
  BY DEF TypeOK, LedgerInv, RowAccounted, Escrowed, Sent, Back, CashStaysOutOfEscrow
<1> QED BY <1>1, LedgerHolds, TypeCorrect, PTL

(* Whatever requests overlap, are refused or die, a row that says released,  *)
(* refunded or partially settled says so of movements the gateway made.      *)
THEOREM LedgerTellsTheTruth == Spec => []RecordsOnlyWhatMoved
<1>1. LedgerInv => RecordsOnlyWhatMoved
  BY DEF LedgerInv, RowAccounted, Sent, Back, RecordsOnlyWhatMoved
<1> QED BY <1>1, LedgerHolds, PTL
=============================================================================
