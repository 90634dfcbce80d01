# WOW-MD in TLA+

WOW-MD is a matchmaking and wedding marketplace: a NestJS backend
(`src/backend`), a web client, a mobile client and their deployment. This
directory models the parts of the backend where an error costs a family its
money, its wedding day or its match: the escrow of an accepted booking, the
calendar window a booking takes, the verification a vendor's listing goes through
before families see it, the way from an interest to a fixed match, and the outbox
that carries events from one part to the others. The backend runs as several
replicas, so requests about one row are served at the same time; most handlers
read a row, run their checks and save what they read, with no lock in between.
That is what the models are about.

`Repository.save` of a loaded entity is two statements: a SELECT of the row by its
id, and an UPDATE of the columns in which the entity and that row differ. No entity
here has a version column. A save therefore writes back whatever changed since the
handler loaded the row, and two saves that both select before either updates leave
a row with columns of each, which neither handler held. `ListingVerification` and
`MatchLifecycle` model both statements (`Compare`, then a write), since several
columns of a row matter there. In `BookingEscrow` every property claimed of
overlapping requests reads one column of the booking, its status, for which the two
statements come to one overwrite, and payments are updated by id without a SELECT;
in `AvailabilityWindow` overlapping saves lose an update either way.

## The system

| Component (code) | State | Operations | Interacts with | What makes it correct |
|---|---|---|---|---|
| Bookings and escrow (`modules/bookings/bookings.service.ts`) | `bookings.status`, delivery and acceptance stamps, rows of `payments` | create, confirm, pay, startWork, completeWork, markCompleted, confirmDelivery, settle, releasePayout, retryPendingPayouts, cancel | window (calls), cases (asks for an open one, is settled by one), gateway, payout account, outbox | money comes before work, nothing is paid out or refunded twice, the rows say only what moved |
| Support cases (`modules/verification/support-cases.service.ts`) | `support_cases`: status, previous booking status, decision | raise, requestSettlement, triage, allocate, recordFindings, escalate, settle, close | freezes and settles payments, writes the booking's status | frozen money moves by a decision only; a disputed booking has an open case |
| Payment gateway (`bookings/payment.provider.ts`) | outside | capture, release (no idempotency key), refund (keyed by its receipt), verifyWebhook | called between two database statements | – |
| Payout accounts (`vendors/payout-accounts.service.ts`) | linked or not, at any time | link, change, review | read by every release | – |
| Availability windows (`vendors/availability.service.ts`) | `capacity`, `confirmed`, `pending`, `status` of a window | publish, reserve, confirm, release, update, block, unblock, remove | called by booking creation, acceptance and cancellation | never more jobs than places; a deleted window strands nobody |
| Quotations, add-ons (`quotations.service.ts`, `negotiation.ts`, `booking-addons.service.ts`) | `quotations`, the booking's price | send, accept, reject, withdraw, counter; propose, answer | booking stage, window | one live offer; the agreed price is the accepted offer's |
| Listings (`vendors.service.ts`, `business-lifecycle.service.ts`) | `vendors.status` and the details a visit checks | edit, first review, submit, send back, reject, approve, reopen | raises and is moved by verification requests; cases unlock it | what families see was visited and approved as it stands |
| Verification (`verification.service.ts`, `officers.service.ts`) | `verification_requests`: status, officer, findings | raise, allocate, start, submit findings, review, decide, correct, resubmit, revive | moves the listing after each decision | one open request; approvals rest on findings; the queue and the listing agree |
| Matchmaking (`matchmaking.service.ts`, `interest-screening.service.ts`, `match-lifecycle.service.ts`) | `interests`, one row per sender and recipient | send, accept, decline, withdraw, forward, turn down, unmatch, block, report, confirm | agency's filter, chat, accounts | a match is fixed by both sides, one per profile; an end is respected |
| Circulation (`modules/circulation`) | consents, shares, proposals | consent, share, propose | profiles, agents | nothing is shared without a live consent |
| Agents, invitations (`modules/agents`, `modules/invitations`) | managed profiles, claims, invitations, billing | invite, accept, claim, bill | profiles, users | an invitation is used once |
| Authentication (`modules/auth`) | sessions, refresh tokens, lockouts | login, refresh, revoke, verify phone | users, Redis | a rotated refresh token is never honoured again |
| Outbox, jobs, locks (`platform/events`, `platform/jobs`, `platform/locks`) | `outbox_events`, an advisory lock | record, read a batch, publish, send, mark | everything records; bus, Kafka, notifications | every recorded event is delivered at least once, oldest first, by one dispatcher |
| Notifications, chat, calls, media, AI, mail, catalogue, administration | mostly CRUD or I/O | – | – | not modelled, see `PROJECT.json` |

What is hard to test in it: handlers of one booking that overlap (stale saves,
lists read before a case froze them, unlocked releases); the gateway refusing one
of several calls; a replica dying between the gateway's answer and the row that
should record it; the nightly sweep meeting the provider's button; long legal
sequences through cases that are decided again, reopened or closed; counters
saved by requests that read them before somebody else's acceptance; two tables
moved one after the other by a handler that may die in between; interests
answered after they ended; a dispatcher whose lock lives in a session it does not
watch. The hazards are listed line by line in `PROJECT.json`.

## Modules

| Module | What it is |
|---|---|
| `BookingEscrow` | one accepted booking, its instalments, its cases, the gateway, and the requests in flight |
| `BookingEscrow_proofs` | types, money before work, one claim on an owed payout: with any overlap |
| `EscrowLedger_proofs` | what the payment rows claim and what the gateway moved: with any overlap |
| `EscrowSerial_proofs` | what holds of requests served one after another |
| `EscrowOnce_proofs` | money leaves once, when nothing is refused or cut off either |
| `AvailabilityWindow` | one window and the bookings that ask for it |
| `CapacityPromise` | what a window promises its buyers, abstractly |
| `AvailabilityWindow_proofs` | its types, its inductive invariant, its theorems and the refinement |
| `ListingVerification` | one listing, its verification requests and the support cases that unlock it |
| `ListingVerification_proofs` | its inductive invariants, `IInv` and `QueueInv`, and theorems |
| `MatchLifecycle` | the interests of a few profiles, from sending to a fixed match |
| `MatchLifecycle_proofs` | its inductive invariant and theorems |
| `Outbox` | producers, the dispatchers of all replicas, their lock, the bus, the broker and the subscribers |
| `Relay` | what an outbox promises its producers, abstractly |
| `Outbox_proofs` | its inductive invariant, its theorems and the safety part of the refinement |
| `MCBookingEscrow`, `MCAvailabilityWindow`, `MCListingVerification`, `MCMatchLifecycle`, `MCOutbox` | the small sets TLC explores |

### BookingEscrow and the code

`booking` is the row of `bookings` as far as escrow reads it; `payment` the rows
of `payments` (`due` is `payoutAmount`); `cases` the support cases about the
booking; `account` whether a payout account is linked; `transferred` and
`refunded` are what really left the platform, which the database does not know;
`req[w]` is a request being served: the handler, how far it has come, the entity
it loaded (`seen`) and the payment rows it listed (`rows`).

* `Load`, `Check`, `Save`: startWork, completeWork, markCompleted,
  confirmDelivery, settle and cancel. `Save` overwrites the booking with the
  entity loaded earlier, for its status what `Repository.save` does. The
  checks between load and save write nothing and are one step.
* `ReleaseList`, `ReleaseTransfer`, `ReleaseWrite`: `releaseHeld`, row by row.
* `PayBegin`, `PayCommit`, `PayRollback`: `pay`, one transaction that holds the
  booking row (`bookingLock`), with the unique index on live instalments. Cash is
  written as released. Creating the hold at the gateway is part of the commit.
* `CancelList`, `CancelRefund`, `CancelWrite`: what cancel does after its save.
* `PayoutList`, `PayoutClaim`, `PayoutSkip`, `PayoutWrite`: the payout button and
  the nightly sweep; `rowLock` is the row lock of `releaseOnePending`.
* `RaiseLoad`, `RaiseSave`, `FreezeList`, `FreezeWrite`, `MarkLoad`, `MarkSave`:
  raising a case; `DecideLoad` ... `SettleWrite`, `UnfreezeWrite`: deciding it
  (`settleDisputed`, `applySettlement`, `applyDecision`, `markBooking`);
  `RequestSettlement`, `CloseCase`, `ReopenCase`: the rest of a case. Every desk
  status between open and decided is `in_flight`.
* `ChangeAccount`, `RequestDies`: the account changes; a request is cut off
  between two steps, which releases its locks and rolls its transaction back.

The model starts when the job is accepted (`payment_pending`). Amounts are units
of an instalment (`Amount` of them), enough to tell a full movement from a share
of one; commission and the split into three milestones are not modelled.
`Capped`/`MaxLedger` only saturates the two ledgers, `MaxReturned` the count of
places given back, `MaxPayments` is the number of rows ever written.

### AvailabilityWindow and the code

`window` is the row of `vendor_availability_slots`, `stage` how far each booking
has come ("accepted" from the advance being payable on), `req` the requests in
flight. `Ask` (`reserve` inside `create`) and `Accept` (`confirm` inside the
three ways of accepting a price) hold the row's lock. `Cancel`, `ReleaseLoad`,
`ReleaseSave` (`cancel`, `release`) and `LoadWindow`, `SaveWindow` (`update`,
`block`, `unblock`, `remove`) load, decide and save without one. `Quote` is
`send`, `reject` and `withdraw`, of which only the stage is modelled. Saving a row
that was deleted meanwhile inserts it again. Re-timing a window and its note
touch no counter and are left out.

`UnlockedRunAlone` is an assumption about the environment, not about the code:
TRUE means a request that takes no lock overlaps no other request on the window.
Nothing in the backend ensures it, and run `window_lost_update` shows what
happens without it. It separates two questions: whether the counters and their
checks are right (they are, and that is proved), and whether they are protected
(they are not).

`CapacityPromise` has two variables, the places on sale and who holds one. The
mapping takes the window's capacity, or none once it is deleted, and the accepted
bookings; the counters `confirmed` and `pending` are the implementation.

### ListingVerification and the code

`listing` is the row of `vendors`: its status, and the edition of the details a
visit checks (every edit of an identity detail makes a new one). `request` holds
the rows of `verification_requests` about it, oldest first; `findings` is the
edition an officer wrote up. `task[w]` is a handler in flight with the row or the
listing it is about to save. `written` is a history variable: the requests whose
visit was ever written up.

Each save is loaded (by the `Begin` or `Load` step named below), compared with the
table (`Compare`) and written (`WriteListing`, `WriteRequest`); a write changes the
columns the comparison found different. The findings may differ although they are
of one edition, since a new write-up never equals the last: `Compare` leaves that
open.

* `BeginEdit`, `SaveEdit`; `BeginFirstReview`, `SaveFirstReview`; `BeginSubmit`,
  `SaveSubmit`, `Raise`, `InsertRequest`, `LoadResubmitted`, `MarkResubmitted`: the
  vendor. Submission locks the listing first and raises or reuses its request
  afterwards.
* `LoadClock`, `StartClock`: `startSla` at the end of a submission and of a revisit.
  Its deadline is read by nothing modelled and left out; that it saves the row it
  loaded is not.
* `BeginStart`, `LoadInProgress`, `MarkInProgress`, `BeginFindings`, `BeginReview`,
  `BeginAllocate`, ended by `SaveRequest`: the officer and the desk that sends him.
* `BeginDecide`, `SaveRequest`, then `LoadMove`, `MoveListing` and, for an approval,
  `GoLive`: `decide` and `requestCorrection`. The request is saved first and the
  listing loaded and moved afterwards; a move the table `Moves` refuses leaves the
  request decided.
* `BeginUnlock`, `LoadRejected`, `ReopenListing`, `LoadRefused`, `ReviveRequest`,
  `BeginGrant`: what a support case does to the listing it is decided about.
* `Die`: the handler is cut off between two statements.

### MatchLifecycle and the code

`interest` is the row of each pair that may write to each other (`Pairs` are
ordered: there can be a row in each direction). `confirmed` holds the sides whose
`fixedConfirmed...At` is set. `said` is a history variable: the sides that
confirmed since the row was last accepted, which the database does not know,
because most ends leave the confirmations on the row. `agreed` is another: the
sides that ever confirmed the pair.

A handler keeps the rows it will save in `entity`; `Compare` is the SELECT of
`save`, `Save` the UPDATE of the columns in `changed`. Columns that are equal in the
model may differ in the code where no handler tells the values apart (an interest
never held and one forwarded, two dates of a confirmation): `Alike` names them, and
`Compare` may have them written or not.

* `BeginSend` asks whether either profile is settled or the pair ended, `LoadSend`
  loads the row and re-opens it, `Insert` writes a new one under the unique index.
* `BeginAccept`, `CheckAccept`, `BeginDecline`: `respond`, which asks what the
  agency said and not whether the interest is still waiting.
* `BeginForward`, `BeginTurnDown`: the agency. `Screening` leaves it open whether
  an interest was sent by an agency, which is never screened; its "open" stands for
  an interest never held and for one the agency forwarded, which no handler tells
  apart.
* `BeginWithdraw`, `BeginUnmatch`, `BeginBlock`, `BeginReport`, each ended by
  `Compare` and `Save`.
* `BeginConfirm`, `CheckConfirm`, `Compare`, `Save`, `CloseOthers`, `Compare`,
  `Save`: confirming a match, and the second confirmation closing every other live
  interest of the two.

### Outbox and the code

An event is its `createdAt`. `saved` are domain writes that committed, `recorded`
the rows of `outbox_events`, `processed` those marked; `run[r]` is one tick of one
replica's timer at work, `lock` the run whose session holds the advisory lock,
`connected` the replicas whose Kafka producer connected when they started.
`onBus`, `onTopic`, `told` and `untold` say what happened outside the table.

* `Save`, `Record`, `Forget`: a domain write, which records its event in the same
  transaction (`Transactional`) or in a statement of its own that may never run.
  `late` remembers rows that appeared after a younger one, since `createdAt` is
  taken when a transaction begins.
* `Tick`, `Read`, then `Publish`, `Send`, `Mark` for one event after another,
  `Refuse`, `Release`: `runExclusive` around `processBatch`. A refused call ends the
  batch, whether or not it took effect. `Send` by a replica that is not connected
  sends nothing and raises nothing (`muted`). Taking and freeing the lock are not
  refused in the model: in the code such a refusal is a rejection nobody handles,
  which ends the process and is a `Crash`.
* `Tell`, `FailToTell`: a subscriber that is not awaited writes a notification or
  fails.
* `Crash`: a replica dies with its runs, sessions and subscribers and starts again,
  connected or not. `DropSession`: the lock's session ends while its run goes on.

`Relay` has three sets, recorded, delivered and retired; the mapping takes the
table, the bus and `processedAt`. Deliveries are sets: an event delivered twice is
not told from one delivered once, which is what "at least once" asks.

### What the handlers do not guard against

`ListingVerification` and `MatchLifecycle` count in `disturbed` what has happened
so far that the code has no guard for: two handlers overlapping, a handler dying
half way, a support case decided underneath an open request, an ended interest
answered again. A property that does not survive one
of them begins by excluding it (`Free({"overlap"})`), so the runs say, property by
property, which ones the code withstands. Where the repository claims the plain statement, "What the
checks show" says what defeats it. `Outbox` does the same with `drops`. The
conditions are about what the environment did, never about the rows.

## Runs

| Run | Question | Bounds |
|---|---|---|
| `escrow_serial` | do the escrow rules hold along every sequence of legal calls? | one request at a time, three rows (one per instalment), one case, a gateway that answers |
| `escrow_faults` | does the ledger stay truthful when calls are refused and requests die? | one request at a time, one row, one case |
| `escrow_races` | which rules survive two overlapping requests? | two requests, two rows, no case, refusals and crashes |
| `window` | do the counters keep the promise? | three bookings, two requests, capacity 1 or 2, crashes |
| `listing` | which agreements of listing and requests survive deaths, cases and interleaved handlers? | two officers, three requests, three editions, two cases, three disturbances; once two handlers have overlapped, one request, two editions, one case and two disturbances (`Explored`) |
| `match` | which promises of a match survive deaths and answers to ended interests? | a couple in both directions and a rival, the groom screened, one handler at a time, two disturbances; an answer to an ended interest where at most two of the three pairs ever met (`Explored`) |
| `match_overlap` | what is left of them when two handlers interleave? | one pair, the bride screened, two handlers, three disturbances |
| `outbox` | is what is crossed off delivered, in order, by one dispatcher, and does everything get there? | two replicas, a tick each, two events, a batch of two, one crash or drop, refusals without bound |
| `settled_again`, `cancelled_keeps_place`, `freeze_race`, `window_lost_update` | a statement of the repository the code does not keep | each the smallest instance that shows it |

Why the bounds are enough to be interesting. Three rows let a booking complete
and every instalment be held, frozen or settled at once; a row refunded and
charged again needs a fourth and is left out. One case can be decided,
re-opened, closed and decided again, which is where stages are restored long
after they were recorded. A partial settlement is of one unit of two and of
three units over a two-unit row, so it is smaller than a row, or spills into the
next. Two requests are enough for every pair of handlers; in `escrow_races` both
rows may be owed, so the button and the sweep compete for them. Three bookings on
one or two places let one be refused, one cancelled and one accepted in its stead.

Three editions let findings be about details that changed since, and change again;
three requests let one be raised after another was approved or refused, and three
disturbances let a death meet two cases. The properties that do not survive an
overlap are explored in full where handlers follow one another, which is all they
speak of: the steps of one handler, with deaths and cases between them. What is
claimed of overlaps needs a single row, since columns are mixed within a row: one
request of `listing` (the constraint `Explored` cuts the rest off once handlers have
overlapped) and one pair in `match_overlap`. Two disturbances let a
death meet an answer to an ended interest in `match`. Its three pairs make a profile
part of two matches, as sender and as
recipient, and give one couple a row in each direction. Two events are the least
with an order, a batch of two the least in which a run stops half way, and one of
them is recorded by its transaction, the other after it; the proofs lift these
bounds.

Deadlock is checked in the escrow runs, the match runs and in `outbox`: some handler
can always begin. The window runs switch it off, since the bookings are finitely
many and a deleted window with every booking cancelled has nothing left to do; so
do the listing runs, where a submission that dies before it raises its request leaves a
listing the vendor may not edit and no queue shows, and nothing can happen once
the support cases of the bound are used up.

Liveness is stated of the outbox only. The escrow code retries an owed payout once
a night and promises no end to anything else, a gateway that keeps refusing keeps
a payout owed for ever, and nothing makes a vendor, an administrator or a family
act.

`Fairness` of `Outbox`, and what justifies each part:

* The timers of all replicas tick every two seconds and an entered run takes its
  next step: weak fairness of ticking, publishing and releasing, over all runs at
  once, so that no single replica is relied upon.
* Reading, sending and marking may be refused each time they are tried, but not
  for ever: strong fairness of each, over all runs. Without it a broker that
  refuses one event for good holds up every younger one, which is what the code
  does (`outbox.processor.ts:49`).
* A handler that is alive reaches its `record()`, and a subscriber its write.
* Saving, forgetting, refusing, failing, crashing and dropping are not fair.

## What the checks show

Held by the code, one request at a time: money before work, one live payment per
instalment (owed payouts included, which the index leaves out), completion only
after acceptance, no instalment moved twice while the gateway does not refuse and no
request dies, no movement of frozen money but by a decision, no movement of held money while a
case is open. Held with overlapping requests: money before work, cash outside
escrow, no record of a movement that did not happen, one claim on an owed payout.

Not held (each a violation run and a finding):

* `settled_again`: a partial settlement whose refund is refused leaves the row
  frozen with nothing recorded; settling again sends the provider's share again.
* `cancelled_keeps_place`: a REFUND decision cancels the booking and never gives
  its window back.
* `freeze_race`: a release of startWork that listed a row before a case froze it
  writes over the frozen row.
* `window_lost_update`: an unlocked load-and-save of the window undoes an
  acceptance; the window is then sold once more than it has places.

Seen while modelling and given no run: two overlapping startWork calls both send
the advance, so `NoInstalmentMovesTwice` is checked serially only; the nightly
sweep pays an owed payout while a case is open, and the comments disagree whether
it may; a second case on a disputed booking records DISPUTED as the stage to
restore; a raiser who closes an undecided case leaves the booking DISPUTED with no
open case, although `common/enums/index.ts:303` says one is holding the money; two
overlapping acceptances of one booking count its place twice, which errs on the
safe side.

### Listings

Held whatever overlaps or dies: a request becomes approved only after some visit was
written up. Held while no two handlers overlap, across deaths and cases: an approved
request holds findings, findings never outlive the officer's allocation, a visible
listing was approved, one request is open, a refusal is final but for the desk's
reopening (`RefusalIsFinal`, proved and left out of the run). Held without deaths: a locked listing is in a queue. Held undisturbed:
what is live is the edition the officer visited, and the queue and the listing agree.

What defeats the narrower ones, each a counterexample TLC finds when the condition is
dropped:

* An approval and a correction that overlap write their own columns of one request,
  which is left approved without findings and without an officer (`ApprovedCarriesTheVisit`,
  against `verification.service.ts:563`); in the same way an approval is taken off the
  record of a live listing.
* Two overlapping submissions both find no open request and raise one each
  (`RaisedOnce`, against "Idempotent per *business*", `verification.service.ts:144`).
* A submission that dies between lock and request strands the listing.
* A case that unlocks a listing underneath its open request leaves findings about the
  old details, on which the edited ones are approved after the resubmission.

### Matches

Held whatever overlaps or dies: a match is called fixed only after each side
confirmed the pair at some time. Held while no two handlers overlap: a fixed match
has both confirmations on its row, nothing the agency holds or turned down is
accepted, one fixed match per profile, nobody writes again to a pair that ended, and
(without deaths) fixing closes every other interest. Held when, besides, no ended
interest is answered again: both sides confirmed this acceptance and not an earlier
one.

What defeats the narrower ones, likewise:

* An unmatch and the second confirmation that overlap leave a fixed match with one
  confirmation (`FixedCarriesBoth`, against `match-lifecycle.service.ts:216`).
* Two confirmations that overlap each miss the other: both are on the row, the match
  is not fixed, and confirming again is refused.
* A withdrawal loaded before the agency forwarded the interest writes the old
  screening back under the client's acceptance, and a resend does the same to an
  acceptance of an ended interest (`AcceptedWasForwarded`, against
  `matchmaking.service.ts:1326`).
* The second confirmations of two matches of one profile both find the table free and
  both are fixed (`FixedOnce`, against `match-lifecycle.service.ts:241`).
* A death after the second confirmation leaves the other interests open, and
  confirming again is refused.
* `respond` never asks whether an interest is pending, so one that was declined, or
  even blocked, can be answered with yes, and its old confirmation then counts.

### Outbox

Held through crashes, drops and refusals: an event that is crossed off was
published, and reached the broker unless its replica had no producer; events go out
oldest first, two dispatchers included; every event somebody lives to record is
relayed; whoever it concerns is told, or that notification was lost. Held until a
session drops: one dispatcher, and nothing marked is handed over again.

`outbox-event.entity.ts:4` says the event is written in the same transaction as the
domain write. That is so for a booking's creation, its payments and the three ways
its price is accepted; the other handlers record afterwards, and `Forget` is the
death in between. `SavedIsRelayed` states it as
"relayed or forgotten": taken at its word, the comment is false of those handlers.
In the same way `ProcessedWasDelivered` exempts the events a replica without a
producer marked, although `kafka.service.ts:9` says each processed event is
published; and `RelayedIsTold` counts a notification its subscriber failed to write
as lost, which the code only logs. None of the three checks is about these losses.

## What is proved

The proofs hold for any number of requests, payment rows, cases, bookings and
places. They use only the named assumptions of the modules and, where a theorem says
so, a condition on the load: `SerialSpec`, `Reliable` or `UnlockedRunAlone`.

* `TypeCorrect` (`Spec => []TypeOK`) of `BookingEscrow`.
* `MoneyComesFirst` (`Spec => []MoneyBeforeWork`). The property is not inductive:
  a stale save may write any stage some request has loaded or some case has
  recorded. `MoneyInv` adds that the stage in every copy - loaded entities, stages
  recorded on cases, stages about to be restored - presupposes only instalments
  that were charged, which stays true because a charged instalment stays charged.
* `OwedHasOneClaim` (`Spec => []OwedIsClaimedByOne`), from `ClaimInv`: a request
  that waits for the gateway's answer holds the lock of its row, and the row is
  still owed because every other writer waits for the lock.
* `CashIsNotTouched` and `LedgerTellsTheTruth` (`EscrowLedger_proofs`), with any
  overlap, refusal and death, from `LedgerInv`: every listed row was charged and is
  not in cash, a request that holds a yes from the gateway is at a row the ledger
  shows moved, and it only counts on a share when there is one. All of it grows
  monotonically (what was charged stays charged, what moved stays moved), which is
  why no interleaving can take it away.
* `OnePaymentPerInstalment`, `CompletionWasAccepted`, `FrozenIsSettledOnly` and
  `OpenCaseStopsTheMoney` (`EscrowSerial_proofs`), for any number of workers whose
  requests do not overlap, refusals and deaths included: they are theorems of
  `SerialSpec`, the steps of `Spec` in which every other worker rests. Run
  `escrow_serial` explores them with its single worker, where the gateway answers and
  nothing dies. `Resting`, which holds of `Spec`, says that a worker at rest kept
  nothing of an earlier request, so only the request being served can have read
  anything stale. `SerialInv` says that what a
  request read is still so (the rows it listed have the status it listed them for,
  the booking it loaded is the booking), that one which asked whether a case is open
  may rely on the answer, and that every stage recorded anywhere to be restored is
  one the booking deserves. Nothing in the code keeps requests apart, and each of the
  four fails of `Spec`. TLC finds two overlapping requests that leave two live
  payments for an instalment (a case freezes a row the cancellation it overlaps has
  refunded), a job completed without its buyer's acceptance, money sent while a case
  is open and, in run `freeze_race`, a frozen row released.
* `MoneyLeavesOnce` (`EscrowOnce_proofs`), when in addition the gateway refuses
  nothing and nothing dies (`Reliable`), from `OnceInv`: a row no request is in the
  middle of has moved nothing while it is held or disputed, and a request in the
  middle of a row has moved no more of it than its answers say. Each condition is needed:
  `settled_again` shows it of refusals; a release that dies between the transfer and
  its row leaves the row held, and a cancellation refunds what the provider already
  has; two overlapping startWork calls both send the advance.
* `TypeCorrect` of `AvailabilityWindow`, whatever overlaps: the counters never fall
  below zero.
* `NeverOverbooked`, `DeletionStrandsNobody` and `WindowKeepsPromise` of
  `AvailabilityWindow`, each under `UnlockedRunAlone`. `IInv` says the counters
  never say less than the bookings do, and say one more while a cancelled booking
  has not given its place back; that what an unlocked request read is still what
  the window holds; and that a booking being accepted or quoted is still live
  however many acceptances went by since it was read. The last theorem is the
  refinement of `CapacityPromise`: every step takes or returns one place, re-sizes,
  or stutters.
* `ListingVerification`: `TypeCorrect`; `ApprovalsFollowAVisit`, whatever overlaps,
  from `WriteUps`: findings, and an approval some handler is about to write, belong
  to a request that was written up once, in the table and in every handler's hands,
  so that any mixture of columns keeps it; `ApprovalsRestOnVisits`,
  `VisibleListingsWereApproved`, `RequestsOpenOneAtATime` and `RefusalsAreFinal`,
  from `Serial`: while no two handlers overlapped, one is in flight, what its save
  read is still what the table holds, so that it writes the row it has, at most one
  request is unsettled, the request it works on is that one, and an approval in hand
  is on record once it moves the listing.
  `ListingsAreLiveAsVisited`, `LockedListingsAreQueued` and
  `QueuesAgreeWithListings` follow a handler through both tables, which disagree
  between its two writes. `QueueInv` therefore has one part for a quiet moment and
  one for each handler in flight: `OrderlyFor` names the agreement a handler has
  broken (a refused request before its listing, a locked listing before its request)
  together with the step that restores it, and `TidyFor` adds the editions: findings
  on a request in work are of the edition on the row, since the details are closed
  while there is one. The first holds without overlaps and deaths, the second needs
  as well that no case unlocked the listing underneath an open request.
* `MatchLifecycle`: `TypeCorrect`; `FixedByConsent`, whatever overlaps, from
  `AgreeInv`: every confirmation and every fixed state, in the table and in every
  handler's hands, goes back to calls that were made; `FixingTakesBoth`,
  `AgencyIsAsked`, `MatchesAreExclusive` and `EndsAreRespected`, from `Serial`: while
  no two handlers overlapped, what every row says of itself, what the only handler
  in flight may know of the rows around the one it saves, and that what its save
  read is still there (`Fresh`);
  `FixingClosesTheRest`, from `RestInv`: whatever is live next to a fixed match is
  about to be closed by the handler that fixed it; `BothSpokeOfThisMatch`, from
  `WordInv`: a row that can be sent again carries no confirmation, and what an
  accepted row, or a handler's copy of one, calls confirmed was said of this
  acceptance.
* `Outbox`: `TypeCorrect`, `CrossedOffWasDelivered`, `OneRunAtWork`, `NoneOvertakes`
  and `NoneIsRepeated`, for any number of replicas, ticks, events and faults and any
  batch size. `BatchOK` says how far the head of a batch has got and that nothing
  older is left outside it, `Exclusive` and `Fresh` that until a session drops a run
  at work holds the lock and an unmarked batch. `DispatcherRelays` is the safety part
  of the refinement: every step is a step of `Relay` or a stutter.

Every invariant and every action property of the passing runs is stated by one of
these theorems. Only model-checked: liveness (`SavedIsRelayed`, `RelayedIsTold` and
the fairness in `PromiseKept` of `Outbox`), which is out of the prover's reach. The
violation runs are counterexamples and have nothing to prove.

## Not modelled

* Of listings: agencies and planners, whose verification activates an account
  without a listing (`closeOnAdminApproval`); which officer is proposed; the SLA
  clock, whose sweep (`sweepSlaBreaches`) nothing calls; which fields a correction
  opens. Who may call what is not modelled anywhere.
* Of matches: the accounts and the fee after a match is fixed, suggestions and
  visibility, interests deleted when a profile is erased or merged.
* Of the outbox: payloads, how often a redelivered event notifies somebody, and the
  jobs other than the dispatcher and the nightly payout sweep.
* Of bookings: everything before the job is accepted but the window, the desk's own
  routing of a case, the gateway's webhook.
* Clients, deployment, I/O adapters, CRUD modules and generated or seed data;
  `PROJECT.json` gives the reason for each.

## Plan

1. Done: `BookingEscrow`, its runs and three theorems; `AvailabilityWindow`,
   `CapacityPromise` and the refinement; `ListingVerification`, `MatchLifecycle`,
   `Outbox` and `Relay` with their theorems.
2. `Quotation`: send, counter, accept, reject, withdraw, expire and the agreed
   price, with add-ons; an abstract "one agreed price" it implements.
3. `SupportCase`: the desk's own statuses (triage, allocation, findings,
   escalation, review), two cases on one booking, refining the in-flight/decided
   view `BookingEscrow` takes.
4. `Consent` (consent, sharing and proposals between agents) and `RefreshTokens`.
5. `MilestoneMath`: the split of an amount into instalments and commission, as
   functions checked against a reference definition.
6. Proofs: done for every safety property that is checked; the modules above bring
   theirs with them.
