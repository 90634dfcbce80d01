------------------------ MODULE ListingVerification ------------------------
(***************************************************************************)
(* One vendor listing and the verification requests raised about it.       *)
(*                                                                         *)
(* The listing (modules/vendors) and its requests (modules/verification)   *)
(* are rows of two tables, moved by the vendor, the officer who visits,    *)
(* the administrator who decides and the support desk. No handler takes a  *)
(* lock or opens a transaction: each loads an entity, checks it, saves it  *)
(* and goes on to the other table. Saving reads the row once more and then *)
(* writes the columns that differ from what it read. A handler in flight   *)
(* is a worker's task; it keeps the entity it is about to save.            *)
(*                                                                         *)
(* "disturbed" counts what has happened so far that the code does not      *)
(* guard against, so that each property names the disturbances it does     *)
(* not survive.                                                            *)
(***************************************************************************)
EXTENDS Naturals, FiniteSets

CONSTANTS
  Workers,         \* handlers that can be in flight at once
  Officers,
  NoOfficer,
  MaxRequests,     \* bound: rows of verification_requests about the listing
  MaxEditions,     \* bound: versions of the identity details the vendor saves
  MaxCases,        \* bound: support cases decided in the vendor's favour
  MaxDisturbances, \* bound: disturbances in one behaviour
  RequestsMayDie   \* a handler may be cut off between two of its statements

ASSUME OfficersAssumption == NoOfficer \notin Officers
ASSUME BoundsAssumption   == /\ MaxRequests \in Nat
                             /\ MaxEditions \in Nat \ {0}
                             /\ MaxCases \in Nat
                             /\ MaxDisturbances \in Nat
ASSUME DyingAssumption    == RequestsMayDie \in BOOLEAN

VARIABLES
  listing,     \* the row of vendors: where it stands, and its edition
  request,     \* the rows of verification_requests about it, oldest first
  written,     \* history: the requests whose visit was ever written up
  cases,       \* support cases that have reopened the listing so far
  task,        \* the handler each worker is running
  disturbed    \* how often each thing the handlers do not guard against happened

vars == <<listing, request, written, cases, task, disturbed>>

-----------------------------------------------------------------------------
(* The listing *)

ListingStatuses ==
  {"draft", "ready_for_review", "first_review", "pending_verification",
   "in_progress", "verified", "live", "reverification_required", "rejected"}

(* ALLOWED, the transition table. *)
Moves ==
  [s \in ListingStatuses |->
     CASE s = "draft"            -> {"ready_for_review"}
       [] s = "ready_for_review" -> {"draft", "first_review"}
       [] s = "first_review"     -> {"draft", "pending_verification"}
       [] s = "pending_verification" ->
            {"in_progress", "verified", "reverification_required", "rejected"}
       [] s = "in_progress" ->
            {"verified", "reverification_required", "rejected", "pending_verification"}
       [] s = "verified" -> {"live", "reverification_required"}
       [] s = "live"     -> {"reverification_required"}
       [] s = "reverification_required" -> {"draft", "first_review"}
       [] s = "rejected" -> {}]

(* What move() accepts: a listed transition, or no change at all. *)
MayMove(from, to) == from = to \/ to \in Moves[from]

(* Mutant: the listing does not lock on submission. *)
EditIdentityUnlocked ==
  {"draft", "ready_for_review", "first_review", "pending_verification",
   "reverification_required"}

EditIdentity == {"draft", "ready_for_review", "first_review", "reverification_required"}
EditPresentational == EditIdentity \cup {"verified", "live"}
Visible == {"verified", "live"}

Editions == 1..MaxEditions
Listings == [status: ListingStatuses, edition: Editions]

(* The columns of either table the properties tell apart. *)
Columns == {"status", "edition", "officer", "previous", "findings"}

(* The columns in which two rows of a table differ. *)
Differing(one, other) == {c \in DOMAIN one : one[c] # other[c]}

(* A row after an update of some of its columns. *)
Updated(row, entity, columns) ==
  [c \in DOMAIN row |-> IF c \in columns THEN entity[c] ELSE row[c]]

-----------------------------------------------------------------------------
(* Its verification requests *)

Worked == {"assigned", "in_progress", "submitted", "admin_review"}
Parked == {"additional_review", "issue"}
OpenStatuses == {"new"} \cup Worked \cup Parked
RequestStatuses == {"absent", "approved", "rejected"} \cup OpenStatuses

RequestIds == 1..MaxRequests

(* findings: the edition the officer wrote up, 0 when there are none. *)
Rows == [status: RequestStatuses, officer: Officers \cup {NoOfficer},
         previous: Officers \cup {NoOfficer}, findings: 0..MaxEditions]

NoRow  == [status |-> "absent", officer |-> NoOfficer,
           previous |-> NoOfficer, findings |-> 0]
NewRow == [NoRow EXCEPT !.status = "new"]

WithStatus(statuses) == {r \in RequestIds : request[r].status \in statuses}
Open == WithStatus(OpenStatuses)
Raised == RequestIds \ WithStatus({"absent"})

(* assignedToUserId ?? previousOfficerUserId *)
LastOfficer(row) == IF row.officer # NoOfficer THEN row.officer ELSE row.previous

Allocatable == {"pending_verification", "in_progress"}

(* Mutants: the request takes the listing's status; the write-up survives *)
(* the officer's removal.                                                 *)
SentBackAsListing(row, status, previous) ==
  [status |-> "reverification_required", officer |-> NoOfficer,
   previous |-> previous, findings |-> 0]
SentBackWithFindings(row, status, previous) ==
  [status |-> status, officer |-> NoOfficer, previous |-> previous,
   findings |-> row.findings]

(* Off every queue, waiting on the vendor or on a fresh allocation. *)
SentBack(row, status, previous) ==
  [status |-> status, officer |-> NoOfficer, previous |-> previous, findings |-> 0]

Outcomes == {"approve", "reject", "issue", "revisit", "correct"}

(* Mutant: an approval moves the listing and forgets the request. *)
DecidedOffTheRecord(row, outcome) ==
  IF outcome = "approve" THEN [row EXCEPT !.status = "admin_review"]
  ELSE SentBack(row, "additional_review", LastOfficer(row))

(* The row decide() or requestCorrection() saves. *)
Decided(row, outcome) ==
  CASE outcome = "approve" -> [row EXCEPT !.status = "approved"]
    [] outcome = "reject"  -> [row EXCEPT !.status = "rejected"]
    [] outcome = "issue"   -> [row EXCEPT !.status = "issue"]
    [] outcome = "revisit" -> SentBack(row, "additional_review", row.officer)
    [] outcome = "correct" -> SentBack(row, "additional_review", LastOfficer(row))

(* What canDecide() asks the listing to be able to become. *)
DecisionTarget ==
  [approve |-> "verified", reject |-> "rejected", issue |-> "rejected",
   revisit |-> "pending_verification", correct |-> "reverification_required"]

(* Mutant: a refusal leaves the listing where it was. *)
DestinationOfRefusalLost(status, outcome) ==
  CASE outcome = "approve" -> "verified"
    [] outcome \in {"issue", "correct"} -> "reverification_required"
    [] OTHER -> status

(* Where the listing is really sent once the request is saved. *)
Destination(status, outcome) ==
  CASE outcome = "approve" -> "verified"
    [] outcome = "reject"  -> "rejected"
    [] outcome \in {"issue", "correct"} -> "reverification_required"
    [] outcome = "revisit" ->
         IF status = "in_progress" THEN "pending_verification" ELSE status

-----------------------------------------------------------------------------
(* Handlers in flight *)

Ops == {"edit", "first_review", "submit", "start", "findings", "review",
        "allocate", "decide", "unlock", "grant"}
RequestOps == {"start", "findings", "review", "allocate", "decide"}
Steps == {"idle", "loaded", "raising", "inserting", "resubmitting", "marking",
          "clocking", "moving", "opening", "reopening", "reviving"}

(* read: how often the row about to be saved was read, by the handler and   *)
(* once more by save(); changed: the columns save() found changed. A worker *)
(* keeps the row of a request in "row" and that of the listing in "entity". *)
Tasks == [op: Ops \cup {"none"}, at: Steps, outcome: Outcomes \cup {"none"},
          of: RequestIds \cup {0}, row: Rows, entity: Listings,
          read: 0..2, changed: SUBSET Columns]

NoTask == [op |-> "none", at |-> "idle", outcome |-> "none", of |-> 0,
           row |-> NoRow, entity |-> [status |-> "draft", edition |-> 1],
           read |-> 0, changed |-> {}]

Disturbances == {"overlap", "death", "case"}

Idle(w) == task[w].at = "idle"
Quiet   == \A w \in Workers : Idle(w)
At(w, op, step) == task[w].op = op /\ task[w].at = step

(* What the handler is about to save. *)
SavesRequest(w) ==
  \/ task[w].op \in RequestOps /\ task[w].at = "loaded"
  \/ task[w].at \in {"resubmitting", "clocking", "reviving"}
SavesListing(w) ==
  \/ task[w].op \notin RequestOps /\ task[w].at = "loaded"
  \/ task[w].at \in {"marking", "moving", "opening", "reopening"}

Undisturbed == [d \in Disturbances |-> 0]
Free(kinds) == \A d \in kinds : disturbed[d] = 0

Disturb(kinds) ==
  /\ disturbed' = [d \in Disturbances |->
                    IF d \in kinds THEN disturbed[d] + 1 ELSE disturbed[d]]
  /\ disturbed'["overlap"] + disturbed'["death"] + disturbed'["case"] <= MaxDisturbances

(* Another handler is in flight when this one starts. *)
Overlapping(w) == IF \E v \in Workers \ {w} : ~Idle(v) THEN {"overlap"} ELSE {}

(* A handler starts with what it read. *)
Begin(w, t) ==
  /\ Idle(w)
  /\ task' = [task EXCEPT ![w] = t]
  /\ Disturb(Overlapping(w))
  /\ UNCHANGED <<listing, request, written>>

BeginOnListing(w, op, entity) ==
  Begin(w, [NoTask EXCEPT !.op = op, !.at = "loaded", !.entity = entity, !.read = 1])

BeginOnRequest(w, op, step, outcome, r, row) ==
  Begin(w, [NoTask EXCEPT !.op = op, !.at = step, !.outcome = outcome, !.of = r,
                          !.row = row, !.read = IF step = "loaded" THEN 1 ELSE 0])

Finish(w) == task' = [task EXCEPT ![w] = NoTask]

(* To a step whose row is in hand (read = 1) or still to be loaded. *)
GoTo(w, step, read) ==
  task' = [task EXCEPT ![w] = [@ EXCEPT !.at = step, !.read = read, !.changed = {}]]

(* To another save of the listing in hand, with its next status. *)
Walk(w, step, status) ==
  task' = [task EXCEPT ![w] = [@ EXCEPT !.at = step, !.read = 1, !.changed = {},
                                        !.entity.status = status]]

HoldListing(w, status) ==
  task' = [task EXCEPT ![w] =
    [@ EXCEPT !.read = 1, !.entity = [listing EXCEPT !.status = status]]]

HoldRequest(w, r, row) ==
  task' = [task EXCEPT ![w] = [@ EXCEPT !.read = 1, !.of = r, !.row = row]]

Loading(w) == task[w].read = 0
OnlyTasks == UNCHANGED <<listing, request, written, cases, disturbed>>

(* save() reads the row again. The findings may differ although they are of *)
(* one edition: a new write-up never equals the one before it.              *)
Compare(w) ==
  LET found == IF SavesListing(w) THEN Differing(task[w].entity, listing)
               ELSE Differing(task[w].row, request[task[w].of])
  IN
  /\ task[w].read = 1
  /\ \E fresh \in SUBSET {"findings"} :
       /\ fresh # {} => ~SavesListing(w) /\ task[w].row.findings # 0
       /\ task[w].op = "findings" => fresh # {}
       /\ task' = [task EXCEPT ![w] = [@ EXCEPT !.read = 2, !.changed = found \cup fresh]]
  /\ OnlyTasks

(* save() writes the columns it found changed. *)
WriteListing(w) ==
  /\ task[w].read = 2
  /\ listing' = Updated(listing, task[w].entity, task[w].changed)
  /\ UNCHANGED <<request, written, cases, disturbed>>

WriteRequest(w) ==
  LET r == task[w].of IN
  /\ task[w].read = 2
  /\ request' = [request EXCEPT ![r] = Updated(@, task[w].row, task[w].changed)]
  /\ UNCHANGED <<listing, cases, disturbed>>

-----------------------------------------------------------------------------
(* The vendor *)

(* VendorsService.update: every identity detail while the status allows it, *)
(* only the shop-window ones once the listing is verified.                  *)
BeginEdit(w) ==
  /\ listing.status \in EditPresentational
  /\ \/ /\ listing.status \in EditIdentity
        /\ listing.edition < MaxEditions
        /\ BeginOnListing(w, "edit", [listing EXCEPT !.edition = @ + 1])
     \/ BeginOnListing(w, "edit", listing)
  /\ UNCHANGED cases

SaveEdit(w) == At(w, "edit", "loaded") /\ WriteListing(w) /\ Finish(w)

(* beginFirstReview walks DRAFT -> READY_FOR_REVIEW -> FIRST_REVIEW. *)
BeginFirstReview(w) ==
  /\ listing.status \in EditIdentity \ {"first_review"}
  /\ BeginOnListing(w, "first_review",
       [listing EXCEPT !.status =
          IF @ = "draft" THEN "ready_for_review" ELSE "first_review"])
  /\ UNCHANGED cases

SaveFirstReview(w) ==
  /\ At(w, "first_review", "loaded")
  /\ WriteListing(w)
  /\ IF task[w].entity.status = "ready_for_review"
     THEN Walk(w, "loaded", "first_review")
     ELSE Finish(w)

(* submitForVerification: a listing sent back is walked through the first *)
(* review before it locks.                                                *)
BeginSubmit(w) ==
  /\ listing.status \in {"first_review", "reverification_required"}
  /\ BeginOnListing(w, "submit",
       [listing EXCEPT !.status =
          IF @ = "first_review" THEN "pending_verification" ELSE "first_review"])
  /\ UNCHANGED cases

SaveSubmit(w) ==
  /\ At(w, "submit", "loaded")
  /\ WriteListing(w)
  /\ IF task[w].entity.status = "first_review"
     THEN Walk(w, "loaded", "pending_verification")
     ELSE GoTo(w, "raising", 0)

(* Mutant: every submission raises a request of its own. *)
RaiseAnyway(w) ==
  At(w, "submit", "raising") /\ GoTo(w, "inserting", 0) /\ OnlyTasks

(* Once raise() answers: markResubmitted or, at once, startSla. *)
Answered(w, step, r) ==
  task' = [task EXCEPT ![w] =
    [@ EXCEPT !.at = step, !.of = r, !.read = 0, !.changed = {}]]

(* raise: an open request is reused, a rejected one refuses the submission *)
(* (the listing has already moved), otherwise a new one is written.        *)
Raise(w) ==
  /\ At(w, "submit", "raising")
  /\ \/ \E r \in Open :
          Answered(w, IF request[r].status \in Parked THEN "resubmitting" ELSE "clocking", r)
     \/ Open = {} /\ WithStatus({"rejected"}) # {} /\ Finish(w)
     \/ Open = {} /\ WithStatus({"rejected"}) = {} /\ GoTo(w, "inserting", 0)
  /\ OnlyTasks

InsertRequest(w) ==
  /\ At(w, "submit", "inserting")
  /\ \E r \in WithStatus({"absent"}) :
       /\ \A q \in 1..(r - 1) : q \in Raised
       /\ request' = [request EXCEPT ![r] = NewRow]
       /\ Answered(w, "clocking", r)
  /\ UNCHANGED <<listing, written, cases, disturbed>>

(* markResubmitted loads the request again. *)
LoadResubmitted(w) ==
  LET r == task[w].of IN
  /\ At(w, "submit", "resubmitting") /\ Loading(w)
  /\ IF request[r].status \in Parked
     THEN HoldRequest(w, r, SentBack(request[r], "new", LastOfficer(request[r])))
     ELSE GoTo(w, "clocking", 0)
  /\ OnlyTasks

MarkResubmitted(w) ==
  /\ At(w, "submit", "resubmitting")
  /\ WriteRequest(w)
  /\ GoTo(w, "clocking", 0)
  /\ UNCHANGED written

(* startSla sets a deadline no handler reads, on the row as it loads it,    *)
(* unless there is one; then the submission ends and the decision goes on.  *)
AfterClock(w) == IF task[w].op = "decide" THEN GoTo(w, "moving", 0) ELSE Finish(w)

LoadClock(w) ==
  /\ task[w].at = "clocking" /\ Loading(w)
  /\ HoldRequest(w, task[w].of, request[task[w].of]) \/ AfterClock(w)
  /\ OnlyTasks

StartClock(w) ==
  /\ task[w].at = "clocking"
  /\ WriteRequest(w)
  /\ AfterClock(w)
  /\ UNCHANGED written

-----------------------------------------------------------------------------
(* The officer the request is allocated to *)

BeginStart(w) ==
  /\ \E r \in WithStatus({"assigned", "additional_review"}) :
       /\ request[r].officer # NoOfficer
       /\ BeginOnRequest(w, "start", "marking", "none", r,
            [request[r] EXCEPT !.status = "in_progress"])
  /\ UNCHANGED cases

(* markInProgress moves the listing before the request is saved. *)
LoadInProgress(w) ==
  /\ At(w, "start", "marking") /\ Loading(w)
  /\ IF "in_progress" \in Moves[listing.status]
     THEN HoldListing(w, "in_progress")
     ELSE GoTo(w, "loaded", 1)
  /\ OnlyTasks

MarkInProgress(w) ==
  At(w, "start", "marking") /\ WriteListing(w) /\ GoTo(w, "loaded", 1)

(* submitFindings: the officer writes up the details as they stand. *)
BeginFindings(w) ==
  /\ \E r \in WithStatus({"assigned", "in_progress", "additional_review"}) :
       /\ request[r].officer # NoOfficer
       /\ BeginOnRequest(w, "findings", "loaded", "none", r,
            [request[r] EXCEPT !.status = "submitted", !.findings = listing.edition])
  /\ UNCHANGED cases

-----------------------------------------------------------------------------
(* The administrator *)

BeginReview(w) ==
  /\ \E r \in WithStatus({"submitted"}) :
       BeginOnRequest(w, "review", "loaded", "none", r,
         [request[r] EXCEPT !.status = "admin_review"])
  /\ UNCHANGED cases

(* Mutant: an officer is sent while the vendor has the listing. *)
BeginAllocateAnyway(w) ==
  /\ \E r \in Raised \ WithStatus({"approved"}), o \in Officers :
       BeginOnRequest(w, "allocate", "loaded", "none", r,
         [request[r] EXCEPT !.officer = o, !.previous = NoOfficer,
                            !.status = "assigned"])
  /\ UNCHANGED cases

(* allocate: for another look, not the officer of the previous visit. *)
BeginAllocate(w) ==
  /\ listing.status \in Allocatable
  /\ \E r \in Raised \ WithStatus({"approved"}), o \in Officers :
       /\ request[r].status = "additional_review" => o # request[r].previous
       /\ BeginOnRequest(w, "allocate", "loaded", "none", r,
            [request[r] EXCEPT !.officer = o, !.previous = NoOfficer,
                               !.status = "assigned"])
  /\ UNCHANGED cases

(* Mutant: an approval asks whether an officer was sent, not what he found. *)
BeginDecideUnseen(w) ==
  /\ \E r \in Raised \ WithStatus({"approved"}), outcome \in Outcomes :
       /\ outcome = "approve" => request[r].officer # NoOfficer
       /\ outcome \in {"revisit", "correct"} => request[r].status # "new"
       /\ MayMove(listing.status, DecisionTarget[outcome])
       /\ BeginOnRequest(w, "decide", "loaded", outcome, r, Decided(request[r], outcome))
  /\ UNCHANGED cases

(* decide and requestCorrection, up to their first write. *)
BeginDecide(w) ==
  /\ \E r \in Raised \ WithStatus({"approved"}), outcome \in Outcomes :
       /\ outcome = "approve" => request[r].findings # 0
       /\ outcome \in {"revisit", "correct"} => request[r].status # "new"
       /\ MayMove(listing.status, DecisionTarget[outcome])
       /\ BeginOnRequest(w, "decide", "loaded", outcome, r, Decided(request[r], outcome))
  /\ UNCHANGED cases

(* A decision goes on to the listing, a revisit over startSla. *)
SaveRequest(w) ==
  /\ task[w].op \in RequestOps
  /\ task[w].at = "loaded"
  /\ WriteRequest(w)
  /\ written' = IF task[w].op = "findings" THEN written \cup {task[w].of} ELSE written
  /\ IF task[w].op = "decide"
     THEN GoTo(w, IF task[w].outcome = "revisit" THEN "clocking" ELSE "moving", 0)
     ELSE Finish(w)

(* lifecycle.approve, reject, requireReverification, requireCorrection and  *)
(* awaitAnotherReview load the listing and move it. A refused move answers  *)
(* 400 and leaves whatever was saved before it; the last one moves only a   *)
(* listing somebody is visiting.                                            *)
LoadMove(w) ==
  LET to == Destination(listing.status, task[w].outcome) IN
  /\ task[w].at = "moving" /\ Loading(w)
  /\ IF /\ MayMove(listing.status, to)
        /\ task[w].outcome = "revisit" => listing.status = "in_progress"
     THEN HoldListing(w, to)
     ELSE Finish(w)
  /\ OnlyTasks

(* An approval saves VERIFIED, then LIVE. *)
MoveListing(w) ==
  /\ task[w].at = "moving"
  /\ WriteListing(w)
  /\ IF task[w].outcome = "approve" THEN Walk(w, "opening", "live") ELSE Finish(w)

GoLive(w) == task[w].at = "opening" /\ WriteListing(w) /\ Finish(w)

-----------------------------------------------------------------------------
(* The support desk *)

(* A case moves the listing and leaves an open request as it is. *)
Underneath == IF Open # {} THEN {"case"} ELSE {}

BeginCase(w, op, step, outcome) ==
  /\ cases < MaxCases
  /\ cases' = cases + 1
  /\ Idle(w)
  /\ task' = [task EXCEPT ![w] =
       [NoTask EXCEPT !.op = op, !.at = step, !.outcome = outcome]]
  /\ Disturb(Overlapping(w) \cup Underneath)
  /\ UNCHANGED <<listing, request, written>>

(* unlockListingFor: a refused listing is reopened with its request, any *)
(* other that can be is sent back for the vendor to edit.                *)
BeginUnlock(w) ==
  \/ listing.status = "rejected" /\ BeginCase(w, "unlock", "reopening", "none")
  \/ /\ "reverification_required" \in Moves[listing.status]
     /\ BeginCase(w, "unlock", "moving", "issue")

(* grantBusinessChangeAccess opens the named fields of the listing. *)
BeginGrant(w) == BeginCase(w, "grant", "moving", "correct")

LoadRejected(w) ==
  /\ task[w].at = "reopening" /\ Loading(w)
  /\ IF listing.status = "rejected"
     THEN HoldListing(w, "reverification_required")
     ELSE GoTo(w, "reviving", 0)
  /\ OnlyTasks

ReopenListing(w) ==
  task[w].at = "reopening" /\ WriteListing(w) /\ GoTo(w, "reviving", 0)

(* reopenRejected: the latest refused request goes back to the vendor. *)
LoadRefused(w) ==
  /\ task[w].at = "reviving" /\ Loading(w)
  /\ \/ WithStatus({"rejected"}) = {} /\ Finish(w)
     \/ \E r \in WithStatus({"rejected"}) :
          /\ \A q \in WithStatus({"rejected"}) : q <= r
          /\ HoldRequest(w, r, SentBack(request[r], "additional_review",
                                        LastOfficer(request[r])))
  /\ OnlyTasks

ReviveRequest(w) ==
  /\ task[w].at = "reviving"
  /\ WriteRequest(w)
  /\ Finish(w)
  /\ UNCHANGED written

-----------------------------------------------------------------------------
(* The process dies, or the database refuses a statement *)

Die(w) ==
  /\ RequestsMayDie
  /\ ~Idle(w)
  /\ Finish(w)
  /\ Disturb({"death"})
  /\ UNCHANGED <<listing, request, written, cases>>

-----------------------------------------------------------------------------

Init ==
  /\ listing = [status |-> "draft", edition |-> 1]
  /\ request = [r \in RequestIds |-> NoRow]
  /\ written = {}
  /\ cases = 0
  /\ task = [w \in Workers |-> NoTask]
  /\ disturbed = Undisturbed

VendorStep(w) ==
  \/ BeginEdit(w) \/ SaveEdit(w)
  \/ BeginFirstReview(w) \/ SaveFirstReview(w)
  \/ BeginSubmit(w) \/ SaveSubmit(w)
  \/ Raise(w) \/ InsertRequest(w)
  \/ LoadResubmitted(w) \/ MarkResubmitted(w)

StaffStep(w) ==
  \/ BeginStart(w) \/ LoadInProgress(w) \/ MarkInProgress(w) \/ BeginFindings(w)
  \/ BeginReview(w) \/ BeginAllocate(w) \/ BeginDecide(w) \/ SaveRequest(w)
  \/ LoadMove(w) \/ MoveListing(w) \/ GoLive(w)

DeskStep(w) ==
  \/ BeginUnlock(w) \/ BeginGrant(w)
  \/ LoadRejected(w) \/ ReopenListing(w) \/ LoadRefused(w) \/ ReviveRequest(w)

ClockStep(w) == LoadClock(w) \/ StartClock(w)

Next ==
  \E w \in Workers :
    VendorStep(w) \/ StaffStep(w) \/ DeskStep(w) \/ ClockStep(w) \/ Compare(w) \/ Die(w)

Spec == Init /\ [][Next]_vars

-----------------------------------------------------------------------------

TypeOK ==
  /\ listing \in Listings
  /\ request \in [RequestIds -> Rows]
  /\ written \subseteq RequestIds
  /\ cases \in 0..MaxCases
  /\ task \in [Workers -> Tasks]
  /\ disturbed \in [Disturbances -> 0..MaxDisturbances]

(* An approval carries the findings of the visit it rests on. *)
ApprovedCarriesTheVisit ==
  \A r \in WithStatus({"approved"}) : request[r].findings # 0

(* So it does while no handlers overlap, wherever they die, and findings     *)
(* come from an officer the request was allocated to: decide() asks for the  *)
(* findings on the row it will save, and every handler that takes the        *)
(* officer off a request takes the findings with him.                        *)
ApprovalRestsOnAVisit ==
  Free({"overlap"}) =>
    /\ ApprovedCarriesTheVisit
    /\ \A r \in RequestIds : request[r].findings # 0 => request[r].officer # NoOfficer

(* However the handlers overlap, and whichever columns of whose row a save   *)
(* writes, a request becomes approved only after some visit was written up.  *)
ApprovedWasWrittenUp == WithStatus({"approved"}) \subseteq written

(* A listing customers can see has been approved: the decision is on the     *)
(* request before the listing moves, so a death in between hides an approved *)
(* listing and never shows one nobody approved.                              *)
VisibleWasApproved ==
  Free({"overlap"}) /\ listing.status \in Visible =>
    WithStatus({"approved"}) # {}

(* What is live is the edition an officer wrote up. Left to themselves, the  *)
(* handlers clear the findings whenever the vendor gets the listing back; a  *)
(* support case, a death before markResubmitted or an overlap defeats them.  *)
LiveAsVisited ==
  disturbed = Undisturbed /\ listing.status \in Visible =>
    \E r \in WithStatus({"approved"}) : request[r].findings = listing.edition

(* Nobody waits in no queue: a locked listing has a request somebody can     *)
(* allocate or decide, unless the submission died before it raised one.      *)
LockedListingIsInAQueue ==
  Quiet /\ Free({"overlap", "death"}) /\ listing.status \in Allocatable =>
    Open # {}

(* A business has one open request. *)
RaisedOnce == Cardinality(Open) <= 1

(* Submitting again reuses the open request instead of raising a second one.  *)
(* Two submissions that overlap both find none and raise one each.            *)
OneOpenRequest == Free({"overlap"}) => RaisedOnce

(* The queue and the listing tell the same story between handlers: officers  *)
(* and administrators work only on a locked listing, a refused request goes  *)
(* with a refused listing, and no request is left open behind a listing      *)
(* customers can see.                                                        *)
QueueAgreesWithListing ==
  Quiet /\ disturbed = Undisturbed =>
    /\ WithStatus(Worked) # {} => listing.status \in Allocatable
    /\ WithStatus({"rejected"}) # {} => listing.status = "rejected"
    /\ listing.status \in Visible => Open = {}

(* A refused listing comes back only through the support desk. *)
RefusalIsFinal ==
  [][listing.status = "rejected" /\ listing'.status # "rejected"
       /\ Free({"overlap"})
     => \E w \in Workers : task[w].at = "reopening"]_vars
=============================================================================
