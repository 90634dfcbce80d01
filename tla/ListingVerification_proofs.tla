--------------------- MODULE ListingVerification_proofs ---------------------
(***************************************************************************)
(* Proofs about ListingVerification, for any number of handlers, officers, *)
(* requests, editions, cases and disturbances. However handlers overlap, a *)
(* request is approved only after a visit was written up. While no two     *)
(* overlap an approval carries its findings, a visible listing has been    *)
(* approved, one request is open at a time and a refusal is final; with no *)
(* death either a locked listing is in a queue; and undisturbed the queue  *)
(* and the listing agree, and what is live is what was visited.            *)
(***************************************************************************)
EXTENDS ListingVerification, FiniteSetTheorems, TLAPS

-----------------------------------------------------------------------------
(* The inductive invariant *)

(* What a row says of itself, in the table or in a handler's hands. *)
RowOK(row) ==
  /\ row.status = "approved" => row.findings # 0
  /\ row.findings # 0 => row.officer # NoOfficer

Approved  == WithStatus({"approved"})
Refused   == WithStatus({"rejected"})
Unsettled == RequestIds \ WithStatus({"absent", "approved"})

Alone == \A v, w \in Workers : ~Idle(v) /\ ~Idle(w) => v = w

(* The entity a vendor's handler, or the approval, is about to save. *)
HoldsListing(w) ==
  \/ task[w].at = "loaded" /\ task[w].op \in {"edit", "first_review", "submit"}
  \/ task[w].at = "opening"

(* What a handler knows that runs alone: the request it works on is not     *)
(* settled, an approval in hand is on record once it moves the listing, and *)
(* the listing it saves again was not refused.                              *)
Held(w) ==
  /\ task[w].op \in RequestOps /\ task[w].at \in {"loaded", "marking"} =>
       /\ task[w].of \in Unsettled
       /\ task[w].row.status # "absent"
       /\ task[w].op = "decide" /\ task[w].outcome = "approve" =>
            task[w].row.status = "approved"
  /\ task[w].at = "moving" \/ (task[w].op = "decide" /\ ~Idle(w)) =>
       task[w].outcome \in Outcomes
  /\ task[w].at = "moving" /\ task[w].outcome = "approve" => Approved # {}
  /\ At(w, "decide", "clocking") => task[w].outcome = "revisit"
  /\ task[w].at = "inserting" => Unsettled = {}
  /\ ~Idle(w) /\ task[w].entity.status \in Visible => Approved # {}
  /\ HoldsListing(w) => listing.status # "rejected"

(* What a helper holds that has loaded the row it is to save. *)
Loaded(w) ==
  LET to == Destination(listing.status, task[w].outcome)
      r  == task[w].of
  IN
  /\ task[w].at = "marking" =>
       /\ "in_progress" \in Moves[listing.status]
       /\ task[w].entity = [listing EXCEPT !.status = "in_progress"]
  /\ task[w].at = "moving" =>
       /\ MayMove(listing.status, to)
       /\ task[w].outcome = "revisit" => listing.status = "in_progress"
       /\ task[w].entity = [listing EXCEPT !.status = to]
  /\ task[w].at = "reopening" =>
       /\ listing.status = "rejected"
       /\ task[w].entity = [listing EXCEPT !.status = "reverification_required"]
  /\ task[w].at = "reviving" =>
       /\ r \in Refused
       /\ task[w].row = SentBack(request[r], "additional_review", LastOfficer(request[r]))
  /\ task[w].at = "resubmitting" =>
       /\ r \in RequestIds /\ request[r].status \in Parked
       /\ task[w].row = SentBack(request[r], "new", LastOfficer(request[r]))
  /\ task[w].at = "clocking" => r \in RequestIds /\ task[w].row = request[r]

(* What save() is about to write makes the row the one in hand. *)
Compared(w) ==
  /\ SavesListing(w) => Differing(task[w].entity, listing) \subseteq task[w].changed
  /\ SavesRequest(w) =>
       Differing(task[w].row, request[task[w].of]) \subseteq task[w].changed

Holding(w) == /\ task[w].read # 0 => ~Idle(w) /\ Loaded(w)
              /\ task[w].read = 2 => Compared(w)

Settlement ==
  /\ listing.status \in Visible => Approved # {}
  /\ \A r, q \in Unsettled : r = q

RowsOK == /\ \A r \in RequestIds : RowOK(request[r])
          /\ \A w \in Workers : RowOK(task[w].row)

Serial == /\ Alone /\ Settlement /\ RowsOK
          /\ \A w \in Workers : Held(w) /\ Holding(w)

(* A handler that will read or save the row of a request knows which. *)
Aimed(w) ==
  \/ task[w].op \in RequestOps
  \/ task[w].at \in {"resubmitting", "clocking"}
  \/ task[w].at = "reviving" /\ task[w].read # 0
  => task[w].of \in RequestIds

Typed == TypeOK /\ \A w \in Workers : Aimed(w)

IInv == Typed /\ (Free({"overlap"}) => Serial)

(* While nothing has overlapped. *)
Calm == Typed /\ Serial

-----------------------------------------------------------------------------
(* Types *)

LEMMA NoRowFact == NoRow \in Rows /\ RowOK(NoRow)
BY BoundsAssumption DEF NoRow, Rows, RequestStatuses, RowOK

LEMMA NoTaskFact ==
  /\ NoTask \in Tasks /\ NoTask.at = "idle" /\ NoTask.row = NoRow
  /\ NoTask.entity.status = "draft" /\ NoTask.read = 0 /\ NoTask.op = "none"
  /\ NoTask.changed = {}
<1>1. [status |-> "draft", edition |-> 1] \in Listings
  BY BoundsAssumption DEF Listings, ListingStatuses, Editions
<1> QED BY <1>1, NoRowFact DEF NoTask, Tasks, Steps

(* A save, column by column. *)
LEMMA UpdatedListing ==
  ASSUME NEW row \in Listings, NEW entity \in Listings, NEW columns
  PROVE  /\ Updated(row, entity, columns) \in Listings
         /\ Differing(entity, row) \subseteq columns =>
              Updated(row, entity, columns) = entity
<1> DEFINE status == IF "status" \in columns THEN entity.status ELSE row.status
           edition == IF "edition" \in columns THEN entity.edition ELSE row.edition
           new == [status |-> status, edition |-> edition]
<1>1. DOMAIN row = {"status", "edition"} /\ DOMAIN entity = {"status", "edition"}
  BY DEF Listings
<1>2. Updated(row, entity, columns) = new
  BY <1>1 DEF Updated, Listings
<1>3. status \in ListingStatuses /\ edition \in Editions
  BY DEF Listings
<1>4. ASSUME Differing(entity, row) \subseteq columns PROVE new = entity
  <2>1. status = entity.status /\ edition = entity.edition
    BY <1>1, <1>4 DEF Differing
  <2> QED BY <2>1 DEF Listings
<1> HIDE DEF status, edition
<1>5. new \in Listings
  BY <1>3 DEF Listings
<1> QED BY <1>2, <1>4, <1>5

LEMMA UpdatedRow ==
  ASSUME NEW row \in Rows, NEW entity \in Rows, NEW columns
  PROVE  /\ Updated(row, entity, columns) \in Rows
         /\ Updated(row, entity, columns).status \in {row.status, entity.status}
         /\ Updated(row, entity, columns).findings \in {row.findings, entity.findings}
         /\ Differing(entity, row) \subseteq columns =>
              Updated(row, entity, columns) = entity
<1> DEFINE status == IF "status" \in columns THEN entity.status ELSE row.status
           officer == IF "officer" \in columns THEN entity.officer ELSE row.officer
           previous == IF "previous" \in columns THEN entity.previous ELSE row.previous
           findings == IF "findings" \in columns THEN entity.findings ELSE row.findings
           new == [status |-> status, officer |-> officer, previous |-> previous,
                   findings |-> findings]
<1>1. /\ DOMAIN row = {"status", "officer", "previous", "findings"}
      /\ DOMAIN entity = {"status", "officer", "previous", "findings"}
  BY DEF Rows
<1>2. Updated(row, entity, columns) = new
  BY <1>1 DEF Updated, Rows
<1>3. /\ status \in RequestStatuses /\ officer \in Officers \cup {NoOfficer}
      /\ previous \in Officers \cup {NoOfficer} /\ findings \in 0..MaxEditions
      /\ status \in {row.status, entity.status}
      /\ findings \in {row.findings, entity.findings}
  BY DEF Rows
<1>4. ASSUME Differing(entity, row) \subseteq columns PROVE new = entity
  <2>1. /\ status = entity.status /\ officer = entity.officer
        /\ previous = entity.previous /\ findings = entity.findings
    BY <1>1, <1>4 DEF Differing
  <2> QED BY <2>1 DEF Rows
<1> HIDE DEF status, officer, previous, findings
<1>5. new \in Rows /\ new.status = status /\ new.findings = findings
  BY <1>3 DEF Rows
<1> QED BY <1>2, <1>3, <1>4, <1>5

-----------------------------------------------------------------------------
(* Types: the task of one worker changes *)

TasksTyped == task \in [Workers -> Tasks] /\ \A w \in Workers : Aimed(w)

LEMMA TaskTyped ==
  ASSUME Typed, NEW w \in Workers, NEW t \in Tasks, task' = [task EXCEPT ![w] = t],
         \/ t.op \in RequestOps
         \/ t.at \in {"resubmitting", "clocking"}
         \/ t.at = "reviving" /\ t.read # 0
         => t.of \in RequestIds
  PROVE  TasksTyped'
<1>1. task' \in [Workers -> Tasks] /\ task'[w] = t
      /\ \A v \in Workers : v # w => task'[v] = task[v]
  BY DEF Typed, TypeOK
<1>2. ASSUME NEW v \in Workers PROVE Aimed(v)'
  <2>1. CASE v = w
    BY <1>1, <2>1 DEF Aimed
  <2>2. CASE v # w
    BY <1>1, <2>2 DEF Aimed, Typed
  <2> QED BY <2>1, <2>2
<1> QED BY <1>1, <1>2 DEF TasksTyped

LEMMA FinishTyped == ASSUME Typed, NEW w \in Workers, Finish(w) PROVE TasksTyped'
<1>1. task' = [task EXCEPT ![w] = NoTask]
  BY DEF Finish
<1> QED BY <1>1, NoTaskFact, TaskTyped DEF RequestOps

LEMMA GoToTyped ==
  ASSUME Typed, NEW w \in Workers, NEW step \in Steps, NEW read \in 0..2,
         GoTo(w, step, read), step = "reviving" => read = 0,
         step \in {"resubmitting", "clocking"} => task[w].of \in RequestIds
  PROVE  TasksTyped'
<1> DEFINE t == [task[w] EXCEPT !.at = step, !.read = read, !.changed = {}]
<1>1. task' = [task EXCEPT ![w] = t]
  BY DEF GoTo
<1>2. task[w] \in Tasks /\ Aimed(w)
  BY DEF Typed, TypeOK
<1>3. /\ t \in Tasks /\ t.op = task[w].op /\ t.at = step /\ t.read = read
      /\ t.of = task[w].of
  BY <1>2 DEF Tasks
<1> HIDE DEF t
<1> QED BY <1>1, <1>2, <1>3, TaskTyped DEF Aimed

LEMMA AnsweredTyped ==
  ASSUME Typed, NEW w \in Workers, NEW step \in {"resubmitting", "clocking"},
         NEW r \in RequestIds, Answered(w, step, r)
  PROVE  TasksTyped'
<1> DEFINE t == [task[w] EXCEPT !.at = step, !.of = r, !.read = 0, !.changed = {}]
<1>1. task' = [task EXCEPT ![w] = t]
  BY DEF Answered
<1>2. task[w] \in Tasks
  BY DEF Typed, TypeOK
<1>3. step \in Steps /\ 0 \in 0..2 /\ r \in RequestIds \cup {0}
  BY DEF Steps
<1>4. t \in Tasks
  <2>1. \A q \in Tasks : [q EXCEPT !.at = step, !.of = r, !.read = 0, !.changed = {}] \in Tasks
    BY <1>2, <1>3 DEF Tasks
  <2> QED BY <1>2, <1>3, <2>1
<1>5. t.of = r
  BY <1>2 DEF Tasks
<1> HIDE DEF t
<1> QED BY <1>1, <1>4, <1>5, TaskTyped

LEMMA WalkTyped ==
  ASSUME Typed, NEW w \in Workers, NEW step \in {"loaded", "opening"},
         NEW status \in ListingStatuses, Walk(w, step, status)
  PROVE  TasksTyped'
<1> DEFINE t == [task[w] EXCEPT !.at = step, !.read = 1, !.changed = {},
                                !.entity.status = status]
           entity == [task[w].entity EXCEPT !.status = status]
<1>1. task' = [task EXCEPT ![w] = t]
  BY DEF Walk
<1>2. task[w] \in Tasks /\ Aimed(w) /\ task[w].entity \in Listings
  BY DEF Typed, TypeOK, Tasks
<1>3. entity \in Listings
  BY <1>2 DEF Listings
<1>4. t = [task[w] EXCEPT !.at = step, !.read = 1, !.changed = {}, !.entity = entity]
  BY <1>2 DEF Tasks
<1> HIDE DEF entity
<1>5. step \in Steps /\ 1 \in 0..2 /\ {} \in SUBSET Columns
  BY DEF Steps
<1>6. t \in Tasks
  <2>1. \A q \in Tasks : [q EXCEPT !.at = step, !.read = 1, !.changed = {}, !.entity = entity] \in Tasks
    BY <1>2, <1>3, <1>4, <1>5 DEF Tasks
  <2> QED BY <1>2, <1>3, <1>4, <1>5, <2>1
<1>7. t.op = task[w].op /\ t.at = step /\ t.of = task[w].of
  BY <1>2, <1>4 DEF Tasks
<1> HIDE DEF t
<1> QED BY <1>1, <1>2, <1>6, <1>7, TaskTyped DEF Aimed

LEMMA HoldListingTyped ==
  ASSUME Typed, NEW w \in Workers, NEW status \in ListingStatuses, HoldListing(w, status),
         task[w].at # "reviving"
  PROVE  TasksTyped'
<1> DEFINE entity == [listing EXCEPT !.status = status]
           t == [task[w] EXCEPT !.read = 1, !.entity = entity]
<1>1. task' = [task EXCEPT ![w] = t]
  BY DEF HoldListing
<1>2. task[w] \in Tasks /\ Aimed(w)
  BY DEF Typed, TypeOK
<1>3. entity \in Listings
  BY DEF Typed, TypeOK, Listings
<1> HIDE DEF entity
<1>4. t \in Tasks
  <2>1. 1 \in 0..2
    OBVIOUS
  <2>2. \A q \in Tasks : [q EXCEPT !.read = 1, !.entity = entity] \in Tasks
    BY <2>1, <1>3 DEF Tasks
  <2> QED BY <1>2, <2>2
<1>5. t.op = task[w].op /\ t.at = task[w].at /\ t.of = task[w].of
  BY <1>2 DEF Tasks
<1> HIDE DEF t
<1> QED BY <1>1, <1>2, <1>4, <1>5, TaskTyped DEF Aimed

LEMMA HoldRequestTyped ==
  ASSUME Typed, NEW w \in Workers, NEW r \in RequestIds, NEW row \in Rows,
         HoldRequest(w, r, row)
  PROVE  TasksTyped'
<1> DEFINE t == [task[w] EXCEPT !.read = 1, !.of = r, !.row = row]
<1>1. task' = [task EXCEPT ![w] = t]
  BY DEF HoldRequest
<1>2. task[w] \in Tasks
  BY DEF Typed, TypeOK
<1>3. t \in Tasks
  <2>1. 1 \in 0..2 /\ r \in RequestIds \cup {0}
    OBVIOUS
  <2>2. \A q \in Tasks : [q EXCEPT !.read = 1, !.of = r, !.row = row] \in Tasks
    BY <2>1 DEF Tasks
  <2> QED BY <1>2, <2>2
<1>4. t.of = r
  BY <1>2 DEF Tasks
<1> HIDE DEF t
<1> QED BY <1>1, <1>3, <1>4, TaskTyped

LEMMA CompareTyped == ASSUME Typed, NEW w \in Workers, Compare(w) PROVE TasksTyped'
<1> DEFINE found == IF SavesListing(w) THEN Differing(task[w].entity, listing)
                    ELSE Differing(task[w].row, request[task[w].of])
<1>0. PICK fresh \in SUBSET {"findings"} :
        task' = [task EXCEPT ![w] = [@ EXCEPT !.read = 2, !.changed = found \cup fresh]]
  BY DEF Compare
<1> DEFINE changed == found \cup fresh
           t == [task[w] EXCEPT !.read = 2, !.changed = changed]
<1>1. task' = [task EXCEPT ![w] = t] /\ task[w].read = 1
  BY <1>0 DEF Compare
<1>2. task[w] \in Tasks /\ Aimed(w)
  BY DEF Typed, TypeOK
<1>3. changed \subseteq Columns
  <2>1. Differing(task[w].entity, listing) \subseteq Columns
    BY <1>2 DEF Differing, Columns, Tasks, Listings
  <2>2. Differing(task[w].row, request[task[w].of]) \subseteq Columns
    BY <1>2 DEF Differing, Columns, Tasks, Rows
  <2> QED BY <2>1, <2>2 DEF Columns
<1> HIDE DEF changed
<1>4. t \in Tasks
  <2>1. 2 \in 0..2 /\ changed \in SUBSET Columns
    BY <1>3
  <2>2. \A q \in Tasks : [q EXCEPT !.read = 2, !.changed = changed] \in Tasks
    BY <2>1 DEF Tasks
  <2> QED BY <1>2, <2>2
<1>5. t.op = task[w].op /\ t.at = task[w].at /\ t.of = task[w].of /\ t.read = 2
  BY <1>2 DEF Tasks
<1> HIDE DEF t
<1>6. task[w].at = "reviving" /\ task[w].op \notin RequestOps => task[w].of \in RequestIds
  BY <1>1, <1>2 DEF Aimed
<1> QED BY <1>1, <1>2, <1>4, <1>5, <1>6, TaskTyped DEF Aimed

LEMMA BeginOnListingTyped ==
  ASSUME Typed, NEW w \in Workers, NEW op \in {"edit", "first_review", "submit"},
         NEW entity \in Listings, BeginOnListing(w, op, entity)
  PROVE  TasksTyped'
<1> DEFINE t == [NoTask EXCEPT !.op = op, !.at = "loaded", !.entity = entity, !.read = 1]
<1>1. task' = [task EXCEPT ![w] = t]
  BY DEF BeginOnListing, Begin
<1>2. op \in Ops /\ "loaded" \in Steps /\ 1 \in 0..2
  BY DEF Ops, Steps
<1>3. t \in Tasks
  <2>1. \A q \in Tasks : [q EXCEPT !.op = op, !.at = "loaded", !.entity = entity, !.read = 1] \in Tasks
    BY <1>2 DEF Tasks
  <2> QED BY <1>2, NoTaskFact, <2>1
<1>4. t.op = op /\ t.at = "loaded"
  BY NoTaskFact DEF Tasks
<1> HIDE DEF t
<1> QED BY <1>1, <1>3, <1>4, TaskTyped DEF RequestOps

LEMMA BeginOnRequestTyped ==
  ASSUME Typed, NEW w \in Workers, NEW op \in RequestOps, NEW step \in {"loaded", "marking"},
         NEW outcome \in Outcomes \cup {"none"}, NEW r \in RequestIds, NEW row \in Rows,
         BeginOnRequest(w, op, step, outcome, r, row)
  PROVE  TasksTyped'
<1> DEFINE read == IF step = "loaded" THEN 1 ELSE 0
           t == [NoTask EXCEPT !.op = op, !.at = step, !.outcome = outcome, !.of = r,
                               !.row = row, !.read = read]
<1>1. task' = [task EXCEPT ![w] = t]
  BY DEF BeginOnRequest, Begin
<1>2. read \in 0..2
  OBVIOUS
<1> HIDE DEF read
<1>3. op \in Ops /\ step \in Steps /\ r \in RequestIds \cup {0}
  BY DEF Ops, RequestOps, Steps
<1>4. t \in Tasks
  <2>1. \A q \in Tasks : [q EXCEPT !.op = op, !.at = step, !.outcome = outcome, !.of = r, !.row = row, !.read = read] \in Tasks
    BY <1>2, <1>3 DEF Tasks
  <2> QED BY <1>2, <1>3, NoTaskFact, <2>1
<1>5. t.of = r
  BY NoTaskFact DEF Tasks
<1> HIDE DEF t
<1> QED BY <1>1, <1>4, <1>5, TaskTyped

LEMMA BeginCaseTyped ==
  ASSUME Typed, NEW w \in Workers, NEW op \in {"unlock", "grant"},
         NEW step \in {"reopening", "moving"}, NEW outcome \in {"none", "issue", "correct"},
         BeginCase(w, op, step, outcome)
  PROVE  TasksTyped'
<1> DEFINE t == [NoTask EXCEPT !.op = op, !.at = step, !.outcome = outcome]
<1>1. task' = [task EXCEPT ![w] = t]
  BY DEF BeginCase
<1>2. op \in Ops /\ step \in Steps /\ outcome \in Outcomes \cup {"none"}
  BY DEF Ops, Steps, Outcomes
<1>3. t \in Tasks
  <2>1. \A q \in Tasks : [q EXCEPT !.op = op, !.at = step, !.outcome = outcome] \in Tasks
    BY <1>2 DEF Tasks
  <2> QED BY <1>2, NoTaskFact, <2>1
<1>4. t.op = op /\ t.at = step
  BY NoTaskFact DEF Tasks
<1> HIDE DEF t
<1> QED BY <1>1, <1>3, <1>4, TaskTyped DEF RequestOps

-----------------------------------------------------------------------------
(* Types: the steps *)

LEMMA DisturbType ==
  ASSUME TypeOK, NEW kinds, Disturb(kinds)
  PROVE  /\ disturbed' \in [Disturbances -> 0..MaxDisturbances]
         /\ disturbed'["overlap"] = 0 =>
              disturbed["overlap"] = 0 /\ "overlap" \notin kinds
<1>1. disturbed \in [Disturbances -> Nat]
  BY BoundsAssumption DEF TypeOK
<1>2. disturbed' = [d \in Disturbances |->
                     IF d \in kinds THEN disturbed[d] + 1 ELSE disturbed[d]]
  BY DEF Disturb
<1>3. disturbed' \in [Disturbances -> Nat]
  BY <1>1, <1>2
<1>4. disturbed'["overlap"] + disturbed'["death"] + disturbed'["case"] <= MaxDisturbances
  BY DEF Disturb
<1>5. \A d \in Disturbances : disturbed'[d] \in 0..MaxDisturbances
  BY <1>3, <1>4, BoundsAssumption DEF Disturbances
<1>6. "overlap" \in Disturbances
  BY DEF Disturbances
<1> QED BY <1>1, <1>2, <1>3, <1>5, <1>6

(* What a handler holds, and which request it is about. *)
LEMMA TaskFact ==
  ASSUME Typed, NEW w \in Workers
  PROVE  /\ task[w] \in Tasks /\ Aimed(w)
         /\ task[w].entity \in Listings /\ task[w].row \in Rows
         /\ task[w].of \in RequestIds \cup {0} /\ task[w].outcome \in Outcomes \cup {"none"}
         /\ task[w].read \in 0..2 /\ task[w].changed \in SUBSET Columns
BY DEF Typed, TypeOK, Tasks

LEMMA TableFact ==
  ASSUME Typed
  PROVE  /\ listing \in Listings /\ listing.status \in ListingStatuses
         /\ listing.edition \in Editions
         /\ request \in [RequestIds -> Rows]
         /\ \A r \in RequestIds : request[r] \in Rows
BY DEF Typed, TypeOK, Listings

(* The tables and the counters of a step; the tasks are typed above. *)
TablesTyped ==
  /\ listing \in Listings /\ request \in [RequestIds -> Rows]
  /\ written \subseteq RequestIds /\ cases \in 0..MaxCases
  /\ disturbed \in [Disturbances -> 0..MaxDisturbances]

LEMMA TypedParts == ASSUME TablesTyped', TasksTyped' PROVE Typed'
BY DEF TablesTyped, TasksTyped, Typed, TypeOK

LEMMA TablesStay ==
  ASSUME Typed, UNCHANGED <<listing, request, written, cases, disturbed>>
  PROVE  TablesTyped'
BY DEF TablesTyped, Typed, TypeOK

LEMMA WriteListingTyped ==
  ASSUME Typed, NEW w \in Workers, WriteListing(w) PROVE TablesTyped'
<1>1. listing' \in Listings
  BY TaskFact, TableFact, UpdatedListing DEF WriteListing
<1> QED BY <1>1 DEF TablesTyped, Typed, TypeOK, WriteListing

LEMMA RequestWritten ==
  ASSUME Typed, NEW w \in Workers, WriteRequest(w), task[w].of \in RequestIds
  PROVE  /\ request' \in [RequestIds -> Rows]
         /\ request'[task[w].of] =
              Updated(request[task[w].of], task[w].row, task[w].changed)
         /\ \A q \in RequestIds \ {task[w].of} : request'[q] = request[q]
<1> DEFINE r == task[w].of
           row == Updated(request[r], task[w].row, task[w].changed)
<1>1. request \in [RequestIds -> Rows] /\ request[r] \in Rows /\ task[w].row \in Rows
  BY TaskFact, TableFact
<1>2. row \in Rows
  BY <1>1, UpdatedRow
<1>3. request' = [request EXCEPT ![r] = row]
  BY DEF WriteRequest
<1> HIDE DEF row
<1>4. /\ request' \in [RequestIds -> Rows] /\ request'[r] = row
      /\ \A q \in RequestIds \ {r} : request'[q] = request[q]
  BY <1>1, <1>2, <1>3
<1> QED BY <1>4 DEF row

LEMMA WriteRequestTyped ==
  ASSUME Typed, NEW w \in Workers, WriteRequest(w), task[w].of \in RequestIds,
         written' \subseteq RequestIds
  PROVE  TablesTyped'
<1>1. request' \in [RequestIds -> Rows]
  BY RequestWritten
<1> QED BY <1>1 DEF TablesTyped, Typed, TypeOK, WriteRequest

LEMMA BeginTablesTyped ==
  ASSUME Typed, NEW kinds, Disturb(kinds), UNCHANGED <<listing, request, written>>,
         cases' \in 0..MaxCases
  PROVE  TablesTyped'
<1>1. disturbed' \in [Disturbances -> 0..MaxDisturbances]
  BY DisturbType DEF Typed
<1> QED BY <1>1 DEF TablesTyped, Typed, TypeOK

LEMMA BeginOnListingTypes ==
  ASSUME Typed, NEW w \in Workers, NEW op \in {"edit", "first_review", "submit"},
         NEW entity \in Listings, BeginOnListing(w, op, entity), UNCHANGED cases
  PROVE  Typed'
<1>1. TasksTyped'
  BY BeginOnListingTyped
<1>2. Disturb(Overlapping(w)) /\ UNCHANGED <<listing, request, written>>
  BY DEF BeginOnListing, Begin
<1>3. cases' \in 0..MaxCases
  BY DEF Typed, TypeOK
<1> QED BY <1>1, <1>2, <1>3, BeginTablesTyped, TypedParts

LEMMA BeginOnRequestTypes ==
  ASSUME Typed, NEW w \in Workers, NEW op \in RequestOps, NEW step \in {"loaded", "marking"},
         NEW outcome \in Outcomes \cup {"none"}, NEW r \in RequestIds, NEW row \in Rows,
         BeginOnRequest(w, op, step, outcome, r, row), UNCHANGED cases
  PROVE  Typed'
<1>1. TasksTyped'
  BY BeginOnRequestTyped
<1>2. Disturb(Overlapping(w)) /\ UNCHANGED <<listing, request, written>>
  BY DEF BeginOnRequest, Begin
<1>3. cases' \in 0..MaxCases
  BY DEF Typed, TypeOK
<1> QED BY <1>1, <1>2, <1>3, BeginTablesTyped, TypedParts

(* The rows the handlers hold to save. *)
LEMMA NewRowFact == NewRow \in Rows /\ RowOK(NewRow) /\ NewRow.status = "new"
                    /\ NewRow.findings = 0
<1>1. NewRow.status = "new" /\ NewRow.findings = 0 /\ NewRow \in Rows
  BY NoRowFact DEF NewRow, NoRow, Rows, RequestStatuses, OpenStatuses
<1> QED BY <1>1 DEF RowOK

LEMMA SentBackFact ==
  ASSUME NEW row \in Rows, NEW status \in {"new", "additional_review"},
         NEW previous \in Officers \cup {NoOfficer}
  PROVE  /\ SentBack(row, status, previous) \in Rows
         /\ RowOK(SentBack(row, status, previous))
         /\ SentBack(row, status, previous).status = status
         /\ SentBack(row, status, previous).findings = 0
BY BoundsAssumption DEF SentBack, Rows, RowOK, RequestStatuses, OpenStatuses, Parked

LEMMA LastOfficerType ==
  ASSUME NEW row \in Rows PROVE LastOfficer(row) \in Officers \cup {NoOfficer}
BY DEF LastOfficer, Rows

LEMMA DecidedType ==
  ASSUME NEW row \in Rows, NEW outcome \in Outcomes
  PROVE  Decided(row, outcome) \in Rows
<1>1. ASSUME NEW status \in {"approved", "rejected", "issue"}
      PROVE  [row EXCEPT !.status = status] \in Rows
  BY <1>1 DEF Rows, RequestStatuses, OpenStatuses, Parked
<1>2. row.officer \in Officers \cup {NoOfficer}
  BY DEF Rows
<1>3. /\ SentBack(row, "additional_review", row.officer) \in Rows
      /\ SentBack(row, "additional_review", LastOfficer(row)) \in Rows
  BY <1>2, SentBackFact, LastOfficerType
<1> QED BY <1>1, <1>3 DEF Decided, Outcomes

LEMMA VendorTyped == ASSUME Typed, NEW w \in Workers, VendorStep(w) PROVE Typed'
<1>1. CASE BeginEdit(w)
  <2> DEFINE entity == [listing EXCEPT !.edition = @ + 1]
  <2>1. CASE listing.edition < MaxEditions /\ BeginOnListing(w, "edit", entity)
    <3>1. entity \in Listings
      BY <2>1, TableFact, BoundsAssumption DEF Listings, Editions
    <3> HIDE DEF entity
    <3> QED BY <1>1, <2>1, <3>1, BeginOnListingTypes DEF BeginEdit
  <2>2. CASE BeginOnListing(w, "edit", listing)
    BY <1>1, <2>2, TableFact, BeginOnListingTypes DEF BeginEdit
  <2> QED BY <1>1, <2>1, <2>2 DEF BeginEdit
<1>2. CASE BeginFirstReview(w)
  <2> DEFINE entity == [listing EXCEPT !.status =
                          IF @ = "draft" THEN "ready_for_review" ELSE "first_review"]
  <2>1. entity \in Listings
    BY TableFact DEF Listings, ListingStatuses
  <2>2. BeginOnListing(w, "first_review", entity) /\ UNCHANGED cases
    BY <1>2 DEF BeginFirstReview
  <2> HIDE DEF entity
  <2> QED BY <2>1, <2>2, BeginOnListingTypes
<1>3. CASE BeginSubmit(w)
  <2> DEFINE entity == [listing EXCEPT !.status =
                IF @ = "first_review" THEN "pending_verification" ELSE "first_review"]
  <2>1. entity \in Listings
    BY TableFact DEF Listings, ListingStatuses
  <2>2. BeginOnListing(w, "submit", entity) /\ UNCHANGED cases
    BY <1>3 DEF BeginSubmit
  <2> HIDE DEF entity
  <2> QED BY <2>1, <2>2, BeginOnListingTypes
<1>4. CASE SaveEdit(w) \/ SaveFirstReview(w) \/ SaveSubmit(w)
  <2>1. TablesTyped'
    BY <1>4, WriteListingTyped DEF SaveEdit, SaveFirstReview, SaveSubmit
  <2>2. \/ Finish(w)
        \/ Walk(w, "loaded", "first_review") \/ Walk(w, "loaded", "pending_verification")
        \/ GoTo(w, "raising", 0)
    BY <1>4 DEF SaveEdit, SaveFirstReview, SaveSubmit
  <2>3. TasksTyped'
    <3>1. "raising" \in Steps /\ 0 \in 0..2
          /\ {"first_review", "pending_verification"} \subseteq ListingStatuses
      BY DEF Steps, ListingStatuses
    <3> QED BY <2>2, <3>1, FinishTyped, WalkTyped, GoToTyped
  <2> QED BY <2>1, <2>3, TypedParts
<1>5. CASE Raise(w)
  <2>1. TablesTyped'
    BY <1>5, TablesStay DEF Raise, OnlyTasks
  <2>2. TasksTyped'
    <3>1. ASSUME NEW r \in Open,
            Answered(w, IF request[r].status \in Parked THEN "resubmitting" ELSE "clocking", r)
          PROVE  TasksTyped'
      BY <3>1, AnsweredTyped DEF Open, WithStatus
    <3>2. CASE GoTo(w, "inserting", 0)
      <4>1. "inserting" \in Steps /\ 0 \in 0..2
        BY DEF Steps
      <4> QED BY <3>2, <4>1, GoToTyped
    <3> QED BY <1>5, <3>1, <3>2, FinishTyped DEF Raise
  <2> QED BY <2>1, <2>2, TypedParts
<1>6. CASE InsertRequest(w)
  <2>1. PICK r \in WithStatus({"absent"}) :
          request' = [request EXCEPT ![r] = NewRow] /\ Answered(w, "clocking", r)
    BY <1>6 DEF InsertRequest
  <2>2. r \in RequestIds
    BY DEF WithStatus
  <2>3. request' \in [RequestIds -> Rows]
    BY <2>1, <2>2, TableFact, NewRowFact
  <2>4. TablesTyped'
    BY <1>6, <2>3 DEF InsertRequest, TablesTyped, Typed, TypeOK
  <2> QED BY <2>1, <2>2, <2>4, AnsweredTyped, TypedParts
<1>7. CASE LoadResubmitted(w)
  <2> DEFINE r == task[w].of
             row == SentBack(request[r], "new", LastOfficer(request[r]))
  <2>1. r \in RequestIds /\ task[w].at = "resubmitting"
    BY <1>7, TaskFact DEF LoadResubmitted, At, Aimed
  <2>2. row \in Rows
    BY <2>1, TableFact, SentBackFact, LastOfficerType
  <2>3. HoldRequest(w, r, row) \/ GoTo(w, "clocking", 0)
    BY <1>7 DEF LoadResubmitted
  <2>4. "clocking" \in Steps /\ 0 \in 0..2
    BY DEF Steps
  <2> HIDE DEF row
  <2>5. TasksTyped'
    BY <2>1, <2>2, <2>3, <2>4, HoldRequestTyped, GoToTyped
  <2> QED BY <1>7, <2>5, TablesStay, TypedParts DEF LoadResubmitted, OnlyTasks
<1>8. CASE MarkResubmitted(w)
  <2>1. task[w].of \in RequestIds
    BY <1>8, TaskFact DEF MarkResubmitted, At, Aimed
  <2>2. "clocking" \in Steps /\ 0 \in 0..2
    BY DEF Steps
  <2>3. TasksTyped'
    BY <1>8, <2>1, <2>2, GoToTyped DEF MarkResubmitted
  <2>4. written' \subseteq RequestIds
    BY <1>8 DEF MarkResubmitted, Typed, TypeOK
  <2> QED BY <1>8, <2>1, <2>3, <2>4, WriteRequestTyped, TypedParts DEF MarkResubmitted
<1> QED BY <1>1, <1>2, <1>3, <1>4, <1>5, <1>6, <1>7, <1>8 DEF VendorStep

LEMMA StaffTyped == ASSUME Typed, NEW w \in Workers, StaffStep(w) PROVE Typed'
<1>1. CASE BeginStart(w)
  <2>1. PICK r \in WithStatus({"assigned", "additional_review"}) :
          BeginOnRequest(w, "start", "marking", "none", r,
            [request[r] EXCEPT !.status = "in_progress"])
    BY <1>1 DEF BeginStart
  <2> DEFINE row == [request[r] EXCEPT !.status = "in_progress"]
  <2>2. r \in RequestIds
    BY DEF WithStatus
  <2>3. row \in Rows
    BY <2>2, TableFact DEF Rows, RequestStatuses, OpenStatuses, Worked
  <2>4. BeginOnRequest(w, "start", "marking", "none", r, row) /\ UNCHANGED cases
    BY <1>1, <2>1 DEF BeginStart
  <2> HIDE DEF row
  <2> QED BY <2>2, <2>3, <2>4, BeginOnRequestTypes DEF RequestOps
<1>2. CASE BeginFindings(w)
  <2>1. PICK r \in WithStatus({"assigned", "in_progress", "additional_review"}) :
          BeginOnRequest(w, "findings", "loaded", "none", r,
            [request[r] EXCEPT !.status = "submitted", !.findings = listing.edition])
    BY <1>2 DEF BeginFindings
  <2> DEFINE row == [request[r] EXCEPT !.status = "submitted", !.findings = listing.edition]
  <2>2. r \in RequestIds
    BY DEF WithStatus
  <2>3. listing.edition \in 0..MaxEditions
    BY TableFact, BoundsAssumption DEF Editions
  <2>4. row \in Rows
    BY <2>2, <2>3, TableFact DEF Rows, RequestStatuses, OpenStatuses, Worked
  <2>5. BeginOnRequest(w, "findings", "loaded", "none", r, row) /\ UNCHANGED cases
    BY <1>2, <2>1 DEF BeginFindings
  <2> HIDE DEF row
  <2> QED BY <2>2, <2>4, <2>5, BeginOnRequestTypes DEF RequestOps
<1>3. CASE BeginReview(w)
  <2>1. PICK r \in WithStatus({"submitted"}) :
          BeginOnRequest(w, "review", "loaded", "none", r,
            [request[r] EXCEPT !.status = "admin_review"])
    BY <1>3 DEF BeginReview
  <2> DEFINE row == [request[r] EXCEPT !.status = "admin_review"]
  <2>2. r \in RequestIds
    BY DEF WithStatus
  <2>3. row \in Rows
    BY <2>2, TableFact DEF Rows, RequestStatuses, OpenStatuses, Worked
  <2>4. BeginOnRequest(w, "review", "loaded", "none", r, row) /\ UNCHANGED cases
    BY <1>3, <2>1 DEF BeginReview
  <2> HIDE DEF row
  <2> QED BY <2>2, <2>3, <2>4, BeginOnRequestTypes DEF RequestOps
<1>4. CASE BeginAllocate(w)
  <2>1. PICK r \in Raised \ WithStatus({"approved"}), o \in Officers :
          BeginOnRequest(w, "allocate", "loaded", "none", r,
            [request[r] EXCEPT !.officer = o, !.previous = NoOfficer, !.status = "assigned"])
    BY <1>4 DEF BeginAllocate
  <2> DEFINE row == [request[r] EXCEPT !.officer = o, !.previous = NoOfficer,
                                       !.status = "assigned"]
  <2>2. r \in RequestIds
    BY DEF Raised
  <2>3. row \in Rows
    BY <2>2, TableFact DEF Rows, RequestStatuses, OpenStatuses, Worked
  <2>4. BeginOnRequest(w, "allocate", "loaded", "none", r, row) /\ UNCHANGED cases
    BY <1>4, <2>1 DEF BeginAllocate
  <2> HIDE DEF row
  <2> QED BY <2>2, <2>3, <2>4, BeginOnRequestTypes DEF RequestOps
<1>5. CASE BeginDecide(w)
  <2>1. PICK r \in Raised \ WithStatus({"approved"}), outcome \in Outcomes :
          BeginOnRequest(w, "decide", "loaded", outcome, r, Decided(request[r], outcome))
    BY <1>5 DEF BeginDecide
  <2> DEFINE row == Decided(request[r], outcome)
  <2>2. r \in RequestIds
    BY DEF Raised
  <2>3. row \in Rows
    BY <2>2, TableFact, DecidedType
  <2>4. BeginOnRequest(w, "decide", "loaded", outcome, r, row) /\ UNCHANGED cases
    BY <1>5, <2>1 DEF BeginDecide
  <2> HIDE DEF row
  <2> QED BY <2>2, <2>3, <2>4, BeginOnRequestTypes DEF RequestOps
<1>6. CASE LoadInProgress(w)
  <2>1. {"in_progress"} \subseteq ListingStatuses /\ "loaded" \in Steps /\ 1 \in 0..2
    BY DEF ListingStatuses, Steps
  <2>2. HoldListing(w, "in_progress") \/ GoTo(w, "loaded", 1)
    BY <1>6 DEF LoadInProgress
  <2>3. task[w].at # "reviving"
    BY <1>6 DEF LoadInProgress, At
  <2>4. TasksTyped'
    BY <2>1, <2>2, <2>3, HoldListingTyped, GoToTyped
  <2> QED BY <1>6, <2>4, TablesStay, TypedParts DEF LoadInProgress, OnlyTasks
<1>7. CASE MarkInProgress(w)
  <2>1. "loaded" \in Steps /\ 1 \in 0..2
    BY DEF Steps
  <2>2. TasksTyped'
    BY <1>7, <2>1, GoToTyped DEF MarkInProgress
  <2> QED BY <1>7, <2>2, WriteListingTyped, TypedParts DEF MarkInProgress
<1>8. CASE SaveRequest(w)
  <2>1. task[w].of \in RequestIds
    BY <1>8, TaskFact DEF SaveRequest, Aimed
  <2>2. "clocking" \in Steps /\ "moving" \in Steps /\ 0 \in 0..2
    BY DEF Steps
  <2>3. Finish(w) \/ GoTo(w, "clocking", 0) \/ GoTo(w, "moving", 0)
    BY <1>8 DEF SaveRequest
  <2>4. TasksTyped'
    BY <2>1, <2>2, <2>3, GoToTyped, FinishTyped
  <2>5. written' \subseteq RequestIds
    BY <1>8, <2>1 DEF SaveRequest, Typed, TypeOK
  <2> QED BY <1>8, <2>1, <2>4, <2>5, WriteRequestTyped, TypedParts DEF SaveRequest
<1>9. CASE LoadMove(w)
  <2> DEFINE to == Destination(listing.status, task[w].outcome)
  <2>1. (MayMove(listing.status, to) /\ HoldListing(w, to)) \/ Finish(w)
    BY <1>9 DEF LoadMove
  <2>2. MayMove(listing.status, to) => to \in ListingStatuses
    <3> HIDE DEF to
    <3> QED BY TableFact DEF MayMove, Moves, ListingStatuses
  <2>3. task[w].at # "reviving"
    BY <1>9 DEF LoadMove
  <2> HIDE DEF to
  <2>4. TasksTyped'
    BY <2>1, <2>2, <2>3, HoldListingTyped, FinishTyped
  <2> QED BY <1>9, <2>4, TablesStay, TypedParts DEF LoadMove, OnlyTasks
<1>10. CASE MoveListing(w) \/ GoLive(w)
  <2>1. "live" \in ListingStatuses
    BY DEF ListingStatuses
  <2>2. Finish(w) \/ Walk(w, "opening", "live")
    BY <1>10 DEF MoveListing, GoLive
  <2>3. TasksTyped'
    BY <2>1, <2>2, FinishTyped, WalkTyped
  <2>4. TablesTyped'
    BY <1>10, WriteListingTyped DEF MoveListing, GoLive
  <2> QED BY <2>3, <2>4, TypedParts
<1> QED BY <1>1, <1>2, <1>3, <1>4, <1>5, <1>6, <1>7, <1>8, <1>9, <1>10 DEF StaffStep

LEMMA BeginCaseTypes ==
  ASSUME Typed, NEW w \in Workers, NEW op \in {"unlock", "grant"},
         NEW step \in {"reopening", "moving"}, NEW outcome \in {"none", "issue", "correct"},
         BeginCase(w, op, step, outcome)
  PROVE  Typed'
<1>1. Disturb(Overlapping(w) \cup Underneath) /\ UNCHANGED <<listing, request, written>>
  BY DEF BeginCase
<1>2. cases' \in 0..MaxCases
  BY BoundsAssumption DEF BeginCase, Typed, TypeOK
<1> QED BY <1>1, <1>2, BeginCaseTyped, BeginTablesTyped, TypedParts

LEMMA DeskTyped == ASSUME Typed, NEW w \in Workers, DeskStep(w) PROVE Typed'
<1>1. CASE BeginUnlock(w) \/ BeginGrant(w)
  BY <1>1, BeginCaseTypes DEF BeginUnlock, BeginGrant
<1>2. CASE LoadRejected(w)
  <2>1. "reverification_required" \in ListingStatuses /\ "reviving" \in Steps /\ 0 \in 0..2
    BY DEF ListingStatuses, Steps
  <2>2. HoldListing(w, "reverification_required") \/ GoTo(w, "reviving", 0)
    BY <1>2 DEF LoadRejected
  <2>3. task[w].at # "reviving"
    BY <1>2 DEF LoadRejected
  <2>4. TasksTyped'
    BY <2>1, <2>2, <2>3, HoldListingTyped, GoToTyped
  <2> QED BY <1>2, <2>4, TablesStay, TypedParts DEF LoadRejected, OnlyTasks
<1>3. CASE ReopenListing(w)
  <2>1. "reviving" \in Steps /\ 0 \in 0..2
    BY DEF Steps
  <2>2. TasksTyped'
    BY <1>3, <2>1, GoToTyped DEF ReopenListing
  <2> QED BY <1>3, <2>2, WriteListingTyped, TypedParts DEF ReopenListing
<1>4. CASE LoadRefused(w)
  <2>1. ASSUME NEW r \in WithStatus({"rejected"}),
               HoldRequest(w, r, SentBack(request[r], "additional_review",
                                          LastOfficer(request[r])))
        PROVE  TasksTyped'
    <3> DEFINE row == SentBack(request[r], "additional_review", LastOfficer(request[r]))
    <3>1. r \in RequestIds
      BY DEF WithStatus
    <3>2. row \in Rows
      BY <3>1, TableFact, SentBackFact, LastOfficerType
    <3>3. HoldRequest(w, r, row)
      BY <2>1
    <3> HIDE DEF row
    <3> QED BY <3>1, <3>2, <3>3, HoldRequestTyped
  <2>2. TasksTyped'
    BY <1>4, <2>1, FinishTyped DEF LoadRefused
  <2> QED BY <1>4, <2>2, TablesStay, TypedParts DEF LoadRefused, OnlyTasks
<1>5. CASE ReviveRequest(w)
  <2>1. task[w].of \in RequestIds
    BY <1>5, TaskFact DEF ReviveRequest, WriteRequest, Aimed
  <2>2. written' \subseteq RequestIds
    BY <1>5 DEF ReviveRequest, Typed, TypeOK
  <2> QED BY <1>5, <2>1, <2>2, FinishTyped, WriteRequestTyped, TypedParts DEF ReviveRequest
<1> QED BY <1>1, <1>2, <1>3, <1>4, <1>5 DEF DeskStep

LEMMA ClockTyped == ASSUME Typed, NEW w \in Workers, ClockStep(w) PROVE Typed'
<1>1. task[w].of \in RequestIds
  BY TaskFact DEF ClockStep, LoadClock, StartClock, Aimed
<1>2. "moving" \in Steps /\ 0 \in 0..2 /\ request[task[w].of] \in Rows
  BY <1>1, TableFact DEF Steps
<1>3. AfterClock(w) => TasksTyped'
  BY <1>2, GoToTyped, FinishTyped DEF AfterClock
<1>4. CASE LoadClock(w)
  <2>1. TasksTyped'
    BY <1>1, <1>2, <1>3, <1>4, HoldRequestTyped DEF LoadClock
  <2> QED BY <1>4, <2>1, TablesStay, TypedParts DEF LoadClock, OnlyTasks
<1>5. CASE StartClock(w)
  <2>1. written' \subseteq RequestIds
    BY <1>5 DEF StartClock, Typed, TypeOK
  <2> QED BY <1>1, <1>3, <1>5, <2>1, WriteRequestTyped, TypedParts DEF StartClock
<1> QED BY <1>4, <1>5 DEF ClockStep

LEMMA DieTyped == ASSUME Typed, NEW w \in Workers, Die(w) PROVE Typed'
<1>1. cases' \in 0..MaxCases /\ TasksTyped'
  BY FinishTyped DEF Die, Typed, TypeOK
<1> QED BY <1>1, BeginTablesTyped, TypedParts DEF Die

(* Every step keeps the types. *)
LEMMA NextTyped == Typed /\ [Next]_vars => Typed'
<1> SUFFICES ASSUME Typed, [Next]_vars PROVE Typed'
  OBVIOUS
<1>1. ASSUME NEW w \in Workers, Compare(w) PROVE Typed'
  BY <1>1, CompareTyped, TablesStay, TypedParts DEF Compare, OnlyTasks
<1>2. CASE UNCHANGED vars
  BY <1>2 DEF vars, Typed, TypeOK, Aimed
<1> QED BY <1>1, <1>2, VendorTyped, StaffTyped, DeskTyped, ClockTyped, DieTyped DEF Next

LEMMA InitTyped == Init => Typed
<1>1. [status |-> "draft", edition |-> 1] \in Listings
  BY BoundsAssumption DEF Listings, ListingStatuses, Editions
<1> QED BY <1>1, NoRowFact, NoTaskFact, BoundsAssumption
        DEF Init, Typed, TypeOK, Aimed, Undisturbed, RequestOps

-----------------------------------------------------------------------------
(* What a step leaves in hand *)

Others(w) == \A v \in Workers \ {w} : task'[v] = task[v]

Keeps(w, fields) == \A f \in fields : task'[w][f] = task[w][f]

LEMMA StepShapes ==
  ASSUME Typed, NEW w \in Workers
  PROVE  /\ Finish(w) => Others(w) /\ task'[w] = NoTask
         /\ \A step, read : GoTo(w, step, read) =>
              /\ Others(w) /\ Keeps(w, {"op", "outcome", "of", "row", "entity"})
              /\ task'[w].at = step /\ task'[w].read = read
         /\ \A step, status : Walk(w, step, status) =>
              /\ Others(w) /\ Keeps(w, {"op", "outcome", "of", "row"})
              /\ task'[w].at = step /\ task'[w].read = 1
              /\ task'[w].entity = [task[w].entity EXCEPT !.status = status]
         /\ \A status : HoldListing(w, status) =>
              /\ Others(w) /\ Keeps(w, {"op", "at", "outcome", "of", "row"})
              /\ task'[w].read = 1
              /\ task'[w].entity = [listing EXCEPT !.status = status]
         /\ \A r, row : HoldRequest(w, r, row) =>
              /\ Others(w) /\ Keeps(w, {"op", "at", "outcome", "entity"})
              /\ task'[w].read = 1 /\ task'[w].of = r /\ task'[w].row = row
         /\ \A step, r : Answered(w, step, r) =>
              /\ Others(w) /\ Keeps(w, {"op", "outcome", "row", "entity"})
              /\ task'[w].at = step /\ task'[w].of = r /\ task'[w].read = 0
         /\ Compare(w) =>
              /\ Others(w) /\ Keeps(w, {"op", "at", "outcome", "of", "row", "entity"})
              /\ task[w].read = 1 /\ task'[w].read = 2
              /\ (IF SavesListing(w) THEN Differing(task[w].entity, listing)
                  ELSE Differing(task[w].row, request[task[w].of]))
                   \subseteq task'[w].changed
<1>0. task \in [Workers -> Tasks] /\ task[w] \in Tasks
  BY DEF Typed, TypeOK
<1>1. Finish(w) => Others(w) /\ task'[w] = NoTask
  BY <1>0 DEF Finish, Others
<1>2. ASSUME NEW step, NEW read, GoTo(w, step, read)
      PROVE  /\ Others(w) /\ Keeps(w, {"op", "outcome", "of", "row", "entity"})
             /\ task'[w].at = step /\ task'[w].read = read
  BY <1>0, <1>2 DEF GoTo, Others, Tasks, Keeps
<1>3. ASSUME NEW step, NEW status, Walk(w, step, status)
      PROVE  /\ Others(w) /\ Keeps(w, {"op", "outcome", "of", "row"})
             /\ task'[w].at = step /\ task'[w].read = 1
             /\ task'[w].entity = [task[w].entity EXCEPT !.status = status]
  BY <1>0, <1>3 DEF Walk, Others, Tasks, Keeps
<1>4. ASSUME NEW status, HoldListing(w, status)
      PROVE  /\ Others(w) /\ Keeps(w, {"op", "at", "outcome", "of", "row"})
             /\ task'[w].read = 1
             /\ task'[w].entity = [listing EXCEPT !.status = status]
  BY <1>0, <1>4 DEF HoldListing, Others, Tasks, Keeps
<1>5. ASSUME NEW r, NEW row, HoldRequest(w, r, row)
      PROVE  /\ Others(w) /\ Keeps(w, {"op", "at", "outcome", "entity"})
             /\ task'[w].read = 1 /\ task'[w].of = r /\ task'[w].row = row
  BY <1>0, <1>5 DEF HoldRequest, Others, Tasks, Keeps
<1>6. ASSUME NEW step, NEW r, Answered(w, step, r)
      PROVE  /\ Others(w) /\ Keeps(w, {"op", "outcome", "row", "entity"})
             /\ task'[w].at = step /\ task'[w].of = r /\ task'[w].read = 0
  BY <1>0, <1>6 DEF Answered, Others, Tasks, Keeps
<1>7. ASSUME Compare(w)
      PROVE  /\ Others(w) /\ Keeps(w, {"op", "at", "outcome", "of", "row", "entity"})
             /\ task[w].read = 1 /\ task'[w].read = 2
             /\ (IF SavesListing(w) THEN Differing(task[w].entity, listing)
                 ELSE Differing(task[w].row, request[task[w].of]))
                  \subseteq task'[w].changed
  <2> DEFINE found == IF SavesListing(w) THEN Differing(task[w].entity, listing)
                      ELSE Differing(task[w].row, request[task[w].of])
  <2>1. PICK fresh \in SUBSET {"findings"} :
          task' = [task EXCEPT ![w] = [@ EXCEPT !.read = 2, !.changed = found \cup fresh]]
    BY <1>7 DEF Compare
  <2> HIDE DEF found
  <2>2. task[w].read = 1
    BY <1>7 DEF Compare
  <2>3. task'[w].changed = found \cup fresh
    BY <1>0, <2>1 DEF Tasks
  <2>4. Others(w) /\ Keeps(w, {"op", "at", "outcome", "of", "row", "entity"})
        /\ task'[w].read = 2
    BY <1>0, <2>1 DEF Others, Tasks, Keeps
  <2> QED BY <2>2, <2>3, <2>4 DEF found
<1> QED BY <1>1, <1>2, <1>3, <1>4, <1>5, <1>6, <1>7

(* A handler starts with a fresh task. *)
LEMMA ListingBegun ==
  ASSUME Typed, NEW w \in Workers, NEW op, NEW entity,
         BeginOnListing(w, op, entity)
  PROVE  /\ Others(w) /\ Idle(w)
         /\ task'[w].op = op /\ task'[w].at = "loaded" /\ task'[w].outcome = "none"
         /\ task'[w].row = NoRow /\ task'[w].entity = entity /\ task'[w].read = 1
         /\ Disturb(Overlapping(w)) /\ UNCHANGED <<listing, request, written>>
<1>1. task \in [Workers -> Tasks] /\ NoTask \in Tasks
  BY NoTaskFact DEF Typed, TypeOK
<1> DEFINE t == [NoTask EXCEPT !.op = op, !.at = "loaded", !.entity = entity, !.read = 1]
<1>2. /\ t.op = op /\ t.at = "loaded" /\ t.row = NoRow /\ t.entity = entity
      /\ t.read = 1 /\ t.outcome = "none"
  BY DEF NoTask
<1>3. /\ task' = [task EXCEPT ![w] = t] /\ Idle(w) /\ Disturb(Overlapping(w))
      /\ UNCHANGED <<listing, request, written>>
  BY DEF BeginOnListing, Begin
<1> HIDE DEF t
<1> QED BY <1>1, <1>2, <1>3 DEF Others

LEMMA RequestBegun ==
  ASSUME Typed, NEW w \in Workers, NEW op, NEW step, NEW outcome, NEW r, NEW row,
         BeginOnRequest(w, op, step, outcome, r, row)
  PROVE  /\ Others(w) /\ Idle(w)
         /\ task'[w].op = op /\ task'[w].at = step /\ task'[w].outcome = outcome
         /\ task'[w].of = r /\ task'[w].row = row
         /\ task'[w].entity.status = "draft"
         /\ task'[w].read = IF step = "loaded" THEN 1 ELSE 0
         /\ Disturb(Overlapping(w)) /\ UNCHANGED <<listing, request, written>>
<1>1. task \in [Workers -> Tasks] /\ NoTask \in Tasks
  BY NoTaskFact DEF Typed, TypeOK
<1> DEFINE read == IF step = "loaded" THEN 1 ELSE 0
           t == [NoTask EXCEPT !.op = op, !.at = step, !.outcome = outcome, !.of = r,
                               !.row = row, !.read = read]
<1>2. /\ t.op = op /\ t.at = step /\ t.outcome = outcome /\ t.of = r /\ t.row = row
      /\ t.entity.status = "draft" /\ t.read = read
  <2> HIDE DEF read
  <2> QED BY DEF NoTask
<1>3. /\ task' = [task EXCEPT ![w] = t] /\ Idle(w) /\ Disturb(Overlapping(w))
      /\ UNCHANGED <<listing, request, written>>
  BY DEF BeginOnRequest, Begin
<1> HIDE DEF t
<1> QED BY <1>1, <1>2, <1>3 DEF Others

LEMMA CaseBegun ==
  ASSUME Typed, NEW w \in Workers, NEW op, NEW step, NEW outcome,
         BeginCase(w, op, step, outcome)
  PROVE  /\ Others(w) /\ Idle(w)
         /\ task'[w].op = op /\ task'[w].at = step /\ task'[w].outcome = outcome
         /\ task'[w].row = NoRow /\ task'[w].entity.status = "draft"
         /\ task'[w].read = 0
         /\ Disturb(Overlapping(w) \cup Underneath)
         /\ UNCHANGED <<listing, request, written>>
<1>1. task \in [Workers -> Tasks] /\ NoTask \in Tasks
  BY NoTaskFact DEF Typed, TypeOK
<1> DEFINE t == [NoTask EXCEPT !.op = op, !.at = step, !.outcome = outcome]
<1>2. /\ t.op = op /\ t.at = step /\ t.outcome = outcome /\ t.row = NoRow
      /\ t.entity.status = "draft" /\ t.read = 0
  BY DEF NoTask
<1>3. /\ task' = [task EXCEPT ![w] = t] /\ Idle(w)
      /\ Disturb(Overlapping(w) \cup Underneath)
      /\ UNCHANGED <<listing, request, written>>
  BY DEF BeginCase
<1> HIDE DEF t
<1> QED BY <1>1, <1>2, <1>3 DEF Others

-----------------------------------------------------------------------------
(* Written up before it is approved, however handlers overlap *)

(* A row that says somebody visited. *)
Marked(row) == row.status = "approved" \/ row.findings # 0

(* The request a handler saves has been written up if the row in hand says  *)
(* so, unless this is the write-up.                                         *)
HelperSaves == {"resubmitting", "clocking", "reviving"}

Backed(w) ==
  /\ \/ task[w].op \in RequestOps \ {"findings"}
     \/ task[w].read # 0 /\ task[w].at \in HelperSaves
  /\ Marked(task[w].row)
  => task[w].of \in written

WriteUps == /\ \A r \in RequestIds : Marked(request[r]) => r \in written
            /\ \A w \in Workers : Backed(w)

LEMMA BackedKeeps ==
  ASSUME WriteUps, NEW w \in Workers, Others(w), written \subseteq written', Backed(w)',
         \A r \in RequestIds : Marked(request'[r]) => r \in written'
  PROVE  WriteUps'
<1>1. ASSUME NEW v \in Workers \ {w} PROVE Backed(v)'
  BY DEF WriteUps, Backed, Others
<1> QED BY <1>1 DEF WriteUps, Marked

LEMMA BackedShapes ==
  ASSUME Typed, WriteUps, NEW w \in Workers, written \subseteq written'
  PROVE  /\ Finish(w) => Others(w) /\ Backed(w)'
         /\ \A step, read : GoTo(w, step, read) /\ (read = 0 \/ step \notin HelperSaves)
              => Others(w) /\ Backed(w)'
         /\ \A step, status : Walk(w, step, status) /\ step \notin HelperSaves
              => Others(w) /\ Backed(w)'
         /\ \A status : HoldListing(w, status) /\ task[w].at \notin HelperSaves
              => Others(w) /\ Backed(w)'
         /\ \A r, row : HoldRequest(w, r, row) /\ (Marked(row) => r \in written)
              => Others(w) /\ Backed(w)'
         /\ \A step, r : Answered(w, step, r) /\ task[w].op \notin RequestOps
              => Others(w) /\ Backed(w)'
         /\ Compare(w) => Others(w) /\ Backed(w)'
<1>1. ASSUME Keeps(w, {"op", "of", "row"}),
             \/ task'[w].read = 0 \/ task'[w].at \notin HelperSaves
             \/ task[w].read # 0 /\ task[w].at \in HelperSaves
      PROVE  Backed(w)'
  BY <1>1 DEF WriteUps, Backed, Marked, Keeps
<1>2. /\ \A step, read : GoTo(w, step, read) => Keeps(w, {"op", "of", "row"})
      /\ \A step, status : Walk(w, step, status) => Keeps(w, {"op", "of", "row"})
      /\ \A status : HoldListing(w, status) => Keeps(w, {"op", "of", "row", "at"})
      /\ Compare(w) => Keeps(w, {"op", "of", "row", "at"})
  BY StepShapes DEF Keeps
<1>3. ASSUME Finish(w) PROVE Others(w) /\ Backed(w)'
  BY <1>3, StepShapes, NoTaskFact DEF Backed, RequestOps
<1>4. ASSUME NEW step, NEW read, GoTo(w, step, read), read = 0 \/ step \notin HelperSaves
      PROVE  Others(w) /\ Backed(w)'
  BY <1>1, <1>2, <1>4, StepShapes
<1>5. ASSUME NEW step, NEW status, Walk(w, step, status), step \notin HelperSaves
      PROVE  Others(w) /\ Backed(w)'
  BY <1>1, <1>2, <1>5, StepShapes
<1>6. ASSUME NEW status, HoldListing(w, status), task[w].at \notin HelperSaves
      PROVE  Others(w) /\ Backed(w)'
  <2>1. Others(w) /\ Keeps(w, {"op", "of", "row"}) /\ task'[w].at = task[w].at
    BY <1>2, <1>6, StepShapes DEF Keeps
  <2> QED BY <1>1, <1>6, <2>1
<1>7. ASSUME NEW r, NEW row, HoldRequest(w, r, row), Marked(row) => r \in written
      PROVE  Others(w) /\ Backed(w)'
  <2>1. Others(w) /\ task'[w].row = row /\ task'[w].of = r
    BY <1>7, StepShapes
  <2> QED BY <1>7, <2>1 DEF Backed, Marked
<1>8. ASSUME NEW step, NEW r, Answered(w, step, r), task[w].op \notin RequestOps
      PROVE  Others(w) /\ Backed(w)'
  <2>1. Others(w) /\ task'[w].read = 0 /\ task'[w].op = task[w].op
    BY <1>8, StepShapes DEF Keeps
  <2> QED BY <1>8, <2>1 DEF Backed
<1>9. ASSUME Compare(w) PROVE Others(w) /\ Backed(w)'
  <2>1. Others(w) /\ Keeps(w, {"op", "of", "row"}) /\ task'[w].at = task[w].at
        /\ task[w].read = 1
    BY <1>2, <1>9, StepShapes DEF Keeps
  <2> QED BY <1>1, <2>1
<1> QED BY <1>3, <1>4, <1>5, <1>6, <1>7, <1>8, <1>9

LEMMA BackedBegin ==
  ASSUME WriteUps, NEW w \in Workers, UNCHANGED <<request, written>>,
         Others(w), task'[w].at \notin HelperSaves,
         task'[w].op \in RequestOps \ {"findings"} /\ Marked(task'[w].row) =>
           task'[w].of \in written
  PROVE  WriteUps'
<1>1. Backed(w)'
  BY DEF Backed, Marked
<1> QED BY <1>1, BackedKeeps DEF WriteUps

LEMMA BackedOnListing ==
  ASSUME Typed, WriteUps, NEW w \in Workers, NEW op \in {"edit", "first_review", "submit"},
         NEW entity, BeginOnListing(w, op, entity)
  PROVE  WriteUps'
BY ListingBegun, BackedBegin DEF HelperSaves, RequestOps

LEMMA BackedOnRequest ==
  ASSUME Typed, WriteUps, NEW w \in Workers, NEW op, NEW step \in {"loaded", "marking"},
         NEW outcome, NEW r, NEW row, BeginOnRequest(w, op, step, outcome, r, row),
         op # "findings" /\ Marked(row) => r \in written
  PROVE  WriteUps'
<1>1. /\ Others(w) /\ UNCHANGED <<request, written>>
      /\ task'[w].op = op /\ task'[w].at = step /\ task'[w].of = r /\ task'[w].row = row
  BY RequestBegun
<1> QED BY <1>1, BackedBegin DEF HelperSaves

LEMMA BackedCase ==
  ASSUME Typed, WriteUps, NEW w \in Workers, NEW op \in {"unlock", "grant"},
         NEW step \in {"reopening", "moving"}, NEW outcome, BeginCase(w, op, step, outcome)
  PROVE  WriteUps'
BY CaseBegun, BackedBegin DEF HelperSaves, RequestOps

(* A save of the request that was written up, or whose row is unmarked. *)
LEMMA BackedWrite ==
  ASSUME Typed, WriteUps, NEW w \in Workers, WriteRequest(w), task[w].of \in RequestIds,
         written \subseteq written', Marked(task[w].row) => task[w].of \in written'
  PROVE  \A r \in RequestIds : Marked(request'[r]) => r \in written'
<1> DEFINE p == task[w].of
<1>1. ASSUME NEW r \in RequestIds, r # p, Marked(request'[r]) PROVE r \in written'
  BY <1>1, RequestWritten DEF WriteUps
<1>2. ASSUME Marked(request'[p]) PROVE p \in written'
  <2>1. request[p] \in Rows /\ task[w].row \in Rows
    BY TableFact, TaskFact
  <2>2. Marked(request[p]) \/ Marked(task[w].row)
    BY <1>2, <2>1, RequestWritten, UpdatedRow DEF Marked
  <2> QED BY <2>2 DEF WriteUps
<1> QED BY <1>1, <1>2

(* What is written up stays so, and what is approved was. *)
LEMMA NextWriteUps == Typed /\ WriteUps /\ [Next]_vars => WriteUps'
<1> SUFFICES ASSUME Typed, WriteUps, [Next]_vars PROVE WriteUps'
  OBVIOUS
<1>0. \A r \in RequestIds : Marked(request[r]) => r \in written
  BY DEF WriteUps
<1>1. ASSUME NEW w \in Workers,
             \/ SaveEdit(w) \/ SaveFirstReview(w) \/ SaveSubmit(w) \/ MarkInProgress(w)
             \/ MoveListing(w) \/ GoLive(w) \/ ReopenListing(w)
      PROVE  WriteUps'
  <2>1. UNCHANGED <<request, written>>
    BY <1>1 DEF SaveEdit, SaveFirstReview, SaveSubmit, MarkInProgress, MoveListing, GoLive,
                ReopenListing, WriteListing
  <2>2. \/ Finish(w)
        \/ Walk(w, "loaded", "first_review") \/ Walk(w, "loaded", "pending_verification")
        \/ Walk(w, "opening", "live") \/ GoTo(w, "raising", 0) \/ GoTo(w, "loaded", 1)
        \/ GoTo(w, "reviving", 0)
    BY <1>1 DEF SaveEdit, SaveFirstReview, SaveSubmit, MarkInProgress, MoveListing, GoLive,
                ReopenListing
  <2>3. Others(w) /\ Backed(w)'
    BY <2>1, <2>2, BackedShapes DEF HelperSaves
  <2> QED BY <1>0, <2>1, <2>3, BackedKeeps
<1>2. ASSUME NEW w \in Workers,
             \/ LoadResubmitted(w) \/ LoadInProgress(w) \/ LoadMove(w) \/ LoadRejected(w)
             \/ LoadRefused(w) \/ LoadClock(w) \/ Raise(w) \/ Die(w)
      PROVE  WriteUps'
  <2>1. UNCHANGED <<request, written>>
    BY <1>2 DEF LoadResubmitted, LoadInProgress, LoadMove, LoadRejected, LoadRefused,
                LoadClock, Raise, Die, OnlyTasks
  <2>2. ASSUME LoadResubmitted(w) PROVE Others(w) /\ Backed(w)'
    <3> DEFINE r == task[w].of
               row == SentBack(request[r], "new", LastOfficer(request[r]))
    <3>1. r \in RequestIds /\ request[r] \in Rows
      BY <2>2, TaskFact, TableFact DEF LoadResubmitted, At, Aimed
    <3>2. ~Marked(row)
      BY <3>1, SentBackFact, LastOfficerType DEF Marked
    <3>3. HoldRequest(w, r, row) \/ GoTo(w, "clocking", 0)
      BY <2>2 DEF LoadResubmitted
    <3> HIDE DEF row, r
    <3> QED BY <2>1, <3>2, <3>3, BackedShapes
  <2>3. ASSUME LoadRefused(w) PROVE Others(w) /\ Backed(w)'
    <3>1. ASSUME NEW r \in RequestIds,
                 HoldRequest(w, r, SentBack(request[r], "additional_review",
                                            LastOfficer(request[r])))
          PROVE  Others(w) /\ Backed(w)'
      <4> DEFINE row == SentBack(request[r], "additional_review", LastOfficer(request[r]))
      <4>1. ~Marked(row)
        BY TableFact, SentBackFact, LastOfficerType DEF Marked
      <4>2. HoldRequest(w, r, row)
        BY <3>1
      <4> HIDE DEF row
      <4> QED BY <2>1, <4>1, <4>2, BackedShapes
    <3> QED BY <2>1, <2>3, <3>1, BackedShapes DEF LoadRefused, WithStatus
  <2>4. ASSUME LoadClock(w) PROVE Others(w) /\ Backed(w)'
    <3>1. task[w].of \in RequestIds
      BY <2>4, TaskFact DEF LoadClock, Aimed
    <3>2. Marked(request[task[w].of]) => task[w].of \in written
      BY <3>1 DEF WriteUps
    <3>3. \/ HoldRequest(w, task[w].of, request[task[w].of])
          \/ GoTo(w, "moving", 0) \/ Finish(w)
      BY <2>4 DEF LoadClock, AfterClock
    <3> QED BY <2>1, <3>2, <3>3, BackedShapes DEF HelperSaves
  <2>5. ASSUME Raise(w) PROVE Others(w) /\ Backed(w)'
    <3>1. task[w].op \notin RequestOps
      BY <2>5 DEF Raise, At, RequestOps
    <3>2. \/ \E r, step : Answered(w, step, r)
          \/ GoTo(w, "inserting", 0) \/ Finish(w)
      BY <2>5 DEF Raise
    <3> QED BY <2>1, <3>1, <3>2, BackedShapes DEF HelperSaves
  <2>6. ASSUME LoadInProgress(w) \/ LoadMove(w) \/ LoadRejected(w) PROVE Others(w) /\ Backed(w)'
    <3>1. \/ \E status : HoldListing(w, status)
          \/ GoTo(w, "loaded", 1) \/ GoTo(w, "reviving", 0) \/ Finish(w)
      BY <2>6 DEF LoadInProgress, LoadMove, LoadRejected
    <3>2. task[w].at \notin HelperSaves
      BY <2>6 DEF LoadInProgress, LoadMove, LoadRejected, At, HelperSaves
    <3> QED BY <2>1, <3>1, <3>2, BackedShapes DEF HelperSaves
  <2>7. ASSUME Die(w) PROVE Others(w) /\ Backed(w)'
    BY <2>1, <2>7, BackedShapes DEF Die
  <2>8. Others(w) /\ Backed(w)'
    BY <1>2, <2>2, <2>3, <2>4, <2>5, <2>6, <2>7
  <2> QED BY <1>0, <2>1, <2>8, BackedKeeps
<1>3. ASSUME NEW w \in Workers,
             MarkResubmitted(w) \/ SaveRequest(w) \/ ReviveRequest(w) \/ StartClock(w)
      PROVE  WriteUps'
  <2> DEFINE r == task[w].of
  <2>1. r \in RequestIds /\ WriteRequest(w) /\ task[w].read = 2
    BY <1>3, TaskFact DEF MarkResubmitted, SaveRequest, ReviveRequest, StartClock,
                          WriteRequest, At, Aimed
  <2>2. /\ written \subseteq written'
        /\ SaveRequest(w) /\ task[w].op = "findings" => r \in written'
    BY <1>3 DEF MarkResubmitted, SaveRequest, ReviveRequest, StartClock
  <2>3. Marked(task[w].row) => r \in written'
    BY <1>3, <2>1, <2>2 DEF MarkResubmitted, SaveRequest, ReviveRequest, StartClock, At,
                            WriteUps, Backed, HelperSaves
  <2>4. \A q \in RequestIds : Marked(request'[q]) => q \in written'
    BY <2>1, <2>2, <2>3, BackedWrite
  <2>5. Finish(w) \/ GoTo(w, "clocking", 0) \/ GoTo(w, "moving", 0)
    BY <1>3 DEF MarkResubmitted, SaveRequest, ReviveRequest, StartClock, AfterClock
  <2>6. Others(w) /\ Backed(w)'
    BY <2>2, <2>5, BackedShapes
  <2> QED BY <2>2, <2>4, <2>6, BackedKeeps
<1>4. ASSUME NEW w \in Workers, InsertRequest(w) PROVE WriteUps'
  <2>1. PICK r \in RequestIds :
          request' = [request EXCEPT ![r] = NewRow] /\ Answered(w, "clocking", r)
    BY <1>4 DEF InsertRequest, WithStatus
  <2>2. UNCHANGED written /\ task[w].op \notin RequestOps
    BY <1>4 DEF InsertRequest, At, RequestOps
  <2>3. \A q \in RequestIds : Marked(request'[q]) => q \in written'
    <3>1. ~Marked(NewRow)
      BY NewRowFact DEF Marked
    <3>2. request'[r] = NewRow /\ \A q \in RequestIds \ {r} : request'[q] = request[q]
      BY <2>1, TableFact
    <3> QED BY <1>0, <2>2, <3>1, <3>2
  <2>4. Others(w) /\ Backed(w)'
    BY <2>1, <2>2, BackedShapes
  <2> QED BY <2>2, <2>3, <2>4, BackedKeeps
<1>5. ASSUME NEW w \in Workers, BeginEdit(w) \/ BeginFirstReview(w) \/ BeginSubmit(w)
      PROVE  WriteUps'
  BY <1>5, BackedOnListing DEF BeginEdit, BeginFirstReview, BeginSubmit
<1>6. ASSUME NEW w \in Workers, BeginFindings(w) PROVE WriteUps'
  BY <1>6, BackedOnRequest DEF BeginFindings
<1>7. ASSUME NEW w \in Workers, BeginStart(w) \/ BeginReview(w) \/ BeginAllocate(w)
      PROVE  WriteUps'
  <2>1. ASSUME NEW r \in RequestIds, NEW row \in Rows,
               row.status # "approved", row.findings = request[r].findings
        PROVE  Marked(row) => r \in written
    BY <2>1 DEF Marked, WriteUps
  <2>2. ASSUME NEW r \in RequestIds, NEW status \in {"in_progress", "admin_review"}
        PROVE  Marked([request[r] EXCEPT !.status = status]) => r \in written
    BY <1>0, <2>2, TableFact DEF Marked, Rows
  <2>3. ASSUME NEW r \in RequestIds, NEW o \in Officers
        PROVE  Marked([request[r] EXCEPT !.officer = o, !.previous = NoOfficer,
                                         !.status = "assigned"]) => r \in written
    BY <1>0, <2>3, TableFact DEF Marked, Rows
  <2>4. CASE BeginStart(w)
    BY <2>2, <2>4, BackedOnRequest DEF BeginStart, WithStatus
  <2>5. CASE BeginReview(w)
    BY <2>2, <2>5, BackedOnRequest DEF BeginReview, WithStatus
  <2>6. CASE BeginAllocate(w)
    BY <2>3, <2>6, BackedOnRequest DEF BeginAllocate, Raised
  <2> QED BY <1>7, <2>4, <2>5, <2>6
<1>8. ASSUME NEW w \in Workers, BeginDecide(w) PROVE WriteUps'
  <2>1. PICK r \in RequestIds, outcome \in Outcomes :
          /\ outcome = "approve" => request[r].findings # 0
          /\ BeginOnRequest(w, "decide", "loaded", outcome, r, Decided(request[r], outcome))
    BY <1>8 DEF BeginDecide, Raised
  <2> DEFINE row == Decided(request[r], outcome)
  <2>2. request[r] \in Rows
    BY TableFact
  <2>3. Marked(row) => Marked(request[r])
    <3>1. request[r].officer \in Officers \cup {NoOfficer}
      BY <2>2 DEF Rows
    <3>2. CASE outcome \in {"approve", "reject", "issue"}
      BY <2>1, <2>2, <3>2 DEF Decided, Marked, Rows
    <3>3. CASE outcome \in {"revisit", "correct"}
      BY <2>2, <3>1, <3>3, SentBackFact, LastOfficerType DEF Decided, Marked
    <3> QED BY <3>2, <3>3 DEF Outcomes
  <2>4. Marked(row) => r \in written
    BY <1>0, <2>3
  <2> HIDE DEF row
  <2> QED BY <2>1, <2>4, BackedOnRequest DEF row
<1>9. ASSUME NEW w \in Workers, BeginUnlock(w) \/ BeginGrant(w) PROVE WriteUps'
  BY <1>9, BackedCase DEF BeginUnlock, BeginGrant
<1>10. ASSUME NEW w \in Workers, Compare(w) PROVE WriteUps'
  <2>1. UNCHANGED <<request, written>>
    BY <1>10 DEF Compare, OnlyTasks
  <2>2. Others(w) /\ Backed(w)'
    BY <1>10, <2>1, BackedShapes
  <2> QED BY <1>0, <2>1, <2>2, BackedKeeps
<1>11. CASE UNCHANGED vars
  BY <1>11 DEF vars, WriteUps, Backed, Marked
<1> QED BY <1>1, <1>2, <1>3, <1>4, <1>5, <1>6, <1>7, <1>8, <1>9, <1>10, <1>11
        DEF Next, VendorStep, StaffStep, DeskStep, ClockStep

-----------------------------------------------------------------------------
(* The shape of a step while nothing overlaps *)

LEMMA TablesOK ==
  ASSUME Calm
  PROVE  \A r \in RequestIds : request[r] \in Rows /\ RowOK(request[r])
BY TableFact DEF Calm, Serial, RowsOK

(* What a handler holds: saving it as the listing is no surprise. *)
LEMMA HeldListing ==
  ASSUME Calm, NEW w \in Workers, ~Idle(w)
  PROVE  /\ task[w] \in Tasks /\ task[w].entity \in Listings
         /\ task[w].row \in Rows /\ RowOK(task[w].row)
         /\ task[w].entity.status \in Visible => Approved # {}
BY TaskFact DEF Calm, RowsOK, Serial, Held

(* A handler that has just started, or walks on, remembers nothing it loaded. *)
Unburdened(t) == t.read = 0 \/ (t.read = 1 /\ t.at \in {"loaded", "opening"})

LEMMA UnburdenedHolds ==
  ASSUME NEW w \in Workers, Unburdened(task'[w]) PROVE Holding(w)'
BY DEF Unburdened, Holding, Loaded, Idle

(* Whoever starts or goes on does so alone: what remains to be shown of a   *)
(* step is what it does to its own task and to the tables.                  *)
LEMMA StepKeeps ==
  ASSUME Calm, NEW w \in Workers, Others(w), RowOK(task'[w].row),
         \A r \in RequestIds : RowOK(request'[r]),
         \A v \in Workers \ {w} : Idle(v),
         Settlement', Held(w)', Holding(w)'
  PROVE  Serial'
<1>1. \A v \in Workers \ {w} : task'[v] = task[v] /\ task'[v].at = "idle"
  BY DEF Others, Idle
<1>2. RowsOK'
  BY <1>1 DEF Calm, Serial, RowsOK, RowOK
<1>3. Alone'
  BY <1>1 DEF Alone, Idle
<1>4. ASSUME NEW v \in Workers \ {w} PROVE Held(v)' /\ Holding(v)'
  <2>1. Held(v)'
    BY <1>1 DEF Held, Idle, HoldsListing, At
  <2>2. task[v].read = 0
    <3>1. Idle(v) /\ Holding(v)
      BY DEF Calm, Serial
    <3> QED BY <3>1 DEF Holding
  <2>3. Holding(v)'
    BY <1>1, <2>2 DEF Holding
  <2> QED BY <2>1, <2>3
<1> QED BY <1>2, <1>3, <1>4 DEF Serial

LEMMA BeginKeeps ==
  ASSUME Calm, NEW w \in Workers, Others(w), RowOK(task'[w].row), NEW kinds,
         Disturb(kinds), Overlapping(w) \subseteq kinds, Free({"overlap"})',
         UNCHANGED <<listing, request>>, Held(w)', Unburdened(task'[w])
  PROVE  Serial'
<1>1. "overlap" \notin kinds
  BY DisturbType DEF Calm, Typed, Free
<1>2. \A v \in Workers \ {w} : Idle(v)
  BY <1>1 DEF Overlapping
<1>3. Settlement'
  BY DEF Calm, Serial, Settlement, Approved, Unsettled, WithStatus
<1>4. \A r \in RequestIds : RowOK(request'[r])
  BY TablesOK
<1>5. Holding(w)'
  BY UnburdenedHolds
<1> QED BY <1>2, <1>3, <1>4, <1>5, StepKeeps

(* A handler that goes on. *)
LEMMA GoOnKeeps ==
  ASSUME Calm, NEW w \in Workers, ~Idle(w), Others(w), RowOK(task'[w].row),
         \A r \in RequestIds : RowOK(request'[r]),
         Settlement', Held(w)', Unburdened(task'[w])
  PROVE  Serial'
<1>1. \A v \in Workers \ {w} : Idle(v)
  BY DEF Calm, Serial, Alone
<1> QED BY <1>1, UnburdenedHolds, StepKeeps

(* A handler that ends has nothing left in hand. *)
LEMMA FinishKeeps ==
  ASSUME Calm, NEW w \in Workers, ~Idle(w), Finish(w),
         \A r \in RequestIds : RowOK(request'[r]), Settlement'
  PROVE  Serial'
<1>1. Others(w) /\ task'[w] = NoTask
  BY StepShapes DEF Calm
<1>2. Held(w)'
  BY <1>1, NoTaskFact DEF Held, Idle, HoldsListing, At, RequestOps
<1> QED BY <1>1, <1>2, NoTaskFact, NoRowFact, GoOnKeeps DEF Unburdened

(* The tables as they are. *)
LEMMA TablesKept ==
  ASSUME Calm, UNCHANGED <<listing, request>>
  PROVE  /\ \A r \in RequestIds : RowOK(request'[r])
         /\ Settlement' /\ Approved' = Approved /\ Unsettled' = Unsettled
BY DEF Calm, RowsOK, Serial, Settlement, Approved, Unsettled, WithStatus

(* A new listing row that customers do not see, or saw before. *)
LEMMA ListingMoves ==
  ASSUME Calm, UNCHANGED request, listing'.status \in Visible => Approved # {}
  PROVE  /\ \A r \in RequestIds : RowOK(request'[r])
         /\ Settlement' /\ Approved' = Approved /\ Unsettled' = Unsettled
BY DEF Calm, RowsOK, Serial, Settlement, Approved, Unsettled, WithStatus

(* A new row of a request that is not settled, or of the only one there is *)
(* going to be.                                                            *)
LEMMA RequestMoves ==
  ASSUME Calm, UNCHANGED listing, NEW r \in RequestIds, NEW row \in Rows, RowOK(row),
         request' = [request EXCEPT ![r] = row],
         r \in Unsettled \/ Unsettled = {}, r \notin Approved
  PROVE  /\ \A q \in RequestIds : RowOK(request'[q])
         /\ Settlement' /\ request'[r] = row /\ Approved \subseteq Approved'
<1>1. request \in [RequestIds -> Rows] /\ request'[r] = row
      /\ \A q \in RequestIds \ {r} : request'[q] = request[q]
  BY DEF Calm, Typed, TypeOK
<1>2. \A q \in RequestIds : RowOK(request'[q])
  BY <1>1 DEF Calm, RowsOK, Serial
<1>3. /\ Unsettled' \subseteq Unsettled \cup {r}
      /\ Approved \subseteq Approved'
  BY <1>1 DEF Unsettled, Approved, WithStatus
<1>4. Settlement'
  BY <1>3 DEF Calm, Serial, Settlement
<1> QED BY <1>1, <1>2, <1>3, <1>4

(* A save makes the row the one in hand. *)
LEMMA SavedListing ==
  ASSUME Calm, NEW w \in Workers, WriteListing(w), SavesListing(w)
  PROVE  /\ ~Idle(w) /\ listing' = task[w].entity /\ task[w].read = 2
         /\ UNCHANGED <<request, written, cases, disturbed>>
<1>1. task[w].read = 2 /\ ~Idle(w)
  BY DEF WriteListing, SavesListing, Idle
<1>2. Differing(task[w].entity, listing) \subseteq task[w].changed
  BY <1>1 DEF Calm, Serial, Holding, Compared
<1>3. listing \in Listings /\ task[w].entity \in Listings
  BY TableFact, TaskFact DEF Calm
<1> QED BY <1>1, <1>2, <1>3, UpdatedListing DEF WriteListing

LEMMA SavedRequest ==
  ASSUME Calm, NEW w \in Workers, WriteRequest(w), SavesRequest(w)
  PROVE  /\ ~Idle(w) /\ task[w].of \in RequestIds /\ task[w].read = 2
         /\ request' = [request EXCEPT ![task[w].of] = task[w].row]
         /\ UNCHANGED <<listing, cases, disturbed>>
<1> DEFINE r == task[w].of
<1>1. task[w].read = 2 /\ ~Idle(w)
  BY DEF WriteRequest, SavesRequest, Idle
<1>2. r \in RequestIds
  BY <1>1, TaskFact DEF Calm, Aimed, SavesRequest
<1>3. Differing(task[w].row, request[r]) \subseteq task[w].changed
  BY <1>1 DEF Calm, Serial, Holding, Compared
<1>4. Updated(request[r], task[w].row, task[w].changed) = task[w].row
  BY <1>2, <1>3, TableFact, TaskFact, UpdatedRow DEF Calm
<1> QED BY <1>1, <1>2, <1>4 DEF WriteRequest

(* A helper loads the row it is to save. *)
LEMMA HoldListingKeeps ==
  ASSUME Calm, NEW w \in Workers, NEW status, HoldListing(w, status),
         task[w].at \in {"marking", "moving", "reopening"}, UNCHANGED <<listing, request>>,
         status \in Visible => Approved # {},
         task[w].at = "marking" =>
           "in_progress" \in Moves[listing.status] /\ status = "in_progress",
         task[w].at = "moving" =>
           /\ status = Destination(listing.status, task[w].outcome)
           /\ MayMove(listing.status, status)
           /\ task[w].outcome = "revisit" => listing.status = "in_progress",
         task[w].at = "reopening" =>
           listing.status = "rejected" /\ status = "reverification_required"
  PROVE  Serial'
<1>1. /\ Others(w) /\ task'[w].op = task[w].op /\ task'[w].at = task[w].at
      /\ task'[w].outcome = task[w].outcome /\ task'[w].of = task[w].of
      /\ task'[w].row = task[w].row /\ task'[w].read = 1
      /\ task'[w].entity = [listing EXCEPT !.status = status]
  BY StepShapes DEF Calm, Keeps
<1>2. ~Idle(w) /\ \A v \in Workers \ {w} : Idle(v)
  BY DEF Idle, Calm, Serial, Alone
<1>3. task'[w].entity.status = status
  BY <1>1, TableFact DEF Calm, Listings
<1>4. Held(w)'
  BY <1>1, <1>2, <1>3, TablesKept DEF Held, HoldsListing, At, Idle, Calm, Serial
<1>5. Loaded(w)'
  BY <1>1 DEF Loaded
<1>6. Holding(w)'
  BY <1>1, <1>2, <1>5 DEF Holding, Idle
<1> QED BY <1>1, <1>2, <1>4, <1>6, TablesKept, HeldListing, StepKeeps

LEMMA HoldRequestKeeps ==
  ASSUME Calm, NEW w \in Workers, NEW r \in RequestIds, NEW row, HoldRequest(w, r, row),
         task[w].at \in HelperSaves, UNCHANGED <<listing, request>>, RowOK(row),
         task[w].at = "reviving" =>
           /\ request[r].status = "rejected"
           /\ row = SentBack(request[r], "additional_review", LastOfficer(request[r])),
         task[w].at = "resubmitting" =>
           /\ request[r].status \in Parked
           /\ row = SentBack(request[r], "new", LastOfficer(request[r])),
         task[w].at = "clocking" => row = request[r]
  PROVE  Serial'
<1>1. /\ Others(w) /\ task'[w].op = task[w].op /\ task'[w].at = task[w].at
      /\ task'[w].outcome = task[w].outcome /\ task'[w].of = r
      /\ task'[w].row = row /\ task'[w].read = 1
      /\ task'[w].entity = task[w].entity
  BY StepShapes DEF Calm, Keeps
<1>2. ~Idle(w) /\ \A v \in Workers \ {w} : Idle(v)
  BY DEF Idle, Calm, Serial, Alone, HelperSaves
<1>3. Held(w)'
  BY <1>1, <1>2, TablesKept DEF Held, HoldsListing, At, Idle, Calm, Serial, HelperSaves
<1>4. Loaded(w)'
  BY <1>1 DEF Loaded, Refused, WithStatus, HelperSaves
<1>5. Holding(w)'
  BY <1>1, <1>2, <1>4 DEF Holding, Idle
<1> QED BY <1>1, <1>2, <1>3, <1>5, TablesKept, StepKeeps

(* save() reads the row again. *)
LEMMA CompareStep == ASSUME Calm, NEW w \in Workers, Compare(w) PROVE Serial'
<1>1. /\ Others(w) /\ task'[w].op = task[w].op /\ task'[w].at = task[w].at
      /\ task'[w].outcome = task[w].outcome /\ task'[w].of = task[w].of
      /\ task'[w].row = task[w].row /\ task'[w].entity = task[w].entity
      /\ task[w].read = 1 /\ task'[w].read = 2
      /\ SavesListing(w) => Differing(task[w].entity, listing) \subseteq task'[w].changed
      /\ ~SavesListing(w) =>
           Differing(task[w].row, request[task[w].of]) \subseteq task'[w].changed
  BY StepShapes DEF Calm, Keeps
<1>2. UNCHANGED <<listing, request>>
  BY DEF Compare, OnlyTasks
<1>3. ~Idle(w) /\ \A v \in Workers \ {w} : Idle(v)
  <2>1. ~Idle(w)
    BY <1>1 DEF Calm, Serial, Holding
  <2> QED BY <2>1 DEF Calm, Serial, Alone
<1>4. Held(w)'
  BY <1>1, <1>2, <1>3, TablesKept DEF Held, HoldsListing, At, Idle, Calm, Serial
<1>5. Loaded(w)'
  <2>1. Loaded(w)
    BY <1>1 DEF Calm, Serial, Holding
  <2> QED BY <1>1, <1>2, <2>1 DEF Loaded, Refused, WithStatus
<1>6. Compared(w)'
  <2>1. SavesRequest(w) => ~SavesListing(w)
    BY DEF SavesRequest, SavesListing
  <2>2. SavesRequest(w)' = SavesRequest(w) /\ SavesListing(w)' = SavesListing(w)
    BY <1>1 DEF SavesRequest, SavesListing
  <2> QED BY <1>1, <1>2, <2>1, <2>2 DEF Compared, Differing
<1>7. Holding(w)'
  BY <1>1, <1>3, <1>5, <1>6 DEF Holding, Idle
<1> QED BY <1>1, <1>2, <1>3, <1>4, <1>7, TablesKept, HeldListing, StepKeeps

-----------------------------------------------------------------------------
(* The vendor *)

LEMMA BeginOnListingStep ==
  ASSUME Calm, NEW w \in Workers, NEW op \in {"edit", "first_review", "submit"},
         NEW entity, listing.status # "rejected",
         entity.status \in Visible => listing.status \in Visible,
         BeginOnListing(w, op, entity), Free({"overlap"})'
  PROVE  Serial'
<1>1. /\ Others(w)
      /\ task'[w].op = op /\ task'[w].at = "loaded" /\ task'[w].outcome = "none"
      /\ task'[w].row = NoRow /\ task'[w].entity = entity /\ task'[w].read = 1
      /\ Disturb(Overlapping(w)) /\ UNCHANGED <<listing, request, written>>
  BY ListingBegun DEF Calm
<1>2. Held(w)'
  BY <1>1 DEF Held, HoldsListing, RequestOps, At, Calm, Serial, Settlement, Approved, WithStatus
<1> QED BY <1>1, <1>2, NoRowFact, BeginKeeps DEF Unburdened

LEMMA BeginVendorStep ==
  ASSUME Calm, NEW w \in Workers, BeginEdit(w) \/ BeginFirstReview(w) \/ BeginSubmit(w),
         Free({"overlap"})'
  PROVE  Serial'
<1>0. listing \in Listings
  BY TableFact DEF Calm
<1>1. CASE BeginEdit(w)
  <2>1. listing.status # "rejected"
    BY <1>1 DEF BeginEdit, EditPresentational, EditIdentity, Visible
  <2>2. CASE BeginOnListing(w, "edit", [listing EXCEPT !.edition = @ + 1])
    <3> DEFINE entity == [listing EXCEPT !.edition = @ + 1]
    <3>1. entity.status = listing.status
      BY <1>0 DEF Listings
    <3> HIDE DEF entity
    <3> QED BY <2>1, <2>2, <3>1, BeginOnListingStep DEF entity
  <2>3. CASE BeginOnListing(w, "edit", listing)
    BY <2>1, <2>3, BeginOnListingStep
  <2> QED BY <1>1, <2>2, <2>3 DEF BeginEdit
<1>2. CASE BeginFirstReview(w)
  <2> DEFINE entity == [listing EXCEPT !.status =
                          IF @ = "draft" THEN "ready_for_review" ELSE "first_review"]
  <2>1. /\ listing.status # "rejected"
        /\ BeginOnListing(w, "first_review", entity)
    BY <1>2 DEF BeginFirstReview, EditIdentity
  <2>2. entity.status \notin Visible
    BY <1>0 DEF Listings, Visible
  <2> HIDE DEF entity
  <2> QED BY <2>1, <2>2, BeginOnListingStep
<1>3. CASE BeginSubmit(w)
  <2> DEFINE entity == [listing EXCEPT !.status =
                IF @ = "first_review" THEN "pending_verification" ELSE "first_review"]
  <2>1. listing.status # "rejected" /\ BeginOnListing(w, "submit", entity)
    BY <1>3 DEF BeginSubmit
  <2>2. entity.status \notin Visible
    BY <1>0 DEF Listings, Visible
  <2> HIDE DEF entity
  <2> QED BY <2>1, <2>2, BeginOnListingStep
<1> QED BY <1>1, <1>2, <1>3

(* The last save of the listing in hand. *)
LEMMA SaveAndFinish ==
  ASSUME Calm, NEW w \in Workers, WriteListing(w), SavesListing(w), Finish(w)
  PROVE  Serial'
<1>1. ~Idle(w) /\ listing' = task[w].entity /\ UNCHANGED request
  BY SavedListing
<1> QED BY <1>1, HeldListing, ListingMoves, FinishKeeps

(* Saving one move of a walk and keeping the next one in hand. *)
LEMMA WalkStep ==
  ASSUME Calm, NEW w \in Workers, WriteListing(w), SavesListing(w),
         task[w].op \in {"first_review", "submit"}, task[w].at = "loaded",
         task[w].entity.status # "rejected",
         NEW status, status \notin Visible, Walk(w, "loaded", status)
  PROVE  Serial'
<1>1. ~Idle(w) /\ listing' = task[w].entity /\ UNCHANGED request
  BY SavedListing
<1>2. /\ Others(w) /\ task'[w].op = task[w].op /\ task'[w].row = task[w].row
      /\ task'[w].at = "loaded" /\ task'[w].read = 1
      /\ task'[w].entity = [task[w].entity EXCEPT !.status = status]
  BY StepShapes DEF Calm, Keeps
<1>3. task'[w].entity.status = status
  BY <1>1, <1>2, HeldListing DEF Listings
<1>4. Held(w)'
  BY <1>1, <1>2, <1>3 DEF Held, HoldsListing, RequestOps, At
<1> QED BY <1>1, <1>2, <1>4, HeldListing, ListingMoves, GoOnKeeps DEF Unburdened

LEMMA SaveVendorStep ==
  ASSUME Calm, NEW w \in Workers, SaveEdit(w) \/ SaveFirstReview(w) \/ SaveSubmit(w)
  PROVE  Serial'
<1>1. /\ WriteListing(w) /\ SavesListing(w) /\ task[w].at = "loaded"
      /\ task[w].op \in {"edit", "first_review", "submit"}
  BY DEF SaveEdit, SaveFirstReview, SaveSubmit, At, SavesListing, RequestOps
<1>2. CASE SaveEdit(w)
  BY <1>1, <1>2, SaveAndFinish DEF SaveEdit
<1>3. CASE SaveFirstReview(w)
  <2>1. CASE task[w].entity.status = "ready_for_review"
    BY <1>1, <1>3, <2>1, WalkStep DEF SaveFirstReview, At, Visible
  <2>2. CASE task[w].entity.status # "ready_for_review"
    BY <1>1, <1>3, <2>2, SaveAndFinish DEF SaveFirstReview
  <2> QED BY <2>1, <2>2
<1>4. CASE SaveSubmit(w)
  <2>1. CASE task[w].entity.status = "first_review"
    BY <1>1, <1>4, <2>1, WalkStep DEF SaveSubmit, At, Visible
  <2>2. CASE task[w].entity.status # "first_review"
    <3>1. ~Idle(w) /\ listing' = task[w].entity /\ UNCHANGED request
      BY <1>1, SavedListing
    <3>2. GoTo(w, "raising", 0) /\ task[w].op = "submit"
      BY <1>4, <2>2 DEF SaveSubmit, At
    <3>3. /\ Others(w) /\ task'[w].op = "submit" /\ task'[w].row = task[w].row
          /\ task'[w].at = "raising" /\ task'[w].read = 0
          /\ task'[w].entity = task[w].entity
      BY <3>2, StepShapes DEF Calm, Keeps
    <3>4. Held(w)'
      BY <3>1, <3>3, HeldListing, ListingMoves DEF Held, HoldsListing, RequestOps, At
    <3> QED BY <3>1, <3>3, <3>4, HeldListing, ListingMoves, GoOnKeeps DEF Unburdened
  <2> QED BY <2>1, <2>2
<1> QED BY <1>2, <1>3, <1>4

(* A handler with nothing to remember goes on, or ends, over the tables as *)
(* they are.                                                               *)
LEMMA OnwardKeeps ==
  ASSUME Calm, NEW w \in Workers, ~Idle(w), UNCHANGED <<listing, request>>,
         Others(w), Keeps(w, {"op", "outcome", "row", "entity"}), task'[w].read = 0,
         \/ task[w].op \notin RequestOps
            /\ task'[w].at \in {"raising", "resubmitting", "clocking", "reviving"}
         \/ task'[w].at = "inserting" /\ Unsettled = {} /\ task[w].op \notin RequestOps
         \/ task'[w].at = "moving" /\ task[w].op = "decide" /\ task[w].outcome = "revisit"
  PROVE  Serial'
<1>1. /\ task'[w].op = task[w].op /\ task'[w].outcome = task[w].outcome
      /\ task'[w].row = task[w].row /\ task'[w].entity = task[w].entity
  BY DEF Keeps
<1>2. Unsettled' = Unsettled /\ Approved' = Approved
  BY TablesKept
<1>3. Held(w)'
  BY <1>1, <1>2, HeldListing DEF Held, HoldsListing, RequestOps, At, Idle, Outcomes
<1> QED BY <1>1, <1>3, HeldListing, TablesKept, GoOnKeeps DEF Unburdened

LEMMA RaiseStep == ASSUME Calm, NEW w \in Workers, Raise(w) PROVE Serial'
<1>1. /\ ~Idle(w) /\ UNCHANGED <<listing, request>>
      /\ task[w].op = "submit" /\ task[w].op \notin RequestOps
  BY DEF Raise, At, Idle, OnlyTasks, RequestOps
<1>2. ASSUME NEW r, NEW step \in {"resubmitting", "clocking"}, Answered(w, step, r)
      PROVE  Serial'
  <2>1. /\ Others(w) /\ Keeps(w, {"op", "outcome", "row", "entity"})
        /\ task'[w].at = step /\ task'[w].read = 0
    BY <1>2, StepShapes DEF Calm
  <2> QED BY <1>1, <2>1, OnwardKeeps
<1>3. CASE Open = {} /\ WithStatus({"rejected"}) = {} /\ GoTo(w, "inserting", 0)
  <2>1. /\ Others(w) /\ Keeps(w, {"op", "outcome", "row", "entity"})
        /\ task'[w].at = "inserting" /\ task'[w].read = 0
    BY <1>3, StepShapes DEF Calm, Keeps
  <2>2. Unsettled = {}
    BY <1>3, TableFact DEF Unsettled, Open, WithStatus, OpenStatuses, Calm, Rows,
                           RequestStatuses
  <2> QED BY <1>1, <2>1, <2>2, OnwardKeeps
<1>4. CASE Finish(w)
  BY <1>1, <1>4, TablesKept, FinishKeeps
<1> QED BY <1>2, <1>3, <1>4 DEF Raise

(* startSla, whether it writes or not: the row is what it was. *)
ClockedOnce(w) ==
  task[w].at = "clocking" /\ AfterClock(w) /\ UNCHANGED <<listing, request, cases, disturbed>>

LEMMA ClockedStep == ASSUME Calm, NEW w \in Workers, ClockedOnce(w) PROVE Serial'
<1>1. /\ ~Idle(w) /\ UNCHANGED <<listing, request>> /\ task[w].at = "clocking"
  BY DEF ClockedOnce, Idle
<1>2. CASE Finish(w)
  BY <1>1, <1>2, TablesKept, FinishKeeps
<1>3. CASE task[w].op = "decide" /\ GoTo(w, "moving", 0)
  <2>1. /\ Others(w) /\ Keeps(w, {"op", "outcome", "row", "entity"})
        /\ task'[w].at = "moving" /\ task'[w].read = 0
    BY <1>3, StepShapes DEF Calm, Keeps
  <2>2. task[w].outcome = "revisit"
    BY <1>1, <1>3 DEF Calm, Serial, Held, At
  <2> QED BY <1>1, <1>3, <2>1, <2>2, OnwardKeeps
<1> QED BY <1>2, <1>3 DEF ClockedOnce, AfterClock

LEMMA ClockOnce ==
  ASSUME Calm, NEW w \in Workers, ClockStep(w)
  PROVE  \/ ClockedOnce(w)
         \/ Loading(w) /\ HoldRequest(w, task[w].of, request[task[w].of]) /\ OnlyTasks
            /\ task[w].at = "clocking" /\ task[w].of \in RequestIds
<1>1. CASE LoadClock(w)
  BY <1>1, TaskFact DEF LoadClock, ClockedOnce, OnlyTasks, Calm, Aimed
<1>2. CASE StartClock(w)
  <2>1. SavesRequest(w) /\ WriteRequest(w) /\ task[w].at = "clocking"
    BY <1>2 DEF StartClock, SavesRequest
  <2>2. /\ task[w].of \in RequestIds /\ task[w].read = 2
        /\ request' = [request EXCEPT ![task[w].of] = task[w].row]
        /\ UNCHANGED <<listing, cases, disturbed>>
    BY <2>1, SavedRequest
  <2>3. task[w].row = request[task[w].of]
    <3>1. Loaded(w)
      BY <2>2 DEF Calm, Serial, Holding
    <3> QED BY <2>1, <3>1 DEF Loaded
  <2>4. request' = request
    BY <2>2, <2>3, TableFact DEF Calm
  <2> QED BY <1>2, <2>2, <2>4 DEF StartClock, ClockedOnce
<1> QED BY <1>1, <1>2 DEF ClockStep

LEMMA InsertRequestStep ==
  ASSUME Calm, NEW w \in Workers, InsertRequest(w) PROVE Serial'
<1>1. /\ ~Idle(w) /\ task[w].at = "inserting" /\ UNCHANGED listing /\ task[w].op = "submit"
  BY DEF InsertRequest, At, Idle
<1>2. PICK r \in WithStatus({"absent"}) :
        request' = [request EXCEPT ![r] = NewRow] /\ Answered(w, "clocking", r)
  BY DEF InsertRequest
<1>3. Unsettled = {}
  BY <1>1 DEF Calm, Serial, Held
<1>4. r \in RequestIds /\ r \notin Approved
  BY DEF WithStatus, Approved
<1>5. /\ \A q \in RequestIds : RowOK(request'[q])
      /\ Settlement' /\ Approved \subseteq Approved'
  BY <1>1, <1>2, <1>3, <1>4, NewRowFact, RequestMoves
<1>6. /\ Others(w) /\ task'[w].op = "submit" /\ task'[w].row = task[w].row
      /\ task'[w].entity = task[w].entity
      /\ task'[w].at = "clocking" /\ task'[w].read = 0
  BY <1>1, <1>2, StepShapes DEF Calm, Keeps
<1>7. Held(w)'
  BY <1>1, <1>5, <1>6, HeldListing DEF Held, HoldsListing, RequestOps, At
<1> QED BY <1>1, <1>5, <1>6, <1>7, HeldListing, GoOnKeeps DEF Unburdened

(* markResubmitted, whether or not the request is still parked. *)
ResubmittedOnce(w) ==
  LET r == task[w].of IN
  /\ At(w, "submit", "resubmitting") /\ r \in RequestIds
  /\ request' = IF request[r].status \in Parked
                THEN [request EXCEPT ![r] = SentBack(@, "new", LastOfficer(@))]
                ELSE request
  /\ GoTo(w, "clocking", 0)
  /\ UNCHANGED <<listing, cases, disturbed>>

LEMMA ResubmittedStep ==
  ASSUME Calm, NEW w \in Workers, ResubmittedOnce(w) PROVE Serial'
<1> DEFINE r == task[w].of
           row == SentBack(request[r], "new", LastOfficer(request[r]))
<1>1. /\ ~Idle(w) /\ UNCHANGED listing /\ r \in RequestIds /\ task[w].op = "submit"
      /\ GoTo(w, "clocking", 0)
  BY DEF ResubmittedOnce, At, Idle
<1>2. /\ Others(w) /\ task'[w].op = "submit" /\ task'[w].row = task[w].row
      /\ task'[w].entity = task[w].entity
      /\ task'[w].at = "clocking" /\ task'[w].read = 0
  BY <1>1, StepShapes DEF Calm, Keeps
<1>3. /\ \A q \in RequestIds : RowOK(request'[q])
      /\ Settlement' /\ Approved \subseteq Approved'
  <2>1. CASE request' = request
    BY <1>1, <2>1, TablesKept
  <2>2. CASE request[r].status \in Parked /\ request' = [request EXCEPT ![r] = row]
    <3>1. request[r] \in Rows
      BY <1>1, TableFact DEF Calm
    <3>2. row \in Rows /\ RowOK(row)
      BY <3>1, SentBackFact, LastOfficerType
    <3>3. r \in Unsettled /\ r \notin Approved
      BY <1>1, <2>2 DEF Unsettled, Approved, WithStatus, Parked
    <3> HIDE DEF r, row
    <3> QED BY <1>1, <2>2, <3>2, <3>3, RequestMoves
  <2> QED BY <2>1, <2>2 DEF ResubmittedOnce
<1>4. Held(w)'
  BY <1>1, <1>2, <1>3, HeldListing DEF Held, HoldsListing, RequestOps, At
<1> QED BY <1>1, <1>2, <1>3, <1>4, HeldListing, GoOnKeeps DEF Unburdened

LEMMA ResubmitOnce ==
  ASSUME Calm, NEW w \in Workers, LoadResubmitted(w) \/ MarkResubmitted(w)
  PROVE  \/ ResubmittedOnce(w)
         \/ /\ Loading(w) /\ OnlyTasks /\ At(w, "submit", "resubmitting")
            /\ task[w].of \in RequestIds /\ request[task[w].of].status \in Parked
            /\ HoldRequest(w, task[w].of, SentBack(request[task[w].of], "new",
                                                   LastOfficer(request[task[w].of])))
<1> DEFINE r == task[w].of
<1>1. At(w, "submit", "resubmitting") /\ r \in RequestIds
  BY TaskFact DEF LoadResubmitted, MarkResubmitted, Calm, Aimed, At
<1>2. CASE LoadResubmitted(w)
  BY <1>1, <1>2 DEF LoadResubmitted, ResubmittedOnce, OnlyTasks
<1>3. CASE MarkResubmitted(w)
  <2>1. SavesRequest(w) /\ WriteRequest(w) /\ GoTo(w, "clocking", 0)
    BY <1>3 DEF MarkResubmitted, SavesRequest, At
  <2>2. /\ task[w].read = 2 /\ request' = [request EXCEPT ![r] = task[w].row]
        /\ UNCHANGED <<listing, cases, disturbed>>
    BY <2>1, SavedRequest
  <2>3. /\ request[r].status \in Parked
        /\ task[w].row = SentBack(request[r], "new", LastOfficer(request[r]))
    <3>1. Loaded(w)
      BY <2>2 DEF Calm, Serial, Holding
    <3> QED BY <1>1, <3>1 DEF Loaded, At
  <2> QED BY <1>1, <2>1, <2>2, <2>3 DEF ResubmittedOnce
<1> QED BY <1>2, <1>3

-----------------------------------------------------------------------------
(* The officer and the administrator *)

LEMMA BeginOnRequestStep ==
  ASSUME Calm, NEW w \in Workers, NEW op \in RequestOps, NEW step \in {"loaded", "marking"},
         NEW outcome, NEW r \in Unsettled, NEW row, RowOK(row), row.status # "absent",
         op = "decide" => outcome \in Outcomes /\ step = "loaded",
         op = "decide" /\ outcome = "approve" => row.status = "approved",
         BeginOnRequest(w, op, step, outcome, r, row), Free({"overlap"})'
  PROVE  Serial'
<1>1. /\ Others(w)
      /\ task'[w].op = op /\ task'[w].at = step /\ task'[w].outcome = outcome
      /\ task'[w].of = r /\ task'[w].row = row
      /\ task'[w].entity.status = "draft"
      /\ task'[w].read = IF step = "loaded" THEN 1 ELSE 0
      /\ Disturb(Overlapping(w)) /\ UNCHANGED <<listing, request, written>>
  BY RequestBegun DEF Calm
<1>2. Unsettled' = Unsettled
  BY <1>1, TablesKept
<1>3. Held(w)'
  BY <1>1, <1>2 DEF Held, HoldsListing, RequestOps, Visible, At
<1>4. Unburdened(task'[w])
  BY <1>1 DEF Unburdened
<1> QED BY <1>1, <1>3, <1>4, BeginKeeps

LEMMA DecidedFact ==
  ASSUME NEW row \in Rows, RowOK(row), NEW outcome \in Outcomes,
         outcome = "approve" => row.findings # 0
  PROVE  /\ RowOK(Decided(row, outcome)) /\ Decided(row, outcome).status # "absent"
         /\ outcome = "approve" => Decided(row, outcome).status = "approved"
<1>1. CASE outcome = "approve"
  BY <1>1 DEF Decided, Rows, RowOK
<1>2. CASE outcome \in {"reject", "issue"}
  BY <1>2 DEF Decided, Rows, RowOK
<1>3. CASE outcome \in {"revisit", "correct"}
  <2>1. row.officer \in Officers \cup {NoOfficer}
    BY DEF Rows
  <2>2. PICK previous \in Officers \cup {NoOfficer} :
          Decided(row, outcome) = SentBack(row, "additional_review", previous)
    BY <1>3, <2>1, LastOfficerType DEF Decided
  <2> QED BY <1>3, <2>2, SentBackFact
<1> QED BY <1>1, <1>2, <1>3 DEF Outcomes

LEMMA BeginStaffStep ==
  ASSUME Calm, NEW w \in Workers, Free({"overlap"})',
         \/ BeginStart(w) \/ BeginFindings(w) \/ BeginReview(w)
         \/ BeginAllocate(w) \/ BeginDecide(w)
  PROVE  Serial'
<1>1. CASE BeginStart(w)
  <2>1. PICK r \in WithStatus({"assigned", "additional_review"}) :
          BeginOnRequest(w, "start", "marking", "none", r,
            [request[r] EXCEPT !.status = "in_progress"])
    BY <1>1 DEF BeginStart
  <2> DEFINE row == [request[r] EXCEPT !.status = "in_progress"]
  <2>2. r \in Unsettled /\ r \in RequestIds
    BY DEF Unsettled, WithStatus
  <2>3. RowOK(row) /\ row.status # "absent"
    BY <2>2, TablesOK DEF Rows, RowOK
  <2> HIDE DEF row
  <2> QED BY <2>1, <2>2, <2>3, BeginOnRequestStep DEF RequestOps, row
<1>2. CASE BeginFindings(w)
  <2>1. PICK r \in WithStatus({"assigned", "in_progress", "additional_review"}) :
          /\ request[r].officer # NoOfficer
          /\ BeginOnRequest(w, "findings", "loaded", "none", r,
               [request[r] EXCEPT !.status = "submitted", !.findings = listing.edition])
    BY <1>2 DEF BeginFindings
  <2> DEFINE row == [request[r] EXCEPT !.status = "submitted", !.findings = listing.edition]
  <2>2. r \in Unsettled /\ r \in RequestIds
    BY DEF Unsettled, WithStatus
  <2>3. RowOK(row) /\ row.status # "absent"
    BY <2>1, <2>2, TablesOK DEF Rows, RowOK
  <2> HIDE DEF row
  <2> QED BY <2>1, <2>2, <2>3, BeginOnRequestStep DEF RequestOps, row
<1>3. CASE BeginReview(w)
  <2>1. PICK r \in WithStatus({"submitted"}) :
          BeginOnRequest(w, "review", "loaded", "none", r,
            [request[r] EXCEPT !.status = "admin_review"])
    BY <1>3 DEF BeginReview
  <2> DEFINE row == [request[r] EXCEPT !.status = "admin_review"]
  <2>2. r \in Unsettled /\ r \in RequestIds
    BY DEF Unsettled, WithStatus
  <2>3. RowOK(row) /\ row.status # "absent"
    BY <2>2, TablesOK DEF Rows, RowOK
  <2> HIDE DEF row
  <2> QED BY <2>1, <2>2, <2>3, BeginOnRequestStep DEF RequestOps, row
<1>4. CASE BeginAllocate(w)
  <2>1. PICK r \in Raised \ WithStatus({"approved"}), o \in Officers :
          BeginOnRequest(w, "allocate", "loaded", "none", r,
            [request[r] EXCEPT !.officer = o, !.previous = NoOfficer, !.status = "assigned"])
    BY <1>4 DEF BeginAllocate
  <2> DEFINE row == [request[r] EXCEPT !.officer = o, !.previous = NoOfficer,
                                       !.status = "assigned"]
  <2>2. r \in Unsettled /\ r \in RequestIds
    BY DEF Unsettled, WithStatus, Raised
  <2>3. RowOK(row) /\ row.status # "absent"
    BY <2>2, TablesOK, OfficersAssumption DEF Rows, RowOK
  <2> HIDE DEF row
  <2> QED BY <2>1, <2>2, <2>3, BeginOnRequestStep DEF RequestOps, row
<1>5. CASE BeginDecide(w)
  <2>1. PICK r \in Raised \ WithStatus({"approved"}), outcome \in Outcomes :
          /\ outcome = "approve" => request[r].findings # 0
          /\ BeginOnRequest(w, "decide", "loaded", outcome, r, Decided(request[r], outcome))
    BY <1>5 DEF BeginDecide
  <2> DEFINE row == Decided(request[r], outcome)
  <2>2. r \in Unsettled /\ r \in RequestIds
    BY DEF Unsettled, WithStatus, Raised
  <2>3. /\ RowOK(row) /\ row.status # "absent"
        /\ outcome = "approve" => row.status = "approved"
    BY <2>1, <2>2, TablesOK, DecidedFact
  <2> HIDE DEF row
  <2> QED BY <2>1, <2>2, <2>3, BeginOnRequestStep DEF RequestOps, row
<1> QED BY <1>1, <1>2, <1>3, <1>4, <1>5

(* markInProgress, whether or not it moves the listing. *)
MarkedOnce(w) ==
  /\ At(w, "start", "marking")
  /\ listing' = IF "in_progress" \in Moves[listing.status]
                THEN [listing EXCEPT !.status = "in_progress"]
                ELSE listing
  /\ GoTo(w, "loaded", 1)
  /\ UNCHANGED <<request, cases, disturbed>>

LEMMA MarkedStep == ASSUME Calm, NEW w \in Workers, MarkedOnce(w) PROVE Serial'
<1>1. /\ ~Idle(w) /\ task[w].op = "start" /\ task[w].at = "marking"
      /\ GoTo(w, "loaded", 1) /\ UNCHANGED request
  BY DEF MarkedOnce, At, Idle
<1>2. /\ Others(w) /\ task'[w].op = "start" /\ task'[w].at = "loaded"
      /\ task'[w].row = task[w].row /\ task'[w].of = task[w].of
      /\ task'[w].entity = task[w].entity /\ task'[w].read = 1
  BY <1>1, StepShapes DEF Calm, Keeps
<1>3. listing'.status \in Visible => listing.status \in Visible
  <2>1. [listing EXCEPT !.status = "in_progress"].status = "in_progress"
    BY TableFact DEF Calm, Listings
  <2> QED BY <2>1 DEF MarkedOnce, Visible
<1>4. /\ \A r \in RequestIds : RowOK(request'[r])
      /\ Settlement' /\ Approved' = Approved /\ Unsettled' = Unsettled
  <2>1. listing'.status \in Visible => Approved # {}
    BY <1>3 DEF Calm, Serial, Settlement
  <2> QED BY <1>1, <2>1, ListingMoves
<1>5. Held(w)'
  <2>1. /\ task[w].of \in Unsettled /\ task[w].row.status # "absent"
        /\ task[w].entity.status \in Visible => Approved # {}
    BY <1>1 DEF Calm, Serial, Held, RequestOps
  <2> QED BY <1>2, <1>4, <2>1 DEF Held, HoldsListing, At
<1> QED BY <1>1, <1>2, <1>4, <1>5, HeldListing, GoOnKeeps DEF Unburdened

LEMMA MarkOnce ==
  ASSUME Calm, NEW w \in Workers, LoadInProgress(w) \/ MarkInProgress(w)
  PROVE  \/ MarkedOnce(w)
         \/ /\ Loading(w) /\ OnlyTasks /\ At(w, "start", "marking")
            /\ "in_progress" \in Moves[listing.status] /\ HoldListing(w, "in_progress")
<1>1. CASE LoadInProgress(w)
  BY <1>1 DEF LoadInProgress, MarkedOnce, OnlyTasks
<1>2. CASE MarkInProgress(w)
  <2>1. SavesListing(w) /\ WriteListing(w) /\ GoTo(w, "loaded", 1) /\ At(w, "start", "marking")
    BY <1>2 DEF MarkInProgress, SavesListing, At
  <2>2. /\ task[w].read = 2 /\ listing' = task[w].entity
        /\ UNCHANGED <<request, cases, disturbed>>
    BY <2>1, SavedListing
  <2>3. /\ "in_progress" \in Moves[listing.status]
        /\ task[w].entity = [listing EXCEPT !.status = "in_progress"]
    <3>1. Loaded(w)
      BY <2>2 DEF Calm, Serial, Holding
    <3> QED BY <2>1, <3>1 DEF Loaded, At
  <2> QED BY <2>1, <2>2, <2>3 DEF MarkedOnce
<1> QED BY <1>1, <1>2

LEMMA SaveRequestStep == ASSUME Calm, NEW w \in Workers, SaveRequest(w) PROVE Serial'
<1> DEFINE r == task[w].of
           row == task[w].row
<1>1. /\ task[w].op \in RequestOps /\ task[w].at = "loaded"
      /\ WriteRequest(w) /\ SavesRequest(w)
  BY DEF SaveRequest, SavesRequest
<1>2. /\ ~Idle(w) /\ r \in RequestIds /\ request' = [request EXCEPT ![r] = row]
      /\ UNCHANGED <<listing, cases, disturbed>>
  BY <1>1, SavedRequest
<1>3. row \in Rows /\ RowOK(row)
  BY <1>2, HeldListing
<1>4. /\ r \in Unsettled /\ r \notin Approved
      /\ task[w].op = "decide" /\ task[w].outcome = "approve" => row.status = "approved"
      /\ task[w].entity.status \in Visible => Approved # {}
      /\ task[w].op = "decide" => task[w].outcome \in Outcomes
  BY <1>1, <1>2 DEF Calm, Serial, Held, Unsettled, Approved, WithStatus
<1>5. /\ \A q \in RequestIds : RowOK(request'[q])
      /\ Settlement' /\ request'[r] = row /\ Approved \subseteq Approved'
  <2> HIDE DEF r, row
  <2> QED BY <1>2, <1>3, <1>4, RequestMoves
<1>6. CASE task[w].op = "decide"
  <2>1. PICK step \in {"clocking", "moving"} :
          /\ GoTo(w, step, 0)
          /\ step = "clocking" <=> task[w].outcome = "revisit"
    BY <1>6 DEF SaveRequest
  <2>2. /\ Others(w) /\ task'[w].op = "decide" /\ task'[w].at = step /\ task'[w].row = row
        /\ task'[w].outcome = task[w].outcome /\ task'[w].entity = task[w].entity
        /\ task'[w].read = 0
    BY <1>6, <2>1, StepShapes DEF Calm, Keeps
  <2>3. task[w].outcome = "approve" => Approved' # {}
    BY <1>2, <1>4, <1>5, <1>6 DEF Approved, WithStatus
  <2>4. Held(w)'
    BY <1>4, <1>5, <1>6, <2>1, <2>2, <2>3 DEF Held, HoldsListing, At
  <2> QED BY <1>2, <1>3, <1>5, <2>2, <2>4, GoOnKeeps DEF Unburdened
<1>7. CASE task[w].op # "decide"
  <2>1. Finish(w)
    BY <1>7 DEF SaveRequest
  <2> QED BY <1>2, <1>5, <2>1, FinishKeeps
<1> QED BY <1>6, <1>7

LEMMA DestinationFact ==
  ASSUME NEW status \in ListingStatuses, NEW outcome \in Outcomes \ {"approve"}
  PROVE  /\ Destination(status, outcome) \in ListingStatuses
         /\ Destination(status, outcome) \in Visible => status \in Visible
BY DEF Destination, ListingStatuses, Visible, Outcomes

(* Any decision but an approval moves the listing, or is refused. *)
MovedOnce(w) ==
  LET to == Destination(listing.status, task[w].outcome) IN
  /\ task[w].at = "moving" /\ task[w].outcome \in Outcomes \ {"approve"}
  /\ listing' = IF MayMove(listing.status, to)
                THEN [listing EXCEPT !.status = to]
                ELSE listing
  /\ Finish(w)
  /\ UNCHANGED <<request, cases, disturbed>>

LEMMA MovedStep == ASSUME Calm, NEW w \in Workers, MovedOnce(w) PROVE Serial'
<1> DEFINE to == Destination(listing.status, task[w].outcome)
<1>1. /\ ~Idle(w) /\ task[w].outcome \in Outcomes \ {"approve"} /\ Finish(w)
      /\ UNCHANGED request
  BY DEF MovedOnce, Idle
<1>2. listing \in Listings /\ listing.status \in ListingStatuses
  BY TableFact DEF Calm
<1>3. listing.status \in Visible => Approved # {}
  BY DEF Calm, Serial, Settlement
<1>4. to \in Visible => listing.status \in Visible
  BY <1>1, <1>2, DestinationFact
<1>5. listing' = listing \/ listing' = [listing EXCEPT !.status = to]
  BY DEF MovedOnce
<1> HIDE DEF to
<1>6. listing'.status \in Visible => Approved # {}
  BY <1>2, <1>3, <1>4, <1>5 DEF Listings
<1> QED BY <1>1, <1>6, ListingMoves, FinishKeeps

(* An approval moves the listing to VERIFIED and on to LIVE, or is refused. *)
VerifiedOnce(w) ==
  /\ task[w].at = "moving" /\ task[w].outcome = "approve"
  /\ IF MayMove(listing.status, "verified")
     THEN /\ listing' = [listing EXCEPT !.status = "verified"]
          /\ Others(w) /\ Keeps(w, {"op", "outcome", "of", "row"})
          /\ task'[w].at = "opening" /\ task'[w].read = 1
          /\ task'[w].entity = [listing EXCEPT !.status = "live"]
     ELSE UNCHANGED listing /\ Finish(w)
  /\ UNCHANGED <<request, cases, disturbed>>

LEMMA VerifiedStep == ASSUME Calm, NEW w \in Workers, VerifiedOnce(w) PROVE Serial'
<1>1. /\ ~Idle(w) /\ task[w].at = "moving" /\ task[w].outcome = "approve"
      /\ UNCHANGED request
  BY DEF VerifiedOnce, Idle
<1>2. Approved # {} /\ listing \in Listings
  BY <1>1, TableFact DEF Calm, Serial, Held
<1>3. CASE MayMove(listing.status, "verified")
  <2>1. /\ Others(w) /\ task'[w].op = task[w].op /\ task'[w].row = task[w].row
        /\ task'[w].outcome = "approve"
        /\ task'[w].at = "opening" /\ task'[w].read = 1
        /\ listing' = [listing EXCEPT !.status = "verified"]
    BY <1>1, <1>3 DEF VerifiedOnce, Keeps
  <2>2. listing'.status = "verified"
    BY <1>2, <2>1 DEF Listings
  <2>3. /\ \A q \in RequestIds : RowOK(request'[q])
        /\ Settlement' /\ Approved' = Approved
    BY <1>1, <1>2, ListingMoves
  <2>4. Held(w)'
    BY <1>2, <2>1, <2>2, <2>3 DEF Held, HoldsListing, At, Outcomes
  <2> QED BY <1>1, <2>1, <2>3, <2>4, HeldListing, GoOnKeeps DEF Unburdened
<1>4. CASE ~MayMove(listing.status, "verified")
  <2>1. UNCHANGED listing /\ Finish(w)
    BY <1>4 DEF VerifiedOnce
  <2> QED BY <1>1, <2>1, TablesKept, FinishKeeps
<1> QED BY <1>3, <1>4

LEMMA MoveOnce ==
  ASSUME Calm, NEW w \in Workers, LoadMove(w) \/ MoveListing(w)
  PROVE  \/ MovedOnce(w) \/ VerifiedOnce(w)
         \/ /\ Loading(w) /\ OnlyTasks /\ task[w].at = "moving"
            /\ MayMove(listing.status, Destination(listing.status, task[w].outcome))
            /\ task[w].outcome = "revisit" => listing.status = "in_progress"
            /\ HoldListing(w, Destination(listing.status, task[w].outcome))
<1> DEFINE to == Destination(listing.status, task[w].outcome)
<1>1. /\ task[w].at = "moving" /\ task[w].outcome \in Outcomes
      /\ listing \in Listings
  BY TableFact DEF LoadMove, MoveListing, Calm, Serial, Held
<1>2. task[w].outcome = "approve" => to = "verified"
  BY DEF Destination
<1>3. CASE LoadMove(w)
  <2>1. UNCHANGED <<listing, request, cases, disturbed>>
    BY <1>3 DEF LoadMove, OnlyTasks
  <2>2. CASE MayMove(listing.status, to)
             /\ (task[w].outcome = "revisit" => listing.status = "in_progress")
    BY <1>3, <2>2 DEF LoadMove
  <2>3. CASE ~MayMove(listing.status, to)
    BY <1>1, <1>2, <1>3, <2>1, <2>3 DEF LoadMove, MovedOnce, VerifiedOnce
  <2>4. CASE task[w].outcome = "revisit" /\ listing.status # "in_progress"
    <3>1. to = listing.status
      BY <2>4 DEF Destination
    <3>2. [listing EXCEPT !.status = to] = listing
      BY <1>1, <3>1 DEF Listings
    <3>3. Finish(w)
      BY <1>3, <2>4 DEF LoadMove
    <3> HIDE DEF to
    <3> QED BY <1>1, <2>1, <2>4, <3>2, <3>3 DEF MovedOnce, to
  <2> QED BY <2>2, <2>3, <2>4
<1>4. CASE MoveListing(w)
  <2>1. SavesListing(w) /\ WriteListing(w)
    BY <1>4 DEF MoveListing, SavesListing
  <2>2. /\ task[w].read = 2 /\ listing' = task[w].entity
        /\ UNCHANGED <<request, cases, disturbed>>
    BY <2>1, SavedListing
  <2>3. MayMove(listing.status, to) /\ task[w].entity = [listing EXCEPT !.status = to]
    <3>1. Loaded(w)
      BY <2>2 DEF Calm, Serial, Holding
    <3> QED BY <1>1, <3>1 DEF Loaded
  <2>4. CASE task[w].outcome = "approve"
    <3>1. Walk(w, "opening", "live")
      BY <1>4, <2>4 DEF MoveListing
    <3>2. /\ Others(w) /\ Keeps(w, {"op", "outcome", "of", "row"})
          /\ task'[w].at = "opening" /\ task'[w].read = 1
          /\ task'[w].entity = [task[w].entity EXCEPT !.status = "live"]
      BY <3>1, StepShapes DEF Calm
    <3>3. task'[w].entity = [listing EXCEPT !.status = "live"]
      BY <1>1, <2>3, <3>2 DEF Listings
    <3> QED BY <1>1, <1>2, <2>2, <2>3, <2>4, <3>2, <3>3 DEF VerifiedOnce
  <2>5. CASE task[w].outcome # "approve"
    BY <1>1, <1>4, <2>2, <2>3, <2>5 DEF MoveListing, MovedOnce
  <2> QED BY <2>4, <2>5
<1> QED BY <1>3, <1>4

-----------------------------------------------------------------------------
(* The support desk *)

LEMMA BeginCaseStep ==
  ASSUME Calm, NEW w \in Workers, BeginUnlock(w) \/ BeginGrant(w), Free({"overlap"})'
  PROVE  Serial'
<1>1. PICK op \in {"unlock", "grant"}, step \in {"reopening", "moving"},
           outcome \in {"none", "issue", "correct"} :
        BeginCase(w, op, step, outcome) /\ (step = "moving" => outcome # "none")
  BY DEF BeginUnlock, BeginGrant
<1>2. /\ Others(w)
      /\ task'[w].op = op /\ task'[w].at = step /\ task'[w].outcome = outcome
      /\ task'[w].row = NoRow /\ task'[w].entity.status = "draft" /\ task'[w].read = 0
      /\ Disturb(Overlapping(w) \cup Underneath) /\ UNCHANGED <<listing, request, written>>
  BY <1>1, CaseBegun DEF Calm
<1>3. Held(w)'
  BY <1>1, <1>2 DEF Held, HoldsListing, Visible, RequestOps, At, Outcomes
<1> QED BY <1>2, <1>3, NoRowFact, BeginKeeps DEF Unburdened

(* The listing is reopened if it is still refused. *)
ReopenedOnce(w) ==
  /\ task[w].at = "reopening"
  /\ listing' = IF listing.status = "rejected"
                THEN [listing EXCEPT !.status = "reverification_required"]
                ELSE listing
  /\ GoTo(w, "reviving", 0)
  /\ UNCHANGED <<request, cases, disturbed>>

LEMMA ReopenedStep == ASSUME Calm, NEW w \in Workers, ReopenedOnce(w) PROVE Serial'
<1>1. ~Idle(w) /\ GoTo(w, "reviving", 0) /\ UNCHANGED request
  BY DEF ReopenedOnce, Idle
<1>2. /\ Others(w) /\ task'[w].at = "reviving" /\ task'[w].read = 0
      /\ task'[w].row = task[w].row /\ task'[w].entity = task[w].entity
      /\ task'[w].op = task[w].op /\ task'[w].outcome = task[w].outcome
  BY <1>1, StepShapes DEF Calm, Keeps
<1>3. listing'.status \in Visible => listing.status \in Visible
  <2>1. [listing EXCEPT !.status = "reverification_required"].status
          = "reverification_required"
    BY TableFact DEF Calm, Listings
  <2> QED BY <2>1 DEF ReopenedOnce, Visible
<1>4. /\ \A r \in RequestIds : RowOK(request'[r])
      /\ Settlement' /\ Approved' = Approved
  <2>1. listing'.status \in Visible => Approved # {}
    BY <1>3 DEF Calm, Serial, Settlement
  <2> QED BY <1>1, <2>1, ListingMoves
<1>5. Held(w)'
  BY <1>1, <1>2, <1>4, HeldListing DEF Held, HoldsListing, At, Idle, Calm, Serial
<1> QED BY <1>1, <1>2, <1>4, <1>5, HeldListing, GoOnKeeps DEF Unburdened

LEMMA ReopenOnce ==
  ASSUME Calm, NEW w \in Workers, LoadRejected(w) \/ ReopenListing(w)
  PROVE  \/ ReopenedOnce(w)
         \/ /\ Loading(w) /\ OnlyTasks /\ task[w].at = "reopening"
            /\ listing.status = "rejected" /\ HoldListing(w, "reverification_required")
<1>1. CASE LoadRejected(w)
  BY <1>1 DEF LoadRejected, ReopenedOnce, OnlyTasks
<1>2. CASE ReopenListing(w)
  <2>1. SavesListing(w) /\ WriteListing(w) /\ GoTo(w, "reviving", 0)
        /\ task[w].at = "reopening"
    BY <1>2 DEF ReopenListing, SavesListing
  <2>2. /\ task[w].read = 2 /\ listing' = task[w].entity
        /\ UNCHANGED <<request, cases, disturbed>>
    BY <2>1, SavedListing
  <2>3. /\ listing.status = "rejected"
        /\ task[w].entity = [listing EXCEPT !.status = "reverification_required"]
    <3>1. Loaded(w)
      BY <2>2 DEF Calm, Serial, Holding
    <3> QED BY <2>1, <3>1 DEF Loaded
  <2> QED BY <2>1, <2>2, <2>3 DEF ReopenedOnce
<1> QED BY <1>1, <1>2

(* A refused request, if there is one, goes back to the vendor. *)
RevivedOnce(w) ==
  /\ task[w].at = "reviving"
  /\ \/ Refused = {} /\ UNCHANGED request
     \/ \E r \in Refused : request' = [request EXCEPT ![r] =
          SentBack(@, "additional_review", LastOfficer(@))]
  /\ Finish(w)
  /\ UNCHANGED <<listing, cases, disturbed>>

LEMMA RevivedStep == ASSUME Calm, NEW w \in Workers, RevivedOnce(w) PROVE Serial'
<1>1. ~Idle(w) /\ Finish(w) /\ UNCHANGED listing
  BY DEF RevivedOnce, Idle
<1>2. CASE UNCHANGED request
  BY <1>1, <1>2, TablesKept, FinishKeeps
<1>3. ASSUME NEW r \in Refused,
             request' = [request EXCEPT ![r] =
               SentBack(@, "additional_review", LastOfficer(@))]
      PROVE  Serial'
  <2> DEFINE row == SentBack(request[r], "additional_review", LastOfficer(request[r]))
  <2>1. r \in RequestIds /\ r \in Unsettled /\ r \notin Approved
    BY DEF Refused, WithStatus, Unsettled, Approved
  <2>2. row \in Rows /\ RowOK(row)
    BY <2>1, TablesOK, SentBackFact, LastOfficerType
  <2>3. request' = [request EXCEPT ![r] = row]
    BY <1>3
  <2> HIDE DEF row
  <2>4. (\A q \in RequestIds : RowOK(request'[q])) /\ Settlement'
    BY <1>1, <2>1, <2>2, <2>3, RequestMoves
  <2> QED BY <1>1, <2>4, FinishKeeps
<1> QED BY <1>2, <1>3 DEF RevivedOnce

LEMMA ReviveOnce ==
  ASSUME Calm, NEW w \in Workers, LoadRefused(w) \/ ReviveRequest(w)
  PROVE  \/ RevivedOnce(w)
         \/ /\ Loading(w) /\ OnlyTasks /\ task[w].at = "reviving"
            /\ \E r \in Refused :
                 HoldRequest(w, r, SentBack(request[r], "additional_review",
                                            LastOfficer(request[r])))
<1>1. CASE LoadRefused(w)
  BY <1>1 DEF LoadRefused, RevivedOnce, OnlyTasks, Refused
<1>2. CASE ReviveRequest(w)
  <2>1. SavesRequest(w) /\ WriteRequest(w) /\ Finish(w) /\ task[w].at = "reviving"
    BY <1>2 DEF ReviveRequest, SavesRequest
  <2>2. /\ task[w].read = 2 /\ request' = [request EXCEPT ![task[w].of] = task[w].row]
        /\ UNCHANGED <<listing, cases, disturbed>>
    BY <2>1, SavedRequest
  <2>3. /\ task[w].of \in Refused
        /\ task[w].row = SentBack(request[task[w].of], "additional_review",
                                  LastOfficer(request[task[w].of]))
    <3>1. Loaded(w)
      BY <2>2 DEF Calm, Serial, Holding
    <3> QED BY <2>1, <3>1 DEF Loaded
  <2> QED BY <2>1, <2>2, <2>3 DEF RevivedOnce
<1> QED BY <1>1, <1>2

LEMMA DieStep == ASSUME Calm, NEW w \in Workers, Die(w) PROVE Serial'
<1>1. ~Idle(w) /\ Finish(w) /\ UNCHANGED <<listing, request>>
  BY DEF Die
<1> QED BY <1>1, TablesKept, FinishKeeps

-----------------------------------------------------------------------------
(* Every step *)

(* A helper that loads its row changes nothing else. *)
LoadsRow(w) ==
  \/ LoadResubmitted(w) \/ LoadInProgress(w) \/ LoadMove(w) \/ LoadRejected(w)
  \/ LoadRefused(w) \/ LoadClock(w)

HelperStep(w) ==
  \/ LoadsRow(w) \/ MarkResubmitted(w) \/ MarkInProgress(w) \/ MoveListing(w)
  \/ ReopenListing(w) \/ ReviveRequest(w) \/ StartClock(w)

HelperEnds(w) ==
  \/ ResubmittedOnce(w) \/ MarkedOnce(w) \/ MovedOnce(w) \/ VerifiedOnce(w)
  \/ ReopenedOnce(w) \/ RevivedOnce(w) \/ ClockedOnce(w)

(* What a load leaves of the task: the step, the decision it is about, the *)
(* row an officer's handler will save, and the request somebody named.     *)
LoadsOnly(w) ==
  /\ OnlyTasks /\ Others(w) /\ Keeps(w, {"op", "at", "outcome"})
  /\ task[w].at \in HelperSaves \cup {"marking", "moving", "reopening"}
  /\ task[w].at = "marking" => task'[w].row = task[w].row
  /\ task[w].at = "resubmitting" => task'[w].of = task[w].of

LEMMA HelperStepIs ==
  ASSUME Calm, NEW w \in Workers, HelperStep(w)
  PROVE  HelperEnds(w) \/ (LoadsOnly(w) /\ Serial')
<1>1. CASE LoadResubmitted(w) \/ MarkResubmitted(w)
  <2> DEFINE r == task[w].of
             row == SentBack(request[r], "new", LastOfficer(request[r]))
  <2>1. \/ ResubmittedOnce(w)
        \/ /\ OnlyTasks /\ task[w].at = "resubmitting"
           /\ r \in RequestIds /\ request[r].status \in Parked /\ HoldRequest(w, r, row)
    BY <1>1, ResubmitOnce DEF At
  <2>2. r \in RequestIds => RowOK(row)
    BY TablesOK, SentBackFact, LastOfficerType
  <2>3. ASSUME HoldRequest(w, r, row), task[w].at = "resubmitting"
        PROVE  Others(w) /\ Keeps(w, {"op", "at", "outcome"}) /\ task'[w].of = r
    BY <2>3, StepShapes DEF Calm, Keeps
  <2> HIDE DEF row
  <2>4. ASSUME OnlyTasks, task[w].at = "resubmitting", r \in RequestIds,
               request[r].status \in Parked, HoldRequest(w, r, row)
        PROVE  Serial'
    BY <2>2, <2>4, HoldRequestKeeps DEF OnlyTasks, HelperSaves, row
  <2> QED BY <2>1, <2>3, <2>4 DEF HelperEnds, LoadsOnly, HelperSaves
<1>2. CASE LoadInProgress(w) \/ MarkInProgress(w)
  <2>1. ASSUME OnlyTasks, At(w, "start", "marking"), HoldListing(w, "in_progress"),
               "in_progress" \in Moves[listing.status]
        PROVE  LoadsOnly(w) /\ Serial'
    <3>1. Others(w) /\ Keeps(w, {"op", "at", "outcome"}) /\ task'[w].row = task[w].row
      BY <2>1, StepShapes DEF Calm, Keeps
    <3>2. Serial'
      BY <2>1, HoldListingKeeps DEF OnlyTasks, At, Visible
    <3> QED BY <2>1, <3>1, <3>2 DEF LoadsOnly, At
  <2> QED BY <1>2, <2>1, MarkOnce DEF HelperEnds
<1>3. CASE LoadMove(w) \/ MoveListing(w)
  <2> DEFINE to == Destination(listing.status, task[w].outcome)
  <2>1. ASSUME OnlyTasks, task[w].at = "moving", HoldListing(w, to),
               MayMove(listing.status, to),
               task[w].outcome = "revisit" => listing.status = "in_progress"
        PROVE  LoadsOnly(w) /\ Serial'
    <3>1. Others(w) /\ Keeps(w, {"op", "at", "outcome"})
      BY <2>1, StepShapes DEF Calm, Keeps
    <3>2. to \in Visible => Approved # {}
      <4>1. CASE task[w].outcome = "approve"
        BY <2>1, <4>1 DEF Calm, Serial, Held
      <4>2. CASE task[w].outcome # "approve"
        <5>1. task[w].outcome \in Outcomes \ {"approve"}
          BY <2>1, <4>2 DEF Calm, Serial, Held
        <5>2. to \in Visible => listing.status \in Visible
          BY <5>1, TableFact, DestinationFact DEF Calm
        <5> QED BY <5>2 DEF Calm, Serial, Settlement
      <4> QED BY <4>1, <4>2
    <3>3. Serial'
      BY <2>1, <3>2, HoldListingKeeps DEF OnlyTasks
    <3> QED BY <2>1, <3>1, <3>3 DEF LoadsOnly
  <2> QED BY <1>3, <2>1, MoveOnce DEF HelperEnds
<1>4. CASE LoadRejected(w) \/ ReopenListing(w)
  <2>1. ASSUME OnlyTasks, task[w].at = "reopening", listing.status = "rejected",
               HoldListing(w, "reverification_required")
        PROVE  LoadsOnly(w) /\ Serial'
    <3>1. Others(w) /\ Keeps(w, {"op", "at", "outcome"})
      BY <2>1, StepShapes DEF Calm, Keeps
    <3>2. Serial'
      BY <2>1, HoldListingKeeps DEF OnlyTasks, Visible
    <3> QED BY <2>1, <3>1, <3>2 DEF LoadsOnly
  <2> QED BY <1>4, <2>1, ReopenOnce DEF HelperEnds
<1>5. CASE LoadRefused(w) \/ ReviveRequest(w)
  <2>1. ASSUME OnlyTasks, task[w].at = "reviving", NEW r \in Refused,
               HoldRequest(w, r, SentBack(request[r], "additional_review",
                                          LastOfficer(request[r])))
        PROVE  LoadsOnly(w) /\ Serial'
    <3> DEFINE row == SentBack(request[r], "additional_review", LastOfficer(request[r]))
    <3>1. Others(w) /\ Keeps(w, {"op", "at", "outcome"})
      BY <2>1, StepShapes DEF Calm, Keeps
    <3>2. r \in RequestIds /\ request[r].status = "rejected" /\ HoldRequest(w, r, row)
      BY <2>1 DEF Refused, WithStatus
    <3>3. RowOK(row)
      BY <3>2, TablesOK, SentBackFact, LastOfficerType
    <3> HIDE DEF row
    <3>4. Serial'
      BY <2>1, <3>2, <3>3, HoldRequestKeeps DEF OnlyTasks, HelperSaves, row
    <3> QED BY <2>1, <3>1, <3>4 DEF LoadsOnly, HelperSaves
  <2> QED BY <1>5, <2>1, ReviveOnce DEF HelperEnds
<1>6. CASE LoadClock(w) \/ StartClock(w)
  <2> DEFINE r == task[w].of
  <2>1. ASSUME OnlyTasks, task[w].at = "clocking", r \in RequestIds,
               HoldRequest(w, r, request[r])
        PROVE  LoadsOnly(w) /\ Serial'
    <3>1. Others(w) /\ Keeps(w, {"op", "at", "outcome"})
      BY <2>1, StepShapes DEF Calm, Keeps
    <3>2. RowOK(request[r])
      BY <2>1, TablesOK
    <3>3. Serial'
      BY <2>1, <3>2, HoldRequestKeeps DEF OnlyTasks, HelperSaves
    <3> QED BY <2>1, <3>1, <3>3 DEF LoadsOnly, HelperSaves
  <2> QED BY <1>6, <2>1, ClockOnce DEF HelperEnds, ClockStep
<1> QED BY <1>1, <1>2, <1>3, <1>4, <1>5, <1>6 DEF HelperStep, LoadsRow

LEMMA HelperStepKeeps ==
  ASSUME Calm, NEW w \in Workers, HelperStep(w) PROVE Serial'
BY HelperStepIs, ResubmittedStep, MarkedStep, MovedStep, VerifiedStep, ReopenedStep,
   RevivedStep, ClockedStep DEF HelperEnds

(* The steps that no helper makes. *)
BeginStep(w) ==
  \/ BeginEdit(w) \/ BeginFirstReview(w) \/ BeginSubmit(w)
  \/ BeginStart(w) \/ BeginFindings(w) \/ BeginReview(w) \/ BeginAllocate(w) \/ BeginDecide(w)
  \/ BeginUnlock(w) \/ BeginGrant(w)

OwnStep(w) ==
  \/ SaveEdit(w) \/ SaveFirstReview(w) \/ SaveSubmit(w) \/ Raise(w) \/ InsertRequest(w)
  \/ SaveRequest(w) \/ GoLive(w) \/ Die(w)

LEMMA NextParts ==
  ASSUME Next
  PROVE  \E w \in Workers : BeginStep(w) \/ OwnStep(w) \/ HelperStep(w) \/ Compare(w)
BY DEF Next, VendorStep, StaffStep, DeskStep, ClockStep, BeginStep, OwnStep, HelperStep,
       LoadsRow

LEMMA InitIInv == Init => IInv
<1> SUFFICES ASSUME Init PROVE IInv
  OBVIOUS
<1>1. Typed
  BY InitTyped
<1>2. RowsOK
  BY NoRowFact, NoTaskFact DEF Init, RowsOK
<1>3. Unsettled = {}
  BY DEF Init, Unsettled, WithStatus, NoRow
<1>4. \A w \in Workers : Idle(w) /\ task[w].read = 0 /\ task[w].op = "none"
  BY NoTaskFact DEF Init, Idle
<1>5. Settlement
  BY <1>3 DEF Init, Settlement, Visible
<1>6. ASSUME NEW w \in Workers PROVE Held(w) /\ Holding(w)
  BY <1>4 DEF Held, Idle, HoldsListing, Holding, RequestOps, At
<1> QED BY <1>1, <1>2, <1>4, <1>5, <1>6 DEF IInv, Serial, Alone

(* What has overlapped stays so. *)
LEMMA OverlapStays ==
  ASSUME Typed, [Next]_vars, Free({"overlap"})' PROVE Free({"overlap"})
<1>1. UNCHANGED disturbed \/ \E kinds : Disturb(kinds)
  <2>1. ASSUME NEW w \in Workers, BeginStep(w) PROVE \E kinds : Disturb(kinds)
    BY <2>1 DEF BeginStep, BeginEdit, BeginFirstReview, BeginSubmit, BeginStart, BeginFindings,
         BeginReview, BeginAllocate, BeginDecide, BeginUnlock, BeginGrant, BeginCase,
         BeginOnListing, BeginOnRequest, Begin
  <2>2. ASSUME NEW w \in Workers, OwnStep(w)
        PROVE  UNCHANGED disturbed \/ \E kinds : Disturb(kinds)
    BY <2>2 DEF OwnStep, SaveEdit, SaveFirstReview, SaveSubmit, Raise, InsertRequest,
         SaveRequest, GoLive, Die, WriteListing, WriteRequest, OnlyTasks
  <2>3. ASSUME NEW w \in Workers, HelperStep(w) \/ Compare(w) PROVE UNCHANGED disturbed
    BY <2>3 DEF HelperStep, LoadsRow, LoadResubmitted, LoadInProgress, LoadMove, LoadRejected,
         LoadRefused, LoadClock, MarkResubmitted, MarkInProgress, MoveListing, ReopenListing,
         ReviveRequest, StartClock, Compare, WriteListing, WriteRequest, OnlyTasks
  <2> QED BY <2>1, <2>2, <2>3, NextParts DEF vars
<1> QED BY <1>1, DisturbType DEF Typed, Free

LEMMA SerialStays ==
  ASSUME Calm, [Next]_vars, Free({"overlap"})' PROVE Serial'
<1>1. ASSUME NEW w \in Workers, BeginStep(w) PROVE Serial'
  BY <1>1, BeginVendorStep, BeginStaffStep, BeginCaseStep DEF BeginStep
<1>2. ASSUME NEW w \in Workers, OwnStep(w) PROVE Serial'
  <2>1. CASE GoLive(w)
    BY <2>1, SaveAndFinish DEF GoLive, SavesListing
  <2> QED BY <1>2, <2>1, SaveVendorStep, RaiseStep, InsertRequestStep, SaveRequestStep,
          DieStep DEF OwnStep
<1>3. ASSUME NEW w \in Workers, HelperStep(w) PROVE Serial'
  BY <1>3, HelperStepKeeps
<1>4. CASE UNCHANGED vars
  BY <1>4 DEF vars, Calm, Serial, Alone, Idle, Settlement, Approved, Unsettled, WithStatus,
     RowsOK, Held, HoldsListing, At, Holding, Loaded, Refused, Compared, SavesListing,
     SavesRequest
<1> QED BY <1>1, <1>2, <1>3, <1>4, CompareStep, NextParts

LEMMA NextIInv == IInv /\ [Next]_vars => IInv'
<1> SUFFICES ASSUME IInv, [Next]_vars PROVE IInv'
  OBVIOUS
<1>1. Typed'
  BY NextTyped DEF IInv
<1>2. ASSUME Free({"overlap"})' PROVE Serial'
  <2>1. Calm
    BY <1>2, OverlapStays DEF IInv, Calm
  <2> QED BY <1>2, <2>1, SerialStays
<1> QED BY <1>1, <1>2 DEF IInv

LEMMA Inductive == Spec => []IInv
<1>1. Init => IInv
  BY InitIInv
<1>2. IInv /\ [Next]_vars => IInv'
  BY NextIInv
<1> QED BY <1>1, <1>2, PTL DEF Spec

-----------------------------------------------------------------------------
(* The properties *)

(* Every variable keeps its type through overlaps, deaths and cases. *)
THEOREM TypeCorrect == Spec => []TypeOK
<1>1. IInv => TypeOK
  BY DEF IInv, Typed
<1> QED BY <1>1, Inductive, PTL

(* Whatever overlaps or dies, and whichever columns a save writes, a request *)
(* becomes approved only after an officer wrote some visit up: the approved  *)
(* status reaches a row only from decide(), which found findings on a row it *)
(* read, and findings reach a row only from submitFindings.                  *)
THEOREM ApprovalsFollowAVisit == Spec => []ApprovedWasWrittenUp
<1>1. Init => Typed /\ WriteUps
  <2> SUFFICES ASSUME Init PROVE WriteUps
    BY InitTyped
  <2>1. \A r \in RequestIds : ~Marked(request[r])
    BY DEF Init, NoRow, Marked
  <2>2. \A w \in Workers : Backed(w)
    BY NoTaskFact DEF Init, Backed, RequestOps, HelperSaves
  <2> QED BY <2>1, <2>2 DEF WriteUps
<1>2. Typed /\ WriteUps /\ [Next]_vars => (Typed /\ WriteUps)'
  BY NextTyped, NextWriteUps
<1>3. WriteUps => ApprovedWasWrittenUp
  BY DEF WriteUps, ApprovedWasWrittenUp, WithStatus, Marked
<1> QED BY <1>1, <1>2, <1>3, PTL DEF Spec

(* While no handlers overlap, decide() approves only what an officer wrote up, *)
(* whoever dies, and an officer's findings leave the request with him.         *)
THEOREM ApprovalsRestOnVisits == Spec => []ApprovalRestsOnAVisit
<1>1. IInv => ApprovalRestsOnAVisit
  BY DEF IInv, Serial, RowsOK, RowOK, ApprovalRestsOnAVisit, ApprovedCarriesTheVisit,
         WithStatus
<1> QED BY <1>1, Inductive, PTL

(* While no handlers overlap, a listing customers can see has an approved     *)
(* request on record, across deaths and support cases: approval is written to *)
(* the request first and no handler that runs alone takes it back.            *)
THEOREM VisibleListingsWereApproved == Spec => []VisibleWasApproved
<1>1. IInv => VisibleWasApproved
  BY DEF IInv, Serial, Settlement, Approved, VisibleWasApproved
<1> QED BY <1>1, Inductive, PTL

(* While no handlers overlap, raise() never opens a second request: none is *)
(* inserted while one is neither approved nor absent.                       *)
THEOREM RequestsOpenOneAtATime == Spec => []OneOpenRequest
<1>1. IInv => OneOpenRequest
  <2> SUFFICES ASSUME IInv, Free({"overlap"}) PROVE Cardinality(Open) <= 1
    BY DEF OneOpenRequest, RaisedOnce
  <2>1. \A r, q \in Open : r = q
    BY DEF IInv, Serial, Settlement, Unsettled, Open, WithStatus, OpenStatuses, Worked, Parked
  <2>2. CASE Open = {}
    BY <2>2, FS_EmptySet
  <2>3. CASE Open # {}
    <3>1. PICK r : Open = {r}
      BY <2>1, <2>3
    <3>2. Cardinality({r}) = 1
      BY FS_Singleton, Zenon
    <3>3. Cardinality(Open) = 1
      BY <3>1, <3>2
    <3> QED BY <3>3
  <2> QED BY <2>2, <2>3
<1> QED BY <1>1, Inductive, PTL

(* While no handlers overlap, the only step that takes a listing out of *)
(* REJECTED is the reopening a support case starts.                     *)
THEOREM RefusalsAreFinal == Spec => RefusalIsFinal
<1> DEFINE Step == listing.status = "rejected" /\ listing'.status # "rejected"
                     /\ Free({"overlap"})
                   => \E w \in Workers : task[w].at = "reopening"
<1>1. IInv /\ [Next]_vars => [Step]_vars
  <2> SUFFICES ASSUME IInv, Next, listing.status = "rejected",
                      listing'.status # "rejected", Free({"overlap"})
               PROVE  \E w \in Workers : task[w].at = "reopening"
    OBVIOUS
  <2>1. Calm
    BY DEF IInv, Calm
  <2>2. listing' # listing /\ listing \in Listings
    BY <2>1, TableFact DEF Calm
  <2>3. PICK w \in Workers : BeginStep(w) \/ OwnStep(w) \/ HelperStep(w) \/ Compare(w)
    BY NextParts
  <2>4. ~BeginStep(w) /\ ~Compare(w) /\ ~LoadsOnly(w)
    BY <2>2 DEF BeginStep, BeginEdit, BeginFirstReview, BeginSubmit, BeginStart, BeginFindings,
         BeginReview, BeginAllocate, BeginDecide, BeginUnlock, BeginGrant, BeginCase,
         BeginOnListing, BeginOnRequest, Begin, Compare, LoadsOnly, OnlyTasks
  <2>5. ~OwnStep(w)
    <3>1. ~HoldsListing(w)
      BY <2>1 DEF Calm, Serial, Held
    <3> QED BY <2>2, <3>1 DEF OwnStep, HoldsListing, At, SaveEdit, SaveFirstReview, SaveSubmit,
              Raise, InsertRequest, SaveRequest, GoLive, Die, WriteRequest, OnlyTasks
  <2>6. HelperEnds(w)
    BY <2>1, <2>3, <2>4, <2>5, HelperStepIs
  <2>7. \A to \in ListingStatuses : MayMove("rejected", to) => to = "rejected"
    BY DEF MayMove, Moves, ListingStatuses
  <2>8. ~MarkedOnce(w) /\ ~VerifiedOnce(w)
    BY <2>2, <2>7 DEF MarkedOnce, VerifiedOnce, Moves, ListingStatuses
  <2>9. ~MovedOnce(w)
    <3> SUFFICES ASSUME MovedOnce(w) PROVE FALSE
      OBVIOUS
    <3> DEFINE to == Destination(listing.status, task[w].outcome)
    <3>1. to \in ListingStatuses
      BY <2>2, DestinationFact DEF MovedOnce, Listings
    <3>2. MayMove(listing.status, to) => to = "rejected"
      BY <2>7, <3>1
    <3> HIDE DEF to
    <3>3. listing' = IF MayMove(listing.status, to)
                     THEN [listing EXCEPT !.status = to] ELSE listing
      BY DEF MovedOnce, to
    <3>4. listing'.status = "rejected"
      BY <2>2, <3>2, <3>3 DEF Listings
    <3> QED BY <3>4
  <2>10. ReopenedOnce(w)
    BY <2>2, <2>6, <2>8, <2>9 DEF HelperEnds, ResubmittedOnce, RevivedOnce, ClockedOnce
  <2> QED BY <2>10 DEF ReopenedOnce
<1> HIDE DEF Step
<1>2. Spec => [][Step]_vars
  BY <1>1, Inductive, PTL DEF Spec
<1> QED BY <1>2 DEF RefusalIsFinal, Step

-----------------------------------------------------------------------------
(* The queue and the listing: the inductive invariant                      *)
(*                                                                         *)
(* Between two statements of a handler the two tables disagree, so the     *)
(* properties of a quiet moment are not inductive. OrderlyFor and TidyFor  *)
(* say what is true while w is the one handler in flight: which of the     *)
(* agreements it has broken, at the step that will restore it, and that    *)
(* what it holds still fits the rows it was made from.                     *)

Active  == WithStatus({"new"} \cup Worked)
Issued  == WithStatus({"issue"})

(* The status decide() leaves on the request. *)
DecidedAs(outcome) ==
  CASE outcome = "approve" -> "approved"
    [] outcome = "reject"  -> "rejected"
    [] outcome = "issue"   -> "issue"
    [] OTHER               -> "additional_review"

RefusedAsListed == Refused # {} => listing.status = "rejected"
LockedIsQueued  == listing.status \in Allocatable => Open # {}

(* A refused request with its listing about to be refused, or reopened. *)
Refusing(w) == task[w].at = "reviving" \/ (task[w].at = "moving" /\ task[w].outcome = "reject")

(* A locked listing whose request is about to be raised, or just settled. *)
Queueing(w) ==
  \/ task[w].at \in {"raising", "inserting"}
  \/ task[w].at = "moving" /\ task[w].outcome \in {"approve", "reject"}

Writing(w)  == task[w].op \in RequestOps \ {"decide"} /\ task[w].at \in {"loaded", "marking"}
Deciding(w) == At(w, "decide", "loaded")

(* What the handler holds, against the status of the listing. *)
Consistent(w) ==
  /\ At(w, "edit", "loaded") => task[w].entity.status = listing.status
  /\ At(w, "first_review", "loaded") =>
       task[w].entity.status \in {"ready_for_review", "first_review"}
  /\ At(w, "submit", "loaded") =>
       task[w].entity.status \in {"first_review", "pending_verification"}
  /\ task[w].at = "opening" => task[w].entity.status = "live"
  /\ Writing(w) => task[w].row.status \in Worked
  /\ Deciding(w) => /\ task[w].outcome \in Outcomes
                    /\ task[w].row.status = DecidedAs(task[w].outcome)
                    /\ MayMove(listing.status, DecisionTarget[task[w].outcome])
  /\ task[w].at = "moving" =>
       \/ /\ task[w].op = "decide" /\ task[w].outcome \in Outcomes
          /\ MayMove(listing.status, DecisionTarget[task[w].outcome])
       \/ task[w].op # "decide" /\ task[w].outcome \in {"issue", "correct"}
  /\ At(w, "decide", "clocking") =>
       task[w].outcome = "revisit" /\ MayMove(listing.status, DecisionTarget["revisit"])
  /\ task[w].at = "reopening" => listing.status = "rejected"
  /\ task[w].at = "reviving" => listing.status \notin Allocatable

OrderlyFor(w) ==
  /\ RefusedAsListed \/ Refusing(w)
  /\ LockedIsQueued \/ Queueing(w)
  /\ Consistent(w)

Orderly ==
  /\ Quiet => RefusedAsListed /\ LockedIsQueued
  /\ \A w \in Workers : ~Idle(w) => OrderlyFor(w)

(* An approval of the edition the listing shows. *)
Visited == \E r \in Approved : request[r].findings = listing.edition

(* An issue about to be answered, or raised, with the listing still locked. *)
Parting(w) ==
  \/ task[w].op = "submit" /\ task[w].at \in {"raising", "resubmitting"}
  \/ At(w, "decide", "moving") /\ task[w].outcome = "issue"

(* Sent back for another look: neither officer nor findings. *)
Bare(row) == row.status = "additional_review" => row.officer = NoOfficer /\ row.findings = 0

(* What the handler holds, against the edition and the open requests. *)
Careful(w) ==
  /\ At(w, "edit", "loaded") =>
       task[w].entity.edition = listing.edition \/ listing.status \in EditIdentity
  /\ task[w].op \in {"first_review", "submit"} /\ task[w].at = "loaded" =>
       listing.status \in EditIdentity /\ task[w].entity.edition = listing.edition
  /\ task[w].op = "submit" /\ task[w].at \in {"raising", "resubmitting", "inserting"} =>
       listing.status \in Allocatable
  /\ At(w, "submit", "resubmitting") => task[w].of \in Open
  /\ task[w].at = "opening" =>
       listing.status \in Visible /\ task[w].entity.edition = listing.edition
  /\ Writing(w) => listing.status \in Allocatable /\ task[w].row.findings \in {0, listing.edition}
  /\ Deciding(w) =>
       /\ listing.status \notin Visible /\ Bare(task[w].row)
       /\ task[w].outcome = "approve" => task[w].row.findings = listing.edition
  /\ task[w].at = "moving" =>
       /\ Active = {}
       /\ task[w].outcome = "approve" => Open = {} /\ Visited
  /\ At(w, "decide", "clocking") => Active = {}
  /\ task[w].at = "reviving" => listing.status \notin Visible

FindingsTidy ==
  /\ Active # {} => listing.status \in Allocatable
  /\ \A r \in Active : request[r].findings \in {0, listing.edition}
  /\ \A r \in RequestIds : Bare(request[r])
  /\ listing.status \in Visible => Open = {} /\ Visited

IssuesApart == Issued # {} => listing.status \notin Allocatable \cup Visible

TidyFor(w) == FindingsTidy /\ (IssuesApart \/ Parting(w)) /\ Careful(w)

Tidy ==
  /\ Quiet => FindingsTidy /\ IssuesApart
  /\ \A w \in Workers : ~Idle(w) => TidyFor(w)

Unhurried == Free({"overlap", "death"})

QueueInv ==
  /\ Unhurried => Orderly
  /\ disturbed = Undisturbed => Tidy

-----------------------------------------------------------------------------
(* Steps, for this invariant *)

(* A handler that has nothing in flight leaves the tables agreeing. *)
LEMMA Resting ==
  ASSUME NEW w \in Workers, Idle(w)
  PROVE  /\ OrderlyFor(w) <=> RefusedAsListed /\ LockedIsQueued
         /\ TidyFor(w) <=> FindingsTidy /\ IssuesApart
BY DEF Idle, OrderlyFor, TidyFor, Refusing, Queueing, Consistent, Parting, Careful,
   At, Writing, Deciding

LEMMA RestingNext ==
  ASSUME NEW w \in Workers, Idle(w)'
  PROVE  /\ OrderlyFor(w)' <=> RefusedAsListed' /\ LockedIsQueued'
         /\ TidyFor(w)' <=> FindingsTidy' /\ IssuesApart'
BY DEF Idle, OrderlyFor, TidyFor, Refusing, Queueing, Consistent, Parting, Careful,
   At, Writing, Deciding

LEMMA Finished == ASSUME Typed, NEW w \in Workers, Finish(w) PROVE Others(w) /\ Idle(w)'
BY StepShapes, NoTaskFact DEF Idle

(* Between handlers, or with one in flight, it is enough to follow that one. *)
LEMMA QueueStep ==
  ASSUME IInv, QueueInv, NEW w \in Workers, Others(w),
         Unhurried' => Unhurried /\ \A v \in Workers \ {w} : Idle(v),
         disturbed' = Undisturbed => disturbed = Undisturbed,
         Unhurried' /\ Calm /\ OrderlyFor(w) => OrderlyFor(w)',
         disturbed' = Undisturbed /\ Calm /\ OrderlyFor(w) /\ TidyFor(w) => TidyFor(w)'
  PROVE  QueueInv'
<1>1. Undisturbed' = Undisturbed
  BY DEF Undisturbed
<1>2. (disturbed = Undisturbed => Unhurried) /\ (disturbed' = Undisturbed => Unhurried')
  BY DEF Undisturbed, Unhurried, Free, Disturbances
<1>3. Unhurried => Calm
  BY DEF Unhurried, Free, IInv, Calm
<1>4. ASSUME Unhurried' PROVE /\ \A v \in Workers \ {w} : Idle(v) /\ Idle(v)'
                              /\ Quiet <=> Idle(w)
                              /\ Quiet' <=> Idle(w)'
  BY <1>4 DEF Quiet, Idle, Others
<1>5. ASSUME Unhurried' PROVE OrderlyFor(w)
  <2>1. Orderly
    BY <1>5 DEF QueueInv
  <2> QED BY <1>4, <1>5, <2>1, Resting DEF Orderly
<1>6. ASSUME Unhurried' PROVE Orderly'
  <2>1. OrderlyFor(w)'
    BY <1>3, <1>5, <1>6
  <2> QED BY <1>4, <1>6, <2>1, RestingNext DEF Orderly
<1>7. ASSUME disturbed' = Undisturbed PROVE Tidy'
  <2>1. Unhurried' /\ Tidy
    BY <1>2, <1>7 DEF QueueInv
  <2>2. TidyFor(w)
    BY <1>4, <2>1, Resting DEF Tidy
  <2>3. TidyFor(w)'
    BY <1>3, <1>5, <1>7, <2>1, <2>2
  <2> QED BY <1>4, <2>1, <2>3, RestingNext DEF Tidy
<1> QED BY <1>1, <1>6, <1>7 DEF QueueInv

(* A handler that starts: nothing else is in flight, or it counts. *)
LEMMA QueueBegin ==
  ASSUME IInv, QueueInv, NEW w \in Workers, Others(w),
         NEW kinds, Disturb(kinds), Overlapping(w) \subseteq kinds,
         Unhurried' /\ Calm /\ OrderlyFor(w) => OrderlyFor(w)',
         "case" \notin kinds /\ Calm /\ OrderlyFor(w) /\ TidyFor(w) => TidyFor(w)'
  PROVE  QueueInv'
<1>1. /\ disturbed \in [Disturbances -> Nat]
      /\ disturbed' = [d \in Disturbances |->
                        IF d \in kinds THEN disturbed[d] + 1 ELSE disturbed[d]]
  BY BoundsAssumption DEF IInv, Typed, TypeOK, Disturb
<1>2. \A d \in Disturbances : disturbed'[d] = 0 => disturbed[d] = 0 /\ d \notin kinds
  BY <1>1
<1>3. Unhurried' => Unhurried /\ "overlap" \notin kinds
  BY <1>2 DEF Unhurried, Free, Disturbances
<1>4. Unhurried' => \A v \in Workers \ {w} : Idle(v)
  BY <1>3 DEF Overlapping
<1>5. ASSUME disturbed' = Undisturbed
      PROVE  disturbed = Undisturbed /\ "case" \notin kinds
  <2>1. \A d \in Disturbances : disturbed'[d] = 0
    BY <1>5 DEF Undisturbed
  <2>2. \A d \in Disturbances : disturbed[d] = 0 /\ d \notin kinds
    BY <1>2, <2>1
  <2> QED BY <1>1, <2>2 DEF Undisturbed, Disturbances
<1> QED BY <1>3, <1>4, <1>5, QueueStep

(* A handler that goes on, or ends. *)
LEMMA QueueGoOn ==
  ASSUME IInv, QueueInv, NEW w \in Workers, ~Idle(w), UNCHANGED disturbed, Others(w),
         Calm /\ OrderlyFor(w) => OrderlyFor(w)' /\ (TidyFor(w) => TidyFor(w)')
  PROVE  QueueInv'
<1>1. Unhurried' <=> Unhurried
  BY DEF Unhurried, Free
<1>2. Unhurried => Serial
  BY DEF Unhurried, Free, IInv
<1>3. Unhurried' => \A v \in Workers \ {w} : Idle(v)
  BY <1>1, <1>2 DEF Serial, Alone
<1> QED BY <1>1, <1>3, QueueStep

(* The tables as they are. *)
LEMMA SameTables ==
  ASSUME UNCHANGED <<listing, request>>
  PROVE  /\ Refused' = Refused /\ Active' = Active /\ Issued' = Issued
         /\ Open' = Open /\ Approved' = Approved
         /\ RefusedAsListed' = RefusedAsListed /\ LockedIsQueued' = LockedIsQueued
         /\ FindingsTidy' = FindingsTidy /\ IssuesApart' = IssuesApart
         /\ Visited' = Visited
BY DEF Refused, Active, Issued, Open, Approved, WithStatus, RefusedAsListed, LockedIsQueued,
   FindingsTidy, IssuesApart, Visited

(* The same requests behind another listing. *)
LEMMA SameRequests ==
  ASSUME UNCHANGED request
  PROVE  /\ Refused' = Refused /\ Active' = Active /\ Issued' = Issued
         /\ Open' = Open /\ Approved' = Approved
BY DEF Refused, Active, Issued, Open, Approved, WithStatus

(* One row written. *)
LEMMA RowWritten ==
  ASSUME Typed, NEW r \in RequestIds, NEW row, request' = [request EXCEPT ![r] = row]
  PROVE  /\ request'[r] = row
         /\ \A q \in RequestIds : q # r => request'[q] = request[q]
BY DEF Typed, TypeOK

(* The statuses divide the requests. *)
LEMMA Divided ==
  ASSUME Typed, NEW r \in RequestIds
  PROVE  /\ r \in Unsettled <=> r \in Open \/ r \in Refused
         /\ r \in Open <=> r \in Active \/ r \in Issued
                           \/ request[r].status = "additional_review"
BY DEF Typed, TypeOK, Rows, RequestStatuses, OpenStatuses, Worked, Parked, Unsettled, Open,
   Refused, Active, Issued, WithStatus

(* A load, and the row read again: what the handler is about stays. *)
LEMMA QueueHeld ==
  ASSUME NEW w \in Workers, ~Idle(w), UNCHANGED <<listing, request>>, OrderlyFor(w),
         Keeps(w, {"op", "at", "outcome"}),
         task[w].at \in {"loaded", "marking"} => task'[w].row = task[w].row,
         task[w].at \in {"loaded", "opening"} => task'[w].entity = task[w].entity,
         task[w].at = "resubmitting" => task'[w].of = task[w].of
  PROVE  OrderlyFor(w)' /\ (TidyFor(w) => TidyFor(w)')
<1>1. /\ task'[w].op = task[w].op /\ task'[w].at = task[w].at
      /\ task'[w].outcome = task[w].outcome
  BY DEF Keeps
<1>2. OrderlyFor(w)'
  BY <1>1, SameTables DEF OrderlyFor, Refusing, Queueing, Consistent, At, Writing, Deciding
<1>3. ASSUME TidyFor(w) PROVE TidyFor(w)'
  BY <1>1, <1>3, SameTables DEF TidyFor, Parting, Careful, At, Writing, Deciding
<1> QED BY <1>2, <1>3

-----------------------------------------------------------------------------
(* The vendor: the queue *)

(* A vendor's handler starts with a listing in hand. *)
LEMMA QueueBeginOnListing ==
  ASSUME Typed, NEW w \in Workers, OrderlyFor(w),
         NEW op \in {"edit", "first_review", "submit"}, NEW entity,
         BeginOnListing(w, op, entity),
         op = "edit" => /\ entity.status = listing.status
                        /\ entity.edition = listing.edition \/ listing.status \in EditIdentity,
         op # "edit" => listing.status \in EditIdentity /\ entity.edition = listing.edition,
         op = "first_review" => entity.status \in {"ready_for_review", "first_review"},
         op = "submit" => entity.status \in {"first_review", "pending_verification"}
  PROVE  OrderlyFor(w)' /\ (TidyFor(w) => TidyFor(w)')
<1>1. /\ Idle(w) /\ UNCHANGED <<listing, request>>
      /\ task'[w].op = op /\ task'[w].at = "loaded" /\ task'[w].entity = entity
  BY ListingBegun
<1>2. OrderlyFor(w)'
  BY <1>1, Resting, SameTables DEF OrderlyFor, Consistent, At, Writing, Deciding, RequestOps
<1>3. ASSUME TidyFor(w) PROVE TidyFor(w)'
  BY <1>1, <1>3, Resting, SameTables DEF TidyFor, Careful, At, Writing, Deciding, RequestOps
<1> QED BY <1>2, <1>3

LEMMA QueueBeginVendor ==
  ASSUME Typed, NEW w \in Workers, BeginEdit(w) \/ BeginFirstReview(w) \/ BeginSubmit(w),
         OrderlyFor(w)
  PROVE  OrderlyFor(w)' /\ (TidyFor(w) => TidyFor(w)')
<1>0. listing \in Listings
  BY TableFact
<1>1. CASE BeginEdit(w)
  <2>1. PICK entity \in {[listing EXCEPT !.edition = @ + 1], listing} :
          /\ BeginOnListing(w, "edit", entity)
          /\ entity = listing \/ listing.status \in EditIdentity
    BY <1>1 DEF BeginEdit
  <2>2. entity.status = listing.status
    BY <1>0, <2>1 DEF Listings
  <2> QED BY <2>1, <2>2, QueueBeginOnListing
<1>2. CASE BeginFirstReview(w)
  <2> DEFINE entity == [listing EXCEPT !.status =
                          IF @ = "draft" THEN "ready_for_review" ELSE "first_review"]
  <2>1. listing.status \in EditIdentity /\ BeginOnListing(w, "first_review", entity)
    BY <1>2 DEF BeginFirstReview
  <2>2. /\ entity.status \in {"ready_for_review", "first_review"}
        /\ entity.edition = listing.edition
    BY <1>0 DEF Listings
  <2> HIDE DEF entity
  <2> QED BY <2>1, <2>2, QueueBeginOnListing
<1>3. CASE BeginSubmit(w)
  <2> DEFINE entity == [listing EXCEPT !.status =
                IF @ = "first_review" THEN "pending_verification" ELSE "first_review"]
  <2>1. listing.status \in EditIdentity /\ BeginOnListing(w, "submit", entity)
    BY <1>3 DEF BeginSubmit, EditIdentity
  <2>2. /\ entity.status \in {"first_review", "pending_verification"}
        /\ entity.edition = listing.edition
    BY <1>0 DEF Listings
  <2> HIDE DEF entity
  <2> QED BY <2>1, <2>2, QueueBeginOnListing
<1> QED BY <1>1, <1>2, <1>3

LEMMA QueueSaveEdit ==
  ASSUME Calm, NEW w \in Workers, SaveEdit(w), OrderlyFor(w)
  PROVE  OrderlyFor(w)' /\ (TidyFor(w) => TidyFor(w)')
<1>1. /\ At(w, "edit", "loaded") /\ WriteListing(w) /\ SavesListing(w) /\ Finish(w)
  BY DEF SaveEdit, At, SavesListing, RequestOps
<1>2. /\ ~Idle(w) /\ listing' = task[w].entity /\ UNCHANGED request /\ Idle(w)'
  BY <1>1, SavedListing, Finished DEF Calm
<1>3. /\ listing'.status = listing.status
      /\ RefusedAsListed /\ LockedIsQueued
  BY <1>1, <1>2 DEF OrderlyFor, Consistent, Refusing, Queueing, At
<1>4. OrderlyFor(w)'
  BY <1>2, <1>3, RestingNext, SameRequests DEF RefusedAsListed, LockedIsQueued
<1>5. ASSUME TidyFor(w) PROVE TidyFor(w)'
  <2>1. /\ FindingsTidy /\ IssuesApart
        /\ listing'.edition = listing.edition \/ listing.status \in EditIdentity
    BY <1>1, <1>2, <1>5 DEF TidyFor, Careful, Parting, At
  <2>2. IssuesApart'
    BY <1>2, <1>3, <2>1, SameRequests DEF IssuesApart
  <2>3. ASSUME listing'.edition = listing.edition PROVE FindingsTidy'
    <3>1. listing \in Listings /\ listing' \in Listings
      BY <1>2, TableFact, HeldListing DEF Calm
    <3>2. listing' = listing
      BY <1>3, <2>3, <3>1 DEF Listings
    <3> QED BY <1>2, <2>1, <3>2, SameTables
  <2>4. ASSUME listing.status \in EditIdentity PROVE FindingsTidy'
    <3>1. listing.status \notin Allocatable \cup Visible
      BY <2>4 DEF EditIdentity, Allocatable, Visible
    <3> QED BY <1>2, <1>3, <2>1, <3>1, SameRequests DEF FindingsTidy
  <2> QED BY <1>2, <2>1, <2>2, <2>3, <2>4, RestingNext
<1> QED BY <1>4, <1>5

(* A handler that saves a listing the vendor may edit finds it not refused, *)
(* and no officer at work on it.                                            *)
LEMMA WalkFact ==
  ASSUME Calm, NEW w \in Workers, task[w].op \in {"first_review", "submit"},
         task[w].at = "loaded", OrderlyFor(w), UNCHANGED request,
         listing' = task[w].entity
  PROVE  /\ Refused' = {}
         /\ TidyFor(w) => /\ Active' = {} /\ \A r \in RequestIds : Bare(request'[r])
                          /\ listing'.edition = listing.edition
<1>1. RefusedAsListed /\ listing.status # "rejected"
  BY DEF OrderlyFor, Refusing, Calm, Serial, Held, HoldsListing
<1>2. ASSUME TidyFor(w)
      PROVE  /\ Active = {} /\ \A r \in RequestIds : Bare(request[r])
             /\ task[w].entity.edition = listing.edition
  BY <1>2 DEF TidyFor, FindingsTidy, Careful, EditIdentity, Allocatable
<1> QED BY <1>1, <1>2, SameRequests DEF RefusedAsListed

(* The next listing in hand, after a step of a walk. *)
LEMMA WalkShape ==
  ASSUME Calm, NEW w \in Workers, ~Idle(w), NEW status, Walk(w, "loaded", status)
  PROVE  /\ task'[w].op = task[w].op /\ task'[w].at = "loaded"
         /\ task'[w].entity.status = status
         /\ task'[w].entity.edition = task[w].entity.edition
<1>1. task[w].entity \in Listings
  BY HeldListing
<1>2. /\ Keeps(w, {"op", "outcome", "of", "row"}) /\ task'[w].at = "loaded"
      /\ task'[w].entity = [task[w].entity EXCEPT !.status = status]
  BY StepShapes DEF Calm
<1> QED BY <1>1, <1>2 DEF Keeps, Listings

LEMMA QueueSaveFirstReview ==
  ASSUME Calm, NEW w \in Workers, SaveFirstReview(w), OrderlyFor(w)
  PROVE  OrderlyFor(w)' /\ (TidyFor(w) => TidyFor(w)')
<1>0. /\ task[w].op = "first_review" /\ task[w].at = "loaded"
      /\ WriteListing(w) /\ SavesListing(w)
  BY DEF SaveFirstReview, At, SavesListing, RequestOps
<1>1. /\ ~Idle(w) /\ listing' = task[w].entity /\ UNCHANGED request
      /\ listing'.status \in {"ready_for_review", "first_review"}
  BY <1>0, SavedListing DEF At, OrderlyFor, Consistent
<1>2. /\ Refused' = {}
      /\ TidyFor(w) => /\ Active' = {} /\ \A r \in RequestIds : Bare(request'[r])
                       /\ listing'.edition = listing.edition
  BY <1>0, <1>1, WalkFact
<1>3. listing'.status \in EditIdentity /\ listing'.status \notin Allocatable \cup Visible
  BY <1>1 DEF EditIdentity, Allocatable, Visible
<1>4. RefusedAsListed' /\ LockedIsQueued'
  BY <1>2, <1>3 DEF RefusedAsListed, LockedIsQueued
<1>5. TidyFor(w) => FindingsTidy' /\ IssuesApart'
  BY <1>2, <1>3 DEF FindingsTidy, IssuesApart
<1>6. CASE Walk(w, "loaded", "first_review")
  <2>1. /\ task'[w].op = "first_review" /\ task'[w].at = "loaded"
        /\ task'[w].entity.status = "first_review"
        /\ task'[w].entity.edition = listing'.edition
    BY <1>0, <1>1, <1>6, WalkShape
  <2>2. OrderlyFor(w)'
    BY <1>4, <2>1 DEF OrderlyFor, Consistent, At, Writing, Deciding, RequestOps
  <2>3. ASSUME TidyFor(w) PROVE TidyFor(w)'
    BY <1>3, <1>5, <2>1, <2>3 DEF TidyFor, Careful, At, Writing, Deciding, RequestOps
  <2> QED BY <2>2, <2>3
<1>7. CASE Finish(w)
  BY <1>4, <1>5, <1>7, Finished, RestingNext DEF Calm
<1> QED BY <1>6, <1>7 DEF SaveFirstReview

LEMMA QueueSaveSubmit ==
  ASSUME Calm, NEW w \in Workers, SaveSubmit(w), OrderlyFor(w)
  PROVE  OrderlyFor(w)' /\ (TidyFor(w) => TidyFor(w)')
<1>0. /\ task[w].op = "submit" /\ task[w].at = "loaded"
      /\ WriteListing(w) /\ SavesListing(w)
  BY DEF SaveSubmit, At, SavesListing, RequestOps
<1>1. /\ ~Idle(w) /\ listing' = task[w].entity /\ UNCHANGED request
      /\ listing'.status \in {"first_review", "pending_verification"}
  BY <1>0, SavedListing DEF At, OrderlyFor, Consistent
<1>2. /\ Refused' = {}
      /\ TidyFor(w) => /\ Active' = {} /\ \A r \in RequestIds : Bare(request'[r])
                       /\ listing'.edition = listing.edition
  BY <1>0, <1>1, WalkFact
<1>3. RefusedAsListed' /\ (TidyFor(w) => FindingsTidy')
  BY <1>1, <1>2 DEF RefusedAsListed, FindingsTidy, Visible
<1>4. CASE task[w].entity.status = "first_review"
  <2>1. Walk(w, "loaded", "pending_verification")
    BY <1>4 DEF SaveSubmit
  <2>2. /\ task'[w].op = "submit" /\ task'[w].at = "loaded"
        /\ task'[w].entity.status = "pending_verification"
        /\ task'[w].entity.edition = listing'.edition
    BY <1>0, <1>1, <2>1, WalkShape
  <2>3. listing'.status \in EditIdentity /\ listing'.status \notin Allocatable \cup Visible
    BY <1>1, <1>4 DEF EditIdentity, Allocatable, Visible
  <2>4. LockedIsQueued' /\ IssuesApart'
    BY <2>3 DEF LockedIsQueued, IssuesApart
  <2>5. OrderlyFor(w)'
    BY <1>3, <2>2, <2>4 DEF OrderlyFor, Consistent, At, Writing, Deciding, RequestOps
  <2>6. ASSUME TidyFor(w) PROVE TidyFor(w)'
    BY <1>3, <2>2, <2>3, <2>4, <2>6
       DEF TidyFor, Careful, At, Writing, Deciding, RequestOps
  <2> QED BY <2>5, <2>6
<1>5. CASE task[w].entity.status # "first_review"
  <2>1. GoTo(w, "raising", 0)
    BY <1>5 DEF SaveSubmit
  <2>2. task'[w].op = "submit" /\ task'[w].at = "raising"
    BY <1>0, <2>1, StepShapes DEF Calm, Keeps
  <2>3. listing'.status \in Allocatable
    BY <1>1, <1>5 DEF Allocatable
  <2>4. OrderlyFor(w)'
    BY <1>3, <2>2
       DEF OrderlyFor, Queueing, Consistent, At, Writing, Deciding, RequestOps
  <2>5. ASSUME TidyFor(w) PROVE TidyFor(w)'
    BY <1>3, <2>2, <2>3, <2>5
       DEF TidyFor, Parting, Careful, At, Writing, Deciding, RequestOps
  <2> QED BY <2>4, <2>5
<1> QED BY <1>4, <1>5

(* A submission on its way to startSla has nothing left to agree on. *)
LEMMA QueueClocking ==
  ASSUME NEW w \in Workers, task'[w].op = "submit", task'[w].at = "clocking",
         RefusedAsListed', LockedIsQueued'
  PROVE  OrderlyFor(w)' /\ (FindingsTidy' /\ IssuesApart' => TidyFor(w)')
BY DEF OrderlyFor, Consistent, TidyFor, Careful, At, Writing, Deciding, RequestOps

(* A handler on its way to raise() finds one request at most to answer. *)
LEMMA QueueRaise ==
  ASSUME Calm, NEW w \in Workers, Raise(w), OrderlyFor(w)
  PROVE  OrderlyFor(w)' /\ (TidyFor(w) => TidyFor(w)')
<1>1. /\ task[w].op = "submit" /\ task[w].at = "raising" /\ UNCHANGED <<listing, request>>
      /\ RefusedAsListed /\ RefusedAsListed'
  BY SameTables DEF Raise, At, OrderlyFor, Refusing, OnlyTasks
<1>2. ASSUME TidyFor(w) PROVE FindingsTidy' /\ listing'.status \in Allocatable
  BY <1>1, <1>2, SameTables DEF TidyFor, Careful
<1>3. Typed /\ \A r, q \in Unsettled : r = q
  BY DEF Calm, Serial, Settlement
<1>4. ASSUME NEW r \in Open, request[r].status \in Parked, Answered(w, "resubmitting", r)
      PROVE  OrderlyFor(w)' /\ (TidyFor(w) => TidyFor(w)')
  <2>1. task'[w].op = "submit" /\ task'[w].at = "resubmitting" /\ task'[w].of = r
    BY <1>1, <1>3, <1>4, StepShapes DEF Keeps
  <2>2. LockedIsQueued' /\ r \in Open'
    BY <1>1, <1>4, SameTables DEF LockedIsQueued
  <2>3. OrderlyFor(w)'
    BY <1>1, <2>1, <2>2 DEF OrderlyFor, Consistent, At, Writing, Deciding, RequestOps
  <2>4. ASSUME TidyFor(w) PROVE TidyFor(w)'
    BY <1>2, <2>1, <2>2, <2>4
       DEF TidyFor, Parting, Careful, At, Writing, Deciding, RequestOps
  <2> QED BY <2>3, <2>4
<1>5. ASSUME NEW r \in Open, request[r].status \notin Parked, Answered(w, "clocking", r)
      PROVE  OrderlyFor(w)' /\ (TidyFor(w) => TidyFor(w)')
  <2>1. task'[w].op = "submit" /\ task'[w].at = "clocking"
    BY <1>1, <1>3, <1>5, StepShapes DEF Keeps
  <2>2. Issued' = {}
    <3>1. \A q \in Issued : q = r
      BY <1>3, Divided DEF Issued, Open, WithStatus
    <3> QED BY <1>1, <1>5, <3>1, SameTables DEF Issued, WithStatus, Parked
  <2>3. LockedIsQueued' /\ IssuesApart'
    BY <1>1, <2>2, SameTables DEF LockedIsQueued, IssuesApart
  <2> QED BY <1>1, <1>2, <2>1, <2>3, QueueClocking
<1>6. Open = {} => Issued' = {}
  BY <1>1, <1>3, Divided, SameTables DEF Issued, WithStatus
<1>7. CASE Open = {} /\ Refused # {} /\ Finish(w)
  <2>1. LockedIsQueued' /\ IssuesApart'
    BY <1>1, <1>6, <1>7
       DEF LockedIsQueued, IssuesApart, RefusedAsListed, Allocatable
  <2> QED BY <1>1, <1>2, <1>3, <1>7, <2>1, Finished, RestingNext
<1>8. CASE Open = {} /\ GoTo(w, "inserting", 0)
  <2>1. task'[w].op = "submit" /\ task'[w].at = "inserting"
    BY <1>1, <1>3, <1>8, StepShapes DEF Keeps
  <2>2. OrderlyFor(w)'
    BY <1>1, <2>1 DEF OrderlyFor, Queueing, Consistent, At, Writing, Deciding, RequestOps
  <2>3. IssuesApart'
    BY <1>6, <1>8 DEF IssuesApart
  <2>4. ASSUME TidyFor(w) PROVE TidyFor(w)'
    BY <1>2, <2>1, <2>3, <2>4 DEF TidyFor, Careful, At, Writing, Deciding, RequestOps
  <2> QED BY <2>2, <2>4
<1> QED BY <1>4, <1>5, <1>7, <1>8 DEF Raise, Refused

LEMMA QueueInsertRequest ==
  ASSUME Calm, NEW w \in Workers, InsertRequest(w), OrderlyFor(w)
  PROVE  OrderlyFor(w)' /\ (TidyFor(w) => TidyFor(w)')
<1>1. /\ task[w].op = "submit" /\ task[w].at = "inserting" /\ UNCHANGED listing
      /\ RefusedAsListed /\ Typed
  BY DEF InsertRequest, At, OrderlyFor, Refusing, Calm
<1>2. PICK r \in RequestIds :
        request' = [request EXCEPT ![r] = NewRow] /\ Answered(w, "clocking", r)
  BY DEF InsertRequest, WithStatus
<1>3. request'[r] = NewRow /\ \A q \in RequestIds : q # r => request'[q] = request[q]
  BY <1>1, <1>2, RowWritten
<1>4. NewRow.status = "new" /\ NewRow.findings = 0
  BY DEF NewRow, NoRow
<1>5. Refused' \subseteq Refused /\ r \in Open' /\ Issued' \subseteq Issued
      /\ Active' \subseteq Active \cup {r}
  BY <1>3, <1>4 DEF Refused, Open, OpenStatuses, Issued, Active, WithStatus
<1>6. RefusedAsListed' /\ LockedIsQueued'
  BY <1>1, <1>5 DEF RefusedAsListed, LockedIsQueued
<1>7. Issued = {}
  BY <1>1, Divided DEF Calm, Serial, Held, Issued, WithStatus
<1>8. ASSUME TidyFor(w) PROVE FindingsTidy' /\ IssuesApart'
  <2>1. FindingsTidy /\ listing.status \in Allocatable /\ listing.status \notin Visible
    BY <1>1, <1>8 DEF TidyFor, Careful, Allocatable, Visible
  <2>2. \A q \in RequestIds : Bare(request'[q])
    BY <1>3, <1>4, <2>1 DEF FindingsTidy, Bare
  <2>3. \A q \in Active' : request'[q].findings \in {0, listing.edition}
    BY <1>3, <1>4, <1>5, <2>1 DEF FindingsTidy, Active, WithStatus
  <2> QED BY <1>1, <1>5, <1>7, <2>1, <2>2, <2>3 DEF FindingsTidy, IssuesApart
<1>9. task'[w].op = "submit" /\ task'[w].at = "clocking"
  BY <1>1, <1>2, StepShapes DEF Keeps
<1> QED BY <1>6, <1>8, <1>9, QueueClocking

LEMMA QueueResubmitted ==
  ASSUME Calm, NEW w \in Workers, ResubmittedOnce(w), OrderlyFor(w)
  PROVE  OrderlyFor(w)' /\ (TidyFor(w) => TidyFor(w)')
<1> DEFINE r == task[w].of
           row == SentBack(request[r], "new", LastOfficer(request[r]))
<1>1. /\ task[w].op = "submit" /\ task[w].at = "resubmitting" /\ UNCHANGED listing
      /\ RefusedAsListed /\ LockedIsQueued /\ Typed /\ r \in RequestIds
      /\ GoTo(w, "clocking", 0)
  BY DEF ResubmittedOnce, At, OrderlyFor, Refusing, Queueing, Calm
<1>2. task'[w].op = "submit" /\ task'[w].at = "clocking"
  BY <1>1, StepShapes DEF Keeps
<1>3. \A p, q \in Unsettled : p = q
  BY DEF Calm, Serial, Settlement
<1>4. CASE request[r].status \in Parked
  <2>1. request' = [request EXCEPT ![r] = row]
    BY <1>4 DEF ResubmittedOnce
  <2>2. row.status = "new" /\ row.findings = 0
    BY DEF SentBack
  <2>3. r \in Unsettled
    BY <1>1, <1>4 DEF Unsettled, WithStatus, Parked
  <2>4. TidyFor(w) => /\ FindingsTidy /\ listing.status \in Allocatable
                      /\ listing.status \notin Visible
    BY <1>1 DEF TidyFor, Careful, Allocatable, Visible
  <2> HIDE DEF r, row
  <2>5. request'[r] = row /\ \A q \in RequestIds : q # r => request'[q] = request[q]
    BY <1>1, <2>1, RowWritten
  <2>6. Refused' \subseteq Refused /\ r \in Open' /\ Active' \subseteq Active \cup {r}
    BY <1>1, <2>2, <2>5 DEF Refused, Open, OpenStatuses, Active, WithStatus
  <2>7. Issued' = {}
    <3>1. \A q \in Issued : q = r
      BY <1>1, <1>3, <2>3, Divided DEF Issued, WithStatus
    <3> QED BY <2>2, <2>5, <3>1 DEF Issued, WithStatus
  <2>8. RefusedAsListed' /\ LockedIsQueued' /\ IssuesApart'
    BY <1>1, <2>6, <2>7 DEF RefusedAsListed, LockedIsQueued, IssuesApart
  <2>9. ASSUME TidyFor(w) PROVE FindingsTidy'
    <3>1. \A q \in RequestIds : Bare(request'[q])
      BY <2>2, <2>4, <2>5, <2>9 DEF FindingsTidy, Bare
    <3>2. \A q \in Active' : request'[q].findings \in {0, listing.edition}
      BY <2>2, <2>4, <2>5, <2>6, <2>9 DEF FindingsTidy, Active, WithStatus
    <3> QED BY <1>1, <2>4, <2>9, <3>1, <3>2 DEF FindingsTidy
  <2> QED BY <1>2, <2>8, <2>9, QueueClocking
<1>5. CASE request[r].status \notin Parked
  <2>1. UNCHANGED <<listing, request>>
    BY <1>1, <1>5 DEF ResubmittedOnce
  <2>2. ASSUME TidyFor(w) PROVE FindingsTidy /\ IssuesApart
    <3>1. r \in Open /\ FindingsTidy
      BY <1>1, <2>2 DEF TidyFor, Careful, At
    <3>2. \A q \in Issued : q = r
      BY <1>1, <1>3, <3>1, Divided DEF Issued, Open, WithStatus
    <3>3. Issued = {}
      BY <1>5, <3>2 DEF Issued, WithStatus, Parked
    <3> QED BY <3>1, <3>3 DEF IssuesApart
  <2> QED BY <1>1, <1>2, <2>1, <2>2, SameTables, QueueClocking
<1> QED BY <1>4, <1>5

(* startSla: the submission ends, or a revisit goes on to the listing. *)
LEMMA QueueClocked ==
  ASSUME Calm, NEW w \in Workers, ClockedOnce(w), OrderlyFor(w)
  PROVE  OrderlyFor(w)' /\ (TidyFor(w) => TidyFor(w)')
<1>1. /\ task[w].at = "clocking" /\ UNCHANGED <<listing, request>>
      /\ RefusedAsListed /\ LockedIsQueued /\ Typed
      /\ TidyFor(w) => FindingsTidy /\ IssuesApart
  BY DEF ClockedOnce, OrderlyFor, Refusing, Queueing, TidyFor, Parting, At, Calm
<1>2. CASE Finish(w)
  BY <1>1, <1>2, SameTables, Finished, RestingNext
<1>3. CASE task[w].op = "decide" /\ GoTo(w, "moving", 0)
  <2>1. task'[w].op = "decide" /\ task'[w].at = "moving" /\ task'[w].outcome = task[w].outcome
    BY <1>1, <1>3, StepShapes DEF Keeps
  <2>2. /\ task[w].outcome = "revisit"
        /\ MayMove(listing.status, DecisionTarget[task[w].outcome])
        /\ TidyFor(w) => Active = {}
    BY <1>1, <1>3 DEF OrderlyFor, Consistent, TidyFor, Careful, At
  <2>3. OrderlyFor(w)'
    BY <1>1, <2>1, <2>2, SameTables
       DEF OrderlyFor, Consistent, At, Writing, Deciding, Outcomes
  <2>4. ASSUME TidyFor(w) PROVE TidyFor(w)'
    BY <1>1, <2>1, <2>2, <2>4, SameTables DEF TidyFor, Careful, At, Writing, Deciding
  <2> QED BY <2>3, <2>4
<1> QED BY <1>2, <1>3 DEF ClockedOnce, AfterClock

-----------------------------------------------------------------------------
(* The officer and the administrator: the queue *)

(* A handler that starts on a request it may write, or decide. *)
LEMMA QueueBeginOnRequest ==
  ASSUME Typed, NEW w \in Workers, OrderlyFor(w),
         NEW op \in RequestOps, NEW step \in {"loaded", "marking"}, NEW outcome,
         NEW r, NEW row, BeginOnRequest(w, op, step, outcome, r, row),
         op # "decide" => row.status \in Worked,
         op = "decide" => /\ step = "loaded" /\ outcome \in Outcomes
                          /\ row.status = DecidedAs(outcome)
                          /\ MayMove(listing.status, DecisionTarget[outcome]),
         TidyFor(w) /\ op # "decide" =>
           listing.status \in Allocatable /\ row.findings \in {0, listing.edition},
         TidyFor(w) /\ op = "decide" =>
           /\ listing.status \notin Visible /\ Bare(row)
           /\ outcome = "approve" => row.findings = listing.edition
  PROVE  OrderlyFor(w)' /\ (TidyFor(w) => TidyFor(w)')
<1>1. /\ Idle(w) /\ UNCHANGED <<listing, request>>
      /\ task'[w].op = op /\ task'[w].at = step /\ task'[w].outcome = outcome
      /\ task'[w].row = row
  BY RequestBegun
<1>2. OrderlyFor(w)'
  BY <1>1, Resting, SameTables DEF OrderlyFor, Consistent, At, Writing, Deciding, RequestOps
<1>3. ASSUME TidyFor(w) PROVE TidyFor(w)'
  BY <1>1, <1>3, Resting, SameTables DEF TidyFor, Careful, At, Writing, Deciding, RequestOps
<1> QED BY <1>2, <1>3

LEMMA BegunIdle ==
  ASSUME NEW w \in Workers, NEW op, NEW step, NEW outcome, NEW r, NEW row,
         BeginOnRequest(w, op, step, outcome, r, row)
  PROVE  Idle(w)
BY DEF BeginOnRequest, Begin

(* A request some officer has is in work, and its listing locked. *)
LEMMA InWork ==
  ASSUME Typed, NEW w \in Workers, Idle(w), TidyFor(w), NEW r \in RequestIds,
         \/ request[r].status \in {"assigned", "in_progress", "submitted"}
         \/ request[r].status = "additional_review" /\ request[r].officer # NoOfficer
  PROVE  listing.status \in Allocatable /\ request[r].findings \in {0, listing.edition}
<1>1. FindingsTidy
  BY DEF TidyFor
<1>2. request[r].status # "additional_review"
  BY <1>1 DEF FindingsTidy, Bare
<1>3. r \in Active
  BY <1>2 DEF Active, WithStatus, Worked
<1> QED BY <1>1, <1>3 DEF FindingsTidy

LEMMA QueueBeginStart ==
  ASSUME Typed, NEW w \in Workers, BeginStart(w), OrderlyFor(w)
  PROVE  OrderlyFor(w)' /\ (TidyFor(w) => TidyFor(w)')
<1>1. PICK r \in WithStatus({"assigned", "additional_review"}) :
        /\ request[r].officer # NoOfficer
        /\ BeginOnRequest(w, "start", "marking", "none", r,
             [request[r] EXCEPT !.status = "in_progress"])
  BY DEF BeginStart
<1> DEFINE row == [request[r] EXCEPT !.status = "in_progress"]
<1>2. r \in RequestIds /\ request[r].status \in {"assigned", "additional_review"}
  BY DEF WithStatus
<1>3. row.status = "in_progress" /\ row.findings = request[r].findings
  BY <1>2, TableFact DEF Rows
<1>4. BeginOnRequest(w, "start", "marking", "none", r, row)
  BY <1>1
<1>5. TidyFor(w) =>
        listing.status \in Allocatable /\ row.findings \in {0, listing.edition}
  BY <1>1, <1>2, <1>3, <1>4, BegunIdle, InWork
<1> HIDE DEF row
<1>6. "start" \in RequestOps /\ "start" # "decide" /\ row.status \in Worked
  BY <1>3 DEF RequestOps, Worked
<1> QED BY <1>4, <1>5, <1>6, QueueBeginOnRequest

LEMMA QueueBeginFindings ==
  ASSUME Typed, NEW w \in Workers, BeginFindings(w), OrderlyFor(w)
  PROVE  OrderlyFor(w)' /\ (TidyFor(w) => TidyFor(w)')
<1>1. PICK r \in WithStatus({"assigned", "in_progress", "additional_review"}) :
        /\ request[r].officer # NoOfficer
        /\ BeginOnRequest(w, "findings", "loaded", "none", r,
             [request[r] EXCEPT !.status = "submitted", !.findings = listing.edition])
  BY DEF BeginFindings
<1> DEFINE row == [request[r] EXCEPT !.status = "submitted", !.findings = listing.edition]
<1>2. r \in RequestIds /\ request[r].status \in {"assigned", "in_progress", "additional_review"}
  BY DEF WithStatus
<1>3. row.status = "submitted" /\ row.findings = listing.edition
  BY <1>2, TableFact DEF Rows
<1>4. BeginOnRequest(w, "findings", "loaded", "none", r, row)
  BY <1>1
<1>5. TidyFor(w) =>
        listing.status \in Allocatable /\ row.findings \in {0, listing.edition}
  BY <1>1, <1>2, <1>3, <1>4, BegunIdle, InWork
<1> HIDE DEF row
<1>6. "findings" \in RequestOps /\ "findings" # "decide" /\ row.status \in Worked
  BY <1>3 DEF RequestOps, Worked
<1> QED BY <1>4, <1>5, <1>6, QueueBeginOnRequest

LEMMA QueueBeginReview ==
  ASSUME Typed, NEW w \in Workers, BeginReview(w), OrderlyFor(w)
  PROVE  OrderlyFor(w)' /\ (TidyFor(w) => TidyFor(w)')
<1>1. PICK r \in WithStatus({"submitted"}) :
        BeginOnRequest(w, "review", "loaded", "none", r,
          [request[r] EXCEPT !.status = "admin_review"])
  BY DEF BeginReview
<1> DEFINE row == [request[r] EXCEPT !.status = "admin_review"]
<1>2. r \in RequestIds /\ request[r].status = "submitted"
  BY DEF WithStatus
<1>3. row.status = "admin_review" /\ row.findings = request[r].findings
  BY <1>2, TableFact DEF Rows
<1>4. BeginOnRequest(w, "review", "loaded", "none", r, row)
  BY <1>1
<1>5. TidyFor(w) =>
        listing.status \in Allocatable /\ row.findings \in {0, listing.edition}
  BY <1>2, <1>3, <1>4, BegunIdle, InWork
<1> HIDE DEF row
<1>6. "review" \in RequestOps /\ "review" # "decide" /\ row.status \in Worked
  BY <1>3 DEF RequestOps, Worked
<1> QED BY <1>4, <1>5, <1>6, QueueBeginOnRequest

(* A request not settled, behind a locked listing, when all is quiet: it is *)
(* in work or waits for another look.                                       *)
LEMMA BehindLock ==
  ASSUME Typed, NEW w \in Workers, Idle(w), OrderlyFor(w), TidyFor(w),
         NEW r \in Unsettled, listing.status \in Allocatable
  PROVE  \/ r \in Active
         \/ request[r].status = "additional_review" /\ request[r].findings = 0
<1>1. RefusedAsListed /\ FindingsTidy /\ IssuesApart
  BY Resting
<1>2. r \in RequestIds
  BY DEF Unsettled
<1>3. Refused = {} /\ Issued = {}
  BY <1>1 DEF RefusedAsListed, IssuesApart, Allocatable
<1>4. r \in Active \/ request[r].status = "additional_review"
  BY <1>2, <1>3, Divided
<1> QED BY <1>1, <1>2, <1>4 DEF FindingsTidy, Bare

LEMMA QueueBeginAllocate ==
  ASSUME Typed, NEW w \in Workers, BeginAllocate(w), OrderlyFor(w)
  PROVE  OrderlyFor(w)' /\ (TidyFor(w) => TidyFor(w)')
<1>1. PICK r \in Raised \ WithStatus({"approved"}) : \E o \in Officers :
        BeginOnRequest(w, "allocate", "loaded", "none", r,
          [request[r] EXCEPT !.officer = o, !.previous = NoOfficer, !.status = "assigned"])
  BY DEF BeginAllocate
<1>2. PICK o \in Officers :
        BeginOnRequest(w, "allocate", "loaded", "none", r,
          [request[r] EXCEPT !.officer = o, !.previous = NoOfficer, !.status = "assigned"])
  BY <1>1
<1> DEFINE row == [request[r] EXCEPT !.officer = o, !.previous = NoOfficer,
                                     !.status = "assigned"]
<1>3. r \in Unsettled /\ r \in RequestIds /\ listing.status \in Allocatable
  BY DEF Unsettled, WithStatus, Raised, BeginAllocate
<1>4. row.status = "assigned" /\ row.findings = request[r].findings
  BY <1>3, TableFact DEF Rows
<1>5. BeginOnRequest(w, "allocate", "loaded", "none", r, row)
  BY <1>2
<1>6. ASSUME TidyFor(w) PROVE row.findings \in {0, listing.edition}
  <2>1. r \in Active \/ request[r].findings = 0
    BY <1>3, <1>5, <1>6, BegunIdle, BehindLock
  <2> QED BY <1>4, <1>6, <2>1 DEF TidyFor, FindingsTidy
<1> HIDE DEF row
<1>7. "allocate" \in RequestOps /\ "allocate" # "decide" /\ row.status \in Worked
  BY <1>4 DEF RequestOps, Worked
<1> QED BY <1>3, <1>5, <1>6, <1>7, QueueBeginOnRequest

LEMMA DecidedRow ==
  ASSUME NEW row \in Rows, NEW outcome \in Outcomes
  PROVE  /\ Decided(row, outcome).status = DecidedAs(outcome)
         /\ Bare(Decided(row, outcome))
         /\ outcome = "approve" => Decided(row, outcome).findings = row.findings
<1>1. CASE outcome = "approve"
  <2> DEFINE new == [row EXCEPT !.status = "approved"]
  <2>1. new.status = "approved" /\ new.findings = row.findings
    BY DEF Rows
  <2>2. Decided(row, outcome) = new /\ DecidedAs(outcome) = "approved"
    BY <1>1 DEF Decided, DecidedAs
  <2> QED BY <2>1, <2>2 DEF Bare
<1>2. CASE outcome = "reject"
  <2> DEFINE new == [row EXCEPT !.status = "rejected"]
  <2>1. new.status = "rejected"
    BY DEF Rows
  <2>2. Decided(row, outcome) = new /\ DecidedAs(outcome) = "rejected"
    BY <1>2 DEF Decided, DecidedAs
  <2> QED BY <1>2, <2>1, <2>2 DEF Bare
<1>3. CASE outcome = "issue"
  <2> DEFINE new == [row EXCEPT !.status = "issue"]
  <2>1. new.status = "issue"
    BY DEF Rows
  <2>2. Decided(row, outcome) = new /\ DecidedAs(outcome) = "issue"
    BY <1>3 DEF Decided, DecidedAs
  <2> QED BY <1>3, <2>1, <2>2 DEF Bare
<1>4. CASE outcome \in {"revisit", "correct"}
  <2>1. DecidedAs(outcome) = "additional_review"
    BY <1>4 DEF DecidedAs
  <2>2. \E previous : Decided(row, outcome) = SentBack(row, "additional_review", previous)
    BY <1>4 DEF Decided
  <2> QED BY <1>4, <2>1, <2>2 DEF SentBack, Bare
<1> QED BY <1>1, <1>2, <1>3, <1>4 DEF Outcomes

LEMMA QueueBeginDecide ==
  ASSUME Typed, NEW w \in Workers, BeginDecide(w), OrderlyFor(w)
  PROVE  OrderlyFor(w)' /\ (TidyFor(w) => TidyFor(w)')
<1>1. PICK r \in Raised \ WithStatus({"approved"}) : \E outcome \in Outcomes :
        /\ outcome = "approve" => request[r].findings # 0
        /\ MayMove(listing.status, DecisionTarget[outcome])
        /\ BeginOnRequest(w, "decide", "loaded", outcome, r, Decided(request[r], outcome))
  BY DEF BeginDecide
<1>2. PICK outcome \in Outcomes :
        /\ outcome = "approve" => request[r].findings # 0
        /\ MayMove(listing.status, DecisionTarget[outcome])
        /\ BeginOnRequest(w, "decide", "loaded", outcome, r, Decided(request[r], outcome))
  BY <1>1
<1>3. r \in Unsettled /\ r \in RequestIds
  BY DEF Unsettled, WithStatus, Raised
<1> DEFINE row == Decided(request[r], outcome)
<1>4. /\ row.status = DecidedAs(outcome) /\ Bare(row)
      /\ outcome = "approve" => row.findings = request[r].findings
  BY <1>3, TableFact, DecidedRow
<1>5. BeginOnRequest(w, "decide", "loaded", outcome, r, row) /\ Idle(w)
  BY <1>2, BegunIdle
<1> HIDE DEF row
<1>6. ASSUME TidyFor(w) PROVE listing.status \notin Visible
  <2>1. RefusedAsListed /\ FindingsTidy
    BY <1>5, <1>6, Resting
  <2>2. r \in Open \/ r \in Refused
    BY <1>3, Divided
  <2> QED BY <2>1, <2>2 DEF RefusedAsListed, FindingsTidy, Visible
<1>7. ASSUME TidyFor(w), outcome = "approve" PROVE row.findings = listing.edition
  <2>1. MayMove(listing.status, "verified")
    BY <1>2, <1>7 DEF DecisionTarget
  <2>2. listing.status \in Allocatable
    BY <1>6, <1>7, <2>1, TableFact DEF MayMove, Moves, ListingStatuses, Visible, Allocatable
  <2>3. r \in Active
    BY <1>2, <1>3, <1>5, <1>7, <2>2, BehindLock
  <2> QED BY <1>2, <1>4, <1>7, <2>3 DEF TidyFor, FindingsTidy
<1>8. "decide" \in RequestOps
  BY DEF RequestOps
<1> QED BY <1>2, <1>4, <1>5, <1>6, <1>7, <1>8, QueueBeginOnRequest

LEMMA QueueMarked ==
  ASSUME Calm, NEW w \in Workers, MarkedOnce(w), OrderlyFor(w)
  PROVE  OrderlyFor(w)' /\ (TidyFor(w) => TidyFor(w)')
<1>1. /\ task[w].op = "start" /\ task[w].at = "marking" /\ UNCHANGED request
      /\ GoTo(w, "loaded", 1) /\ Typed
  BY DEF MarkedOnce, At, Calm
<1>2. /\ task'[w].op = "start" /\ task'[w].at = "loaded" /\ task'[w].row = task[w].row
  BY <1>1, StepShapes DEF Keeps
<1>3. Writing(w) /\ RefusedAsListed /\ LockedIsQueued /\ task[w].row.status \in Worked
  BY <1>1 DEF Writing, RequestOps, OrderlyFor, Consistent, Refusing, Queueing
<1>4. task[w].of \in Unsettled /\ task[w].of \in RequestIds
  BY <1>3 DEF Calm, Serial, Held, Writing, Unsettled
<1>5. \/ listing' = listing
      \/ /\ listing'.status = "in_progress" /\ listing'.edition = listing.edition
         /\ Refused = {} /\ Open # {}
  <2>1. CASE "in_progress" \in Moves[listing.status]
    <3>1. listing.status # "rejected"
      BY <2>1 DEF Moves, ListingStatuses
    <3>2. Refused = {} /\ task[w].of \in Open
      BY <1>1, <1>3, <1>4, <3>1, Divided DEF RefusedAsListed
    <3>3. listing'.status = "in_progress" /\ listing'.edition = listing.edition
      BY <1>1, <2>1, TableFact DEF MarkedOnce, Listings
    <3> QED BY <3>2, <3>3
  <2>2. CASE "in_progress" \notin Moves[listing.status]
    BY <2>2 DEF MarkedOnce
  <2> QED BY <2>1, <2>2
<1>6. RefusedAsListed' /\ LockedIsQueued'
  BY <1>1, <1>3, <1>5, SameRequests, SameTables DEF RefusedAsListed, LockedIsQueued
<1>7. OrderlyFor(w)'
  BY <1>2, <1>3, <1>6 DEF OrderlyFor, Consistent, At, Writing, Deciding, RequestOps
<1>8. ASSUME TidyFor(w) PROVE TidyFor(w)'
  <2>1. /\ FindingsTidy /\ IssuesApart /\ listing.status \in Allocatable
        /\ task[w].row.findings \in {0, listing.edition}
    BY <1>1, <1>3, <1>8 DEF TidyFor, Parting, Careful, At
  <2>2. Issued = {}
    BY <2>1 DEF IssuesApart
  <2>3. listing'.status \in Allocatable /\ listing'.edition = listing.edition
        /\ listing'.status \notin Visible
    BY <1>5, <2>1 DEF Allocatable, Visible
  <2>4. FindingsTidy' /\ IssuesApart'
    BY <1>1, <2>1, <2>2, <2>3, SameRequests DEF FindingsTidy, IssuesApart
  <2> QED BY <1>2, <2>1, <2>3, <2>4 DEF TidyFor, Careful, At, Writing, Deciding, RequestOps
<1> QED BY <1>7, <1>8

LEMMA QueueSaveWork ==
  ASSUME Calm, NEW w \in Workers, SaveRequest(w), task[w].op # "decide", OrderlyFor(w)
  PROVE  OrderlyFor(w)' /\ (TidyFor(w) => TidyFor(w)')
<1> DEFINE r == task[w].of
           row == task[w].row
<1>0. WriteRequest(w) /\ SavesRequest(w) /\ Finish(w) /\ Typed
  BY DEF SaveRequest, SavesRequest, Calm
<1>1. /\ Writing(w) /\ task[w].at = "loaded" /\ UNCHANGED listing
      /\ request' = [request EXCEPT ![r] = row] /\ Idle(w)'
  BY <1>0, SavedRequest, Finished DEF SaveRequest, Writing
<1>2. RefusedAsListed /\ row.status \in Worked
  BY <1>1 DEF OrderlyFor, Consistent, Refusing
<1>3. r \in Unsettled /\ r \in RequestIds
  BY <1>1 DEF Calm, Serial, Held, Writing, Unsettled
<1>4. TidyFor(w) =>
        /\ FindingsTidy /\ IssuesApart
        /\ listing.status \in Allocatable /\ listing.status \notin Visible
        /\ row.findings \in {0, listing.edition}
  BY <1>1 DEF TidyFor, Parting, Careful, At, Allocatable, Visible
<1> HIDE DEF r, row
<1>5. request'[r] = row /\ \A q \in RequestIds : q # r => request'[q] = request[q]
  BY <1>0, <1>1, <1>3, RowWritten
<1>6. Refused' \subseteq Refused /\ r \in Open' /\ Issued' \subseteq Issued
      /\ Active' \subseteq Active \cup {r}
  BY <1>2, <1>3, <1>5 DEF Refused, Open, OpenStatuses, Issued, Active, WithStatus, Worked
<1>7. RefusedAsListed' /\ LockedIsQueued'
  BY <1>1, <1>2, <1>6 DEF RefusedAsListed, LockedIsQueued
<1>8. ASSUME TidyFor(w) PROVE FindingsTidy' /\ IssuesApart'
  <2>1. \A q \in RequestIds : Bare(request'[q])
    BY <1>2, <1>4, <1>5, <1>8 DEF FindingsTidy, Bare, Worked
  <2>2. \A q \in Active' : request'[q].findings \in {0, listing.edition}
    BY <1>4, <1>5, <1>6, <1>8 DEF FindingsTidy, Active, WithStatus
  <2> QED BY <1>1, <1>4, <1>6, <1>8, <2>1, <2>2 DEF FindingsTidy, IssuesApart
<1> QED BY <1>1, <1>7, <1>8, RestingNext

LEMMA QueueSaveDecision ==
  ASSUME Calm, NEW w \in Workers, SaveRequest(w), task[w].op = "decide", OrderlyFor(w)
  PROVE  OrderlyFor(w)' /\ (TidyFor(w) => TidyFor(w)')
<1> DEFINE r == task[w].of
           row == task[w].row
           outcome == task[w].outcome
<1>0. WriteRequest(w) /\ SavesRequest(w) /\ Typed
  BY DEF SaveRequest, SavesRequest, Calm
<1>1. /\ Deciding(w) /\ task[w].at = "loaded" /\ UNCHANGED listing
      /\ request' = [request EXCEPT ![r] = row]
  BY <1>0, SavedRequest DEF SaveRequest, Deciding, At
<1>2. /\ RefusedAsListed /\ LockedIsQueued /\ outcome \in Outcomes
      /\ row.status = DecidedAs(outcome)
      /\ MayMove(listing.status, DecisionTarget[outcome])
  BY <1>1 DEF OrderlyFor, Consistent, Refusing, Queueing
<1>3. r \in Unsettled /\ r \in RequestIds /\ \A p, q \in Unsettled : p = q
  BY <1>1 DEF Calm, Serial, Held, Settlement, RequestOps, Unsettled
<1>4. PICK step \in {"clocking", "moving"} :
        GoTo(w, step, 0) /\ (step = "clocking" <=> outcome = "revisit")
  BY DEF SaveRequest
<1>5. task'[w].op = "decide" /\ task'[w].at = step /\ task'[w].outcome = outcome
  BY <1>0, <1>4, StepShapes DEF Keeps
<1>6. TidyFor(w) =>
        /\ FindingsTidy /\ IssuesApart /\ listing.status \notin Visible /\ Bare(row)
        /\ outcome = "approve" => row.findings = listing.edition
  BY <1>1 DEF TidyFor, Parting, Careful, Deciding, At
<1> HIDE DEF r, row, outcome
<1>7. request'[r] = row /\ \A q \in RequestIds : q # r => request'[q] = request[q]
  BY <1>0, <1>1, <1>3, RowWritten
<1>8. /\ outcome = "reject" \/ row.status # "rejected"
      /\ outcome = "issue" \/ row.status # "issue"
      /\ outcome = "approve" <=> row.status = "approved"
      /\ outcome \in {"approve", "reject"} \/ row.status \in Parked
      /\ row.status \in {"approved", "rejected"} \cup Parked
  BY <1>2 DEF Outcomes, DecidedAs, Parked
<1>9. RefusedAsListed' \/ Refusing(w)'
  <2>1. outcome = "reject" \/ Refused' \subseteq Refused
    BY <1>3, <1>7, <1>8 DEF Refused, WithStatus
  <2> QED BY <1>1, <1>2, <1>4, <1>5, <2>1 DEF RefusedAsListed, Refusing
<1>10. LockedIsQueued' \/ Queueing(w)'
  <2>1. outcome \in {"approve", "reject"} \/ r \in Open'
    BY <1>3, <1>7, <1>8 DEF Open, OpenStatuses, WithStatus
  <2> QED BY <1>1, <1>2, <1>4, <1>5, <2>1 DEF LockedIsQueued, Queueing
<1>11. OrderlyFor(w)'
  BY <1>1, <1>2, <1>4, <1>5, <1>9, <1>10
     DEF OrderlyFor, Consistent, At, Writing, Deciding, RequestOps
<1>12. ASSUME TidyFor(w) PROVE TidyFor(w)'
  <2>1. Active' = {}
    BY <1>3, <1>7, <1>8 DEF Active, WithStatus, Unsettled, Worked, Parked
  <2>2. outcome = "issue" \/ Issued' = {}
    BY <1>3, <1>7, <1>8 DEF Issued, WithStatus, Unsettled
  <2>3. ASSUME outcome = "approve" PROVE Open' = {} /\ Visited'
    <3>1. row.status = "approved"
      BY <1>8, <2>3
    <3>2. Open' = {}
      BY <1>3, <1>7, <3>1 DEF Open, WithStatus, Unsettled, OpenStatuses, Worked, Parked
    <3>3. r \in Approved' /\ request'[r].findings = listing'.edition
      BY <1>1, <1>3, <1>6, <1>7, <1>12, <2>3, <3>1 DEF Approved, WithStatus
    <3> QED BY <3>2, <3>3 DEF Visited
  <2>4. \A q \in RequestIds : Bare(request'[q])
    BY <1>6, <1>7, <1>12 DEF FindingsTidy
  <2>5. FindingsTidy'
    BY <1>1, <1>6, <1>12, <2>1, <2>4 DEF FindingsTidy
  <2>6. IssuesApart' \/ Parting(w)'
    BY <1>4, <1>5, <2>2 DEF IssuesApart, Parting, At
  <2> QED BY <1>5, <2>1, <2>3, <2>5, <2>6
        DEF TidyFor, Careful, At, Writing, Deciding, RequestOps
<1> QED BY <1>11, <1>12

(* Where a decision or a case leaves the listing. *)
LEMMA MovedTo ==
  ASSUME Calm, NEW w \in Workers, MovedOnce(w), OrderlyFor(w)
  PROVE  /\ listing'.status \in {listing.status, "rejected", "reverification_required"}
            \/ (listing.status = "in_progress" /\ listing'.status = "pending_verification")
         /\ listing.status = "rejected" => listing'.status = "rejected"
         /\ task[w].outcome = "reject" => listing'.status = "rejected"
         /\ At(w, "decide", "moving") /\ task[w].outcome = "issue" =>
              listing'.status \in {"rejected", "reverification_required"}
         /\ listing'.edition = listing.edition
<1> DEFINE s == listing.status
           outcome == task[w].outcome
           to == Destination(s, outcome)
<1>1. /\ s \in ListingStatuses /\ task[w].at = "moving"
      /\ outcome \in {"reject", "issue", "revisit", "correct"}
      /\ listing \in Listings
  BY TableFact DEF MovedOnce, Calm, Outcomes
<1>2. IF MayMove(s, to)
      THEN listing'.status = to /\ listing'.edition = listing.edition
      ELSE listing' = listing
  BY <1>1 DEF MovedOnce, Listings
<1>3. \/ task[w].op = "decide" /\ MayMove(s, DecisionTarget[outcome])
      \/ task[w].op # "decide" /\ outcome \in {"issue", "correct"}
  BY <1>1 DEF OrderlyFor, Consistent
<1>4. MayMove("rejected", to) => to = "rejected"
  BY DEF MayMove, Moves, ListingStatuses
<1>5. to \in {s, "rejected", "reverification_required"}
      \/ (s = "in_progress" /\ to = "pending_verification")
  BY <1>1 DEF Destination
<1>6. ASSUME outcome = "reject" PROVE to = "rejected" /\ MayMove(s, to)
  BY <1>3, <1>6 DEF Destination, DecisionTarget
<1>7. ASSUME outcome = "issue", task[w].op = "decide"
      PROVE  to = "reverification_required" /\ (MayMove(s, to) \/ s = "rejected")
  <2>1. to = "reverification_required" /\ MayMove(s, "rejected")
    BY <1>3, <1>7 DEF Destination, DecisionTarget
  <2>2. s \in {"pending_verification", "in_progress", "rejected"}
    BY <1>1, <2>1 DEF MayMove, Moves, ListingStatuses
  <2> QED BY <2>1, <2>2 DEF MayMove, Moves, ListingStatuses
<1> HIDE DEF to
<1> QED BY <1>2, <1>4, <1>5, <1>6, <1>7 DEF At

LEMMA QueueMoved ==
  ASSUME Calm, NEW w \in Workers, MovedOnce(w), OrderlyFor(w)
  PROVE  OrderlyFor(w)' /\ (TidyFor(w) => TidyFor(w)')
<1> DEFINE outcome == task[w].outcome
           to == listing'.status
<1>1. task[w].at = "moving" /\ outcome # "approve" /\ UNCHANGED request /\ Idle(w)'
  BY Finished DEF MovedOnce, Outcomes, Calm
<1>2. /\ to \in {listing.status, "rejected", "reverification_required"}
         \/ (listing.status = "in_progress" /\ to = "pending_verification")
      /\ listing.status = "rejected" => to = "rejected"
      /\ outcome = "reject" => to = "rejected"
      /\ At(w, "decide", "moving") /\ outcome = "issue" =>
           to \in {"rejected", "reverification_required"}
      /\ listing'.edition = listing.edition
  BY MovedTo
<1>3. /\ RefusedAsListed \/ outcome = "reject"
      /\ LockedIsQueued \/ outcome = "reject"
  BY <1>1 DEF OrderlyFor, Refusing, Queueing
<1>4. to \in Allocatable => listing.status \in Allocatable
  BY <1>2 DEF Allocatable
<1>5. to \in Visible => to = listing.status
  BY <1>2 DEF Visible
<1>6. RefusedAsListed' /\ LockedIsQueued'
  <2>1. "rejected" \notin Allocatable
    BY DEF Allocatable
  <2> QED BY <1>1, <1>2, <1>3, <1>4, <2>1, SameRequests DEF RefusedAsListed, LockedIsQueued
<1>7. ASSUME TidyFor(w) PROVE FindingsTidy' /\ IssuesApart'
  <2>1. FindingsTidy /\ Active = {}
        /\ (IssuesApart \/ (At(w, "decide", "moving") /\ outcome = "issue"))
    BY <1>1, <1>7 DEF TidyFor, Parting, Careful
  <2>2. FindingsTidy'
    BY <1>1, <1>2, <1>5, <2>1, SameRequests DEF FindingsTidy, Visited
  <2>3. ASSUME IssuesApart PROVE IssuesApart'
    BY <1>1, <1>4, <1>5, <2>3, SameRequests DEF IssuesApart
  <2>4. ASSUME At(w, "decide", "moving"), outcome = "issue" PROVE IssuesApart'
    BY <1>2, <2>4 DEF IssuesApart, Allocatable, Visible
  <2> QED BY <2>1, <2>2, <2>3, <2>4
<1> QED BY <1>1, <1>6, <1>7, RestingNext

LEMMA QueueVerified ==
  ASSUME Calm, NEW w \in Workers, VerifiedOnce(w), OrderlyFor(w)
  PROVE  OrderlyFor(w)' /\ (TidyFor(w) => TidyFor(w)')
<1> DEFINE entity == [listing EXCEPT !.status = "live"]
<1>1. /\ task[w].at = "moving" /\ task[w].outcome = "approve" /\ UNCHANGED request
      /\ Typed /\ listing \in Listings
  BY TableFact DEF VerifiedOnce, Calm
<1>2. RefusedAsListed /\ MayMove(listing.status, "verified") /\ task[w].op = "decide"
  BY <1>1 DEF OrderlyFor, Refusing, Consistent, DecisionTarget
<1>3. /\ listing' = [listing EXCEPT !.status = "verified"]
      /\ task'[w].op = "decide" /\ task'[w].at = "opening" /\ task'[w].entity = entity
  BY <1>2 DEF VerifiedOnce, Keeps
<1>4. listing'.status = "verified" /\ listing'.edition = listing.edition
  BY <1>1, <1>3 DEF Listings
<1>5. entity.status = "live" /\ entity.edition = listing.edition
  BY <1>1 DEF Listings
<1> HIDE DEF entity
<1>6. Refused = {}
  <2>1. listing.status # "rejected"
    BY <1>2 DEF MayMove, Moves, ListingStatuses
  <2> QED BY <1>2, <2>1 DEF RefusedAsListed
<1>7. RefusedAsListed' /\ LockedIsQueued'
  BY <1>1, <1>4, <1>6, SameRequests DEF RefusedAsListed, LockedIsQueued, Allocatable
<1>8. OrderlyFor(w)'
  BY <1>3, <1>5, <1>7 DEF OrderlyFor, Consistent, At, Writing, Deciding
<1>9. ASSUME TidyFor(w) PROVE TidyFor(w)'
  <2>1. FindingsTidy /\ Active = {} /\ Open = {} /\ Visited
    BY <1>1, <1>9 DEF TidyFor, Careful
  <2>2. Issued = {}
    BY <1>1, <2>1, Divided DEF Issued, WithStatus
  <2>3. FindingsTidy' /\ IssuesApart'
    BY <1>1, <1>4, <2>1, <2>2, SameRequests DEF FindingsTidy, IssuesApart, Visited
  <2>4. listing'.status \in Visible
    BY <1>4 DEF Visible
  <2> QED BY <1>3, <1>4, <1>5, <2>3, <2>4 DEF TidyFor, Careful, At, Writing, Deciding
<1> QED BY <1>8, <1>9

LEMMA QueueGoLive ==
  ASSUME Calm, NEW w \in Workers, GoLive(w), OrderlyFor(w)
  PROVE  OrderlyFor(w)' /\ (TidyFor(w) => TidyFor(w)')
<1>1. /\ task[w].at = "opening" /\ listing' = task[w].entity /\ UNCHANGED request
      /\ Idle(w)' /\ Typed
  BY SavedListing, Finished DEF GoLive, SavesListing, Calm
<1>2. RefusedAsListed /\ listing'.status = "live" /\ listing.status # "rejected"
  BY <1>1 DEF OrderlyFor, Refusing, Consistent, Calm, Serial, Held, HoldsListing
<1>3. RefusedAsListed' /\ LockedIsQueued'
  BY <1>1, <1>2, SameRequests DEF RefusedAsListed, LockedIsQueued, Allocatable
<1>4. ASSUME TidyFor(w) PROVE FindingsTidy' /\ IssuesApart'
  <2>1. FindingsTidy /\ Open = {} /\ Visited /\ listing'.edition = listing.edition
    BY <1>1, <1>4 DEF TidyFor, Careful, FindingsTidy
  <2>2. Active = {} /\ Issued = {}
    BY <1>1, <2>1, Divided DEF Active, Issued, WithStatus
  <2> QED BY <1>1, <1>2, <2>1, <2>2, SameRequests DEF FindingsTidy, IssuesApart, Visited
<1> QED BY <1>1, <1>3, <1>4, RestingNext

-----------------------------------------------------------------------------
(* The support desk: the queue *)

LEMMA QueueBeginCase ==
  ASSUME Typed, NEW w \in Workers, OrderlyFor(w), NEW op \in {"unlock", "grant"}, NEW step,
         NEW outcome, BeginCase(w, op, step, outcome),
         \/ step = "reopening" /\ listing.status = "rejected"
         \/ step = "moving" /\ outcome \in {"issue", "correct"}
  PROVE  OrderlyFor(w)' /\ (TidyFor(w) /\ Open = {} => TidyFor(w)')
<1>1. /\ Idle(w) /\ UNCHANGED <<listing, request>>
      /\ task'[w].op = op /\ task'[w].at = step /\ task'[w].outcome = outcome
  BY CaseBegun
<1>2. OrderlyFor(w)'
  BY <1>1, Resting, SameTables DEF OrderlyFor, Consistent, At, Writing, Deciding, RequestOps
<1>3. ASSUME TidyFor(w), Open = {} PROVE TidyFor(w)'
  <2>1. Active = {}
    BY <1>3, Divided DEF Active, WithStatus
  <2> QED BY <1>1, <1>3, <2>1, Resting, SameTables
        DEF TidyFor, Careful, At, Writing, Deciding, RequestOps
<1> QED BY <1>2, <1>3

LEMMA QueueReopened ==
  ASSUME Typed, NEW w \in Workers, ReopenedOnce(w), OrderlyFor(w)
  PROVE  OrderlyFor(w)' /\ (TidyFor(w) => TidyFor(w)')
<1>1. /\ task[w].at = "reopening" /\ UNCHANGED request /\ GoTo(w, "reviving", 0)
      /\ listing.status = "rejected" /\ listing \in Listings
  BY TableFact DEF ReopenedOnce, OrderlyFor, Consistent
<1>2. task'[w].at = "reviving"
  BY <1>1, StepShapes
<1>3. listing' = [listing EXCEPT !.status = "reverification_required"]
  BY <1>1 DEF ReopenedOnce
<1>4. listing'.status \notin Allocatable \cup Visible
  BY <1>1, <1>3 DEF Allocatable, Visible, Listings
<1>5. OrderlyFor(w)'
  BY <1>2, <1>4
     DEF OrderlyFor, Refusing, LockedIsQueued, Consistent, At, Writing, Deciding
<1>6. ASSUME TidyFor(w) PROVE TidyFor(w)'
  <2>1. FindingsTidy /\ Active = {}
    BY <1>1, <1>6 DEF TidyFor, FindingsTidy, Allocatable
  <2>2. FindingsTidy' /\ IssuesApart'
    BY <1>1, <1>4, <2>1, SameRequests DEF FindingsTidy, IssuesApart
  <2> QED BY <1>2, <1>4, <2>2 DEF TidyFor, Careful, At, Writing, Deciding
<1> QED BY <1>5, <1>6

LEMMA QueueRevived ==
  ASSUME Calm, NEW w \in Workers, RevivedOnce(w), OrderlyFor(w)
  PROVE  OrderlyFor(w)' /\ (TidyFor(w) => TidyFor(w)')
<1>1. task[w].at = "reviving" /\ UNCHANGED listing /\ Idle(w)' /\ Typed
  BY Finished DEF RevivedOnce, Calm
<1>2. listing.status \notin Allocatable
  BY <1>1 DEF OrderlyFor, Consistent
<1>3. TidyFor(w) =>
        /\ Active = {} /\ \A q \in RequestIds : Bare(request[q])
        /\ listing.status \notin Visible
  BY <1>1, <1>2 DEF TidyFor, FindingsTidy, Careful
<1>4. Refused' = {}
      /\ (TidyFor(w) => Active' = {} /\ \A q \in RequestIds : Bare(request'[q]))
  <2>1. CASE Refused = {} /\ UNCHANGED request
    BY <1>3, <2>1, SameRequests
  <2>2. ASSUME NEW r \in Refused,
               request' = [request EXCEPT ![r] =
                 SentBack(@, "additional_review", LastOfficer(@))]
        PROVE  Refused' = {}
               /\ (TidyFor(w) => Active' = {} /\ \A q \in RequestIds : Bare(request'[q]))
    <3> DEFINE row == SentBack(request[r], "additional_review", LastOfficer(request[r]))
    <3>1. r \in RequestIds /\ r \in Refused
      BY DEF Refused, WithStatus
    <3>2. request' = [request EXCEPT ![r] = row]
      BY <2>2
    <3>3. row.status = "additional_review" /\ Bare(row)
      BY DEF SentBack, Bare
    <3> HIDE DEF row
    <3>4. request'[r] = row /\ \A q \in RequestIds : q # r => request'[q] = request[q]
      BY <1>1, <3>1, <3>2, RowWritten
    <3>5. \A q \in Refused : q = r
      BY <1>1, <3>1, Divided DEF Calm, Serial, Settlement, Refused, WithStatus
    <3>6. Refused' = {}
      BY <3>3, <3>4, <3>5 DEF Refused, WithStatus
    <3>7. Active' \subseteq Active
      BY <3>3, <3>4 DEF Active, WithStatus, Worked
    <3> QED BY <1>3, <3>3, <3>4, <3>6, <3>7
  <2> QED BY <2>1, <2>2 DEF RevivedOnce
<1>5. RefusedAsListed' /\ LockedIsQueued'
  BY <1>1, <1>2, <1>4 DEF RefusedAsListed, LockedIsQueued
<1>6. TidyFor(w) => FindingsTidy' /\ IssuesApart'
  BY <1>1, <1>2, <1>3, <1>4 DEF FindingsTidy, IssuesApart
<1> QED BY <1>1, <1>5, <1>6, RestingNext

-----------------------------------------------------------------------------
(* The queue, step by step *)

LEMMA InitQueue == Init => QueueInv
<1> SUFFICES ASSUME Init PROVE QueueInv
  OBVIOUS
<1>1. \A r \in RequestIds : request[r] = NoRow
  BY DEF Init
<1>2. NoRow.status = "absent" /\ NoRow.findings = 0 /\ NoRow.officer = NoOfficer
  BY DEF NoRow
<1>3. listing.status = "draft"
  BY DEF Init
<1>4. Refused = {} /\ Active = {} /\ Issued = {}
  BY <1>1, <1>2 DEF Refused, Active, Issued, WithStatus, Worked
<1>5. RefusedAsListed /\ LockedIsQueued /\ FindingsTidy /\ IssuesApart
  BY <1>1, <1>2, <1>3, <1>4 DEF RefusedAsListed, LockedIsQueued, FindingsTidy, IssuesApart,
     Bare, Allocatable, Visible
<1>6. \A w \in Workers : Idle(w)
  BY NoTaskFact DEF Init, Idle
<1> QED BY <1>5, <1>6 DEF QueueInv, Orderly, Tidy

LEMMA BeginQueue ==
  ASSUME IInv, QueueInv, NEW w \in Workers, BeginStep(w) PROVE QueueInv'
<1>0. Typed
  BY DEF IInv
<1>1. CASE BeginEdit(w) \/ BeginFirstReview(w) \/ BeginSubmit(w)
  <2>1. Others(w) /\ Disturb(Overlapping(w))
    BY <1>0, <1>1, ListingBegun DEF BeginEdit, BeginFirstReview, BeginSubmit
  <2>2. OrderlyFor(w) => OrderlyFor(w)' /\ (TidyFor(w) => TidyFor(w)')
    BY <1>0, <1>1, QueueBeginVendor
  <2> QED BY <2>1, <2>2, QueueBegin
<1>2. CASE BeginStart(w) \/ BeginFindings(w) \/ BeginReview(w) \/ BeginAllocate(w)
           \/ BeginDecide(w)
  <2>1. Others(w) /\ Disturb(Overlapping(w))
    BY <1>0, <1>2, RequestBegun DEF BeginStart, BeginFindings, BeginReview, BeginAllocate,
       BeginDecide
  <2>2. OrderlyFor(w) => OrderlyFor(w)' /\ (TidyFor(w) => TidyFor(w)')
    BY <1>0, <1>2, QueueBeginStart, QueueBeginFindings, QueueBeginReview,
       QueueBeginAllocate, QueueBeginDecide
  <2> QED BY <2>1, <2>2, QueueBegin
<1>3. ASSUME NEW op \in {"unlock", "grant"}, NEW step, NEW outcome,
             BeginCase(w, op, step, outcome),
             \/ step = "reopening" /\ listing.status = "rejected"
             \/ step = "moving" /\ outcome \in {"issue", "correct"}
      PROVE  QueueInv'
  <2> DEFINE kinds == Overlapping(w) \cup Underneath
  <2>1. Others(w) /\ Disturb(kinds)
    BY <1>0, <1>3, CaseBegun
  <2>2. Overlapping(w) \subseteq kinds /\ ("case" \notin kinds => Open = {})
    BY DEF Underneath
  <2>3. OrderlyFor(w) => OrderlyFor(w)' /\ (TidyFor(w) /\ Open = {} => TidyFor(w)')
    BY <1>0, <1>3, QueueBeginCase
  <2> HIDE DEF kinds
  <2> QED BY <2>1, <2>2, <2>3, QueueBegin
<1> QED BY <1>1, <1>2, <1>3 DEF BeginStep, BeginUnlock, BeginGrant

(* A death is counted, and the invariant asks nothing of what it leaves. *)
LEMMA DeathQueue == ASSUME IInv, NEW w \in Workers, Die(w) PROVE QueueInv'
<1>1. disturbed \in [Disturbances -> Nat] /\ "death" \in Disturbances
  BY BoundsAssumption DEF IInv, Typed, TypeOK, Disturbances
<1>2. disturbed'["death"] # 0
  BY <1>1 DEF Die, Disturb
<1>3. ~Unhurried'
  BY <1>2 DEF Unhurried, Free
<1>4. disturbed' # Undisturbed
  BY <1>1, <1>2 DEF Undisturbed
<1> QED BY <1>3, <1>4 DEF QueueInv, Undisturbed

LEMMA OwnQueue ==
  ASSUME IInv, QueueInv, NEW w \in Workers, OwnStep(w), ~Die(w) PROVE QueueInv'
<1>0. Typed
  BY DEF IInv
<1>1. ~Idle(w) /\ UNCHANGED disturbed
  BY DEF OwnStep, SaveEdit, SaveFirstReview, SaveSubmit, Raise, InsertRequest, SaveRequest,
     GoLive, At, Idle, WriteListing, WriteRequest, OnlyTasks
<1>2. Others(w)
  BY <1>0, StepShapes DEF OwnStep, SaveEdit, SaveFirstReview, SaveSubmit, Raise,
     InsertRequest, SaveRequest, GoLive
<1>3. ASSUME Calm, OrderlyFor(w) PROVE OrderlyFor(w)' /\ (TidyFor(w) => TidyFor(w)')
  BY <1>3, QueueSaveEdit, QueueSaveFirstReview, QueueSaveSubmit, QueueRaise,
     QueueInsertRequest, QueueSaveWork, QueueSaveDecision, QueueGoLive DEF OwnStep
<1> QED BY <1>1, <1>2, <1>3, QueueGoOn

LEMMA HelperQueue ==
  ASSUME IInv, QueueInv, NEW w \in Workers, HelperStep(w) \/ Compare(w) PROVE QueueInv'
<1>0. Typed
  BY DEF IInv
<1>1. UNCHANGED disturbed /\ Others(w)
  BY <1>0, StepShapes DEF HelperStep, LoadsRow, LoadResubmitted, LoadInProgress, LoadMove,
     LoadRejected, LoadRefused, LoadClock, MarkResubmitted, MarkInProgress, MoveListing,
     ReopenListing, ReviveRequest, StartClock, AfterClock, Compare, WriteListing,
     WriteRequest, OnlyTasks
<1>2. ASSUME Calm, OrderlyFor(w) PROVE OrderlyFor(w)' /\ (TidyFor(w) => TidyFor(w)')
  <2>1. CASE HelperStep(w)
    <3>1. CASE HelperEnds(w)
      BY <1>0, <1>2, <3>1, QueueResubmitted, QueueMarked, QueueMoved, QueueVerified,
         QueueReopened, QueueRevived, QueueClocked DEF HelperEnds
    <3>2. CASE LoadsOnly(w)
      BY <1>2, <3>2, QueueHeld DEF LoadsOnly, OnlyTasks, HelperSaves, Idle
    <3> QED BY <1>2, <2>1, <3>1, <3>2, HelperStepIs
  <2>2. CASE Compare(w)
    <3>1. Keeps(w, {"op", "at", "outcome", "of", "row", "entity"}) /\ task[w].read = 1
      BY <1>0, <2>2, StepShapes
    <3>2. ~Idle(w)
      BY <1>2, <3>1 DEF Calm, Serial, Holding
    <3> QED BY <1>2, <2>2, <3>1, <3>2, QueueHeld DEF Compare, OnlyTasks, Keeps
  <2> QED BY <2>1, <2>2
<1>3. Idle(w) => ~Unhurried
  <2>1. Unhurried => Calm
    BY DEF Unhurried, Free, IInv, Calm
  <2>2. Calm => ~Idle(w)
    BY StepShapes DEF Calm, Serial, Holding, Idle, HelperStep, LoadsRow, LoadResubmitted,
       LoadInProgress, LoadMove, LoadRejected, LoadRefused, LoadClock, MarkResubmitted,
       MarkInProgress, MoveListing, ReopenListing, ReviveRequest, StartClock, At
  <2> QED BY <2>1, <2>2
<1>4. CASE Idle(w)
  <2>1. ~Unhurried' /\ disturbed' # Undisturbed'
    BY <1>1, <1>3, <1>4 DEF Unhurried, Free, Undisturbed, Disturbances
  <2> QED BY <2>1 DEF QueueInv
<1>5. CASE ~Idle(w)
  BY <1>1, <1>2, <1>5, QueueGoOn
<1> QED BY <1>4, <1>5

LEMMA NextQueue == IInv /\ QueueInv /\ [Next]_vars => QueueInv'
<1> SUFFICES ASSUME IInv, QueueInv, [Next]_vars PROVE QueueInv'
  OBVIOUS
<1>1. ASSUME NEW w \in Workers, BeginStep(w) \/ OwnStep(w) \/ HelperStep(w) \/ Compare(w)
      PROVE  QueueInv'
  BY <1>1, BeginQueue, OwnQueue, DeathQueue, HelperQueue
<1>2. CASE UNCHANGED vars
  <2>1. /\ UNCHANGED <<listing, request>> /\ UNCHANGED task /\ UNCHANGED disturbed
        /\ Undisturbed' = Undisturbed
    BY <1>2 DEF vars, Undisturbed
  <2>2. /\ Quiet' <=> Quiet
        /\ Unhurried' <=> Unhurried
        /\ \A w \in Workers : /\ Idle(w)' <=> Idle(w)
                              /\ OrderlyFor(w)' <=> OrderlyFor(w)
                              /\ TidyFor(w)' <=> TidyFor(w)
    BY <2>1, SameTables DEF Quiet, Idle, Unhurried, Free, OrderlyFor, TidyFor, Refusing,
       Queueing, Consistent, Parting, Careful, At, Writing, Deciding
  <2> QED BY <2>1, <2>2, SameTables DEF QueueInv, Orderly, Tidy
<1> QED BY <1>1, <1>2, NextParts

LEMMA QueueHolds == Spec => [](IInv /\ QueueInv)
<1>1. Init => IInv /\ QueueInv
  BY InitIInv, InitQueue
<1>2. IInv /\ QueueInv /\ [Next]_vars => (IInv /\ QueueInv)'
  BY NextIInv, NextQueue
<1> QED BY <1>1, <1>2, PTL DEF Spec

(* What customers see live is the edition an officer wrote up, as long as no  *)
(* handlers overlap, none dies and no case reopens the listing under an open  *)
(* request: submitForVerification and every way back to the vendor clear the  *)
(* findings, and the identity details are closed while they count.            *)
THEOREM ListingsAreLiveAsVisited == Spec => []LiveAsVisited
<1>1. IInv /\ QueueInv => LiveAsVisited
  <2> SUFFICES ASSUME IInv, QueueInv, disturbed = Undisturbed, listing.status \in Visible
               PROVE  Visited
    BY DEF LiveAsVisited, Visited, Approved
  <2>1. FindingsTidy
    BY DEF QueueInv, Tidy, TidyFor, Quiet
  <2> QED BY <2>1 DEF FindingsTidy
<1> QED BY <1>1, QueueHolds, PTL

(* A listing locked by its submission is in somebody's queue between handlers, *)
(* whatever cases are decided: raise() writes or revives a request before the  *)
(* submission ends, and no handler that runs to its end closes the last one    *)
(* without moving the listing out of the lock.                                 *)
THEOREM LockedListingsAreQueued == Spec => []LockedListingIsInAQueue
<1>1. IInv /\ QueueInv => LockedListingIsInAQueue
  BY DEF QueueInv, Unhurried, Orderly, LockedIsQueued, LockedListingIsInAQueue
<1> QED BY <1>1, QueueHolds, PTL

(* Between undisturbed handlers the requests and the listing agree: work is in *)
(* hand only on a locked listing, a refused request goes with a refused        *)
(* listing, and nothing is open behind one customers can see.                  *)
THEOREM QueuesAgreeWithListings == Spec => []QueueAgreesWithListing
<1>1. IInv /\ QueueInv => QueueAgreesWithListing
  <2> SUFFICES ASSUME IInv, QueueInv, Quiet, disturbed = Undisturbed
               PROVE  /\ WithStatus(Worked) # {} => listing.status \in Allocatable
                      /\ WithStatus({"rejected"}) # {} => listing.status = "rejected"
                      /\ listing.status \in Visible => Open = {}
    BY DEF QueueAgreesWithListing
  <2>1. Unhurried
    BY DEF Undisturbed, Unhurried, Free, Disturbances
  <2>2. RefusedAsListed /\ FindingsTidy
    BY <2>1 DEF QueueInv, Orderly, Tidy
  <2>3. WithStatus(Worked) \subseteq Active
    BY DEF Active, WithStatus
  <2> QED BY <2>2, <2>3 DEF RefusedAsListed, Refused, FindingsTidy
<1> QED BY <1>1, QueueHolds, PTL
=============================================================================
