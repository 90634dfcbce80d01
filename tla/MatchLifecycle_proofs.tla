----------------------- MODULE MatchLifecycle_proofs -----------------------
(***************************************************************************)
(* Proofs about MatchLifecycle, for any profiles, pairs, handlers and      *)
(* disturbances: no match is fixed that one side never agreed to, whatever *)
(* overlaps; while no two handlers overlap, a fixed match carries both     *)
(* confirmations, an accepted interest passed the agency, a profile has    *)
(* one fixed match and nobody writes again to a pair that was blocked or   *)
(* unmatched.                                                              *)
(***************************************************************************)
EXTENDS MatchLifecycle, TLAPS

-----------------------------------------------------------------------------
(* The inductive invariant *)

(* What a row says of itself, in the table or in a handler's hands, as long *)
(* as no two saves have mixed their columns.                                *)
RowOK(row) ==
  /\ row.fixed = "confirmed" => row.confirmed = Sides
  /\ row.status = "accepted" => row.screening \notin HeldFromClient

RowsOK == /\ \A p \in Pairs : RowOK(interest[p])
          /\ \A w \in Workers, p \in Pairs : RowOK(task[w].entity[p])

Alone == \A v, w \in Workers : ~Idle(v) /\ ~Idle(w) => v = w

OneFixed == \A p, q \in FixedRows : Ends(p) \cap Ends(q) # {} => p = q
OnlyFixed(p) == FixedRows \cap Touching(p) \subseteq {p}
Unended(p) == \A q \in Couple(p) : interest[q].status \notin Over

Holding(w) == task[w].at \in {"asked", "inserting", "checking", "loaded"}

(* What a handler that runs alone is about to save: at most one row that is *)
(* fixed, with no other fixed match around it, and a pending one only where *)
(* it was pending or nothing ended.                                         *)
Held(w) ==
  Holding(w) =>
    /\ \A p \in Pairs : task[w].entity[p].fixed = "confirmed" => OnlyFixed(p)
    /\ \A p, q \in Pairs : task[w].entity[p].fixed = "confirmed"
                             /\ task[w].entity[q].fixed = "confirmed" => p = q
    /\ \A p \in Pairs : task[w].entity[p].status = "pending" =>
         interest[p].status = "pending" \/ Unended(p)
    /\ task[w].at = "asked" => Unended(task[w].of)
    /\ task[w].at \in {"asked", "checking"} =>
         \A p \in Pairs \ {task[w].of} : task[w].entity[p] = NoRow

(* What save() read is still what the table holds: the columns it leaves    *)
(* alone are those in which the two agree.                                  *)
Fresh(w) ==
  task[w].compared =>
    /\ task[w].at = "loaded"
    /\ \A p \in Pairs : Saved(w, p) =>
         Differing(task[w].entity[p], interest[p]) \subseteq task[w].changed[p]

Serial == /\ Alone /\ RowsOK /\ OneFixed
          /\ \A w \in Workers : Held(w) /\ Fresh(w)

IInv == TypeOK /\ (Free({"overlap"}) => Serial)

Sound(row) == Free({"overlap"}) => RowOK(row)

-----------------------------------------------------------------------------
(* Types *)

LEMMA NoRowFact ==
  /\ NoRow \in Rows /\ Sound(NoRow) /\ NoRow.fixed = "none" /\ NoRow.status = "absent"
BY DEF NoRow, Rows, RowOK, Sound, Statuses

(* A save that is compared with what is still there writes the whole row. *)
LEMMA UpdatedFact ==
  ASSUME NEW row \in Rows, NEW entity \in Rows, NEW columns \in SUBSET Columns
  PROVE  /\ Updated(row, entity, columns) \in Rows
         /\ Differing(entity, row) \subseteq columns => Updated(row, entity, columns) = entity
<1> DEFINE new == Updated(row, entity, columns)
<1>1. /\ new.status = (IF "status" \in columns THEN entity.status ELSE row.status)
      /\ new.screening = (IF "screening" \in columns THEN entity.screening ELSE row.screening)
      /\ new.fixed = (IF "fixed" \in columns THEN entity.fixed ELSE row.fixed)
      /\ new.confirmed = (entity.confirmed \cap columns) \cup (row.confirmed \ columns)
  BY DEF Updated
<1>2. new \in Rows
  BY DEF Updated, Rows
<1>3. ASSUME Differing(entity, row) \subseteq columns PROVE new = entity
  <2>1. /\ "status" \notin columns => entity.status = row.status
        /\ "screening" \notin columns => entity.screening = row.screening
        /\ "fixed" \notin columns => entity.fixed = row.fixed
    BY <1>3 DEF Differing
  <2>2. /\ entity.confirmed \ row.confirmed \subseteq columns
        /\ row.confirmed \ entity.confirmed \subseteq columns
    BY <1>3 DEF Differing
  <2>3. new.confirmed = entity.confirmed
    BY <1>1, <2>2
  <2>4. new.status = entity.status /\ new.screening = entity.screening /\ new.fixed = entity.fixed
    BY <1>1, <2>1
  <2> HIDE DEF new
  <2> QED BY <1>2, <2>3, <2>4 DEF Rows
<1> QED BY <1>2, <1>3

LEMMA DifferingType ==
  ASSUME NEW row \in Rows, NEW entity \in Rows
  PROVE  Differing(entity, row) \cup Alike(entity, row) \in SUBSET Columns
BY DEF Differing, Alike, Rows, Columns

LEMMA NoTaskFact ==
  /\ NoTask \in Tasks /\ NoTask.at = "idle" /\ NoTask.entity = NoEntity
  /\ NoTask.compared = FALSE /\ NoChange \in [Pairs -> SUBSET Columns]
  /\ NoEntity \in [Pairs -> Rows] /\ \A p \in Pairs : NoEntity[p] = NoRow
<1>1. NoEntity \in [Pairs -> Rows] /\ \A p \in Pairs : NoEntity[p] = NoRow
  BY NoRowFact DEF NoEntity
<1>2. (CHOOSE p \in Pairs : TRUE) \in Pairs
  BY PairsAssumption
<1>3. NoChange \in [Pairs -> SUBSET Columns]
  BY DEF NoChange
<1> QED BY <1>1, <1>2, <1>3 DEF NoTask, Tasks, Steps, Sides

LEMMA InitIInv == Init => IInv
<1> SUFFICES ASSUME Init PROVE IInv
  OBVIOUS
<1>1. TypeOK
  BY NoTaskFact, BoundsAssumption DEF Init, TypeOK, Undisturbed
<1>2. Free({"overlap"}) => RowsOK
  BY NoTaskFact, NoRowFact DEF Init, RowsOK, Sound
<1>3. FixedRows = {}
  BY NoTaskFact, NoRowFact DEF Init, FixedRows
<1>4. \A w \in Workers : task[w].at = "idle"
  BY NoTaskFact DEF Init
<1>5. ASSUME NEW w \in Workers PROVE Held(w) /\ Fresh(w)
  BY <1>4, NoTaskFact DEF Held, Holding, Fresh, Init
<1> QED BY <1>1, <1>2, <1>3, <1>4, <1>5 DEF IInv, Serial, Alone, Idle, OneFixed

LEMMA DisturbType ==
  ASSUME TypeOK, NEW kinds, Disturb(kinds)
  PROVE  /\ disturbed' \in [Disturbances -> 0..MaxDisturbances]
         /\ disturbed'["overlap"] = 0 =>
              disturbed["overlap"] = 0 /\ "overlap" \notin kinds
<1>1. disturbed \in [Disturbances -> Nat]
  BY BoundsAssumption DEF TypeOK
<1>2. disturbed' = [d \in Disturbances |->
                     IF d \in kinds THEN disturbed[d] + 1 ELSE disturbed[d]]
  BY DEF Disturb
<1>3. disturbed' \in [Disturbances -> Nat]
  BY <1>1, <1>2
<1>4. disturbed'["overlap"] + disturbed'["death"] + disturbed'["revival"]
        <= MaxDisturbances
  BY DEF Disturb
<1>5. \A d \in Disturbances : disturbed'[d] \in 0..MaxDisturbances
  BY <1>3, <1>4, BoundsAssumption DEF Disturbances
<1>6. "overlap" \in Disturbances
  BY DEF Disturbances
<1> QED BY <1>1, <1>2, <1>3, <1>5, <1>6

LEMMA HeldFact ==
  ASSUME IInv, NEW w \in Workers
  PROVE  /\ task[w] \in Tasks /\ task[w].of \in Pairs
         /\ task[w].entity \in [Pairs -> Rows]
         /\ task[w].changed \in [Pairs -> SUBSET Columns]
         /\ \A p \in Pairs : Sound(task[w].entity[p])
BY DEF IInv, TypeOK, Serial, RowsOK, Tasks, Sound

LEMMA InterestFact ==
  ASSUME IInv, NEW p \in Pairs PROVE interest[p] \in Rows /\ Sound(interest[p])
BY DEF IInv, TypeOK, Serial, RowsOK, Sound

(* Nothing is compared before a handler has what it will save. *)
LEMMA NotCompared ==
  ASSUME IInv, Free({"overlap"}), NEW w \in Workers, task[w].at # "loaded"
  PROVE  ~task[w].compared
BY DEF IInv, Serial, Fresh

-----------------------------------------------------------------------------
(* The shape of a step *)

LEMMA StepKeeps ==
  ASSUME IInv, NEW w \in Workers, NEW t \in Tasks, \A p \in Pairs : Sound(t.entity[p]),
         task' = [task EXCEPT ![w] = t],
         interest' \in [Pairs -> Rows], \A p \in Pairs : Sound(interest'[p]),
         said' \in [Pairs -> SUBSET Sides] /\ agreed' \in [Pairs -> SUBSET Sides],
         disturbed' \in [Disturbances -> 0..MaxDisturbances],
         Free({"overlap"})' => Free({"overlap"}),
         Free({"overlap"})' => \A v \in Workers \ {w} : Idle(v),
         Free({"overlap"})' => OneFixed' /\ Held(w)' /\ Fresh(w)'
  PROVE  IInv'
<1>1. task' \in [Workers -> Tasks] /\ task'[w] = t
  BY DEF IInv, TypeOK
<1>2. TypeOK'
  BY <1>1 DEF TypeOK
<1>3. Free({"overlap"})' => RowsOK'
  BY <1>1 DEF IInv, Serial, RowsOK, TypeOK, Sound
<1>4. ASSUME Free({"overlap"})' PROVE Serial'
  <2>1. \A v \in Workers \ {w} : task'[v].at = "idle"
    BY <1>4 DEF Idle, IInv, TypeOK
  <2>2. Alone'
    BY <2>1 DEF Alone, Idle
  <2>3. ASSUME NEW v \in Workers \ {w} PROVE Held(v)' /\ Fresh(v)'
    <3>1. ~task'[v].compared
      BY <1>4, <2>1 DEF IInv, TypeOK, Serial, Fresh
    <3> QED BY <2>1, <3>1 DEF Held, Holding, Fresh
  <2> QED BY <1>3, <1>4, <2>2, <2>3 DEF Serial
<1> QED BY <1>2, <1>3, <1>4 DEF IInv

(* A handler that starts, on a row it read. *)
LEMMA StartStep ==
  ASSUME IInv, NEW w \in Workers, NEW op \in Ops,
         NEW step \in {"asked", "checking", "loaded"},
         NEW p \in Pairs, NEW row \in Rows, Sound(row), NEW more,
         row.fixed = "confirmed" => interest[p].fixed = "confirmed",
         row.status = "pending" => interest[p].status = "pending",
         step = "asked" => Unended(p),
         Start(w, op, step, p, row, more)
  PROVE  IInv'
<1> DEFINE entity == [NoEntity EXCEPT ![p] = row]
           t == [op |-> op, at |-> step, of |-> p, side |-> "from", entity |-> entity,
                 compared |-> FALSE, changed |-> NoChange]
           kinds == Overlapping(w) \cup more
<1>1. /\ Idle(w) /\ task' = [task EXCEPT ![w] = t] /\ Disturb(kinds)
      /\ UNCHANGED <<interest, said, agreed>>
  BY DEF Start
<1>2. /\ entity \in [Pairs -> Rows] /\ entity[p] = row
      /\ \A q \in Pairs \ {p} : entity[q] = NoRow
  BY NoTaskFact, NoRowFact
<1>3. Overlapping(w) \subseteq kinds
  OBVIOUS
<1> HIDE DEF entity, kinds
<1>4. /\ t \in Tasks /\ t.at = step /\ t.of = p /\ t.entity = entity /\ ~t.compared
  BY <1>2, NoTaskFact DEF Tasks, Steps, Sides
<1> HIDE DEF t
<1>5. task'[w] = t
  BY <1>1 DEF IInv, TypeOK
<1>6. disturbed' \in [Disturbances -> 0..MaxDisturbances]
  BY <1>1, DisturbType DEF IInv
<1>7. Free({"overlap"})' => Free({"overlap"}) /\ "overlap" \notin kinds
  BY <1>1, DisturbType DEF IInv, Free
<1>8. Free({"overlap"})' => \A v \in Workers \ {w} : Idle(v)
  BY <1>3, <1>7 DEF Overlapping
<1>9. FixedRows' = FixedRows
  BY <1>1 DEF FixedRows
<1>10. Free({"overlap"})' => OneFixed'
  BY <1>7, <1>9 DEF IInv, Serial, OneFixed
<1>11. ASSUME Free({"overlap"})' PROVE Held(w)'
  <2>1. \A q \in Pairs : entity[q].fixed = "confirmed" => q = p /\ p \in FixedRows
    BY <1>2, NoRowFact DEF FixedRows
  <2>2. p \in FixedRows => OnlyFixed(p)
    BY <1>7, <1>11 DEF IInv, Serial, OneFixed, OnlyFixed, Touching
  <2>3. \A q \in Pairs : entity[q].status = "pending" => interest[q].status = "pending"
    BY <1>2, NoRowFact
  <2>4. /\ OnlyFixed(p)' = OnlyFixed(p) /\ Unended(p)' = Unended(p)
    BY <1>1, <1>9 DEF OnlyFixed, Unended, Touching, Couple
  <2> QED BY <1>1, <1>2, <1>4, <1>5, <2>1, <2>2, <2>3, <2>4 DEF Held
<1>12. /\ interest' \in [Pairs -> Rows] /\ \A q \in Pairs : Sound(interest'[q])
       /\ said' \in [Pairs -> SUBSET Sides] /\ agreed' \in [Pairs -> SUBSET Sides]
  BY <1>1, InterestFact DEF IInv, TypeOK
<1>13. \A q \in Pairs : Sound(t.entity[q])
  BY <1>2, <1>4, NoRowFact
<1>14. Fresh(w)'
  BY <1>4, <1>5 DEF Fresh
<1> QED BY <1>1, <1>4, <1>6, <1>7, <1>8, <1>10, <1>11, <1>12, <1>13, <1>14, StepKeeps

(* A handler that goes on. *)
LEMMA GoOnKeeps ==
  ASSUME IInv, NEW w \in Workers, NEW t \in Tasks, \A p \in Pairs : Sound(t.entity[p]),
         ~Idle(w), task' = [task EXCEPT ![w] = t],
         interest' \in [Pairs -> Rows], \A p \in Pairs : Sound(interest'[p]),
         said' \in [Pairs -> SUBSET Sides] /\ agreed' \in [Pairs -> SUBSET Sides], UNCHANGED disturbed,
         \/ ~t.compared
         \/ t.compared = task[w].compared /\ task[w].at # "loaded"
         \/ Free({"overlap"}) => Fresh(w)',
         Free({"overlap"}) => OneFixed' /\ Held(w)'
  PROVE  IInv'
<1>1. Free({"overlap"})' = Free({"overlap"})
  BY DEF Free
<1>4. Free({"overlap"}) => Fresh(w)'
  <2>1. task'[w] = t
    BY DEF IInv, TypeOK
  <2>2. Free({"overlap"}) => ~t.compared \/ Fresh(w)'
    BY NotCompared
  <2> QED BY <2>1, <2>2 DEF Fresh
<1>2. Free({"overlap"}) => \A v \in Workers \ {w} : Idle(v)
  BY DEF IInv, Serial, Alone
<1>3. disturbed' \in [Disturbances -> 0..MaxDisturbances]
  BY DEF IInv, TypeOK
<1> QED BY <1>1, <1>2, <1>3, <1>4, StepKeeps

LEMMA FinishKeeps ==
  ASSUME IInv, NEW w \in Workers, ~Idle(w), Finish(w),
         interest' \in [Pairs -> Rows], \A p \in Pairs : Sound(interest'[p]),
         said' \in [Pairs -> SUBSET Sides] /\ agreed' \in [Pairs -> SUBSET Sides], UNCHANGED disturbed,
         Free({"overlap"}) => OneFixed'
  PROVE  IInv'
<1>1. task' = [task EXCEPT ![w] = NoTask]
  BY DEF Finish
<1>2. task'[w].at = "idle"
  BY <1>1, NoTaskFact DEF IInv, TypeOK
<1>3. Held(w)'
  BY <1>2 DEF Held, Holding
<1>4. \A p \in Pairs : Sound(NoTask.entity[p])
  BY NoTaskFact, NoRowFact
<1> QED BY <1>1, <1>3, <1>4, NoTaskFact, GoOnKeeps

LEMMA TableKept ==
  ASSUME IInv, UNCHANGED <<interest, said, agreed>>
  PROVE  /\ interest' \in [Pairs -> Rows] /\ \A p \in Pairs : Sound(interest'[p])
         /\ said' \in [Pairs -> SUBSET Sides] /\ agreed' \in [Pairs -> SUBSET Sides]
         /\ Free({"overlap"}) => OneFixed'
         /\ FixedRows' = FixedRows
         /\ \A p \in Pairs : OnlyFixed(p)' = OnlyFixed(p) /\ Unended(p)' = Unended(p)
<1>1. \A p \in Pairs : Sound(interest'[p])
  BY InterestFact
<1> QED BY <1>1 DEF IInv, TypeOK, Serial, OneFixed, OnlyFixed, Unended, FixedRows,
           Touching, Couple

-----------------------------------------------------------------------------
(* Approaching and answering *)

LEMMA BeginSendStep == ASSUME IInv, NEW w \in Workers, BeginSend(w) PROVE IInv'
<1>1. PICK p \in Pairs : Unended(p) /\ Begin(w, "send", "asked", p, NoRow)
  BY DEF BeginSend, Unended
<1> QED BY <1>1, StartStep, NoRowFact DEF Begin, Ops

(* The answers that read a row and save it with another status. *)
LEMMA StartOnRow ==
  ASSUME IInv, NEW w \in Workers, NEW op \in Ops, NEW step \in {"checking", "loaded"},
         NEW p \in Pairs, NEW more, NEW status \in {"accepted", "rejected", "withdrawn"},
         status = "accepted" => interest[p].screening \notin HeldFromClient,
         Start(w, op, step, p, [interest[p] EXCEPT !.status = status], more)
  PROVE  IInv'
<1> DEFINE row == [interest[p] EXCEPT !.status = status]
<1>1. /\ row \in Rows /\ Sound(row) /\ row.fixed = interest[p].fixed
      /\ row.status # "pending"
  BY InterestFact DEF Rows, RowOK, Sound, Statuses
<1> HIDE DEF row
<1>2. Start(w, op, step, p, row, more)
  BY DEF row
<1> QED BY <1>1, <1>2, StartStep

LEMMA BeginAcceptStep == ASSUME IInv, NEW w \in Workers, BeginAccept(w) PROVE IInv'
<1>1. PICK p \in Answerable : Start(w, "accept", "checking", p,
        [interest[p] EXCEPT !.status = "accepted"], Revived(p))
  BY DEF BeginAccept
<1> QED BY <1>1, StartOnRow DEF Answerable, Sent, Ops

LEMMA BeginDeclineStep == ASSUME IInv, NEW w \in Workers, BeginDecline(w) PROVE IInv'
<1>1. PICK p \in Answerable : Start(w, "save", "loaded", p,
        [interest[p] EXCEPT !.status = "rejected"], Revived(p))
  BY DEF BeginDecline
<1> QED BY <1>1, StartOnRow DEF Answerable, Sent, Ops

LEMMA BeginWithdrawStep == ASSUME IInv, NEW w \in Workers, BeginWithdraw(w) PROVE IInv'
<1>1. PICK p \in WithStatus({"pending"}) : Start(w, "save", "loaded", p,
        [interest[p] EXCEPT !.status = "withdrawn"], {})
  BY DEF BeginWithdraw, Begin
<1> QED BY <1>1, StartOnRow DEF WithStatus, Ops

LEMMA BeginForwardStep == ASSUME IInv, NEW w \in Workers, BeginForward(w) PROVE IInv'
<1>1. PICK p \in WithAgency : Start(w, "save", "loaded", p,
        [interest[p] EXCEPT !.screening = "open"], {})
  BY DEF BeginForward, Begin
<1> DEFINE row == [interest[p] EXCEPT !.screening = "open"]
<1>2. p \in Pairs /\ interest[p].status = "pending"
  BY DEF WithAgency, WithStatus
<1>3. row \in Rows /\ Sound(row) /\ row.fixed = interest[p].fixed
  BY <1>2, InterestFact DEF Rows, RowOK, Sound, HeldFromClient
<1> HIDE DEF row
<1>4. Start(w, "save", "loaded", p, row, {})
  BY <1>1 DEF row
<1> QED BY <1>2, <1>3, <1>4, StartStep DEF Ops

LEMMA BeginTurnDownStep == ASSUME IInv, NEW w \in Workers, BeginTurnDown(w) PROVE IInv'
<1>1. PICK p \in WithAgency : Start(w, "save", "loaded", p,
        [interest[p] EXCEPT !.status = "rejected", !.screening = "declined"], {})
  BY DEF BeginTurnDown, Begin
<1> DEFINE row == [interest[p] EXCEPT !.status = "rejected", !.screening = "declined"]
<1>2. p \in Pairs
  BY DEF WithAgency, WithStatus
<1>3. /\ row \in Rows /\ Sound(row) /\ row.fixed = interest[p].fixed
      /\ row.status = "rejected"
  BY <1>2, InterestFact DEF Rows, RowOK, Sound, HeldFromClient, Statuses
<1> HIDE DEF row
<1>4. Start(w, "save", "loaded", p, row, {})
  BY <1>1 DEF row
<1> QED BY <1>2, <1>3, <1>4, StartStep DEF Ops

LEMMA ReopenedFact ==
  ASSUME NEW row \in Rows, Sound(row), NEW s \in {"with_agency", "open"}
  PROVE  /\ Reopened(row, s) \in Rows /\ Sound(Reopened(row, s))
         /\ Reopened(row, s).fixed = row.fixed
BY DEF Reopened, Rows, RowOK, Sound, Statuses, HeldFromClient

LEMMA LoadSendStep == ASSUME IInv, NEW w \in Workers, LoadSend(w) PROVE IInv'
<1> DEFINE p == task[w].of
<1>1. /\ ~Idle(w) /\ task[w].at = "asked" /\ p \in Pairs
      /\ UNCHANGED <<interest, said, agreed, disturbed>>
  BY HeldFact DEF LoadSend, At, Idle
<1>2. ASSUME NEW step \in {"loaded", "inserting"}, NEW row \in Rows, Sound(row),
             row.fixed = "confirmed" => interest[p].fixed = "confirmed",
             task' = [task EXCEPT ![w].at = step, ![w].entity[p] = row]
      PROVE  IInv'
  <2> DEFINE entity == [task[w].entity EXCEPT ![p] = row]
             t == [task[w] EXCEPT !.at = step, !.entity = entity]
  <2>1. task' = [task EXCEPT ![w] = t]
    BY <1>2, HeldFact DEF IInv, TypeOK, Tasks
  <2>2. /\ entity \in [Pairs -> Rows] /\ entity[p] = row
        /\ \A q \in Pairs \ {p} : entity[q] = task[w].entity[q]
        /\ \A q \in Pairs : Sound(entity[q])
    BY <1>1, <1>2, HeldFact
  <2> HIDE DEF entity
  <2>3. /\ t \in Tasks /\ t.at = step /\ t.of = p /\ t.entity = entity
        /\ t.compared = task[w].compared
    BY <2>2, HeldFact DEF Tasks, Steps
  <2> HIDE DEF t
  <2>4. task'[w] = t
    BY <2>1 DEF IInv, TypeOK
  <2>5. ASSUME Free({"overlap"}) PROVE Held(w)'
    <3>1. Unended(p) /\ \A q \in Pairs \ {p} : entity[q] = NoRow
      BY <1>1, <2>2, <2>5 DEF IInv, Serial, Held, Holding
    <3>2. \A q \in Pairs : entity[q].fixed = "confirmed" => q = p /\ p \in FixedRows
      BY <1>2, <2>2, <3>1, NoRowFact DEF FixedRows
    <3>3. p \in FixedRows => OnlyFixed(p)
      BY <2>5 DEF IInv, Serial, OneFixed, OnlyFixed, Touching
    <3>4. \A q \in Pairs : entity[q].status = "pending" => q = p
      BY <3>1, NoRowFact
    <3> HIDE DEF p
    <3> QED BY <1>1, <2>3, <2>4, <3>1, <3>2, <3>3, <3>4, TableKept DEF Held
  <2>6. \A q \in Pairs : Sound(t.entity[q])
    BY <2>2, <2>3
  <2> QED BY <1>1, <2>1, <2>3, <2>5, <2>6, TableKept, GoOnKeeps
<1>3. Screening(p) \subseteq {"with_agency", "open"}
  BY DEF Screening
<1>4. CASE Finish(w)
  BY <1>1, <1>4, TableKept, FinishKeeps
<1>5. ASSUME NEW s \in Screening(p),
             task' = [task EXCEPT ![w].at = "loaded",
                                  ![w].entity[p] = Reopened(interest[p], s)]
      PROVE  IInv'
  <2>1. /\ Reopened(interest[p], s) \in Rows /\ Sound(Reopened(interest[p], s))
        /\ Reopened(interest[p], s).fixed = interest[p].fixed
    BY <1>1, <1>3, InterestFact, ReopenedFact
  <2> QED BY <1>2, <1>5, <2>1
<1>6. ASSUME NEW s \in Screening(p),
             task' = [task EXCEPT ![w].at = "inserting",
                                  ![w].entity[p] = Reopened(NoRow, s)]
      PROVE  IInv'
  <2>1. /\ Reopened(NoRow, s) \in Rows /\ Sound(Reopened(NoRow, s))
        /\ Reopened(NoRow, s).fixed = "none"
    BY <1>3, NoRowFact, ReopenedFact
  <2> QED BY <1>2, <1>6, <2>1
<1> QED BY <1>4, <1>5, <1>6 DEF LoadSend

(* Writing one row that a handler holds. *)
LEMMA OneFixedAfter ==
  ASSUME IInv, NEW w \in Workers, Holding(w), Free({"overlap"}),
         \A q \in Pairs : interest'[q] = interest[q] \/ interest'[q] = task[w].entity[q]
  PROVE  OneFixed'
<1>1. \A p \in FixedRows' : p \in FixedRows \/ task[w].entity[p].fixed = "confirmed"
  BY DEF FixedRows
<1>2. Held(w) /\ OneFixed
  BY DEF IInv, Serial
<1>3. ASSUME NEW p \in FixedRows', NEW q \in FixedRows', Ends(p) \cap Ends(q) # {}
      PROVE  p = q
  <2>1. p \in Pairs /\ q \in Pairs
    BY DEF FixedRows
  <2>2. p \in Touching(q) /\ q \in Touching(p)
    BY <1>3, <2>1 DEF Touching
  <2> QED BY <1>1, <1>2, <1>3, <2>1, <2>2 DEF Held, OneFixed, OnlyFixed
<1> QED BY <1>3 DEF OneFixed

LEMMA InsertStep == ASSUME IInv, NEW w \in Workers, Insert(w) PROVE IInv'
<1> DEFINE p == task[w].of
<1>1. /\ ~Idle(w) /\ Holding(w) /\ p \in Pairs /\ Finish(w)
      /\ UNCHANGED <<said, agreed, disturbed>>
  BY HeldFact DEF Insert, Idle, Holding
<1>2. \A q \in Pairs : interest'[q] = interest[q] \/ interest'[q] = task[w].entity[q]
  BY DEF Insert, IInv, TypeOK
<1>3. interest' \in [Pairs -> Rows]
  BY <1>1, HeldFact DEF Insert, IInv, TypeOK
<1>4. \A q \in Pairs : Sound(interest'[q])
  BY <1>2, HeldFact, InterestFact
<1>5. Free({"overlap"}) => OneFixed'
  BY <1>1, <1>2, OneFixedAfter
<1>6. said' \in [Pairs -> SUBSET Sides] /\ agreed' \in [Pairs -> SUBSET Sides]
  BY <1>1 DEF IInv, TypeOK
<1> QED BY <1>1, <1>3, <1>4, <1>5, <1>6, FinishKeeps

LEMMA CheckAcceptStep == ASSUME IInv, NEW w \in Workers, CheckAccept(w) PROVE IInv'
<1>1. /\ ~Idle(w) /\ task[w].at = "checking"
      /\ UNCHANGED <<interest, said, agreed, disturbed>>
  BY DEF CheckAccept, At, Idle
<1>2. CASE Finish(w)
  BY <1>1, <1>2, TableKept, FinishKeeps
<1>3. CASE GoTo(w, "loaded")
  <2> DEFINE t == [task[w] EXCEPT !.at = "loaded"]
  <2>1. task' = [task EXCEPT ![w] = t]
    BY <1>3 DEF GoTo, IInv, TypeOK
  <2>2. /\ t \in Tasks /\ t.at = "loaded" /\ t.entity = task[w].entity
        /\ t.compared = task[w].compared
    BY HeldFact DEF Tasks, Steps
  <2> HIDE DEF t
  <2>3. task'[w] = t
    BY <2>1 DEF IInv, TypeOK
  <2>4. ASSUME Free({"overlap"}) PROVE Held(w)'
    <3>1. Held(w)
      BY <2>4 DEF IInv, Serial
    <3> QED BY <1>1, <2>2, <2>3, <3>1, TableKept DEF Held, Holding
  <2>5. \A q \in Pairs : Sound(t.entity[q])
    BY <2>2, HeldFact
  <2> QED BY <1>1, <2>1, <2>2, <2>4, <2>5, TableKept, GoOnKeeps
<1> QED BY <1>2, <1>3 DEF CheckAccept

-----------------------------------------------------------------------------
(* Ending and fixing a match *)

LEMMA EndedFact ==
  ASSUME NEW row \in Rows, Sound(row),
         NEW new \in {Unmatched(row), Blocked(row), Reported(row), Closed(row)}
  PROVE  /\ new \in Rows /\ Sound(new)
         /\ new.fixed = "confirmed" => row.fixed = "confirmed"
         /\ new.status \in {"unmatched", "blocked"}
<1>1. CASE new = Unmatched(row)
  BY <1>1 DEF Unmatched, Rows, RowOK, Sound, Statuses
<1>2. CASE new = Blocked(row)
  BY <1>2 DEF Blocked, Rows, RowOK, Sound, Statuses
<1>3. CASE new = Reported(row)
  BY <1>3 DEF Reported, Rows, RowOK, Sound, Statuses
<1>4. CASE new = Closed(row)
  BY <1>4 DEF Closed, Rows, RowOK, Sound, Statuses
<1> QED BY <1>1, <1>2, <1>3, <1>4

LEMMA EndStep ==
  ASSUME IInv, NEW w \in Workers,
         BeginUnmatch(w) \/ BeginBlock(w) \/ BeginReport(w)
  PROVE  IInv'
<1>1. PICK p \in Pairs :
        \/ Start(w, "save", "loaded", p, Unmatched(interest[p]), {})
        \/ Start(w, "save", "loaded", p, Blocked(interest[p]), {})
        \/ Start(w, "save", "loaded", p, Reported(interest[p]), {})
  BY DEF BeginUnmatch, BeginBlock, BeginReport, Begin, WithStatus, Sent
<1>2. ASSUME NEW op \in Ops,
             NEW new \in {Unmatched(interest[p]), Blocked(interest[p]),
                          Reported(interest[p]), Closed(interest[p])},
             Start(w, op, "loaded", p, new, {})
      PROVE  IInv'
  <2>1. /\ new \in Rows /\ Sound(new)
        /\ new.fixed = "confirmed" => interest[p].fixed = "confirmed"
        /\ new.status # "pending"
    BY InterestFact, EndedFact
  <2> QED BY <1>2, <2>1, StartStep
<1> QED BY <1>1, <1>2 DEF Ops

LEMMA BeginConfirmStep == ASSUME IInv, NEW w \in Workers, BeginConfirm(w) PROVE IInv'
<1>1. PICK p \in Pairs : Start(w, "confirm", "checking", p, interest[p], {})
  BY DEF BeginConfirm, Begin, WithStatus
<1> QED BY <1>1, InterestFact, StartStep DEF Ops

LEMMA ConfirmedFact ==
  ASSUME NEW row \in Rows, Sound(row), NEW side \in Sides
  PROVE  /\ Confirmed(row, side) \in Rows /\ Sound(Confirmed(row, side))
         /\ Confirmed(row, side).status = row.status
<1> DEFINE sides == row.confirmed \cup {side}
           fixed == IF sides = Sides THEN "confirmed" ELSE "pending_confirmation"
           new == [row EXCEPT !.confirmed = sides, !.fixed = fixed]
<1>1. sides \in SUBSET Sides /\ fixed \in {"none", "pending_confirmation", "confirmed"}
  BY DEF Rows
<1>2. fixed = "confirmed" => sides = Sides
  OBVIOUS
<1>3. Confirmed(row, side) = new
  BY DEF Confirmed
<1> HIDE DEF sides, fixed
<1>4. new \in Rows /\ new.status = row.status /\ Sound(new)
  BY <1>1, <1>2 DEF Rows, RowOK, Sound
<1> QED BY <1>3, <1>4

LEMMA CheckConfirmStep == ASSUME IInv, NEW w \in Workers, CheckConfirm(w) PROVE IInv'
<1> DEFINE p == task[w].of
           old == task[w].entity[p]
           fixed == FixedRows \cap Touching(p)
<1>1. /\ ~Idle(w) /\ task[w].at = "checking" /\ p \in Pairs
      /\ UNCHANGED <<interest, said, agreed, disturbed>>
  BY HeldFact DEF CheckConfirm, At, Idle
<1>2. CASE Finish(w)
  BY <1>1, <1>2, TableKept, FinishKeeps
<1>3. ASSUME fixed = {} \/ p \in fixed, NEW side \in Sides,
             task' = [task EXCEPT ![w].at = "loaded", ![w].side = side,
                                  ![w].entity[p] = Confirmed(old, side)]
      PROVE  IInv'
  <2> DEFINE row == Confirmed(old, side)
             entity == [task[w].entity EXCEPT ![p] = row]
             t == [task[w] EXCEPT !.at = "loaded", !.side = side, !.entity = entity]
  <2>1. task' = [task EXCEPT ![w] = t]
    BY <1>3, HeldFact DEF IInv, TypeOK, Tasks
  <2>2. row \in Rows /\ Sound(row) /\ row.status = old.status
    BY <1>1, HeldFact, ConfirmedFact
  <2> HIDE DEF row
  <2>3. /\ entity \in [Pairs -> Rows] /\ entity[p] = row
        /\ \A q \in Pairs \ {p} : entity[q] = task[w].entity[q]
        /\ \A q \in Pairs : Sound(entity[q])
    BY <1>1, <2>2, HeldFact
  <2> HIDE DEF entity
  <2>4. /\ t \in Tasks /\ t.at = "loaded" /\ t.of = p /\ t.entity = entity
        /\ t.compared = task[w].compared
    BY <2>3, HeldFact DEF Tasks, Steps
  <2> HIDE DEF t
  <2>5. task'[w] = t
    BY <2>1 DEF IInv, TypeOK
  <2>6. ASSUME Free({"overlap"}) PROVE Held(w)'
    <3>1. Held(w) /\ OneFixed
      BY <2>6 DEF IInv, Serial
    <3>2. \A q \in Pairs \ {p} : entity[q] = NoRow
      BY <1>1, <2>3, <3>1 DEF Held, Holding
    <3>3. OnlyFixed(p)
      BY <1>3, <3>1 DEF OnlyFixed, OneFixed, Touching
    <3>4. \A q \in Pairs : entity[q].fixed = "confirmed" => q = p
      BY <3>2, NoRowFact
    <3>5. \A q \in Pairs : entity[q].status = "pending" =>
            interest[q].status = "pending" \/ Unended(q)
      BY <1>1, <2>2, <2>3, <3>1, <3>2, NoRowFact DEF Held, Holding
    <3> HIDE DEF p
    <3> QED BY <1>1, <2>4, <2>5, <3>3, <3>4, <3>5, TableKept DEF Held
  <2>7. \A q \in Pairs : Sound(t.entity[q])
    BY <2>3, <2>4
  <2> QED BY <1>1, <2>1, <2>4, <2>6, <2>7, TableKept, GoOnKeeps
<1> QED BY <1>2, <1>3 DEF CheckConfirm

LEMMA CloseOthersStep == ASSUME IInv, NEW w \in Workers, CloseOthers(w) PROVE IInv'
<1> DEFINE p == task[w].of
           others == (WithStatus(Live) \cap Touching(p)) \ {p}
           entity == [q \in Pairs |-> IF q \in others THEN Closed(interest[q]) ELSE NoRow]
           t == [task[w] EXCEPT !.op = "save", !.at = "loaded", !.entity = entity]
<1>1. ~Idle(w) /\ task[w].at = "listing" /\ UNCHANGED <<interest, said, agreed, disturbed>>
  BY DEF CloseOthers, Idle
<1>2. CASE others = {}
  <2>1. Finish(w)
    BY <1>2 DEF CloseOthers
  <2> QED BY <1>1, <2>1, TableKept, FinishKeeps
<1>3. CASE others # {}
  <2>1. task' = [task EXCEPT ![w] = t]
    BY <1>3 DEF CloseOthers, IInv, TypeOK
  <2>2. ASSUME NEW q \in Pairs
        PROVE  /\ entity[q] \in Rows /\ Sound(entity[q])
               /\ entity[q].fixed # "confirmed" /\ entity[q].status # "pending"
    <3>1. /\ Closed(interest[q]) \in Rows /\ Sound(Closed(interest[q]))
          /\ Closed(interest[q]).status # "pending"
      BY InterestFact, EndedFact
    <3>2. Closed(interest[q]).fixed # "confirmed"
      BY InterestFact DEF Closed, Rows
    <3>3. entity[q] = Closed(interest[q]) \/ entity[q] = NoRow
      OBVIOUS
    <3> HIDE DEF entity
    <3> QED BY <3>1, <3>2, <3>3, NoRowFact
  <2>3. entity \in [Pairs -> Rows]
    BY <2>2
  <2> HIDE DEF entity
  <2>4. /\ t \in Tasks /\ t.at = "loaded" /\ t.entity = entity
        /\ t.compared = task[w].compared
    BY <2>3, HeldFact DEF Tasks, Steps, Ops
  <2> HIDE DEF t
  <2>5. task'[w] = t
    BY <2>1 DEF IInv, TypeOK
  <2>6. Held(w)'
    BY <2>2, <2>4, <2>5 DEF Held
  <2>7. \A q \in Pairs : Sound(t.entity[q])
    BY <2>2, <2>4
  <2> QED BY <1>1, <2>1, <2>4, <2>6, <2>7, TableKept, GoOnKeeps
<1> QED BY <1>2, <1>3

(* What save() finds changed has the columns in which the rows differ. *)
LEMMA CompareFact ==
  ASSUME IInv, NEW w \in Workers, Compare(w)
  PROVE  /\ ~Idle(w) /\ task[w].at = "loaded"
         /\ UNCHANGED <<interest, said, agreed, disturbed>>
         /\ \E changed \in [Pairs -> SUBSET Columns] :
              /\ task' = [task EXCEPT ![w] =
                            [task[w] EXCEPT !.compared = TRUE, !.changed = changed]]
              /\ \A p \in Pairs : Saved(w, p) =>
                   Differing(task[w].entity[p], interest[p]) \subseteq changed[p]
<1>1. PICK apart \in SUBSET {"screening", "from", "to"} :
        task' = [task EXCEPT ![w].compared = TRUE, ![w].changed =
          [p \in Pairs |->
             IF Saved(w, p)
             THEN Differing(task[w].entity[p], interest[p])
                    \cup (apart \cap Alike(task[w].entity[p], interest[p]))
             ELSE {}]]
  BY DEF Compare
<1> DEFINE changed == [p \in Pairs |->
             IF Saved(w, p)
             THEN Differing(task[w].entity[p], interest[p])
                    \cup (apart \cap Alike(task[w].entity[p], interest[p]))
             ELSE {}]
<1>2. \A p \in Pairs :
        Differing(task[w].entity[p], interest[p]) \cup Alike(task[w].entity[p], interest[p])
          \in SUBSET Columns
  BY HeldFact, InterestFact, DifferingType
<1>3. changed \in [Pairs -> SUBSET Columns]
  BY <1>2
<1>4. \A p \in Pairs : Saved(w, p) =>
        Differing(task[w].entity[p], interest[p]) \subseteq changed[p]
  OBVIOUS
<1>5. task' = [task EXCEPT ![w].compared = TRUE, ![w].changed = changed]
  BY <1>1
<1> HIDE DEF changed
<1>6. task' = [task EXCEPT ![w] = [task[w] EXCEPT !.compared = TRUE, !.changed = changed]]
  BY <1>5, HeldFact DEF IInv, TypeOK, Tasks
<1>7. /\ ~Idle(w) /\ task[w].at = "loaded"
      /\ UNCHANGED <<interest, said, agreed, disturbed>>
  BY DEF Compare, Idle
<1> QED BY <1>3, <1>4, <1>6, <1>7

LEMMA CompareStep == ASSUME IInv, NEW w \in Workers, Compare(w) PROVE IInv'
<1>1. /\ ~Idle(w) /\ task[w].at = "loaded" /\ UNCHANGED <<interest, said, agreed, disturbed>>
  BY CompareFact
<1>2. PICK changed \in [Pairs -> SUBSET Columns] :
        /\ task' = [task EXCEPT ![w] =
                      [task[w] EXCEPT !.compared = TRUE, !.changed = changed]]
        /\ \A p \in Pairs : Saved(w, p) =>
             Differing(task[w].entity[p], interest[p]) \subseteq changed[p]
  BY CompareFact
<1>3. \A p \in Pairs : Saved(w, p) =>
        Differing(task[w].entity[p], interest[p]) \subseteq changed[p]
  BY <1>2
<1> DEFINE t == [task[w] EXCEPT !.compared = TRUE, !.changed = changed]
<1>4. task' = [task EXCEPT ![w] = t]
  BY <1>2
<1>5. t \in Tasks /\ t.at = "loaded" /\ t.entity = task[w].entity /\ t.changed = changed
  BY <1>1, <1>2, HeldFact DEF Tasks
<1> HIDE DEF t
<1>6. task'[w] = t
  BY <1>4 DEF IInv, TypeOK
<1>7. Free({"overlap"}) => Held(w)'
  <2>1. Free({"overlap"}) => Held(w)
    BY DEF IInv, Serial
  <2> QED BY <1>1, <1>5, <1>6, <2>1, TableKept DEF Held, Holding
<1>8. Fresh(w)'
  BY <1>1, <1>3, <1>5, <1>6 DEF Fresh, Saved
<1>9. \A q \in Pairs : Sound(t.entity[q])
  BY <1>5, HeldFact
<1> QED BY <1>1, <1>4, <1>5, <1>7, <1>8, <1>9, TableKept, GoOnKeeps

(* What a save makes of the table: rows of its shape, and, as long as nothing *)
(* overlaps, exactly the rows the handler holds.                              *)
LEMMA SaveWrites ==
  ASSUME IInv, NEW w \in Workers, Save(w)
  PROVE  /\ task[w].at = "loaded" /\ ~Idle(w) /\ UNCHANGED disturbed
         /\ interest' \in [Pairs -> Rows]
         /\ said' \in [Pairs -> SUBSET Sides] /\ agreed' \in [Pairs -> SUBSET Sides]
         /\ \A p \in Pairs : ~Saved(w, p) => interest'[p] = interest[p]
         /\ Free({"overlap"}) =>
              \A p \in Pairs : Saved(w, p) => interest'[p] = task[w].entity[p]
         /\ said' = [p \in Pairs |-> IF Saved(w, p) THEN HeardAfter(w, p) ELSE said[p]]
<1>1. /\ task[w].at = "loaded" /\ ~Idle(w) /\ UNCHANGED disturbed /\ task[w].compared
      /\ interest' = [p \in Pairs |->
           IF Saved(w, p) THEN Updated(interest[p], task[w].entity[p], task[w].changed[p])
                          ELSE interest[p]]
      /\ said' = [p \in Pairs |-> IF Saved(w, p) THEN HeardAfter(w, p) ELSE said[p]]
      /\ agreed' = IF task[w].op = "confirm"
                   THEN [agreed EXCEPT ![task[w].of] = @ \cup {task[w].side}]
                   ELSE agreed
  BY DEF Save, Idle
<1>2. ASSUME NEW p \in Pairs
      PROVE  /\ Updated(interest[p], task[w].entity[p], task[w].changed[p]) \in Rows
             /\ Free({"overlap"}) /\ Saved(w, p) =>
                  Updated(interest[p], task[w].entity[p], task[w].changed[p])
                    = task[w].entity[p]
  <2>1. /\ interest[p] \in Rows /\ task[w].entity[p] \in Rows
        /\ task[w].changed[p] \in SUBSET Columns
    BY HeldFact, InterestFact
  <2>2. Free({"overlap"}) /\ Saved(w, p) =>
          Differing(task[w].entity[p], interest[p]) \subseteq task[w].changed[p]
    BY <1>1 DEF IInv, Serial, Fresh
  <2> QED BY <2>1, <2>2, UpdatedFact
<1>3. interest' \in [Pairs -> Rows]
  BY <1>1, <1>2, InterestFact
<1>4. said' \in [Pairs -> SUBSET Sides]
  <2>1. \A q \in Pairs : HeardAfter(w, q) \subseteq Sides /\ said[q] \subseteq Sides
    BY DEF HeardAfter, IInv, TypeOK, Tasks
  <2> QED BY <1>1, <2>1
<1>5. agreed' \in [Pairs -> SUBSET Sides]
  BY <1>1 DEF IInv, TypeOK, Tasks
<1> QED BY <1>1, <1>2, <1>3, <1>4, <1>5

LEMMA SaveStep == ASSUME IInv, NEW w \in Workers, Save(w) PROVE IInv'
<1>1. Holding(w)
  BY SaveWrites DEF Holding
<1>2. Free({"overlap"}) =>
        \A q \in Pairs : interest'[q] = interest[q] \/ interest'[q] = task[w].entity[q]
  BY SaveWrites
<1>3. \A q \in Pairs : Sound(interest'[q])
  BY <1>2, HeldFact, InterestFact DEF Sound
<1>5. Free({"overlap"}) => OneFixed'
  BY <1>1, <1>2, OneFixedAfter
<1>6. \/ Finish(w)
      \/ task' = [task EXCEPT ![w].at = "listing", ![w].compared = FALSE,
                              ![w].changed = NoChange]
  BY DEF Save
<1>7. CASE Finish(w)
  BY <1>3, <1>5, <1>7, SaveWrites, FinishKeeps
<1>8. CASE task' = [task EXCEPT ![w].at = "listing", ![w].compared = FALSE,
                               ![w].changed = NoChange]
  <2> DEFINE t == [task[w] EXCEPT !.at = "listing", !.compared = FALSE, !.changed = NoChange]
  <2>1. task' = [task EXCEPT ![w] = t]
    BY <1>8, HeldFact DEF IInv, TypeOK, Tasks
  <2>2. t \in Tasks /\ t.at = "listing" /\ t.entity = task[w].entity /\ ~t.compared
    BY HeldFact, NoTaskFact DEF Tasks, Steps
  <2> HIDE DEF t
  <2>3. task'[w] = t
    BY <2>1 DEF IInv, TypeOK
  <2>4. Held(w)'
    BY <2>2, <2>3 DEF Held, Holding
  <2>5. \A q \in Pairs : Sound(t.entity[q])
    BY <2>2, HeldFact
  <2> QED BY <1>3, <1>5, <2>1, <2>2, <2>4, <2>5, SaveWrites, GoOnKeeps
<1> QED BY <1>6, <1>7, <1>8

LEMMA DieStep == ASSUME IInv, NEW w \in Workers, Die(w) PROVE IInv'
<1>1. /\ ~Idle(w) /\ task' = [task EXCEPT ![w] = NoTask] /\ Disturb({"death"})
      /\ UNCHANGED <<interest, said, agreed>>
  BY DEF Die, Finish
<1>2. /\ disturbed' \in [Disturbances -> 0..MaxDisturbances]
      /\ Free({"overlap"})' => Free({"overlap"})
  BY <1>1, DisturbType DEF IInv, Free
<1>3. Free({"overlap"})' => \A v \in Workers \ {w} : Idle(v)
  BY <1>1, <1>2 DEF IInv, Serial, Alone
<1>4. task'[w].at = "idle" /\ ~task'[w].compared
  BY <1>1, NoTaskFact DEF IInv, TypeOK
<1>5. Held(w)' /\ Fresh(w)'
  BY <1>4 DEF Held, Holding, Fresh
<1>6. \A p \in Pairs : Sound(NoTask.entity[p])
  BY NoTaskFact, NoRowFact
<1> QED BY <1>1, <1>2, <1>3, <1>5, <1>6, TableKept, NoTaskFact, StepKeeps

-----------------------------------------------------------------------------

LEMMA NextIInv == IInv /\ [Next]_vars => IInv'
<1> SUFFICES ASSUME IInv, [Next]_vars PROVE IInv'
  OBVIOUS
<1>1. ASSUME NEW w \in Workers, Approach(w) PROVE IInv'
  BY <1>1, BeginSendStep, LoadSendStep, InsertStep, BeginWithdrawStep, BeginAcceptStep,
     CheckAcceptStep, BeginDeclineStep, BeginForwardStep, BeginTurnDownStep DEF Approach
<1>2. ASSUME NEW w \in Workers, Settle(w) PROVE IInv'
  BY <1>2, EndStep, BeginConfirmStep, CheckConfirmStep, CloseOthersStep, CompareStep, SaveStep
     DEF Settle
<1>3. ASSUME NEW w \in Workers, Die(w) PROVE IInv'
  BY <1>3, DieStep
<1>4. CASE UNCHANGED vars
  BY <1>4 DEF vars, IInv, TypeOK, RowsOK, Serial, Alone, OneFixed, OnlyFixed, Unended,
     Held, Holding, Idle, Free, FixedRows, Touching, Couple, Fresh, Saved
<1> QED BY <1>1, <1>2, <1>3, <1>4 DEF Next

LEMMA Inductive == Spec => []IInv
<1> QED BY InitIInv, NextIInv, PTL DEF Spec

-----------------------------------------------------------------------------
(* What a fixed match leaves open *)

Calm == Free({"overlap", "death"})

Around(q) == {p \in FixedRows : Ends(p) \cap Ends(q) # {}}
LeftOpen(p, q) == p # q /\ p \in Around(q) /\ interest[q].status \in Live

Closes(w, p, q) ==
  \/ task[w].at = "listing" /\ task[w].of = p
  \/ /\ task[w].at = "loaded" /\ Saved(w, q)
     /\ task[w].entity[q].status \notin Live

(* What a handler that runs alone knows of the table: it makes an interest  *)
(* live only where nothing is fixed around it, and only a second            *)
(* confirmation fixes a match.                                              *)
Knows(w) ==
  /\ task[w].at = "asked" => Around(task[w].of) = {}
  /\ task[w].at = "checking" /\ task[w].op # "accept" =>
       interest[task[w].of].status \in Live
  /\ task[w].at \in {"inserting", "loaded"} =>
       \A q \in Pairs : task[w].entity[q].status \in Live =>
         interest[q].status \in Live \/ Around(q) = {}
  /\ task[w].at \in {"checking", "inserting", "loaded"} =>
       \A p \in Pairs : task[w].entity[p].fixed = "confirmed" =>
         \/ p \in FixedRows
         \/ task[w].at = "loaded" /\ task[w].op = "confirm" /\ p = task[w].of

(* What is live next to a fixed match is about to be closed. *)
RestInv ==
  Calm =>
    /\ \A w \in Workers : Knows(w)
    /\ \A p, q \in Pairs : LeftOpen(p, q) => \E w \in Workers : Closes(w, p, q)

LEMMA InitRestInv == Init => RestInv
<1> SUFFICES ASSUME Init PROVE RestInv
  OBVIOUS
<1>1. FixedRows = {}
  BY NoTaskFact, NoRowFact DEF Init, FixedRows
<1>2. \A w \in Workers : task[w].at = "idle"
  BY NoTaskFact DEF Init
<1> QED BY <1>1, <1>2 DEF RestInv, Knows, LeftOpen, Around

LEMMA CalmFact ==
  /\ Calm => Free({"overlap"})
  /\ IInv /\ Calm => \A v, w \in Workers : ~Idle(w) /\ v # w => Idle(v)
BY DEF Calm, Free, IInv, Serial, Alone

LEMMA DisturbCalm ==
  ASSUME IInv, NEW kinds, Disturb(kinds)
  PROVE  Calm' => Calm /\ "overlap" \notin kinds /\ "death" \notin kinds
<1>1. disturbed \in [Disturbances -> Nat]
  BY BoundsAssumption DEF IInv, TypeOK
<1>2. disturbed' = [d \in Disturbances |->
                     IF d \in kinds THEN disturbed[d] + 1 ELSE disturbed[d]]
  BY DEF Disturb
<1>3. "overlap" \in Disturbances /\ "death" \in Disturbances
  BY DEF Disturbances
<1> QED BY <1>1, <1>2, <1>3 DEF Calm, Free

LEMMA TableSame ==
  ASSUME UNCHANGED interest
  PROVE  /\ FixedRows' = FixedRows
         /\ \A q \in Pairs : Around(q)' = Around(q)
         /\ \A p, q \in Pairs : LeftOpen(p, q)' = LeftOpen(p, q)
BY DEF FixedRows, Around, LeftOpen

(* Only a handler that is about to close it can have left something open. *)
LEMMA NothingLeftOpen ==
  ASSUME IInv, RestInv, Calm, NEW w \in Workers,
         \A v \in Workers \ {w} : Idle(v),
         task[w].at \notin {"listing", "loaded"},
         NEW p \in Pairs, NEW q \in Pairs
  PROVE  ~LeftOpen(p, q)
BY DEF RestInv, Closes, Idle

LEMMA OthersKnow ==
  ASSUME IInv, NEW w \in Workers, NEW t \in Tasks, task' = [task EXCEPT ![w] = t],
         \A v \in Workers \ {w} : Idle(v)
  PROVE  task'[w] = t /\ \A v \in Workers \ {w} : Knows(v)'
<1>1. /\ task'[w] = t
      /\ \A v \in Workers \ {w} : task'[v].at = "idle"
  BY DEF IInv, TypeOK, Idle
<1> QED BY <1>1 DEF Knows

(* A step that leaves the table alone and follows on nothing left open. *)
LEMMA QuietStepKeeps ==
  ASSUME IInv, RestInv, NEW w \in Workers, NEW t \in Tasks,
         task' = [task EXCEPT ![w] = t], UNCHANGED interest,
         Calm' => Calm /\ \A v \in Workers \ {w} : Idle(v),
         task[w].at \notin {"listing", "loaded"},
         Calm' => Knows(w)'
  PROVE  RestInv'
<1>1. SUFFICES ASSUME Calm'
               PROVE  /\ \A v \in Workers : Knows(v)'
                      /\ \A p, q \in Pairs : ~LeftOpen(p, q)'
  BY DEF RestInv
<1>2. \A p, q \in Pairs : ~LeftOpen(p, q)'
  BY <1>1, TableSame, NothingLeftOpen
<1>3. \A v \in Workers \ {w} : Knows(v)'
  BY <1>1, OthersKnow
<1> QED BY <1>1, <1>2, <1>3

LEMMA StartKeepsRest ==
  ASSUME IInv, RestInv, NEW w \in Workers, NEW op \in Ops,
         NEW step \in {"asked", "checking", "loaded"},
         NEW p \in Pairs, NEW row \in Rows, NEW more,
         row.fixed = "confirmed" => p \in FixedRows,
         step = "loaded" /\ row.status \in Live => interest[p].status \in Live,
         step = "checking" /\ op # "accept" => interest[p].status \in Live,
         step = "asked" => Around(p) = {},
         Start(w, op, step, p, row, more)
  PROVE  RestInv'
<1> DEFINE entity == [NoEntity EXCEPT ![p] = row]
           t == [op |-> op, at |-> step, of |-> p, side |-> "from", entity |-> entity,
                 compared |-> FALSE, changed |-> NoChange]
           kinds == Overlapping(w) \cup more
<1>1. /\ Idle(w) /\ task' = [task EXCEPT ![w] = t] /\ Disturb(kinds)
      /\ UNCHANGED <<interest, said, agreed>>
  BY DEF Start
<1>2. /\ entity \in [Pairs -> Rows] /\ entity[p] = row
      /\ \A q \in Pairs \ {p} : entity[q] = NoRow
  BY NoTaskFact, NoRowFact
<1>3. Overlapping(w) \subseteq kinds
  OBVIOUS
<1> HIDE DEF entity, kinds
<1>4. t \in Tasks /\ t.at = step /\ t.of = p /\ t.op = op /\ t.entity = entity
  BY <1>2, NoTaskFact DEF Tasks, Steps, Sides
<1> HIDE DEF t
<1>5. task'[w] = t
  BY <1>1 DEF IInv, TypeOK
<1>6. Calm' => Calm /\ \A v \in Workers \ {w} : Idle(v)
  <2>1. Calm' => Calm /\ "overlap" \notin kinds
    BY <1>1, DisturbCalm
  <2> QED BY <1>3, <2>1 DEF Overlapping
<1>7. Knows(w)'
  <2>1. \A q \in Pairs : entity[q].fixed = "confirmed" => q \in FixedRows
    BY <1>2, NoRowFact
  <2>2. \A q \in Pairs : entity[q].status \in Live => q = p
    BY <1>2, NoRowFact DEF Live
  <2> QED BY <1>1, <1>2, <1>4, <1>5, <2>1, <2>2, TableSame DEF Knows
<1> QED BY <1>1, <1>4, <1>6, <1>7, QuietStepKeeps DEF Idle

LEMMA GoOnKeepsRest ==
  ASSUME IInv, RestInv, NEW w \in Workers, NEW t \in Tasks, ~Idle(w),
         task' = [task EXCEPT ![w] = t], UNCHANGED <<interest, disturbed>>,
         task[w].at \notin {"listing", "loaded"},
         Calm /\ Knows(w) => Knows(w)'
  PROVE  RestInv'
<1>1. Calm' = Calm
  BY DEF Calm, Free
<1>2. Calm => Knows(w) /\ \A v \in Workers \ {w} : Idle(v)
  BY CalmFact DEF RestInv
<1> QED BY <1>1, <1>2, QuietStepKeeps

LEMMA FinishKeepsRest ==
  ASSUME IInv, RestInv, NEW w \in Workers, ~Idle(w), Finish(w),
         UNCHANGED <<interest, disturbed>>, task[w].at \notin {"listing", "loaded"}
  PROVE  RestInv'
<1>1. task' = [task EXCEPT ![w] = NoTask]
  BY DEF Finish
<1>2. task'[w].at = "idle"
  BY <1>1, NoTaskFact DEF IInv, TypeOK
<1>3. Knows(w)'
  BY <1>2 DEF Knows
<1> QED BY <1>1, <1>3, NoTaskFact, GoOnKeepsRest

LEMMA BeginSendRest == ASSUME IInv, RestInv, NEW w \in Workers, BeginSend(w) PROVE RestInv'
<1>1. PICK p \in Pairs : /\ ~Settled(p[1]) /\ ~Settled(p[2])
                         /\ Start(w, "send", "asked", p, NoRow, {})
  BY DEF BeginSend, Begin
<1>2. Around(p) = {}
  BY <1>1 DEF Around, Settled, Ends
<1> QED BY <1>1, <1>2, NoRowFact, StartKeepsRest DEF Ops

(* The handlers that read a row and save it, none of which makes it live. *)
LEMMA BeginOnRowRest ==
  ASSUME IInv, RestInv, NEW w \in Workers,
         \/ BeginAccept(w) \/ BeginDecline(w) \/ BeginWithdraw(w)
         \/ BeginForward(w) \/ BeginTurnDown(w)
         \/ BeginUnmatch(w) \/ BeginBlock(w) \/ BeginReport(w) \/ BeginConfirm(w)
  PROVE  RestInv'
<1>1. ASSUME NEW p \in Pairs, NEW more, NEW row,
             row \in {[interest[p] EXCEPT !.status = "rejected"],
                      [interest[p] EXCEPT !.status = "withdrawn"],
                      [interest[p] EXCEPT !.status = "rejected", !.screening = "declined"],
                      Unmatched(interest[p]), Blocked(interest[p]), Reported(interest[p])},
             Start(w, "save", "loaded", p, row, more)
      PROVE  RestInv'
  <2>1. interest[p] \in Rows /\ Sound(interest[p])
    BY InterestFact
  <2>2. /\ row \in Rows /\ row.status \notin Live
        /\ row.fixed = "confirmed" => interest[p].fixed = "confirmed"
    BY <1>1, <2>1 DEF Rows, Statuses, Live, HeldFromClient, Unmatched, Blocked, Reported
  <2>3. row.fixed = "confirmed" => p \in FixedRows
    BY <2>2 DEF FixedRows
  <2>4. "save" \in Ops
    BY DEF Ops
  <2> QED BY <1>1, <2>2, <2>3, <2>4, StartKeepsRest
<1>2. CASE BeginAccept(w)
  <2>1. PICK p \in Pairs, more \in {Revived(q) : q \in Pairs} :
          Start(w, "accept", "checking", p, [interest[p] EXCEPT !.status = "accepted"], more)
    BY <1>2 DEF BeginAccept, Answerable, Sent
  <2> DEFINE row == [interest[p] EXCEPT !.status = "accepted"]
  <2>2. row \in Rows /\ row.fixed = interest[p].fixed
    BY InterestFact DEF Rows, Statuses
  <2> HIDE DEF row
  <2>3. row.fixed = "confirmed" => p \in FixedRows
    BY <2>2 DEF FixedRows
  <2>4. Start(w, "accept", "checking", p, row, more)
    BY <2>1 DEF row
  <2> QED BY <2>2, <2>3, <2>4, StartKeepsRest DEF Ops
<1>3. CASE BeginForward(w)
  <2>1. PICK p \in WithAgency : Start(w, "save", "loaded", p,
          [interest[p] EXCEPT !.screening = "open"], {})
    BY <1>3 DEF BeginForward, Begin
  <2> DEFINE row == [interest[p] EXCEPT !.screening = "open"]
  <2>2. p \in Pairs /\ interest[p].status \in Live
    BY DEF WithAgency, WithStatus, Live
  <2>3. row \in Rows /\ row.fixed = interest[p].fixed
    BY <2>2, InterestFact DEF Rows
  <2> HIDE DEF row
  <2>4. row.fixed = "confirmed" => p \in FixedRows
    BY <2>2, <2>3 DEF FixedRows
  <2>5. Start(w, "save", "loaded", p, row, {})
    BY <2>1 DEF row
  <2> QED BY <2>2, <2>3, <2>4, <2>5, StartKeepsRest DEF Ops
<1>4. CASE BeginConfirm(w)
  <2>1. PICK p \in WithStatus({"accepted"}) :
          Start(w, "confirm", "checking", p, interest[p], {})
    BY <1>4 DEF BeginConfirm, Begin
  <2>2. p \in Pairs /\ interest[p].status \in Live /\ interest[p] \in Rows
    BY InterestFact DEF WithStatus, Live
  <2>3. interest[p].fixed = "confirmed" => p \in FixedRows
    BY <2>2 DEF FixedRows
  <2> QED BY <2>1, <2>2, <2>3, StartKeepsRest DEF Ops
<1>5. CASE BeginDecline(w)
  <2>1. PICK p \in Answerable :
          Start(w, "save", "loaded", p, [interest[p] EXCEPT !.status = "rejected"], Revived(p))
    BY <1>5 DEF BeginDecline
  <2> QED BY <2>1, <1>1 DEF Answerable, Sent
<1>6. CASE BeginWithdraw(w) \/ BeginTurnDown(w)
  BY <1>6, <1>1 DEF BeginWithdraw, BeginTurnDown, Begin, WithAgency, WithStatus
<1>7. CASE BeginUnmatch(w) \/ BeginBlock(w) \/ BeginReport(w)
  BY <1>7, <1>1 DEF BeginUnmatch, BeginBlock, BeginReport, Begin, WithStatus, Sent
<1> QED BY <1>2, <1>3, <1>4, <1>5, <1>6, <1>7

LEMMA LoadSendRest == ASSUME IInv, RestInv, NEW w \in Workers, LoadSend(w) PROVE RestInv'
<1> DEFINE p == task[w].of
<1>1. /\ ~Idle(w) /\ task[w].at = "asked" /\ p \in Pairs
      /\ UNCHANGED <<interest, said, agreed, disturbed>>
  BY HeldFact DEF LoadSend, At, Idle
<1>2. ASSUME NEW step \in {"loaded", "inserting"}, NEW row \in Rows,
             row.fixed = "confirmed" => p \in FixedRows,
             task' = [task EXCEPT ![w].at = step, ![w].entity[p] = row]
      PROVE  RestInv'
  <2> DEFINE entity == [task[w].entity EXCEPT ![p] = row]
             t == [task[w] EXCEPT !.at = step, !.entity = entity]
  <2>1. task' = [task EXCEPT ![w] = t]
    BY <1>2, HeldFact DEF IInv, TypeOK, Tasks
  <2>2. /\ entity \in [Pairs -> Rows] /\ entity[p] = row
        /\ \A q \in Pairs \ {p} : entity[q] = task[w].entity[q]
    BY <1>1, <1>2, HeldFact
  <2> HIDE DEF entity
  <2>3. t \in Tasks /\ t.at = step /\ t.of = p /\ t.entity = entity
    BY <2>2, HeldFact DEF Tasks, Steps
  <2> HIDE DEF t
  <2>4. task'[w] = t
    BY <2>1 DEF IInv, TypeOK
  <2>5. ASSUME Calm, Knows(w) PROVE Knows(w)'
    <3>1. Around(p) = {}
      BY <1>1, <2>5 DEF Knows
    <3>2. \A q \in Pairs \ {p} : entity[q] = NoRow
      BY <1>1, <2>2, <2>5, CalmFact DEF IInv, Serial, Held, Holding
    <3>3. \A q \in Pairs : entity[q].fixed = "confirmed" => q \in FixedRows
      BY <1>2, <2>2, <3>2, NoRowFact
    <3>4. \A q \in Pairs : entity[q].status \in Live => q = p
      BY <3>2, NoRowFact DEF Live
    <3> HIDE DEF p
    <3> QED BY <1>1, <1>2, <2>3, <2>4, <3>1, <3>3, <3>4, TableSame DEF Knows
  <2> QED BY <1>1, <2>1, <2>3, <2>5, GoOnKeepsRest
<1>3. Screening(p) \subseteq {"with_agency", "open"}
  BY DEF Screening
<1>4. CASE interest[p].status \in Live \cup Over /\ Finish(w)
  BY <1>1, <1>4, FinishKeepsRest
<1>5. ASSUME NEW s \in Screening(p),
             task' = [task EXCEPT ![w].at = "loaded", ![w].entity[p] = Reopened(interest[p], s)]
      PROVE  RestInv'
  <2>1. /\ Reopened(interest[p], s) \in Rows
        /\ Reopened(interest[p], s).fixed = interest[p].fixed
    BY <1>1, <1>3, InterestFact, ReopenedFact
  <2>2. Reopened(interest[p], s).fixed = "confirmed" => p \in FixedRows
    BY <1>1, <2>1 DEF FixedRows
  <2> QED BY <1>2, <1>5, <2>1, <2>2
<1>6. ASSUME NEW s \in Screening(p),
             task' = [task EXCEPT ![w].at = "inserting", ![w].entity[p] = Reopened(NoRow, s)]
      PROVE  RestInv'
  <2>1. /\ Reopened(NoRow, s) \in Rows
        /\ Reopened(NoRow, s).fixed = "none"
    BY <1>3, NoRowFact, ReopenedFact
  <2> QED BY <1>2, <1>6, <2>1
<1> QED BY <1>4, <1>5, <1>6 DEF LoadSend

LEMMA CheckAcceptRest ==
  ASSUME IInv, RestInv, NEW w \in Workers, CheckAccept(w) PROVE RestInv'
<1> DEFINE p == task[w].of
           t == [task[w] EXCEPT !.at = "loaded"]
<1>1. /\ ~Idle(w) /\ task[w].at = "checking" /\ task[w].op = "accept" /\ p \in Pairs
      /\ UNCHANGED <<interest, said, agreed, disturbed>>
  BY HeldFact DEF CheckAccept, At, Idle
<1>2. CASE Finish(w)
  BY <1>1, <1>2, FinishKeepsRest
<1>3. CASE GoTo(w, "loaded") /\ ~Settled(p[1]) /\ ~Settled(p[2])
  <2>1. task' = [task EXCEPT ![w] = t]
    BY <1>3 DEF GoTo, IInv, TypeOK
  <2>2. t \in Tasks /\ t.at = "loaded" /\ t.op = "accept" /\ t.entity = task[w].entity
    BY <1>1, HeldFact DEF Tasks, Steps
  <2> HIDE DEF t
  <2>3. task'[w] = t
    BY <2>1 DEF IInv, TypeOK
  <2>4. Around(p) = {}
    BY <1>3 DEF Around, Settled, Ends
  <2>5. ASSUME Calm, Knows(w) PROVE Knows(w)'
    <3>1. \A q \in Pairs \ {p} : t.entity[q] = NoRow
      BY <1>1, <2>2, <2>5, CalmFact DEF IInv, Serial, Held, Holding
    <3>2. \A q \in Pairs : t.entity[q].status \in Live => q = p
      BY <3>1, NoRowFact DEF Live
    <3>3. \A q \in Pairs : t.entity[q].fixed = "confirmed" => q \in FixedRows
      BY <1>1, <2>2, <2>5 DEF Knows
    <3> HIDE DEF p
    <3> QED BY <1>1, <2>2, <2>3, <2>4, <3>2, <3>3, TableSame DEF Knows
  <2> QED BY <1>1, <2>1, <2>2, <2>5, GoOnKeepsRest
<1> QED BY <1>2, <1>3 DEF CheckAccept

LEMMA CheckConfirmRest ==
  ASSUME IInv, RestInv, NEW w \in Workers, CheckConfirm(w) PROVE RestInv'
<1> DEFINE p == task[w].of
           old == task[w].entity[p]
<1>1. /\ ~Idle(w) /\ task[w].at = "checking" /\ task[w].op = "confirm" /\ p \in Pairs
      /\ UNCHANGED <<interest, said, agreed, disturbed>>
  BY HeldFact DEF CheckConfirm, At, Idle
<1>2. CASE Finish(w)
  BY <1>1, <1>2, FinishKeepsRest
<1>3. ASSUME NEW side \in Sides,
             task' = [task EXCEPT ![w].at = "loaded", ![w].side = side,
                                  ![w].entity[p] = Confirmed(old, side)]
      PROVE  RestInv'
  <2> DEFINE row == Confirmed(old, side)
             entity == [task[w].entity EXCEPT ![p] = row]
             t == [task[w] EXCEPT !.at = "loaded", !.side = side, !.entity = entity]
  <2>1. task' = [task EXCEPT ![w] = t]
    BY <1>3, HeldFact DEF IInv, TypeOK, Tasks
  <2>2. row \in Rows
    BY <1>1, HeldFact, ConfirmedFact
  <2> HIDE DEF row
  <2>3. /\ entity \in [Pairs -> Rows] /\ entity[p] = row
        /\ \A q \in Pairs \ {p} : entity[q] = task[w].entity[q]
    BY <1>1, <2>2, HeldFact
  <2> HIDE DEF entity
  <2>4. t \in Tasks /\ t.at = "loaded" /\ t.op = "confirm" /\ t.of = p /\ t.entity = entity
    BY <1>1, <2>3, HeldFact DEF Tasks, Steps
  <2> HIDE DEF t
  <2>5. task'[w] = t
    BY <2>1 DEF IInv, TypeOK
  <2>6. ASSUME Calm, Knows(w) PROVE Knows(w)'
    <3>1. interest[p].status \in Live
      BY <1>1, <2>6 DEF Knows
    <3>2. \A q \in Pairs \ {p} : entity[q] = NoRow
      BY <1>1, <2>3, <2>6, CalmFact DEF IInv, Serial, Held, Holding
    <3>3. \A q \in Pairs : entity[q].status \in Live \/ entity[q].fixed = "confirmed" => q = p
      BY <3>2, NoRowFact DEF Live
    <3> HIDE DEF p
    <3> QED BY <1>1, <2>4, <2>5, <3>1, <3>3, TableSame DEF Knows
  <2> QED BY <1>1, <2>1, <2>4, <2>6, GoOnKeepsRest
<1> QED BY <1>2, <1>3 DEF CheckConfirm

(* The handler that fixed a match turns to what is still open around it. *)
LEMMA CloseOthersRest ==
  ASSUME IInv, RestInv, NEW w \in Workers, CloseOthers(w) PROVE RestInv'
<1> DEFINE p == task[w].of
           others == (WithStatus(Live) \cap Touching(p)) \ {p}
           entity == [q \in Pairs |-> IF q \in others THEN Closed(interest[q]) ELSE NoRow]
           t == [task[w] EXCEPT !.op = "save", !.at = "loaded", !.entity = entity]
<1>1. /\ ~Idle(w) /\ task[w].at = "listing" /\ p \in Pairs
      /\ UNCHANGED <<interest, said, agreed, disturbed>>
  BY HeldFact DEF CloseOthers, Idle
<1>2. SUFFICES ASSUME Calm'
               PROVE  /\ \A v \in Workers : Knows(v)'
                      /\ \A r, q \in Pairs : LeftOpen(r, q)' =>
                           \E v \in Workers : Closes(v, r, q)'
  BY DEF RestInv
<1>3. Calm /\ \A v \in Workers \ {w} : Idle(v)
  <2>1. Calm
    BY <1>1, <1>2 DEF Calm, Free
  <2> QED BY <1>1, <2>1, CalmFact
<1>4. ASSUME NEW r \in Pairs, NEW q \in Pairs, LeftOpen(r, q)'
      PROVE  r = p /\ q \in others
  <2>1. LeftOpen(r, q)
    BY <1>1, <1>4, TableSame
  <2>2. r = p
    BY <1>1, <1>3, <2>1 DEF RestInv, Closes, Idle
  <2>3. q \in Touching(p)
    BY <2>1, <2>2 DEF LeftOpen, Around, Touching, Ends
  <2>4. q \in WithStatus(Live) /\ q # p
    BY <2>1, <2>2 DEF LeftOpen, WithStatus
  <2> QED BY <2>2, <2>3, <2>4
<1>5. CASE others = {}
  <2>1. task' = [task EXCEPT ![w] = NoTask]
    BY <1>5 DEF CloseOthers, Finish
  <2>2. task'[w] = NoTask /\ \A v \in Workers \ {w} : Knows(v)'
    BY <1>3, <2>1, NoTaskFact, OthersKnow
  <2>3. Knows(w)'
    BY <2>2, NoTaskFact DEF Knows
  <2> QED BY <1>4, <1>5, <2>2, <2>3
<1>6. CASE others # {}
  <2>1. task' = [task EXCEPT ![w] = t]
    BY <1>6 DEF CloseOthers, IInv, TypeOK
  <2>2. ASSUME NEW q \in Pairs
        PROVE  /\ entity[q] \in Rows
               /\ entity[q].fixed # "confirmed" /\ entity[q].status \notin Live
               /\ q \in others => entity[q].status # "absent"
    <3>1. /\ Closed(interest[q]) \in Rows
          /\ Closed(interest[q]).status \in {"unmatched", "blocked"}
      BY InterestFact, EndedFact
    <3>2. Closed(interest[q]).fixed # "confirmed"
      BY InterestFact DEF Closed, Rows
    <3>3. entity[q] = IF q \in others THEN Closed(interest[q]) ELSE NoRow
      OBVIOUS
    <3> HIDE DEF entity, others
    <3> QED BY <3>1, <3>2, <3>3, NoRowFact DEF Live
  <2>3. entity \in [Pairs -> Rows]
    BY <2>2
  <2> HIDE DEF entity, others
  <2>4. t \in Tasks /\ t.at = "loaded" /\ t.entity = entity
    BY <2>3, HeldFact DEF Tasks, Steps, Ops
  <2> HIDE DEF t
  <2>5. task'[w] = t /\ \A v \in Workers \ {w} : Knows(v)'
    BY <1>3, <2>1, <2>4, OthersKnow
  <2>6. Knows(w)'
    BY <2>2, <2>4, <2>5 DEF Knows
  <2>7. ASSUME NEW r \in Pairs, NEW q \in others PROVE q \in Pairs => Closes(w, r, q)'
    BY <2>2, <2>4, <2>5 DEF Closes, Saved
  <2> QED BY <1>4, <2>5, <2>6, <2>7
<1> QED BY <1>5, <1>6

(* Writing the rows a handler holds leaves nothing open but around the match *)
(* it has just fixed.                                                        *)
LEMMA WritingLeavesOpen ==
  ASSUME IInv, RestInv, Calm, NEW w \in Workers, task[w].at \in {"inserting", "loaded"},
         \A r \in Pairs : interest'[r] = interest[r] \/ interest'[r] = task[w].entity[r],
         task[w].at = "loaded" =>
           \A r \in Pairs : Saved(w, r) => interest'[r] = task[w].entity[r],
         NEW p \in Pairs, NEW q \in Pairs, LeftOpen(p, q)'
  PROVE  /\ task[w].at = "loaded" /\ task[w].op = "confirm" /\ p = task[w].of
         /\ task[w].entity[p].fixed = "confirmed"
<1>1. Knows(w) /\ \A v \in Workers \ {w} : Idle(v)
  BY CalmFact DEF RestInv, Idle
<1>2. p # q /\ interest'[p].fixed = "confirmed" /\ Ends(p) \cap Ends(q) # {}
      /\ interest'[q].status \in Live
  BY DEF LeftOpen, Around, FixedRows
<1>3. CASE p \in FixedRows
  <2>1. p \in Around(q)
    BY <1>2, <1>3 DEF Around
  <2>2. interest[q].status \in Live
    BY <1>1, <1>2, <2>1 DEF Knows
  <2>3. LeftOpen(p, q)
    BY <1>2, <2>1, <2>2 DEF LeftOpen
  <2>4. Closes(w, p, q)
    BY <1>1, <2>3 DEF RestInv, Closes, Idle
  <2>5. FALSE
    BY <1>2, <2>4 DEF Closes
  <2> QED BY <2>5
<1>4. CASE p \notin FixedRows
  <2>1. task[w].entity[p].fixed = "confirmed"
    BY <1>2, <1>4 DEF FixedRows
  <2> QED BY <1>1, <1>4, <2>1 DEF Knows
<1> QED BY <1>3, <1>4

LEMMA InsertRest == ASSUME IInv, RestInv, NEW w \in Workers, Insert(w) PROVE RestInv'
<1>1. /\ ~Idle(w) /\ task[w].at = "inserting" /\ UNCHANGED disturbed
      /\ task' = [task EXCEPT ![w] = NoTask]
  BY DEF Insert, Idle, Finish
<1>2. \A r \in Pairs : interest'[r] = interest[r] \/ interest'[r] = task[w].entity[r]
  BY DEF Insert, IInv, TypeOK
<1>3. SUFFICES ASSUME Calm
               PROVE  /\ \A v \in Workers : Knows(v)'
                      /\ \A p, q \in Pairs : ~LeftOpen(p, q)'
  BY <1>1 DEF RestInv, Calm, Free
<1>4. \A p, q \in Pairs : ~LeftOpen(p, q)'
  BY <1>1, <1>2, <1>3, WritingLeavesOpen
<1>5. task'[w] = NoTask /\ \A v \in Workers \ {w} : Knows(v)'
  BY <1>1, <1>3, CalmFact, NoTaskFact, OthersKnow
<1>6. Knows(w)'
  BY <1>5, NoTaskFact DEF Knows
<1> QED BY <1>4, <1>5, <1>6

(* The comparison of a save tells nobody anything. *)
LEMMA ComparedTask ==
  ASSUME IInv, NEW w \in Workers, Compare(w)
  PROVE  /\ ~Idle(w) /\ UNCHANGED <<interest, said, agreed, disturbed>>
         /\ \E t \in Tasks : /\ task' = [task EXCEPT ![w] = t]
                             /\ t.at = task[w].at /\ t.op = task[w].op /\ t.of = task[w].of
                             /\ t.side = task[w].side /\ t.entity = task[w].entity
<1>1. ~Idle(w) /\ UNCHANGED <<interest, said, agreed, disturbed>>
  BY CompareFact
<1>2. PICK changed \in [Pairs -> SUBSET Columns] :
        task' = [task EXCEPT ![w] = [task[w] EXCEPT !.compared = TRUE, !.changed = changed]]
  BY CompareFact
<1> DEFINE t == [task[w] EXCEPT !.compared = TRUE, !.changed = changed]
<1>3. task' = [task EXCEPT ![w] = t]
  BY <1>2
<1>4. /\ t \in Tasks /\ t.at = task[w].at /\ t.op = task[w].op /\ t.of = task[w].of
      /\ t.side = task[w].side /\ t.entity = task[w].entity
  BY <1>2, HeldFact DEF Tasks
<1> HIDE DEF t
<1> QED BY <1>1, <1>3, <1>4

LEMMA CompareRest == ASSUME IInv, RestInv, NEW w \in Workers, Compare(w) PROVE RestInv'
<1>1. PICK t \in Tasks : /\ task' = [task EXCEPT ![w] = t]
                         /\ t.at = task[w].at /\ t.op = task[w].op /\ t.of = task[w].of
                         /\ t.side = task[w].side /\ t.entity = task[w].entity
  BY ComparedTask
<1>2. UNCHANGED <<interest, said, agreed, disturbed>>
  BY ComparedTask
<1>3. \A v \in Workers : /\ task'[v].at = task[v].at /\ task'[v].op = task[v].op
                          /\ task'[v].of = task[v].of /\ task'[v].entity = task[v].entity
  BY <1>1 DEF IInv, TypeOK
<1>4. Calm' = Calm
  BY <1>2 DEF Calm, Free
<1>5. \A v \in Workers : Knows(v) => Knows(v)'
  <2> SUFFICES ASSUME NEW v \in Workers, Knows(v) PROVE Knows(v)'
    OBVIOUS
  <2>1. task[v].of \in Pairs
    BY HeldFact
  <2> QED BY <1>2, <1>3, <2>1, TableSame DEF Knows
<1>6. \A v \in Workers, p, q \in Pairs : Closes(v, p, q) => Closes(v, p, q)'
  BY <1>3 DEF Closes, Saved
<1> QED BY <1>2, <1>4, <1>5, <1>6, TableSame DEF RestInv

LEMMA SaveRest == ASSUME IInv, RestInv, NEW w \in Workers, Save(w) PROVE RestInv'
<1> DEFINE listing == [task EXCEPT ![w].at = "listing", ![w].compared = FALSE,
                                   ![w].changed = NoChange]
<1>1. /\ ~Idle(w) /\ task[w].at = "loaded" /\ UNCHANGED disturbed
      /\ IF task[w].op = "confirm" /\ task[w].entity[task[w].of].fixed = "confirmed"
         THEN task' = listing ELSE Finish(w)
  BY DEF Save, Idle
<1>3. SUFFICES ASSUME Calm
               PROVE  /\ \A v \in Workers : Knows(v)'
                      /\ \A p, q \in Pairs : LeftOpen(p, q)' => Closes(w, p, q)'
  BY <1>1 DEF RestInv, Calm, Free
<1>2. /\ \A r \in Pairs : interest'[r] = interest[r] \/ interest'[r] = task[w].entity[r]
      /\ \A r \in Pairs : Saved(w, r) => interest'[r] = task[w].entity[r]
  BY <1>3, SaveWrites, CalmFact
<1>4. PICK t \in Tasks : /\ task' = [task EXCEPT ![w] = t]
                         /\ t.at \in {"idle", "listing"}
                         /\ task[w].op = "confirm"
                            /\ task[w].entity[task[w].of].fixed = "confirmed" =>
                              t.at = "listing" /\ t.of = task[w].of
  <2>1. CASE Finish(w) /\ ~(task[w].op = "confirm"
                            /\ task[w].entity[task[w].of].fixed = "confirmed")
    BY <2>1, NoTaskFact DEF Finish
  <2>2. CASE task' = listing
    <3> DEFINE t == [task[w] EXCEPT !.at = "listing", !.compared = FALSE,
                                    !.changed = NoChange]
    <3>1. task' = [task EXCEPT ![w] = t]
      BY <2>2, HeldFact DEF IInv, TypeOK, Tasks
    <3>2. t \in Tasks /\ t.at = "listing" /\ t.of = task[w].of
      BY HeldFact, NoTaskFact DEF Tasks, Steps
    <3> HIDE DEF t
    <3> QED BY <3>1, <3>2
  <2> QED BY <1>1, <2>1, <2>2
<1>5. task'[w] = t /\ \A v \in Workers \ {w} : Knows(v)'
  BY <1>1, <1>3, <1>4, CalmFact, OthersKnow
<1>6. Knows(w)'
  BY <1>4, <1>5 DEF Knows
<1>7. ASSUME NEW p \in Pairs, NEW q \in Pairs, LeftOpen(p, q)' PROVE Closes(w, p, q)'
  <2>1. /\ task[w].op = "confirm" /\ p = task[w].of
        /\ task[w].entity[p].fixed = "confirmed"
    BY <1>1, <1>2, <1>3, <1>7, WritingLeavesOpen
  <2> QED BY <1>4, <1>5, <2>1 DEF Closes
<1> QED BY <1>5, <1>6, <1>7

LEMMA DieRest == ASSUME IInv, RestInv, NEW w \in Workers, Die(w) PROVE RestInv'
<1>1. ~Calm'
  BY DisturbCalm DEF Die
<1> QED BY <1>1 DEF RestInv

LEMMA NextRestInv == IInv /\ RestInv /\ [Next]_vars => RestInv'
<1> SUFFICES ASSUME IInv, RestInv, [Next]_vars PROVE RestInv'
  OBVIOUS
<1>1. ASSUME NEW w \in Workers, Approach(w) PROVE RestInv'
  BY <1>1, BeginSendRest, LoadSendRest, InsertRest, BeginOnRowRest, CheckAcceptRest
     DEF Approach
<1>2. ASSUME NEW w \in Workers, Settle(w) PROVE RestInv'
  BY <1>2, BeginOnRowRest, CheckConfirmRest, CloseOthersRest, CompareRest,
     SaveRest DEF Settle
<1>3. ASSUME NEW w \in Workers, Die(w) PROVE RestInv'
  BY <1>3, DieRest
<1>4. CASE UNCHANGED vars
  BY <1>4 DEF vars, RestInv, Calm, Free, Knows, Closes, Saved, LeftOpen, Around, FixedRows
<1> QED BY <1>1, <1>2, <1>3, <1>4 DEF Next

-----------------------------------------------------------------------------
(* Whose word a confirmation is *)

Unrevived == Free({"overlap", "revival"})

(* A row that is not accepted and can be sent again carries no confirmation. *)
Blank(row) ==
  row.status \in {"absent", "pending", "rejected", "withdrawn"} => row.confirmed = {}

(* The confirmations on a row that is about to be accepted again. *)
Words(w, p) ==
  IF task[w].op # "confirm" THEN {}
  ELSE IF task[w].at = "loaded" THEN said[p] \cup {task[w].side} ELSE said[p]

Quotes(w) ==
  /\ task[w].at \in {"inserting", "checking", "loaded"} =>
       \A p \in Pairs :
         /\ Blank(task[w].entity[p])
         /\ task[w].entity[p].status = "accepted" =>
              task[w].entity[p].confirmed \subseteq Words(w, p)
  /\ task[w].at = "checking" /\ task[w].op = "confirm" =>
       task[w].entity[task[w].of].status = "accepted"

(* What an accepted row calls confirmed was said of this acceptance. *)
WordInv ==
  Unrevived =>
    /\ \A p \in Pairs :
         /\ Blank(interest[p])
         /\ interest[p].status = "accepted" => interest[p].confirmed \subseteq said[p]
    /\ \A w \in Workers : Quotes(w)

LEMMA NoRowIsBlank == NoRow.confirmed = {} /\ NoRow.status = "absent" /\ Blank(NoRow)
BY DEF NoRow, Blank

LEMMA InitWordInv == Init => WordInv
<1> SUFFICES ASSUME Init PROVE WordInv
  OBVIOUS
<1>1. \A p \in Pairs : interest[p] = NoRow
  BY NoTaskFact DEF Init
<1>2. \A w \in Workers : task[w].at = "idle"
  BY NoTaskFact DEF Init
<1> QED BY <1>1, <1>2, NoRowIsBlank DEF WordInv, Quotes

LEMMA DisturbUnrevived ==
  ASSUME IInv, NEW kinds, Disturb(kinds)
  PROVE  Unrevived' => Unrevived /\ "overlap" \notin kinds /\ "revival" \notin kinds
<1>1. disturbed \in [Disturbances -> Nat]
  BY BoundsAssumption DEF IInv, TypeOK
<1>2. disturbed' = [d \in Disturbances |->
                     IF d \in kinds THEN disturbed[d] + 1 ELSE disturbed[d]]
  BY DEF Disturb
<1>3. "overlap" \in Disturbances /\ "revival" \in Disturbances
  BY DEF Disturbances
<1> QED BY <1>1, <1>2, <1>3 DEF Unrevived, Free

LEMMA OthersAreIdle ==
  ASSUME IInv, Unrevived, NEW w \in Workers, ~Idle(w)
  PROVE  \A v \in Workers \ {w} : Idle(v)
BY DEF Unrevived, Free, IInv, Serial, Alone

(* A step after which only this handler can be in flight. *)
LEMMA WordStepKeeps ==
  ASSUME IInv, WordInv, NEW w \in Workers, NEW t \in Tasks,
         task' = [task EXCEPT ![w] = t],
         Unrevived' => Unrevived /\ \A v \in Workers \ {w} : Idle(v),
         Unrevived' => Quotes(w)',
         Unrevived' =>
           \A p \in Pairs :
             /\ Blank(interest'[p])
             /\ interest'[p].status = "accepted" => interest'[p].confirmed \subseteq said'[p]
  PROVE  WordInv'
<1>1. ASSUME Unrevived', NEW v \in Workers \ {w} PROVE Quotes(v)'
  <2>1. task'[v].at = "idle"
    BY <1>1 DEF IInv, TypeOK, Idle
  <2> QED BY <2>1 DEF Quotes
<1>2. Unrevived' => \A p \in Pairs :
        /\ Blank(interest[p])'
        /\ interest'[p].status = "accepted" => interest'[p].confirmed \subseteq said'[p]
  BY DEF Blank
<1> QED BY <1>1, <1>2 DEF WordInv

LEMMA StartKeepsWords ==
  ASSUME IInv, WordInv, NEW w \in Workers, NEW op \in Ops,
         NEW step \in {"asked", "checking", "loaded"},
         NEW p \in Pairs, NEW row \in Rows, NEW more,
         Unrevived /\ "revival" \notin more =>
           /\ Blank(row)
           /\ row.status = "accepted" =>
                row.confirmed \subseteq (IF op = "confirm" THEN said[p] ELSE {}),
         op = "confirm" => row.status = "accepted",
         Start(w, op, step, p, row, more)
  PROVE  WordInv'
<1> DEFINE entity == [NoEntity EXCEPT ![p] = row]
           t == [op |-> op, at |-> step, of |-> p, side |-> "from", entity |-> entity,
                 compared |-> FALSE, changed |-> NoChange]
           kinds == Overlapping(w) \cup more
<1>1. /\ Idle(w) /\ task' = [task EXCEPT ![w] = t] /\ Disturb(kinds)
      /\ UNCHANGED <<interest, said, agreed>>
  BY DEF Start
<1>2. /\ entity \in [Pairs -> Rows] /\ entity[p] = row
      /\ \A q \in Pairs \ {p} : entity[q] = NoRow
  BY NoTaskFact, NoRowFact
<1>3. Overlapping(w) \subseteq kinds /\ more \subseteq kinds
  OBVIOUS
<1> HIDE DEF entity, kinds
<1>4. t \in Tasks /\ t.at = step /\ t.of = p /\ t.op = op /\ t.entity = entity
  BY <1>2, NoTaskFact DEF Tasks, Steps, Sides
<1> HIDE DEF t
<1>5. task'[w] = t
  BY <1>1 DEF IInv, TypeOK
<1>6. Unrevived' => /\ Unrevived /\ "revival" \notin more
                    /\ \A v \in Workers \ {w} : Idle(v)
  <2>1. Unrevived' => Unrevived /\ "overlap" \notin kinds /\ "revival" \notin kinds
    BY <1>1, DisturbUnrevived
  <2> QED BY <1>3, <2>1 DEF Overlapping
<1>7. ASSUME Unrevived' PROVE Quotes(w)'
  <2>1. ASSUME NEW q \in Pairs
        PROVE  /\ Blank(entity[q])
               /\ entity[q].status = "accepted" =>
                    entity[q].confirmed \subseteq (IF op = "confirm" THEN said[q] ELSE {})
    BY <1>2, <1>6, <1>7, NoRowIsBlank
  <2>2. \A q \in Pairs : (IF op = "confirm" THEN said[q] ELSE {}) \subseteq Words(w, q)'
    BY <1>1, <1>4, <1>5 DEF Words
  <2>3. \A q \in Pairs : task'[w].entity[q] = entity[q]
    BY <1>4, <1>5
  <2>4. op = "confirm" => task'[w].entity[p].status = "accepted"
    BY <1>2, <1>4, <1>5
  <2> QED BY <1>4, <1>5, <2>1, <2>2, <2>3, <2>4 DEF Quotes, Blank
<1>8. Unrevived' =>
        \A q \in Pairs :
          /\ Blank(interest'[q])
          /\ interest'[q].status = "accepted" => interest'[q].confirmed \subseteq said'[q]
  BY <1>1, <1>6 DEF WordInv
<1> QED BY <1>1, <1>4, <1>6, <1>7, <1>8, WordStepKeeps

LEMMA GoOnKeepsWords ==
  ASSUME IInv, WordInv, NEW w \in Workers, NEW t \in Tasks, ~Idle(w),
         task' = [task EXCEPT ![w] = t], UNCHANGED <<interest, said, agreed, disturbed>>,
         Unrevived /\ Quotes(w) => Quotes(w)'
  PROVE  WordInv'
<1>1. Unrevived' = Unrevived
  BY DEF Unrevived, Free
<1>2. Unrevived => /\ Quotes(w)
                   /\ \A p \in Pairs :
                        /\ Blank(interest'[p])
                        /\ interest'[p].status = "accepted" =>
                             interest'[p].confirmed \subseteq said'[p]
  BY DEF WordInv
<1>3. Unrevived => \A v \in Workers \ {w} : Idle(v)
  BY OthersAreIdle
<1> QED BY <1>1, <1>2, <1>3, WordStepKeeps

LEMMA FinishKeepsWords ==
  ASSUME IInv, WordInv, NEW w \in Workers, ~Idle(w), Finish(w),
         UNCHANGED <<interest, said, agreed, disturbed>>
  PROVE  WordInv'
<1>1. task' = [task EXCEPT ![w] = NoTask]
  BY DEF Finish
<1>2. task'[w].at = "idle"
  BY <1>1, NoTaskFact DEF IInv, TypeOK
<1>3. Quotes(w)'
  BY <1>2 DEF Quotes
<1> QED BY <1>1, <1>3, NoTaskFact, GoOnKeepsWords

LEMMA BeginSendWords == ASSUME IInv, WordInv, NEW w \in Workers, BeginSend(w) PROVE WordInv'
<1>1. PICK p \in Pairs : Start(w, "send", "asked", p, NoRow, {})
  BY DEF BeginSend, Begin
<1> QED BY <1>1, NoRowFact, NoRowIsBlank, StartKeepsWords DEF Ops

LEMMA BeginOnRowWords ==
  ASSUME IInv, WordInv, NEW w \in Workers,
         \/ BeginAccept(w) \/ BeginDecline(w) \/ BeginWithdraw(w)
         \/ BeginForward(w) \/ BeginTurnDown(w)
         \/ BeginUnmatch(w) \/ BeginBlock(w) \/ BeginReport(w) \/ BeginConfirm(w)
  PROVE  WordInv'
<1>1. ASSUME NEW p \in Pairs PROVE Unrevived => Blank(interest[p])
  BY DEF WordInv
(* Ending an interest: the row may not be sent again. *)
<1>2. ASSUME NEW p \in Pairs,
             NEW row \in {Unmatched(interest[p]), Blocked(interest[p]), Reported(interest[p])},
             Start(w, "save", "loaded", p, row, {})
      PROVE  WordInv'
  <2>1. row \in Rows /\ row.status \in {"unmatched", "blocked"}
    BY InterestFact, EndedFact
  <2>2. Blank(row) /\ row.status # "accepted"
    BY <2>1 DEF Blank
  <2> QED BY <1>2, <2>1, <2>2, StartKeepsWords DEF Ops
(* Answering one that waits for an answer, which nobody has confirmed. *)
<1>3. ASSUME NEW p \in Pairs, NEW more, NEW op \in {"accept", "save"},
             NEW step \in {"checking", "loaded"},
             Unrevived /\ "revival" \notin more => interest[p].status = "pending",
             NEW row,
             row \in {[interest[p] EXCEPT !.status = "accepted"],
                      [interest[p] EXCEPT !.status = "rejected"],
                      [interest[p] EXCEPT !.status = "withdrawn"],
                      [interest[p] EXCEPT !.screening = "open"],
                      [interest[p] EXCEPT !.status = "rejected", !.screening = "declined"]},
             Start(w, op, step, p, row, more)
      PROVE  WordInv'
  <2>1. interest[p] \in Rows
    BY InterestFact
  <2>2. row \in Rows /\ row.confirmed = interest[p].confirmed
    BY <1>3, <2>1 DEF Rows, Statuses, HeldFromClient
  <2>3. Unrevived /\ "revival" \notin more => row.confirmed = {}
    BY <1>1, <1>3, <2>2 DEF Blank
  <2>4. op \in Ops /\ op # "confirm"
    BY DEF Ops
  <2>5. Unrevived /\ "revival" \notin more =>
          /\ Blank(row)
          /\ row.status = "accepted" =>
               row.confirmed \subseteq (IF op = "confirm" THEN said[p] ELSE {})
    BY <2>3 DEF Blank
  <2> QED BY <1>3, <2>2, <2>4, <2>5, StartKeepsWords
<1>4. ASSUME NEW p \in Pairs, "revival" \notin Revived(p) PROVE interest[p].status = "pending"
  BY <1>4 DEF Revived
<1>5. CASE BeginAccept(w)
  <2>1. PICK p \in Pairs : Start(w, "accept", "checking", p,
          [interest[p] EXCEPT !.status = "accepted"], Revived(p))
    BY <1>5 DEF BeginAccept, Answerable, Sent
  <2> QED BY <2>1, <1>3, <1>4
<1>6. CASE BeginDecline(w)
  <2>1. PICK p \in Pairs : Start(w, "save", "loaded", p,
          [interest[p] EXCEPT !.status = "rejected"], Revived(p))
    BY <1>6 DEF BeginDecline, Answerable, Sent
  <2> QED BY <2>1, <1>3, <1>4
<1>7. CASE BeginWithdraw(w) \/ BeginForward(w) \/ BeginTurnDown(w)
  <2>1. PICK p \in WithStatus({"pending"}) :
          \/ Start(w, "save", "loaded", p, [interest[p] EXCEPT !.status = "withdrawn"], {})
          \/ Start(w, "save", "loaded", p, [interest[p] EXCEPT !.screening = "open"], {})
          \/ Start(w, "save", "loaded", p,
               [interest[p] EXCEPT !.status = "rejected", !.screening = "declined"], {})
    BY <1>7 DEF BeginWithdraw, BeginForward, BeginTurnDown, Begin, WithAgency
  <2>2. p \in Pairs /\ interest[p].status = "pending"
    BY DEF WithStatus
  <2> QED BY <2>1, <2>2, <1>3
<1>8. CASE BeginUnmatch(w) \/ BeginBlock(w) \/ BeginReport(w)
  BY <1>8, <1>2 DEF BeginUnmatch, BeginBlock, BeginReport, Begin, WithStatus, Sent
<1>9. CASE BeginConfirm(w)
  <2>1. PICK p \in WithStatus({"accepted"}) :
          Start(w, "confirm", "checking", p, interest[p], {})
    BY <1>9 DEF BeginConfirm, Begin
  <2>2. p \in Pairs /\ interest[p] \in Rows /\ interest[p].status = "accepted"
    BY InterestFact DEF WithStatus
  <2>3. Unrevived => Blank(interest[p])
                     /\ (interest[p].status = "accepted" => interest[p].confirmed \subseteq said[p])
    BY <2>2 DEF WordInv
  <2> QED BY <2>1, <2>2, <2>3, StartKeepsWords DEF Ops
<1> QED BY <1>5, <1>6, <1>7, <1>8, <1>9

LEMMA LoadSendWords == ASSUME IInv, WordInv, NEW w \in Workers, LoadSend(w) PROVE WordInv'
<1> DEFINE p == task[w].of
<1>1. /\ ~Idle(w) /\ task[w].at = "asked" /\ task[w].op = "send" /\ p \in Pairs
      /\ UNCHANGED <<interest, said, agreed, disturbed>>
  BY HeldFact DEF LoadSend, At, Idle
<1>2. ASSUME NEW step \in {"loaded", "inserting"}, NEW row \in Rows,
             Unrevived => row.confirmed = {},
             task' = [task EXCEPT ![w].at = step, ![w].entity[p] = row]
      PROVE  WordInv'
  <2> DEFINE entity == [task[w].entity EXCEPT ![p] = row]
             t == [task[w] EXCEPT !.at = step, !.entity = entity]
  <2>1. task' = [task EXCEPT ![w] = t]
    BY <1>2, HeldFact DEF IInv, TypeOK, Tasks
  <2>2. /\ entity \in [Pairs -> Rows] /\ entity[p] = row
        /\ \A q \in Pairs \ {p} : entity[q] = task[w].entity[q]
    BY <1>1, <1>2, HeldFact
  <2> HIDE DEF entity
  <2>3. t \in Tasks /\ t.at = step /\ t.entity = entity
    BY <2>2, HeldFact DEF Tasks, Steps
  <2> HIDE DEF t
  <2>4. task'[w] = t
    BY <2>1 DEF IInv, TypeOK
  <2>5. ASSUME Unrevived PROVE Quotes(w)'
    <3>1. \A q \in Pairs \ {p} : entity[q] = NoRow
      BY <1>1, <2>2, <2>5 DEF Unrevived, Free, IInv, Serial, Held, Holding
    <3>2. \A q \in Pairs : entity[q].confirmed = {}
      BY <1>2, <2>2, <2>5, <3>1, NoRowIsBlank
    <3>3. \A q \in Pairs : task'[w].entity[q].confirmed = {}
      BY <2>3, <2>4, <3>2
    <3>4. task'[w].at # "checking"
      BY <1>2, <2>3, <2>4
    <3> QED BY <3>3, <3>4 DEF Quotes, Blank
  <2> QED BY <1>1, <2>1, <2>3, <2>5, GoOnKeepsWords
<1>3. Screening(p) \subseteq {"with_agency", "open"}
  BY DEF Screening
<1>4. CASE Finish(w)
  BY <1>1, <1>4, FinishKeepsWords
<1>5. ASSUME interest[p].status \in {"withdrawn", "rejected"}, NEW s \in Screening(p),
             task' = [task EXCEPT ![w].at = "loaded", ![w].entity[p] = Reopened(interest[p], s)]
      PROVE  WordInv'
  <2>1. /\ Reopened(interest[p], s) \in Rows
        /\ Reopened(interest[p], s).confirmed = interest[p].confirmed
    BY <1>1, <1>3, InterestFact, ReopenedFact DEF Reopened, Rows
  <2>2. Unrevived => interest[p].confirmed = {}
    BY <1>1, <1>5 DEF WordInv, Blank
  <2> QED BY <1>2, <1>5, <2>1, <2>2
<1>6. ASSUME NEW s \in Screening(p),
             task' = [task EXCEPT ![w].at = "inserting", ![w].entity[p] = Reopened(NoRow, s)]
      PROVE  WordInv'
  <2>1. /\ Reopened(NoRow, s) \in Rows
        /\ Reopened(NoRow, s).confirmed = {}
    BY <1>3, NoRowFact, ReopenedFact, NoRowIsBlank DEF Reopened, Rows
  <2> QED BY <1>2, <1>6, <2>1
<1> QED BY <1>4, <1>5, <1>6 DEF LoadSend

LEMMA CheckAcceptWords ==
  ASSUME IInv, WordInv, NEW w \in Workers, CheckAccept(w) PROVE WordInv'
<1> DEFINE t == [task[w] EXCEPT !.at = "loaded"]
<1>1. /\ ~Idle(w) /\ task[w].at = "checking" /\ task[w].op = "accept"
      /\ UNCHANGED <<interest, said, agreed, disturbed>>
  BY DEF CheckAccept, At, Idle
<1>2. CASE Finish(w)
  BY <1>1, <1>2, FinishKeepsWords
<1>3. CASE GoTo(w, "loaded")
  <2>1. task' = [task EXCEPT ![w] = t]
    BY <1>3 DEF GoTo, IInv, TypeOK
  <2>2. t \in Tasks /\ t.at = "loaded" /\ t.op = "accept" /\ t.entity = task[w].entity
    BY <1>1, HeldFact DEF Tasks, Steps
  <2> HIDE DEF t
  <2>3. task'[w] = t
    BY <2>1 DEF IInv, TypeOK
  <2>4. Quotes(w) => Quotes(w)'
    BY <1>1, <2>2, <2>3 DEF Quotes, Words, Blank
  <2> QED BY <1>1, <2>1, <2>2, <2>4, GoOnKeepsWords
<1> QED BY <1>2, <1>3 DEF CheckAccept

LEMMA CheckConfirmWords ==
  ASSUME IInv, WordInv, NEW w \in Workers, CheckConfirm(w) PROVE WordInv'
<1> DEFINE p == task[w].of
           old == task[w].entity[p]
<1>1. /\ ~Idle(w) /\ task[w].at = "checking" /\ task[w].op = "confirm" /\ p \in Pairs
      /\ UNCHANGED <<interest, said, agreed, disturbed>>
  BY HeldFact DEF CheckConfirm, At, Idle
<1>2. CASE Finish(w)
  BY <1>1, <1>2, FinishKeepsWords
<1>3. ASSUME NEW side \in Sides,
             task' = [task EXCEPT ![w].at = "loaded", ![w].side = side,
                                  ![w].entity[p] = Confirmed(old, side)]
      PROVE  WordInv'
  <2> DEFINE row == Confirmed(old, side)
             entity == [task[w].entity EXCEPT ![p] = row]
             t == [task[w] EXCEPT !.at = "loaded", !.side = side, !.entity = entity]
  <2>1. task' = [task EXCEPT ![w] = t]
    BY <1>3, HeldFact DEF IInv, TypeOK, Tasks
  <2>2. old \in Rows
    BY <1>1, HeldFact
  <2>3. row \in Rows /\ row.status = old.status /\ row.confirmed = old.confirmed \cup {side}
    <3>1. row \in Rows /\ row.status = old.status
      BY <1>1, <2>2, HeldFact, ConfirmedFact
    <3>2. row.confirmed = old.confirmed \cup {side}
      BY <2>2 DEF Confirmed, Rows
    <3> QED BY <3>1, <3>2
  <2> HIDE DEF row
  <2>4. /\ entity \in [Pairs -> Rows] /\ entity[p] = row
        /\ \A q \in Pairs \ {p} : entity[q] = task[w].entity[q]
    BY <1>1, <2>3, HeldFact
  <2> HIDE DEF entity
  <2>5. /\ t \in Tasks /\ t.at = "loaded" /\ t.op = "confirm" /\ t.side = side
        /\ t.entity = entity
    BY <1>1, <2>4, HeldFact DEF Tasks, Steps
  <2> HIDE DEF t
  <2>6. task'[w] = t
    BY <2>1 DEF IInv, TypeOK
  <2>7. ASSUME Unrevived, Quotes(w) PROVE Quotes(w)'
    <3>1. old.status = "accepted"
      BY <1>1, <2>7 DEF WordInv, Quotes
    <3>2. old.confirmed \subseteq said[p]
      BY <1>1, <2>7, <3>1 DEF Quotes, Words
    <3>3. \A q \in Pairs \ {p} : entity[q] = NoRow
      BY <1>1, <2>4, <2>7 DEF Unrevived, Free, IInv, Serial, Held, Holding
    <3>4. ASSUME NEW q \in Pairs
          PROVE  /\ Blank(entity[q])
                 /\ entity[q].status = "accepted" =>
                      entity[q].confirmed \subseteq said[q] \cup {side}
      <4>1. CASE q = p
        BY <2>3, <2>4, <3>1, <3>2, <4>1 DEF Blank
      <4>2. CASE q # p
        BY <3>3, <4>2, NoRowIsBlank
      <4> QED BY <4>1, <4>2
    <3>5. \A q \in Pairs : Words(w, q)' = said[q] \cup {side}
      BY <1>1, <2>5, <2>6 DEF Words
    <3>6. \A q \in Pairs : task'[w].entity[q] = entity[q]
      BY <2>5, <2>6
    <3>7. task'[w].at # "checking"
      BY <2>5, <2>6
    <3> QED BY <3>4, <3>5, <3>6, <3>7 DEF Quotes, Blank
  <2> QED BY <1>1, <2>1, <2>5, <2>7, GoOnKeepsWords
<1> QED BY <1>2, <1>3 DEF CheckConfirm

LEMMA CloseOthersWords ==
  ASSUME IInv, WordInv, NEW w \in Workers, CloseOthers(w) PROVE WordInv'
<1> DEFINE p == task[w].of
           others == (WithStatus(Live) \cap Touching(p)) \ {p}
           entity == [q \in Pairs |-> IF q \in others THEN Closed(interest[q]) ELSE NoRow]
           t == [task[w] EXCEPT !.op = "save", !.at = "loaded", !.entity = entity]
<1>1. ~Idle(w) /\ UNCHANGED <<interest, said, agreed, disturbed>>
  BY DEF CloseOthers, Idle
<1>2. CASE Finish(w)
  BY <1>1, <1>2, FinishKeepsWords
<1>3. CASE task' = [task EXCEPT ![w].op = "save", ![w].at = "loaded", ![w].entity = entity]
  <2>1. task' = [task EXCEPT ![w] = t]
    BY <1>3 DEF IInv, TypeOK
  <2>2. ASSUME NEW q \in Pairs
        PROVE  entity[q] \in Rows /\ Blank(entity[q]) /\ entity[q].status # "accepted"
    <3>1. /\ Closed(interest[q]) \in Rows
          /\ Closed(interest[q]).status \in {"unmatched", "blocked"}
      BY InterestFact, EndedFact
    <3>2. entity[q] = Closed(interest[q]) \/ entity[q] = NoRow
      OBVIOUS
    <3> HIDE DEF entity
    <3> QED BY <3>1, <3>2, NoRowFact, NoRowIsBlank DEF Blank
  <2>3. entity \in [Pairs -> Rows]
    BY <2>2
  <2> HIDE DEF entity
  <2>4. t \in Tasks /\ t.at = "loaded" /\ t.entity = entity
    BY <2>3, HeldFact DEF Tasks, Steps, Ops
  <2> HIDE DEF t
  <2>5. task'[w] = t
    BY <2>1 DEF IInv, TypeOK
  <2>6. Quotes(w)'
    <3>1. \A q \in Pairs : task'[w].entity[q] = entity[q]
      BY <2>4, <2>5
    <3>2. task'[w].at # "checking"
      BY <2>4, <2>5
    <3> QED BY <2>2, <3>1, <3>2 DEF Quotes, Blank
  <2> QED BY <1>1, <2>1, <2>4, <2>6, GoOnKeepsWords
<1> QED BY <1>2, <1>3 DEF CloseOthers

LEMMA InsertWords == ASSUME IInv, WordInv, NEW w \in Workers, Insert(w) PROVE WordInv'
<1>1. /\ ~Idle(w) /\ task[w].at = "inserting" /\ UNCHANGED <<said, agreed, disturbed>>
      /\ task' = [task EXCEPT ![w] = NoTask]
  BY DEF Insert, Idle, Finish
<1>2. \A r \in Pairs : interest'[r] = interest[r]
                       \/ (interest'[r] = task[w].entity[r] /\ r = task[w].of)
  BY DEF Insert, IInv, TypeOK
<1>3. Unrevived' = Unrevived
  BY <1>1 DEF Unrevived, Free
<1>4. Quotes(w)'
  <2>1. task'[w].at = "idle"
    BY <1>1, NoTaskFact DEF IInv, TypeOK
  <2> QED BY <2>1 DEF Quotes
<1>5. ASSUME Unrevived, NEW q \in Pairs
      PROVE  /\ Blank(interest'[q])
             /\ interest'[q].status = "accepted" => interest'[q].confirmed \subseteq said'[q]
  <2>1. /\ Blank(interest[q])
        /\ interest[q].status = "accepted" => interest[q].confirmed \subseteq said[q]
    BY <1>5 DEF WordInv
  <2>2. /\ Blank(task[w].entity[q])
        /\ task[w].entity[q].status = "accepted" =>
             task[w].entity[q].confirmed \subseteq said[q]
    BY <1>1, <1>5 DEF WordInv, Quotes, Words
  <2> QED BY <1>1, <1>2, <2>1, <2>2
<1>6. Unrevived => \A v \in Workers \ {w} : Idle(v)
  BY <1>1, OthersAreIdle
<1> QED BY <1>1, <1>3, <1>4, <1>5, <1>6, NoTaskFact, WordStepKeeps

LEMMA CompareWords == ASSUME IInv, WordInv, NEW w \in Workers, Compare(w) PROVE WordInv'
<1>1. PICK t \in Tasks : /\ task' = [task EXCEPT ![w] = t]
                         /\ t.at = task[w].at /\ t.op = task[w].op /\ t.of = task[w].of
                         /\ t.side = task[w].side /\ t.entity = task[w].entity
  BY ComparedTask
<1>2. ~Idle(w) /\ UNCHANGED <<interest, said, agreed, disturbed>>
  BY ComparedTask
<1>3. task'[w] = t
  BY <1>1 DEF IInv, TypeOK
<1>4. Quotes(w) => Quotes(w)'
  BY <1>1, <1>2, <1>3 DEF Quotes, Words, Blank
<1> QED BY <1>1, <1>2, <1>4, GoOnKeepsWords

LEMMA SaveWords == ASSUME IInv, WordInv, NEW w \in Workers, Save(w) PROVE WordInv'
<1> DEFINE listing == [task EXCEPT ![w].at = "listing", ![w].compared = FALSE,
                                   ![w].changed = NoChange]
<1>1. /\ ~Idle(w) /\ task[w].at = "loaded" /\ UNCHANGED disturbed
      /\ Unrevived => \A p \in Pairs :
           interest'[p] = IF Saved(w, p) THEN task[w].entity[p] ELSE interest[p]
      /\ said' = [p \in Pairs |-> IF Saved(w, p) THEN HeardAfter(w, p) ELSE said[p]]
      /\ Finish(w) \/ task' = listing
  <2>1. Finish(w) \/ task' = listing
    BY DEF Save
  <2>2. Unrevived => Free({"overlap"})
    BY DEF Unrevived, Free
  <2> HIDE DEF listing
  <2> QED BY <2>1, <2>2, SaveWrites
<1>2. Unrevived' = Unrevived
  BY <1>1 DEF Unrevived, Free
<1>3. PICK t \in Tasks : task' = [task EXCEPT ![w] = t] /\ t.at \in {"idle", "listing"}
  <2>1. CASE Finish(w)
    BY <2>1, NoTaskFact DEF Finish
  <2>2. CASE task' = listing
    <3> DEFINE t == [task[w] EXCEPT !.at = "listing", !.compared = FALSE,
                                    !.changed = NoChange]
    <3>1. task' = [task EXCEPT ![w] = t]
      BY <2>2, HeldFact DEF IInv, TypeOK, Tasks
    <3>2. t \in Tasks /\ t.at = "listing"
      BY HeldFact, NoTaskFact DEF Tasks, Steps
    <3> HIDE DEF t
    <3> QED BY <3>1, <3>2
  <2> QED BY <1>1, <2>1, <2>2
<1>4. Quotes(w)'
  <2>1. task'[w] = t
    BY <1>3 DEF IInv, TypeOK
  <2> QED BY <1>3, <2>1 DEF Quotes
<1>5. ASSUME Unrevived, NEW q \in Pairs
      PROVE  /\ Blank(interest'[q])
             /\ interest'[q].status = "accepted" => interest'[q].confirmed \subseteq said'[q]
  <2>1. CASE ~Saved(w, q)
    <3>1. interest'[q] = interest[q] /\ said'[q] = said[q]
      BY <1>1, <1>5, <2>1
    <3> QED BY <1>5, <3>1 DEF WordInv
  <2>2. CASE Saved(w, q)
    <3>1. interest'[q] = task[w].entity[q] /\ said'[q] = HeardAfter(w, q)
      BY <1>1, <1>5, <2>2
    <3>2. /\ Blank(task[w].entity[q])
          /\ task[w].entity[q].status = "accepted" =>
               task[w].entity[q].confirmed \subseteq Words(w, q)
      BY <1>1, <1>5 DEF WordInv, Quotes
    <3>3. task[w].entity[q].status = "accepted" => Words(w, q) = HeardAfter(w, q)
      BY <1>1 DEF Words, HeardAfter
    <3> QED BY <3>1, <3>2, <3>3
  <2> QED BY <2>1, <2>2
<1>6. Unrevived => \A v \in Workers \ {w} : Idle(v)
  BY <1>1, OthersAreIdle
<1> QED BY <1>2, <1>3, <1>4, <1>5, <1>6, WordStepKeeps

LEMMA DieWords == ASSUME IInv, WordInv, NEW w \in Workers, Die(w) PROVE WordInv'
<1>1. /\ ~Idle(w) /\ task' = [task EXCEPT ![w] = NoTask] /\ Disturb({"death"})
      /\ UNCHANGED <<interest, said, agreed>>
  BY DEF Die, Finish
<1>2. Unrevived' => Unrevived
  BY <1>1, DisturbUnrevived
<1>3. Quotes(w)'
  <2>1. task'[w].at = "idle"
    BY <1>1, NoTaskFact DEF IInv, TypeOK
  <2> QED BY <2>1 DEF Quotes
<1>4. Unrevived' =>
        \A q \in Pairs :
          /\ Blank(interest'[q])
          /\ interest'[q].status = "accepted" => interest'[q].confirmed \subseteq said'[q]
  BY <1>1, <1>2 DEF WordInv
<1>5. Unrevived => \A v \in Workers \ {w} : Idle(v)
  BY <1>1, OthersAreIdle
<1> QED BY <1>1, <1>2, <1>3, <1>4, <1>5, NoTaskFact, WordStepKeeps

LEMMA NextWordInv == IInv /\ WordInv /\ [Next]_vars => WordInv'
<1> SUFFICES ASSUME IInv, WordInv, [Next]_vars PROVE WordInv'
  OBVIOUS
<1>1. ASSUME NEW w \in Workers, Approach(w) PROVE WordInv'
  BY <1>1, BeginSendWords, LoadSendWords, InsertWords, BeginOnRowWords, CheckAcceptWords
     DEF Approach
<1>2. ASSUME NEW w \in Workers, Settle(w) PROVE WordInv'
  BY <1>2, BeginOnRowWords, CheckConfirmWords, CloseOthersWords, CompareWords,
     SaveWords DEF Settle
<1>3. ASSUME NEW w \in Workers, Die(w) PROVE WordInv'
  BY <1>3, DieWords
<1>4. CASE UNCHANGED vars
  BY <1>4 DEF vars, WordInv, Unrevived, Free, Quotes, Words, Blank
<1> QED BY <1>1, <1>2, <1>3, <1>4 DEF Next

-----------------------------------------------------------------------------
(* Whatever overlaps: a confirmation is somebody's word *)

Backed(row, sides) == /\ row.confirmed \subseteq sides
                      /\ row.fixed = "confirmed" => sides = Sides

(* Who has confirmed the pair once this handler's confirmation is written. *)
Agreeing(w, p) ==
  agreed[p] \cup (IF At(w, "confirm", "loaded") /\ p = task[w].of
                  THEN {task[w].side} ELSE {})

AgreeInv == /\ \A p \in Pairs : Backed(interest[p], agreed[p])
            /\ \A w \in Workers, p \in Pairs : Backed(task[w].entity[p], Agreeing(w, p))

LEMMA NoRowBacked == ASSUME NEW sides PROVE Backed(NoRow, sides)
BY DEF NoRow, Backed

LEMMA InitAgreeInv == Init => AgreeInv
BY NoTaskFact, NoRowBacked DEF Init, AgreeInv

(* A handler's step backs its own rows; the words of the others only grow. *)
LEMMA AgreeStepKeeps ==
  ASSUME IInv, AgreeInv, NEW w \in Workers, NEW t \in Tasks,
         task' = [task EXCEPT ![w] = t],
         agreed' \in [Pairs -> SUBSET Sides], \A p \in Pairs : agreed[p] \subseteq agreed'[p],
         \A p \in Pairs : Backed(interest'[p], agreed'[p]),
         \A p \in Pairs : Backed(t.entity[p], Agreeing(w, p)')
  PROVE  AgreeInv'
<1>1. task'[w] = t
  BY DEF IInv, TypeOK
<1>2. ASSUME NEW v \in Workers \ {w}, NEW p \in Pairs
      PROVE  Backed(task[v].entity[p], Agreeing(v, p))'
  <2>1. task'[v] = task[v]
    BY DEF IInv, TypeOK
  <2>2. Agreeing(v, p) \subseteq Agreeing(v, p)' /\ Agreeing(v, p)' \subseteq Sides
    BY <2>1, HeldFact DEF Agreeing, At, Tasks
  <2>3. Backed(task[v].entity[p], Agreeing(v, p))
    BY DEF AgreeInv
  <2> QED BY <2>1, <2>2, <2>3 DEF Backed
<1> QED BY <1>1, <1>2 DEF AgreeInv, Backed

(* A step that writes nothing and confirms nothing. *)
LEMMA QuietStepAgrees ==
  ASSUME IInv, AgreeInv, NEW w \in Workers, NEW t \in Tasks,
         task' = [task EXCEPT ![w] = t], UNCHANGED <<interest, agreed>>,
         \A p \in Pairs : Backed(t.entity[p], agreed[p])
  PROVE  AgreeInv'
<1>1. \A p \in Pairs : agreed[p] \subseteq Agreeing(w, p)' /\ Agreeing(w, p)' \subseteq Sides
  <2>1. task'[w] = t
    BY DEF IInv, TypeOK
  <2> QED BY <2>1 DEF Agreeing, IInv, TypeOK, Tasks
<1>2. \A p \in Pairs : Backed(t.entity[p], Agreeing(w, p)')
  BY <1>1 DEF Backed
<1> QED BY <1>2, AgreeStepKeeps DEF AgreeInv, IInv, TypeOK

LEMMA StartAgrees ==
  ASSUME IInv, AgreeInv, NEW w \in Workers, NEW op \in Ops,
         NEW step \in {"asked", "checking", "loaded"}, NEW p \in Pairs, NEW row \in Rows,
         row.confirmed \subseteq interest[p].confirmed,
         row.fixed = "confirmed" => interest[p].fixed = "confirmed",
         NEW more, Start(w, op, step, p, row, more)
  PROVE  AgreeInv'
<1> DEFINE entity == [NoEntity EXCEPT ![p] = row]
           t == [op |-> op, at |-> step, of |-> p, side |-> "from", entity |-> entity,
                 compared |-> FALSE, changed |-> NoChange]
<1>1. task' = [task EXCEPT ![w] = t] /\ UNCHANGED <<interest, agreed>>
  BY DEF Start
<1>2. /\ entity \in [Pairs -> Rows] /\ entity[p] = row
      /\ \A q \in Pairs \ {p} : entity[q] = NoRow
  BY NoTaskFact, NoRowFact
<1> HIDE DEF entity
<1>3. t \in Tasks /\ t.entity = entity
  BY <1>2, NoTaskFact DEF Tasks, Steps, Sides
<1> HIDE DEF t
<1>4. Backed(row, agreed[p])
  BY DEF AgreeInv, Backed
<1>5. \A q \in Pairs : Backed(t.entity[q], agreed[q])
  BY <1>2, <1>3, <1>4, NoRowBacked
<1> QED BY <1>1, <1>3, <1>5, QuietStepAgrees

LEMMA BeginAgrees ==
  ASSUME IInv, AgreeInv, NEW w \in Workers,
         \/ BeginSend(w) \/ BeginAccept(w) \/ BeginDecline(w) \/ BeginWithdraw(w)
         \/ BeginForward(w) \/ BeginTurnDown(w)
         \/ BeginUnmatch(w) \/ BeginBlock(w) \/ BeginReport(w) \/ BeginConfirm(w)
  PROVE  AgreeInv'
<1>1. PICK p \in Pairs, op \in Ops, step \in {"asked", "checking", "loaded"} :
        \E row, more :
          /\ Start(w, op, step, p, row, more)
          /\ row \in {NoRow, interest[p],
                      [interest[p] EXCEPT !.status = "accepted"],
                      [interest[p] EXCEPT !.status = "rejected"],
                      [interest[p] EXCEPT !.status = "withdrawn"],
                      [interest[p] EXCEPT !.screening = "open"],
                      [interest[p] EXCEPT !.status = "rejected", !.screening = "declined"],
                      Unmatched(interest[p]), Blocked(interest[p]), Reported(interest[p])}
  <2>1. {"send", "accept", "save", "confirm"} \subseteq Ops
    BY DEF Ops
  <2>2. CASE BeginSend(w) \/ BeginConfirm(w)
    BY <2>1, <2>2 DEF BeginSend, BeginConfirm, Begin, WithStatus
  <2>3. CASE BeginAccept(w) \/ BeginDecline(w)
    BY <2>1, <2>3 DEF BeginAccept, BeginDecline, Answerable, Sent
  <2>4. CASE BeginWithdraw(w) \/ BeginForward(w) \/ BeginTurnDown(w)
    BY <2>1, <2>4 DEF BeginWithdraw, BeginForward, BeginTurnDown, Begin, WithAgency, WithStatus
  <2>5. CASE BeginUnmatch(w) \/ BeginBlock(w) \/ BeginReport(w)
    BY <2>1, <2>5 DEF BeginUnmatch, BeginBlock, BeginReport, Begin, WithStatus, Sent
  <2> QED BY <2>2, <2>3, <2>4, <2>5
<1>2. PICK row, more :
        /\ Start(w, op, step, p, row, more)
        /\ row \in {NoRow, interest[p],
                    [interest[p] EXCEPT !.status = "accepted"],
                    [interest[p] EXCEPT !.status = "rejected"],
                    [interest[p] EXCEPT !.status = "withdrawn"],
                    [interest[p] EXCEPT !.screening = "open"],
                    [interest[p] EXCEPT !.status = "rejected", !.screening = "declined"],
                    Unmatched(interest[p]), Blocked(interest[p]), Reported(interest[p])}
  BY <1>1
<1>3. interest[p] \in Rows
  BY InterestFact
<1> DEFINE Keeps(new) == /\ new \in Rows /\ new.confirmed \subseteq interest[p].confirmed
                         /\ new.fixed = "confirmed" => interest[p].fixed = "confirmed"
<1>4. Keeps(NoRow) /\ Keeps(interest[p])
  BY <1>3, NoRowFact DEF NoRow
<1>5. \A s \in Statuses : Keeps([interest[p] EXCEPT !.status = s])
  BY <1>3 DEF Rows
<1>6. /\ Keeps([interest[p] EXCEPT !.screening = "open"])
      /\ Keeps([interest[p] EXCEPT !.status = "rejected", !.screening = "declined"])
  BY <1>3 DEF Rows, Statuses, HeldFromClient
<1>7. Keeps(Unmatched(interest[p]))
  BY <1>3 DEF Rows, Statuses, Unmatched
<1>8. Keeps(Blocked(interest[p])) /\ Keeps(Reported(interest[p]))
  BY <1>3 DEF Rows, Statuses, Blocked, Reported
<1>9. {"accepted", "rejected", "withdrawn"} \subseteq Statuses
  BY DEF Statuses
<1>10. Keeps(row)
  <2> HIDE DEF Keeps
  <2> QED BY <1>2, <1>4, <1>5, <1>6, <1>7, <1>8, <1>9
<1> QED BY <1>2, <1>10, StartAgrees

(* The steps of a handler in flight that write nothing. *)
LEMMA GoOnAgrees ==
  ASSUME IInv, AgreeInv, NEW w \in Workers,
         LoadSend(w) \/ CheckAccept(w) \/ CloseOthers(w) \/ Die(w) \/ Compare(w)
  PROVE  AgreeInv'
<1>1. UNCHANGED <<interest, agreed>>
  BY DEF LoadSend, CheckAccept, CloseOthers, Die, Compare
<1>2. CASE Finish(w)
  BY <1>1, <1>2, NoTaskFact, NoRowBacked, QuietStepAgrees DEF Finish
<1>3. CASE CheckAccept(w) /\ ~Finish(w)
  <2> DEFINE t == [task[w] EXCEPT !.at = "loaded"]
  <2>1. task' = [task EXCEPT ![w] = t] /\ ~At(w, "confirm", "loaded")
    BY <1>3, HeldFact DEF CheckAccept, GoTo, At, IInv, TypeOK
  <2>2. t \in Tasks /\ t.entity = task[w].entity
    BY HeldFact DEF Tasks, Steps
  <2> HIDE DEF t
  <2>3. \A p \in Pairs : Backed(t.entity[p], agreed[p])
    BY <2>1, <2>2 DEF AgreeInv, Agreeing
  <2> QED BY <1>1, <2>1, <2>2, <2>3, QuietStepAgrees
<1>4. CASE LoadSend(w) /\ ~Finish(w)
  <2> DEFINE p == task[w].of
  <2>1. PICK step \in {"loaded", "inserting"}, s \in Screening(p), old \in {interest[p], NoRow} :
          task' = [task EXCEPT ![w].at = step, ![w].entity[p] = Reopened(old, s)]
    BY <1>4 DEF LoadSend
  <2> DEFINE row == Reopened(old, s)
             entity == [task[w].entity EXCEPT ![p] = row]
             t == [task[w] EXCEPT !.at = step, !.entity = entity]
  <2>2. /\ task' = [task EXCEPT ![w] = t] /\ ~At(w, "confirm", "loaded") /\ p \in Pairs
    BY <1>4, <2>1, HeldFact DEF LoadSend, At, IInv, TypeOK, Tasks
  <2>3. row \in Rows /\ Backed(row, agreed[p])
    <3>1. old \in Rows /\ Backed(old, agreed[p])
      BY <2>2, InterestFact, NoRowFact, NoRowBacked DEF AgreeInv
    <3>2. s \in {"with_agency", "open"}
      BY DEF Screening
    <3> QED BY <3>1, <3>2 DEF Reopened, Rows, Statuses, HeldFromClient, Backed
  <2> HIDE DEF row
  <2>4. entity \in [Pairs -> Rows] /\ \A q \in Pairs : Backed(entity[q], agreed[q])
    <3>1. \A q \in Pairs : Backed(task[w].entity[q], agreed[q])
      BY <2>2 DEF AgreeInv, Agreeing
    <3> QED BY <2>2, <2>3, <3>1, HeldFact
  <2> HIDE DEF entity
  <2>5. t \in Tasks /\ t.entity = entity
    BY <2>4, HeldFact DEF Tasks, Steps
  <2> HIDE DEF t
  <2> QED BY <1>1, <2>2, <2>4, <2>5, QuietStepAgrees
<1>5. CASE CloseOthers(w) /\ ~Finish(w)
  <2> DEFINE others == (WithStatus(Live) \cap Touching(task[w].of)) \ {task[w].of}
             entity == [q \in Pairs |-> IF q \in others THEN Closed(interest[q]) ELSE NoRow]
             t == [task[w] EXCEPT !.op = "save", !.at = "loaded", !.entity = entity]
  <2>1. task' = [task EXCEPT ![w] = t]
    BY <1>5 DEF CloseOthers, IInv, TypeOK
  <2>2. ASSUME NEW q \in Pairs PROVE entity[q] \in Rows /\ Backed(entity[q], agreed[q])
    <3>1. interest[q] \in Rows /\ Backed(interest[q], agreed[q])
      BY InterestFact DEF AgreeInv
    <3>2. Closed(interest[q]) \in Rows /\ Backed(Closed(interest[q]), agreed[q])
      BY <3>1 DEF Closed, Rows, Statuses, Backed
    <3>3. entity[q] \in {Closed(interest[q]), NoRow}
      OBVIOUS
    <3> HIDE DEF entity
    <3> QED BY <3>2, <3>3, NoRowFact, NoRowBacked
  <2>3. entity \in [Pairs -> Rows]
    BY <2>2
  <2> HIDE DEF entity
  <2>4. t \in Tasks /\ t.entity = entity
    BY <2>3, HeldFact DEF Tasks, Steps, Ops
  <2> HIDE DEF t
  <2> QED BY <1>1, <2>1, <2>2, <2>4, QuietStepAgrees
<1>6. CASE Compare(w)
  <2>1. PICK t \in Tasks : /\ task' = [task EXCEPT ![w] = t]
                           /\ t.at = task[w].at /\ t.op = task[w].op /\ t.of = task[w].of
                           /\ t.side = task[w].side /\ t.entity = task[w].entity
    BY <1>6, ComparedTask
  <2>2. task'[w] = t
    BY <2>1 DEF IInv, TypeOK
  <2>3. \A p \in Pairs : Agreeing(w, p)' = Agreeing(w, p)
    BY <1>1, <2>1, <2>2 DEF Agreeing, At
  <2>4. /\ \A p \in Pairs : Backed(t.entity[p], Agreeing(w, p)')
        /\ \A p \in Pairs : Backed(interest'[p], agreed'[p])
    BY <1>1, <2>1, <2>3 DEF AgreeInv
  <2> QED BY <1>1, <2>1, <2>4, AgreeStepKeeps DEF IInv, TypeOK
<1> QED BY <1>2, <1>3, <1>4, <1>5, <1>6 DEF Die

LEMMA CheckConfirmAgrees ==
  ASSUME IInv, AgreeInv, NEW w \in Workers, CheckConfirm(w) PROVE AgreeInv'
<1> DEFINE p == task[w].of
           old == task[w].entity[p]
<1>1. /\ UNCHANGED <<interest, agreed>> /\ p \in Pairs /\ old \in Rows
      /\ At(w, "confirm", "checking")
  BY HeldFact DEF CheckConfirm
<1>2. \A q \in Pairs : Backed(task[w].entity[q], agreed[q])
  BY <1>1 DEF AgreeInv, Agreeing, At
<1>3. CASE Finish(w)
  BY <1>1, <1>3, NoTaskFact, NoRowBacked, QuietStepAgrees DEF Finish
<1>4. ASSUME NEW side \in Sides,
             task' = [task EXCEPT ![w].at = "loaded", ![w].side = side,
                                  ![w].entity[p] = Confirmed(old, side)]
      PROVE  AgreeInv'
  <2> DEFINE row == Confirmed(old, side)
             entity == [task[w].entity EXCEPT ![p] = row]
             t == [task[w] EXCEPT !.at = "loaded", !.side = side, !.entity = entity]
  <2>1. task' = [task EXCEPT ![w] = t]
    BY <1>4, HeldFact DEF IInv, TypeOK, Tasks
  <2>2. /\ row \in Rows /\ row.confirmed = old.confirmed \cup {side}
        /\ row.fixed = "confirmed" => row.confirmed = Sides
    <3>1. \A f \in {"confirmed", "pending_confirmation"} :
            LET new == [old EXCEPT !.confirmed = old.confirmed \cup {side}, !.fixed = f] IN
            new \in Rows /\ new.confirmed = old.confirmed \cup {side} /\ new.fixed = f
      BY <1>1 DEF Rows
    <3>2. row = [old EXCEPT !.confirmed = old.confirmed \cup {side},
                            !.fixed = IF old.confirmed \cup {side} = Sides
                                      THEN "confirmed" ELSE "pending_confirmation"]
      BY DEF Confirmed
    <3> HIDE DEF row, old, p
    <3>3. CASE old.confirmed \cup {side} = Sides
      BY <3>1, <3>2, <3>3
    <3>4. CASE old.confirmed \cup {side} # Sides
      BY <3>1, <3>2, <3>4
    <3> QED BY <3>3, <3>4
  <2> HIDE DEF row
  <2>3. /\ entity \in [Pairs -> Rows] /\ entity[p] = row
        /\ \A q \in Pairs \ {p} : entity[q] = task[w].entity[q]
    BY <1>1, <2>2, HeldFact
  <2> HIDE DEF entity
  <2>4. /\ t \in Tasks /\ t.entity = entity /\ t.at = "loaded" /\ t.op = "confirm"
        /\ t.of = p /\ t.side = side
    BY <1>1, <2>3, HeldFact DEF Tasks, Steps, At
  <2> HIDE DEF t
  <2>5. task'[w] = t
    BY <2>1 DEF IInv, TypeOK
  <2>6. \A q \in Pairs :
          Agreeing(w, q)' = IF q = p THEN agreed[p] \cup {side} ELSE agreed[q]
    BY <1>1, <2>4, <2>5 DEF Agreeing, At
  <2>7. Backed(row, agreed[p] \cup {side})
    <3>1. row.confirmed \subseteq agreed[p] \cup {side}
      BY <1>1, <1>2, <2>2 DEF Backed
    <3>2. agreed[p] \cup {side} \subseteq Sides
      BY <1>1 DEF IInv, TypeOK
    <3> QED BY <2>2, <3>1, <3>2 DEF Backed
  <2>8. ASSUME NEW q \in Pairs PROVE Backed(t.entity[q], Agreeing(w, q)')
    <3>1. CASE q = p
      <4>1. t.entity[q] = row /\ Agreeing(w, q)' = agreed[p] \cup {side}
        BY <2>3, <2>4, <2>6, <3>1
      <4> QED BY <2>7, <4>1
    <3>2. CASE q # p
      <4>1. t.entity[q] = task[w].entity[q] /\ Agreeing(w, q)' = agreed[q]
        BY <2>3, <2>4, <2>6, <3>2
      <4> QED BY <1>2, <4>1
    <3> QED BY <3>1, <3>2
  <2>9. \A q \in Pairs : Backed(interest'[q], agreed'[q])
    BY <1>1 DEF AgreeInv
  <2> QED BY <1>1, <2>1, <2>4, <2>8, <2>9, AgreeStepKeeps DEF IInv, TypeOK
<1> QED BY <1>3, <1>4 DEF CheckConfirm

LEMMA InsertAgrees == ASSUME IInv, AgreeInv, NEW w \in Workers, Insert(w) PROVE AgreeInv'
<1> DEFINE p == task[w].of
<1>1. /\ task' = [task EXCEPT ![w] = NoTask] /\ UNCHANGED agreed /\ p \in Pairs
      /\ interest' = interest \/ interest' = [interest EXCEPT ![p] = task[w].entity[p]]
      /\ task[w].at = "inserting"
  BY HeldFact DEF Insert, Finish
<1>2. ASSUME NEW q \in Pairs PROVE Backed(interest'[q], agreed'[q])
  <2>1. Backed(interest[q], agreed[q]) /\ Backed(task[w].entity[q], agreed[q])
    BY <1>1 DEF AgreeInv, Agreeing, At
  <2>2. interest'[q] = interest[q] \/ interest'[q] = task[w].entity[q]
    BY <1>1 DEF IInv, TypeOK
  <2> QED BY <1>1, <2>1, <2>2
<1>3. \A q \in Pairs : Backed(NoTask.entity[q], Agreeing(w, q)')
  BY NoTaskFact, NoRowBacked
<1>4. agreed' \in [Pairs -> SUBSET Sides] /\ \A q \in Pairs : agreed[q] \subseteq agreed'[q]
  BY <1>1 DEF IInv, TypeOK
<1> HIDE DEF p
<1> QED BY <1>1, <1>2, <1>3, <1>4, NoTaskFact, AgreeStepKeeps

(* Every column a save writes is the handler's, every other the table's: the *)
(* row that results is backed by the words of both.                          *)
LEMMA SaveAgrees == ASSUME IInv, AgreeInv, NEW w \in Workers, Save(w) PROVE AgreeInv'
<1> DEFINE listing == [task[w] EXCEPT !.at = "listing", !.compared = FALSE, !.changed = NoChange]
<1>1. /\ task[w].at = "loaded"
      /\ interest' = [p \in Pairs |->
           IF Saved(w, p) THEN Updated(interest[p], task[w].entity[p], task[w].changed[p])
                          ELSE interest[p]]
      /\ agreed' = IF task[w].op = "confirm"
                   THEN [agreed EXCEPT ![task[w].of] = @ \cup {task[w].side}]
                   ELSE agreed
  BY DEF Save
<1>2. /\ agreed' \in [Pairs -> SUBSET Sides]
      /\ \A p \in Pairs : agreed'[p] = Agreeing(w, p) /\ agreed[p] \subseteq agreed'[p]
  BY <1>1, HeldFact DEF Agreeing, At, IInv, TypeOK, Tasks
<1>3. ASSUME NEW p \in Pairs PROVE Backed(interest'[p], agreed'[p])
  <2>1. Backed(interest[p], agreed'[p]) /\ Backed(task[w].entity[p], agreed'[p])
    <3>1. Backed(interest[p], agreed[p]) /\ Backed(task[w].entity[p], Agreeing(w, p))
      BY DEF AgreeInv
    <3>2. /\ agreed[p] \subseteq agreed'[p] /\ Agreeing(w, p) = agreed'[p]
          /\ agreed'[p] \subseteq Sides
      BY <1>2
    <3> QED BY <3>1, <3>2 DEF Backed
  <2> DEFINE new == Updated(interest[p], task[w].entity[p], task[w].changed[p])
  <2>2. Backed(new, agreed'[p])
    <3>1. new.confirmed \subseteq task[w].entity[p].confirmed \cup interest[p].confirmed
      BY DEF Updated
    <3>2. new.fixed = interest[p].fixed \/ new.fixed = task[w].entity[p].fixed
      BY Zenon DEF Updated
    <3> HIDE DEF new
    <3> QED BY <2>1, <3>1, <3>2 DEF Backed
  <2> QED BY <1>1, <2>1, <2>2
<1>4. Finish(w) \/ task' = [task EXCEPT ![w] = listing]
  BY HeldFact DEF Save, IInv, TypeOK, Tasks
<1>5. CASE Finish(w)
  BY <1>2, <1>3, <1>5, NoTaskFact, NoRowBacked, AgreeStepKeeps DEF Finish
<1>6. CASE task' = [task EXCEPT ![w] = listing]
  <2>1. listing \in Tasks /\ listing.entity = task[w].entity /\ listing.at = "listing"
    BY HeldFact, NoTaskFact DEF Tasks, Steps
  <2> HIDE DEF listing
  <2>2. task'[w] = listing
    BY <1>6 DEF IInv, TypeOK
  <2>3. \A p \in Pairs : Agreeing(w, p)' = agreed'[p]
    BY <2>1, <2>2 DEF Agreeing, At
  <2>4. \A p \in Pairs : Backed(listing.entity[p], Agreeing(w, p)')
    BY <1>2, <2>1, <2>3 DEF AgreeInv
  <2> QED BY <1>2, <1>3, <1>6, <2>1, <2>4, AgreeStepKeeps
<1> QED BY <1>4, <1>5, <1>6

LEMMA NextAgreeInv == IInv /\ AgreeInv /\ [Next]_vars => AgreeInv'
<1> SUFFICES ASSUME IInv, AgreeInv, [Next]_vars PROVE AgreeInv'
  OBVIOUS
<1>1. ASSUME NEW w \in Workers, Approach(w) PROVE AgreeInv'
  BY <1>1, BeginAgrees, GoOnAgrees, InsertAgrees DEF Approach
<1>2. ASSUME NEW w \in Workers, Settle(w) PROVE AgreeInv'
  BY <1>2, BeginAgrees, GoOnAgrees, CheckConfirmAgrees, SaveAgrees DEF Settle
<1>3. ASSUME NEW w \in Workers, Die(w) PROVE AgreeInv'
  BY <1>3, GoOnAgrees
<1>4. CASE UNCHANGED vars
  BY <1>4 DEF vars, AgreeInv, Agreeing, At
<1> QED BY <1>1, <1>2, <1>3, <1>4 DEF Next

-----------------------------------------------------------------------------
(* The properties *)

(* Every variable keeps its type through overlaps and deaths. *)
THEOREM TypeCorrect == Spec => []TypeOK
<1>1. IInv => TypeOK
  BY DEF IInv
<1> QED BY <1>1, Inductive, PTL

(* However handlers overlap and whatever dies, no match is called fixed that *)
(* one side never confirmed: a save writes columns of the row its handler    *)
(* holds next to columns of the table, and every confirmation on either, and *)
(* every fixed state, goes back to the calls that made it.                   *)
THEOREM FixedByConsent == Spec => []FixedWasAgreedTo
<1>1. Spec => []AgreeInv
  BY InitAgreeInv, NextAgreeInv, Inductive, PTL DEF Spec
<1>2. AgreeInv => FixedWasAgreedTo
  BY DEF AgreeInv, Backed, FixedWasAgreedTo
<1> QED BY <1>1, <1>2, PTL

(* While no handlers overlap, a row confirmMatchFixed called fixed carries   *)
(* the words of both sides, whatever dies and however often an ended interest *)
(* is answered again.                                                         *)
THEOREM FixingTakesBoth == Spec => []FixedTookBoth
<1>1. IInv => FixedTookBoth
  BY DEF IInv, Serial, RowsOK, RowOK, FixedTookBoth, FixedCarriesBoth
<1> QED BY <1>1, Inductive, PTL

(* While no handlers overlap, no accepted interest is one the agency holds or *)
(* turned down: respond() looks at the screening of the copy it saves, and a  *)
(* resend hands the interest back to the agency only when it is not accepted. *)
THEOREM AgencyIsAsked == Spec => []AgencyFiltersAcceptance
<1>1. IInv => AgencyFiltersAcceptance
  BY DEF IInv, Serial, RowsOK, RowOK, AgencyFiltersAcceptance, AcceptedWasForwarded
<1> QED BY <1>1, Inductive, PTL

(* While no handlers overlap, no profile is in two fixed matches, however   *)
(* many pairs it is part of and whichever side of them it is on: the second *)
(* confirmation asks the table about both profiles.                         *)
THEOREM MatchesAreExclusive == Spec => []OneFixedMatch
<1>1. IInv => OneFixedMatch
  BY DEF IInv, Serial, OneFixed, OneFixedMatch, FixedOnce
<1> QED BY <1>1, Inductive, PTL

(* While no handler overlaps another or dies, a profile whose match is fixed *)
(* has no other live interest once the handlers are done: what was live when *)
(* the second confirmation was saved is closed by the handler that saved it, *)
(* and nothing around a fixed match becomes live again.                      *)
THEOREM FixingClosesTheRest == Spec => []FixedClosesTheRest
<1>1. Spec => []RestInv
  BY InitRestInv, NextRestInv, Inductive, PTL DEF Spec
<1>2. RestInv => FixedClosesTheRest
  <2> SUFFICES ASSUME RestInv, Quiet, Calm, NEW p \in FixedRows, NEW q \in WithStatus(Live),
                      Ends(p) \cap Ends(q) # {}
               PROVE  p = q
    BY DEF FixedClosesTheRest, Calm
  <2>1. p \in Pairs /\ q \in Pairs
    BY DEF FixedRows, WithStatus
  <2>2. ~LeftOpen(p, q)
    BY <2>1 DEF RestInv, Quiet, Idle, Closes
  <2> QED BY <2>1, <2>2 DEF LeftOpen, Around, WithStatus
<1> QED BY <1>1, <1>2, PTL

(* While no handlers overlap and no ended interest is answered again, a match *)
(* that is accepted and fixed was confirmed by both sides since it was last   *)
(* accepted, across deaths: every way to send an interest again starts from a *)
(* row without confirmations.                                                 *)
THEOREM BothSpokeOfThisMatch == Spec => []BothConfirmedThisMatch
<1>1. Spec => []WordInv
  BY InitWordInv, NextWordInv, Inductive, PTL DEF Spec
<1>2. IInv /\ WordInv => BothConfirmedThisMatch
  <2> SUFFICES ASSUME IInv, WordInv, Unrevived,
                      NEW p \in FixedRows \cap WithStatus({"accepted"})
               PROVE  said[p] = Sides
    BY DEF BothConfirmedThisMatch, Unrevived
  <2>1. p \in Pairs /\ interest[p].fixed = "confirmed" /\ interest[p].status = "accepted"
    BY DEF FixedRows, WithStatus
  <2>2. interest[p].confirmed = Sides
    BY <2>1, InterestFact DEF RowOK, Sound, Unrevived, Free
  <2> QED BY <2>1, <2>2 DEF WordInv, IInv, TypeOK
<1> QED BY <1>1, <1>2, Inductive, PTL

(* While no handlers overlap, nothing makes an interest pending between two *)
(* profiles one of whose interests was blocked or unmatched.                *)
THEOREM EndsAreRespected == Spec => NoApproachAfterTheEnd
<1> DEFINE Step == \A p \in Pairs :
             /\ interest[p].status # "pending" /\ interest'[p].status = "pending"
             /\ Free({"overlap"})
             => \A q \in Couple(p) : interest[q].status \notin Over
<1>1. IInv /\ [Next]_vars => [Step]_vars
  <2> SUFFICES ASSUME IInv, Next, NEW p \in Pairs, interest[p].status # "pending",
                      interest'[p].status = "pending", Free({"overlap"})
               PROVE  Unended(p)
    BY DEF Unended
  <2>1. PICK w \in Workers : Approach(w) \/ Settle(w) \/ Die(w)
    BY DEF Next
  <2>2. interest' # interest
    OBVIOUS
  <2>3. Insert(w) \/ Save(w)
    BY <2>1, <2>2 DEF Approach, Settle, Die, BeginSend, LoadSend, BeginWithdraw,
       BeginAccept, CheckAccept, BeginDecline, BeginForward, BeginTurnDown, BeginUnmatch,
       BeginBlock, BeginReport, BeginConfirm, CheckConfirm, CloseOthers, Compare, Begin, Start
  <2>4. Holding(w) /\ interest'[p] = task[w].entity[p]
    <3>1. CASE Insert(w)
      BY <3>1 DEF Insert, Holding, IInv, TypeOK
    <3>2. CASE Save(w)
      BY <3>2, SaveWrites DEF Holding
    <3> QED BY <2>3, <3>1, <3>2
  <2> QED BY <2>4 DEF IInv, Serial, Held
<1> HIDE DEF Step
<1>2. Spec => [][Step]_vars
  BY <1>1, Inductive, PTL DEF Spec
<1> QED BY <1>2 DEF NoApproachAfterTheEnd, Step
=============================================================================
