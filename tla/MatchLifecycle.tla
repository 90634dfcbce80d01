--------------------------- MODULE MatchLifecycle ---------------------------
(***************************************************************************)
(* Interests between profiles, from the first approach to a fixed match.   *)
(*                                                                         *)
(* An interest is a row keyed by its sender and its recipient; the same    *)
(* two profiles can have one in each direction. Sending and answering are  *)
(* in MatchmakingService, the agency's filter in InterestScreeningService, *)
(* everything after acceptance in MatchLifecycleService. No handler takes  *)
(* a lock or opens a transaction: each loads a row, checks it, asks the    *)
(* table a question and saves the row it loaded. Saving reads the row once *)
(* more and then writes the columns that differ from what it read.         *)
(*                                                                         *)
(* "disturbed" counts what the handlers do not guard against, so that each *)
(* property names the disturbances it does not survive.                    *)
(***************************************************************************)
EXTENDS Naturals, FiniteSets

CONSTANTS
  Workers,          \* handlers that can be in flight at once
  Profiles,
  Pairs,            \* <<from, to>>: who may ever write to whom
  Represented,      \* profiles an agency screens interests for
  MaxDisturbances,  \* bound: disturbances in one behaviour
  RequestsMayDie    \* a handler may be cut off between two of its statements

ASSUME PairsAssumption  == /\ Pairs # {} /\ Pairs \subseteq Profiles \X Profiles
                           /\ \A p \in Pairs : p[1] # p[2]
ASSUME BoundsAssumption == MaxDisturbances \in Nat
ASSUME DyingAssumption  == RequestsMayDie \in BOOLEAN

VARIABLES
  interest,    \* the row of each pair
  said,        \* history: the sides that confirmed the current acceptance
  agreed,      \* history: the sides that ever confirmed the pair
  task,        \* the handler each worker is running
  disturbed    \* how often each thing the handlers do not guard against happened

vars == <<interest, said, agreed, task, disturbed>>

-----------------------------------------------------------------------------
(* Interests *)

Statuses == {"absent", "pending", "accepted", "rejected", "withdrawn",
             "unmatched", "blocked"}
Live  == {"pending", "accepted"}
Over  == {"unmatched", "blocked"}
Sides == {"from", "to"}
HeldFromClient == {"with_agency", "declined"}

(* screening: "open" when it was never held or has been forwarded, which no *)
(* handler tells apart. confirmed: the sides whose fixedConfirmed...At is set. *)
Rows == [status: Statuses, screening: {"open"} \cup HeldFromClient,
         fixed: {"none", "pending_confirmation", "confirmed"},
         confirmed: SUBSET Sides]

NoRow == [status |-> "absent", screening |-> "open", fixed |-> "none",
          confirmed |-> {}]

(* Each side's fixedConfirmed...At is a column. *)
Columns == {"status", "screening", "fixed"} \cup Sides

(* The columns in which two rows differ. *)
Differing(one, other) ==
  {c \in {"status", "screening", "fixed"} : one[c] # other[c]}
    \cup (one.confirmed \ other.confirmed) \cup (other.confirmed \ one.confirmed)

(* The columns that may differ all the same, in values no handler tells   *)
(* apart: an interest never held and one forwarded, two dates.            *)
Alike(one, other) ==
  {c \in {"screening"} : one[c] = "open" /\ other[c] = "open"}
    \cup (one.confirmed \cap other.confirmed)

(* A row after an update of some of its columns. *)
Updated(row, entity, columns) ==
  [status    |-> IF "status" \in columns THEN entity.status ELSE row.status,
   screening |-> IF "screening" \in columns THEN entity.screening ELSE row.screening,
   fixed     |-> IF "fixed" \in columns THEN entity.fixed ELSE row.fixed,
   confirmed |-> (entity.confirmed \cap columns) \cup (row.confirmed \ columns)]

Ends(p)    == {p[1], p[2]}
Couple(p)  == {q \in Pairs : Ends(q) = Ends(p)}
Touching(p) == {q \in Pairs : Ends(q) \cap Ends(p) # {}}

FixedRows == {p \in Pairs : interest[p].fixed = "confirmed"}

(* Mutant: only the match a profile sent counts. *)
SettledAsSender(profile) == \E p \in FixedRows : profile = p[1]

(* isMatchFixed *)
Settled(profile) == \E p \in FixedRows : profile \in Ends(p)

(* screeningAgentFor: nobody screens what the agency itself sends. *)
Screening(p) == IF p[2] \in Represented THEN {"with_agency", "open"} ELSE {"open"}

(* A resend reopens the row and keeps everything it does not name. *)
Reopened(row, screening) == [row EXCEPT !.status = "pending", !.screening = screening]

Unmatched(row) == [row EXCEPT !.status = "unmatched", !.fixed = "none", !.confirmed = {}]
Blocked(row)   == [row EXCEPT !.status = "blocked", !.fixed = "none"]
Reported(row)  == [row EXCEPT !.status = "blocked"]

(* closeOtherInterests *)
Closed(row) == [row EXCEPT !.status = "unmatched", !.fixed = "none"]

(* Mutants: the sender's word is enough; one call speaks for both sides; *)
(* fixing is written as a status.                                        *)
ConfirmedBySender(row, side) ==
  LET sides == row.confirmed \cup {side} IN
  [row EXCEPT !.confirmed = sides,
              !.fixed = IF "from" \in sides THEN "confirmed" ELSE "pending_confirmation"]
ConfirmedForBoth(row, side) == [row EXCEPT !.confirmed = Sides, !.fixed = "confirmed"]
ConfirmedAsStatus(row, side) == [row EXCEPT !.confirmed = @ \cup {side}, !.status = "confirmed"]

(* confirmMatchFixed *)
Confirmed(row, side) ==
  LET sides == row.confirmed \cup {side} IN
  [row EXCEPT !.confirmed = sides,
              !.fixed = IF sides = Sides THEN "confirmed" ELSE "pending_confirmation"]

-----------------------------------------------------------------------------
(* Handlers in flight: the rows a handler will save, NoRow for the others. *)
(* compared: save() has read them again; changed: the columns it will write. *)

(* A handler that has nothing left to do but save what it holds is a "save". *)
Ops == {"send", "accept", "confirm", "save"}
Steps == {"idle", "asked", "inserting", "checking", "loaded", "listing"}

Tasks == [op: Ops \cup {"none"}, at: Steps, of: Pairs, side: Sides,
          entity: [Pairs -> Rows], compared: BOOLEAN,
          changed: [Pairs -> SUBSET Columns]]

NoEntity == [p \in Pairs |-> NoRow]
NoChange == [p \in Pairs |-> {}]
NoTask == [op |-> "none", at |-> "idle", of |-> CHOOSE p \in Pairs : TRUE,
           side |-> "from", entity |-> NoEntity, compared |-> FALSE,
           changed |-> NoChange]

Disturbances == {"overlap", "death", "revival"}
Undisturbed  == [d \in Disturbances |-> 0]
Free(kinds)  == \A d \in kinds : disturbed[d] = 0

Disturb(kinds) ==
  /\ disturbed' = [d \in Disturbances |->
                    IF d \in kinds THEN disturbed[d] + 1 ELSE disturbed[d]]
  /\ disturbed'["overlap"] + disturbed'["death"] + disturbed'["revival"]
       <= MaxDisturbances

Idle(w) == task[w].at = "idle"
Quiet   == \A w \in Workers : Idle(w)
At(w, op, step) == task[w].op = op /\ task[w].at = step

Overlapping(w) == IF \E v \in Workers \ {w} : ~Idle(v) THEN {"overlap"} ELSE {}

Start(w, op, step, p, row, more) ==
  /\ Idle(w)
  /\ task' = [task EXCEPT ![w] =
       [op |-> op, at |-> step, of |-> p, side |-> "from",
        entity |-> [NoEntity EXCEPT ![p] = row], compared |-> FALSE,
        changed |-> NoChange]]
  /\ Disturb(Overlapping(w) \cup more)
  /\ UNCHANGED <<interest, said, agreed>>

Begin(w, op, step, p, row) == Start(w, op, step, p, row, {})

Finish(w) == task' = [task EXCEPT ![w] = NoTask]
GoTo(w, step) == task' = [task EXCEPT ![w].at = step]

WithStatus(statuses) == {p \in Pairs : interest[p].status \in statuses}
Sent == Pairs \ WithStatus({"absent"})

-----------------------------------------------------------------------------
(* Approaching a profile and answering *)

(* Mutant: only the interest being sent is looked at, not the reverse one. *)
BeginSendOneWay(w) ==
  \E p \in Pairs :
    /\ ~Settled(p[1]) /\ ~Settled(p[2])
    /\ interest[p].status \notin Over
    /\ Begin(w, "send", "asked", p, NoRow)

(* sendInterest asks three questions of the table before it looks for the row. *)
BeginSend(w) ==
  \E p \in Pairs :
    /\ ~Settled(p[1]) /\ ~Settled(p[2])
    /\ \A q \in Couple(p) : interest[q].status \notin Over
    /\ Begin(w, "send", "asked", p, NoRow)

LoadSend(w) ==
  LET p == task[w].of
      Load(step, row) == task' = [task EXCEPT ![w].at = step, ![w].entity[p] = row]
  IN
  /\ At(w, "send", "asked")
  /\ \/ interest[p].status \in Live \cup Over /\ Finish(w)
     \/ /\ interest[p].status \in {"withdrawn", "rejected"}
        /\ \E s \in Screening(p) : Load("loaded", Reopened(interest[p], s))
     \/ /\ interest[p].status = "absent"
        /\ \E s \in Screening(p) : Load("inserting", Reopened(NoRow, s))
  /\ UNCHANGED <<interest, said, agreed, disturbed>>

(* The table holds one row for a pair: a second insert is refused. *)
Insert(w) ==
  LET p == task[w].of IN
  /\ task[w].at = "inserting"
  /\ interest' = IF interest[p].status = "absent"
                 THEN [interest EXCEPT ![p] = task[w].entity[p]]
                 ELSE interest
  /\ Finish(w)
  /\ UNCHANGED <<said, agreed, disturbed>>

(* Mutant: an interest the agency turned down can still be answered. *)
AnswerableTurnedDown == {p \in Sent : interest[p].screening # "with_agency"}

(* respond asks whether the agency let the interest through, not whether it *)
(* is still waiting for an answer.                                          *)
Answerable == {p \in Sent : interest[p].screening \notin HeldFromClient}
Revived(p) == IF interest[p].status = "pending" THEN {} ELSE {"revival"}

BeginAccept(w) ==
  \E p \in Answerable \ WithStatus({"accepted"}) :
    Start(w, "accept", "checking", p,
          [interest[p] EXCEPT !.status = "accepted"], Revived(p))

CheckAccept(w) ==
  LET p == task[w].of IN
  /\ At(w, "accept", "checking")
  /\ IF Settled(p[1]) \/ Settled(p[2]) THEN Finish(w) ELSE GoTo(w, "loaded")
  /\ UNCHANGED <<interest, said, agreed, disturbed>>

BeginDecline(w) ==
  \E p \in Answerable :
    Start(w, "save", "loaded", p,
          [interest[p] EXCEPT !.status = "rejected"], Revived(p))

BeginWithdraw(w) ==
  \E p \in WithStatus({"pending"}) :
    Begin(w, "save", "loaded", p, [interest[p] EXCEPT !.status = "withdrawn"])

-----------------------------------------------------------------------------
(* The agency's filter *)

WithAgency == {p \in WithStatus({"pending"}) : interest[p].screening = "with_agency"}

BeginForward(w) ==
  \E p \in WithAgency :
    Begin(w, "save", "loaded", p, [interest[p] EXCEPT !.screening = "open"])

BeginTurnDown(w) ==
  \E p \in WithAgency :
    Begin(w, "save", "loaded", p,
          [interest[p] EXCEPT !.status = "rejected", !.screening = "declined"])

-----------------------------------------------------------------------------
(* Ending a match *)

BeginUnmatch(w) ==
  \E p \in WithStatus({"accepted"}) \ FixedRows :
    Begin(w, "save", "loaded", p, Unmatched(interest[p]))

BeginBlock(w) == \E p \in Sent : Begin(w, "save", "loaded", p, Blocked(interest[p]))

BeginReport(w) == \E p \in Sent : Begin(w, "save", "loaded", p, Reported(interest[p]))

-----------------------------------------------------------------------------
(* Fixing a match *)

BeginConfirm(w) ==
  \E p \in WithStatus({"accepted"}) \ FixedRows :
    Begin(w, "confirm", "checking", p, interest[p])

(* Mutant: the cleanup is relied on and the table is not asked. *)
CheckConfirmUnasked(w) ==
  LET p == task[w].of
      row == task[w].entity[p]
  IN
  /\ At(w, "confirm", "checking")
  /\ \/ Finish(w)
     \/ \E side \in Sides \ row.confirmed :
          task' = [task EXCEPT ![w].at = "loaded", ![w].side = side,
                               ![w].entity[p] = Confirmed(row, side)]
  /\ UNCHANGED <<interest, said, agreed, disturbed>>

(* findOne returns any one fixed match of either profile; this very row is *)
(* not held against it. Then a side that has not confirmed confirms.       *)
CheckConfirm(w) ==
  LET p == task[w].of
      row == task[w].entity[p]
      fixed == FixedRows \cap Touching(p)
  IN
  /\ At(w, "confirm", "checking")
  /\ \/ /\ fixed = {} \/ p \in fixed
        /\ \E side \in Sides \ row.confirmed :
             task' = [task EXCEPT ![w].at = "loaded", ![w].side = side,
                                  ![w].entity[p] = Confirmed(row, side)]
     \/ /\ fixed \ {p} # {} \/ row.confirmed # {}
        /\ Finish(w)
  /\ UNCHANGED <<interest, said, agreed, disturbed>>

(* Every handler ends by saving the rows it holds: save() reads them again *)
(* by id, and then updates the columns in which the two differ.            *)
Saved(w, p) == task[w].entity[p].status # "absent"

Compare(w) ==
  /\ task[w].at = "loaded" /\ ~task[w].compared
  /\ \E apart \in SUBSET {"screening", "from", "to"} :
       task' = [task EXCEPT ![w].compared = TRUE, ![w].changed =
         [p \in Pairs |->
            IF Saved(w, p)
            THEN Differing(task[w].entity[p], interest[p])
                   \cup (apart \cap Alike(task[w].entity[p], interest[p]))
            ELSE {}]]
  /\ UNCHANGED <<interest, said, agreed, disturbed>>

HeardAfter(w, p) ==
  CASE task[w].entity[p].status # "accepted" -> {}
    [] task[w].op = "confirm" -> said[p] \cup {task[w].side}
    [] OTHER -> {}

(* The second confirmation goes on to close the other interests. *)
Save(w) ==
  /\ task[w].at = "loaded" /\ task[w].compared
  /\ interest' = [p \in Pairs |->
       IF Saved(w, p) THEN Updated(interest[p], task[w].entity[p], task[w].changed[p])
                      ELSE interest[p]]
  /\ said' = [p \in Pairs |-> IF Saved(w, p) THEN HeardAfter(w, p) ELSE said[p]]
  /\ agreed' = IF task[w].op = "confirm"
               THEN [agreed EXCEPT ![task[w].of] = @ \cup {task[w].side}]
               ELSE agreed
  /\ IF task[w].op = "confirm" /\ task[w].entity[task[w].of].fixed = "confirmed"
     THEN task' = [task EXCEPT ![w].at = "listing", ![w].compared = FALSE,
                               ![w].changed = NoChange]
     ELSE Finish(w)
  /\ UNCHANGED disturbed

(* closeOtherInterests loads every other live interest of the two. *)
CloseOthers(w) ==
  LET p == task[w].of
      others == (WithStatus(Live) \cap Touching(p)) \ {p}
  IN
  /\ task[w].at = "listing"
  /\ IF others = {} THEN Finish(w)
     ELSE task' = [task EXCEPT ![w].op = "save", ![w].at = "loaded",
            ![w].entity = [q \in Pairs |->
               IF q \in others THEN Closed(interest[q]) ELSE NoRow]]
  /\ UNCHANGED <<interest, said, agreed, disturbed>>

-----------------------------------------------------------------------------
(* The process dies, or the database refuses a statement *)

Die(w) ==
  /\ RequestsMayDie
  /\ ~Idle(w)
  /\ Finish(w)
  /\ Disturb({"death"})
  /\ UNCHANGED <<interest, said, agreed>>

-----------------------------------------------------------------------------

Init ==
  /\ interest = NoEntity
  /\ said = [p \in Pairs |-> {}]
  /\ agreed = [p \in Pairs |-> {}]
  /\ task = [w \in Workers |-> NoTask]
  /\ disturbed = Undisturbed

Approach(w) ==
  \/ BeginSend(w) \/ LoadSend(w) \/ Insert(w) \/ BeginWithdraw(w)
  \/ BeginAccept(w) \/ CheckAccept(w) \/ BeginDecline(w)
  \/ BeginForward(w) \/ BeginTurnDown(w)

Settle(w) ==
  \/ BeginUnmatch(w) \/ BeginBlock(w) \/ BeginReport(w)
  \/ BeginConfirm(w) \/ CheckConfirm(w) \/ CloseOthers(w)
  \/ Compare(w) \/ Save(w)

Next == \E w \in Workers : Approach(w) \/ Settle(w) \/ Die(w)

Spec == Init /\ [][Next]_vars

-----------------------------------------------------------------------------

TypeOK ==
  /\ interest \in [Pairs -> Rows]
  /\ said \in [Pairs -> SUBSET Sides]
  /\ agreed \in [Pairs -> SUBSET Sides]
  /\ task \in [Workers -> Tasks]
  /\ disturbed \in [Disturbances -> 0..MaxDisturbances]

(* A row that is called fixed carries the confirmations of both sides. *)
FixedCarriesBoth ==
  \A p \in Pairs : interest[p].fixed = "confirmed" => interest[p].confirmed = Sides

(* A match is fixed by both sides, whatever dies and however often an ended   *)
(* interest is answered again. Two saves that overlap can each write half of *)
(* a row, so the promise is kept only while handlers do not overlap.         *)
FixedTookBoth == Free({"overlap"}) => FixedCarriesBoth

(* No match is called fixed that one side never agreed to: a save that mixes *)
(* the columns of two handlers can lose a confirmation, and one that a stale *)
(* copy carries can outlive its acceptance, but none comes from nowhere.     *)
FixedWasAgreedTo ==
  \A p \in Pairs : interest[p].fixed = "confirmed" => agreed[p] = Sides

(* No accepted interest is one the agency holds or has turned down. *)
AcceptedWasForwarded ==
  \A p \in Pairs : interest[p].status = "accepted" =>
    interest[p].screening \notin HeldFromClient

(* Nobody accepts an interest behind the agency's back, however often it is   *)
(* answered and sent again. A resend and an acceptance that overlap defeat it. *)
AgencyFiltersAcceptance == Free({"overlap"}) => AcceptedWasForwarded

(* No profile is in two fixed matches, on whichever side of them it is. *)
FixedOnce == \A p, q \in FixedRows : Ends(p) \cap Ends(q) # {} => p = q

(* One fixed match per profile, in either direction and across deaths. Two    *)
(* confirmations that overlap both find the table free and defeat it.         *)
OneFixedMatch == Free({"overlap"}) => FixedOnce

(* A settled profile has nothing else open. The second confirmation closes    *)
(* the others after it is saved: a death in between leaves them open, and     *)
(* nothing looks again.                                                       *)
FixedClosesTheRest ==
  Quiet /\ Free({"overlap", "death"}) =>
    \A p \in FixedRows, q \in WithStatus(Live) :
      Ends(p) \cap Ends(q) # {} => p = q

(* Both sides confirmed this acceptance and not one that ended before it.     *)
(* Declining, blocking and closing leave the confirmations on the row, so an  *)
(* interest answered after it ended can be fixed by one side alone.           *)
BothConfirmedThisMatch ==
  Free({"overlap", "revival"}) =>
    \A p \in FixedRows \cap WithStatus({"accepted"}) : said[p] = Sides

(* Nobody writes again to a pair that was blocked or unmatched, in either     *)
(* direction, and an ended interest is not revived by anything but an answer. *)
NoApproachAfterTheEnd ==
  [][\A p \in Pairs :
       /\ interest[p].status # "pending" /\ interest'[p].status = "pending"
       /\ Free({"overlap"})
       => \A q \in Couple(p) : interest[q].status \notin Over]_vars
=============================================================================
