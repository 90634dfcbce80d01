--------------------- MODULE AvailabilityWindow_proofs ---------------------
(***************************************************************************)
(* Proofs about AvailabilityWindow, for any number of bookings, of         *)
(* overlapping requests and of places. The types hold under any overlap;   *)
(* where requests without a lock overlap nothing, the counters never say   *)
(* less than the bookings do, so the window is never overbooked, is never  *)
(* deleted under a booking, and implements CapacityPromise.                *)
(***************************************************************************)
EXTENDS AvailabilityWindow, FiniteSetTheorems, TLAPS

-----------------------------------------------------------------------------
(* The inductive invariant *)

(* A request that takes no lock overlaps no other. *)
Alone ==
  \A v \in Workers : req[v].op \in UnlockedOps =>
    \A u \in Workers : u # v => req[u].op = "none"

(* What each request in flight still knows rightly of the window and of    *)
(* its booking: the checks made at its load hold until it writes.          *)
Knows(v) ==
  /\ req[v].op \in WindowOps =>
       /\ req[v].window = window
       /\ MayChange(req[v].op, window, req[v].capacity)
  /\ req[v].op \in {"accept", "send", "withdraw"} => req[v].booking \in LiveOnes
  /\ req[v].op = "cancel" =>
       /\ req[v].booking \in Bookings
       /\ req[v].stage \in {"requested", "quoted", "accepted"}
       /\ req[v].at = "loaded" => stage[req[v].booking] = req[v].stage
       /\ req[v].at = "releasing" => req[v].window = window /\ window.exists

(* A cancelled booking whose place is not given back yet. *)
Owes(v) == req[v].op = "cancel" /\ req[v].at \in {"saved", "releasing"}

(* The counters never say less than the bookings do, and say one more      *)
(* while a cancelled booking is still counted.                             *)
Counters ==
  /\ window.confirmed <= window.capacity
  /\ Cardinality(Accepted) <= window.confirmed
  /\ Cardinality(LiveOnes) <= window.confirmed + window.pending
  /\ \A v \in Workers : Owes(v) =>
       /\ Cardinality(LiveOnes) + 1 <= window.confirmed + window.pending
       /\ req[v].stage = "accepted" => Cardinality(Accepted) + 1 <= window.confirmed

IInv ==
  /\ TypeOK
  /\ Alone
  /\ \A v \in Workers : Knows(v)
  /\ window.exists => Counters
  /\ ~window.exists => LiveOnes = {}

-----------------------------------------------------------------------------
(* Facts about the sets of bookings and about the requests *)

(* The sets the counters are compared with are finite. *)
LEMMA Counting ==
  ASSUME TypeOK
  PROVE  /\ IsFiniteSet(Accepted) /\ Cardinality(Accepted) \in Nat
         /\ IsFiniteSet(LiveOnes) /\ Cardinality(LiveOnes) \in Nat
         /\ Accepted \subseteq LiveOnes /\ LiveOnes \subseteq Bookings
<1>1. Accepted \subseteq LiveOnes /\ LiveOnes \subseteq Bookings
  BY DEF Accepted, LiveOnes, Open
<1>2. IsFiniteSet(LiveOnes) /\ IsFiniteSet(Accepted)
  BY <1>1, FiniteAssumption, FS_Subset, Zenon
<1>3. QED BY <1>1, <1>2, FS_CardinalityType

(* One element more or less changes a cardinality by one at most. *)
LEMMA OneMore ==
  ASSUME NEW T, IsFiniteSet(T), NEW x
  PROVE  Cardinality(T \cup {x}) = IF x \in T THEN Cardinality(T) ELSE Cardinality(T) + 1
BY FS_AddElement

LEMMA OneLess ==
  ASSUME NEW T, IsFiniteSet(T), NEW x
  PROVE  Cardinality(T \ {x}) = IF x \in T THEN Cardinality(T) - 1 ELSE Cardinality(T)
BY FS_RemoveElement

(* Where a booking goes when its stage is written. *)
LEMMA BecomesAccepted ==
  ASSUME TypeOK, NEW b \in Bookings, stage' = [stage EXCEPT ![b] = "accepted"]
  PROVE  Accepted' = Accepted \cup {b} /\ LiveOnes' = LiveOnes \cup {b}
BY DEF TypeOK, Accepted, LiveOnes, Open

LEMMA BecomesOpen ==
  ASSUME TypeOK, NEW b \in Bookings, NEW s \in {"requested", "quoted"},
         stage' = [stage EXCEPT ![b] = s]
  PROVE  Accepted' = Accepted \ {b} /\ LiveOnes' = LiveOnes \cup {b}
BY DEF TypeOK, Accepted, LiveOnes, Open

LEMMA BecomesCancelled ==
  ASSUME TypeOK, NEW b \in Bookings, stage' = [stage EXCEPT ![b] = "cancelled"]
  PROVE  Accepted' = Accepted \ {b} /\ LiveOnes' = LiveOnes \ {b}
BY DEF TypeOK, Accepted, LiveOnes, Open

LEMMA StagesStay ==
  ASSUME UNCHANGED stage
  PROVE  Accepted' = Accepted /\ LiveOnes' = LiveOnes
BY DEF Accepted, LiveOnes, Open

(* The records the operations build. *)
LEMMA WindowTypes ==
  /\ \A n \in Capacities : Created(n) \in Windows
  /\ Deleted \in Windows /\ ~Deleted.exists
<1>1. \A n \in Capacities : Created(n) \in Windows
  BY DEF Created, Windows
<1>2. 1 \in Capacities BY CapacityAssumption DEF Capacities
<1>3. Created(1) \in Windows BY <1>1, <1>2
<1>4. Deleted \in Windows /\ ~Deleted.exists
  BY <1>3 DEF Deleted, Windows
<1>5. QED BY <1>1, <1>4

LEMMA IdleType == Idle \in Requests /\ Idle.op = "none"
<1>1. 1 \in Capacities BY CapacityAssumption DEF Capacities
<1>2. Deleted \in Windows BY WindowTypes
<1>3. QED BY <1>1, <1>2 DEF Idle, Requests, Stages

(* A request that ends leaves the others as they were. *)
LEMMA Answered ==
  ASSUME TypeOK, Alone, NEW w \in Workers, Answer(w)
  PROVE  /\ req' \in [Workers -> Requests]
         /\ req'[w] = Idle
         /\ \A u \in Workers : u # w => req'[u] = req[u]
         /\ Alone'
<1>1. /\ req' \in [Workers -> Requests] /\ req'[w] = Idle
      /\ \A u \in Workers : u # w => req'[u] = req[u]
  BY IdleType DEF TypeOK, Answer
<1>2. Alone'
  BY <1>1, IdleType DEF Alone, UnlockedOps, WindowOps
<1>3. QED BY <1>1, <1>2

-----------------------------------------------------------------------------
(* The shape of every variable, under any overlap *)

LEMMA AnsweredType ==
  ASSUME TypeOK, NEW w \in Workers, Answer(w)
  PROVE  req' \in [Workers -> Requests]
BY IdleType DEF TypeOK, Answer

LEMMA BookingStepType ==
  ASSUME TypeOK, NEW w \in Workers, NEW op \in BookingOps, NEW b \in Bookings, Load(w, op, b)
  PROVE  TypeOK'
<1> DEFINE r == [Idle EXCEPT !.op = op, !.at = "loaded", !.booking = b, !.stage = stage[b]]
<1>1. req' = [req EXCEPT ![w] = r] /\ UNCHANGED <<window, stage>>
  BY DEF Load
<1>2. r \in Requests
  BY IdleType DEF Requests, TypeOK
<1> HIDE DEF r
<1> QED BY <1>1, <1>2 DEF TypeOK

LEMMA WindowStepType ==
  ASSUME TypeOK, NEW w \in Workers, NEW op \in WindowOps, NEW n \in Capacities,
         LoadWindow(w, op, n)
  PROVE  TypeOK'
<1> DEFINE r == [Idle EXCEPT !.op = op, !.at = "loaded", !.window = window, !.capacity = n]
<1>1. req' = [req EXCEPT ![w] = r] /\ UNCHANGED <<window, stage>>
  BY DEF LoadWindow
<1>2. r \in Requests
  BY IdleType DEF Requests, TypeOK
<1> HIDE DEF r
<1> QED BY <1>1, <1>2 DEF TypeOK

LEMMA CancelStepType ==
  ASSUME TypeOK, NEW w \in Workers, Cancel(w) \/ ReleaseLoad(w) \/ ReleaseSave(w)
  PROVE  TypeOK'
<1>1. CASE Cancel(w)
  <2> DEFINE r == [req[w] EXCEPT !.at = "saved"]
  <2>1. req' = [req EXCEPT ![w] = r] /\ UNCHANGED window
    BY <1>1 DEF Cancel, TypeOK
  <2>2. r \in Requests
    BY DEF Requests, TypeOK
  <2> HIDE DEF r
  <2>3. stage' \in [Bookings -> Stages]
    BY <1>1 DEF Cancel, TypeOK, Stages
  <2> QED BY <2>1, <2>2, <2>3 DEF TypeOK
<1>2. CASE ReleaseLoad(w)
  <2> DEFINE r == [req[w] EXCEPT !.at = "releasing", !.window = window]
  <2>1. (req' = [req EXCEPT ![w] = r] \/ Answer(w)) /\ UNCHANGED <<window, stage>>
    BY <1>2 DEF ReleaseLoad, TypeOK
  <2>2. r \in Requests
    BY DEF Requests, TypeOK
  <2> HIDE DEF r
  <2> QED BY <2>1, <2>2, AnsweredType DEF TypeOK
<1>3. CASE ReleaseSave(w)
  <2>1. req[w].window \in Windows
    BY DEF TypeOK, Requests
  <2>2. Returned(req[w].window, req[w].stage) \in Windows
    BY <2>1 DEF Returned, Windows
  <2> QED BY <1>3, <2>2, AnsweredType DEF ReleaseSave, TypeOK
<1> QED BY <1>1, <1>2, <1>3

LEMMA SaveWindowType ==
  ASSUME TypeOK, NEW w \in Workers, SaveWindow(w)
  PROVE  TypeOK'
<1>1. req[w].window \in Windows /\ req[w].capacity \in Capacities /\ req[w].op \in WindowOps
  BY DEF TypeOK, Requests, SaveWindow
<1>2. Changed(req[w].op, req[w].window, req[w].capacity) \in Windows
  BY <1>1, WindowTypes DEF Changed, Windows, WindowOps
<1> QED BY <1>2, AnsweredType DEF SaveWindow, TypeOK

LEMMA AcceptType ==
  ASSUME TypeOK, NEW w \in Workers, Accept(w)
  PROVE  TypeOK'
<1>1. Counted(window) \in Windows
  <2> DEFINE left == IF window.pending > 0 THEN window.pending - 1 ELSE 0
             more == window.confirmed + 1
  <2>1. window \in Windows /\ left \in Nat /\ more \in Nat
    BY DEF TypeOK, Windows
  <2>2. Counted(window) = IF window.exists
                            THEN [window EXCEPT !.confirmed = more, !.pending = left]
                            ELSE window
    BY <2>1 DEF Counted
  <2> HIDE DEF left, more
  <2> QED BY <2>1, <2>2 DEF Windows
<1>2. window' \in Windows /\ stage' \in [Bookings -> Stages]
  BY <1>1 DEF Accept, TypeOK, Stages
<1> QED BY <1>2, AnsweredType DEF Accept, TypeOK

LEMMA TypeKept == TypeOK /\ [Next]_vars => TypeOK'
<1> SUFFICES ASSUME TypeOK, [Next]_vars PROVE TypeOK'
  OBVIOUS
<1>1. ASSUME NEW b \in Bookings, Ask(b) PROVE TypeOK'
  <2>1. window' = [window EXCEPT !.pending = @ + 1] /\ window' \in Windows
    BY <1>1 DEF Ask, TypeOK, Windows
  <2> QED BY <1>1, <2>1 DEF Ask, TypeOK, Stages
<1>2. ASSUME NEW w \in Workers, Quote(w) PROVE TypeOK'
  BY <1>2, AnsweredType DEF Quote, TypeOK, Stages
<1>3. ASSUME NEW w \in Workers, RequestDies(w) PROVE TypeOK'
  BY <1>3, AnsweredType DEF RequestDies, TypeOK
<1>4. CASE UNCHANGED vars
  BY <1>4 DEF vars, TypeOK
<1> QED BY <1>1, <1>2, <1>3, <1>4, BookingStepType, WindowStepType, AcceptType,
           CancelStepType, SaveWindowType DEF Next

LEMMA InitType == Init => TypeOK
BY WindowTypes, IdleType DEF Init, TypeOK, Stages

(* The window, the stages and the requests keep their shape under any       *)
(* overlap, the one the unlocked operations are really exposed to included. *)
THEOREM TypeCorrect == Spec => []TypeOK
<1> QED BY InitType, TypeKept, PTL DEF Spec

-----------------------------------------------------------------------------
(* While a request that takes no lock is in flight, every other is idle. *)
LEMMA OthersIdle ==
  ASSUME Alone, NEW w \in Workers, req[w].op # "none",
         NEW u \in Workers, u # w, req[u].op # "none"
  PROVE  req[w].op \notin UnlockedOps /\ req[u].op \notin UnlockedOps
BY DEF Alone

-----------------------------------------------------------------------------
(* Every step keeps the invariant, operation by operation *)

(* Asking: the request is counted in the transaction that makes it. *)
LEMMA AskKeeps ==
  ASSUME UnlockedRunAlone, IInv, NEW b \in Bookings, Ask(b)
  PROVE  IInv'
<1>1. /\ TypeOK /\ Alone /\ Counters /\ \A v \in Workers : Knows(v)
      /\ window.exists /\ window \in Windows
  BY DEF IInv, Ask, HasRoom, TypeOK
<1>2. \A v \in Workers : req[v].op \notin UnlockedOps
  BY DEF Ask, MayOverlap
<1>3. /\ window' \in Windows /\ window'.exists
      /\ window'.capacity = window.capacity /\ window'.confirmed = window.confirmed
      /\ window'.pending = window.pending + 1
  BY <1>1 DEF Ask, Windows
<1>4. Accepted' = Accepted \ {b} /\ LiveOnes' = LiveOnes \cup {b}
  BY <1>1, BecomesOpen DEF Ask
<1>5. b \notin Accepted /\ b \notin LiveOnes
  BY DEF Ask, Accepted, LiveOnes, Open
<1>6. Cardinality(Accepted') = Cardinality(Accepted)
      /\ Cardinality(LiveOnes') = Cardinality(LiveOnes) + 1
  BY <1>1, <1>4, <1>5, Counting, OneMore, OneLess
<1>7. TypeOK'
  BY <1>1, <1>3 DEF Ask, TypeOK, Stages
<1>8. Alone' /\ \A v \in Workers : Knows(v)'
  BY <1>1, <1>2, <1>4 DEF Ask, Alone, Knows, UnlockedOps
<1>9. Counters'
  <2>1. \A v \in Workers : ~Owes(v)'
    BY <1>2 DEF Ask, Owes, UnlockedOps
  <2>2. window.confirmed \in Nat /\ window.pending \in Nat /\ window.capacity \in Nat
    BY <1>1 DEF Windows, Capacities
  <2>3. QED BY <1>1, <1>3, <1>6, <2>1, <2>2, Counting DEF Counters
<1>10. QED BY <1>3, <1>7, <1>8, <1>9 DEF IInv

(* A request that begins has just made its checks. *)
LEMMA LoadKeeps ==
  ASSUME UnlockedRunAlone, IInv, NEW w \in Workers,
         NEW op \in BookingOps, NEW b \in Bookings, Load(w, op, b)
  PROVE  IInv'
<1> DEFINE r == [Idle EXCEPT !.op = op, !.at = "loaded", !.booking = b, !.stage = stage[b]]
<1>1. TypeOK /\ Alone /\ (\A v \in Workers : Knows(v)) /\ UNCHANGED <<window, stage>>
      /\ req' = [req EXCEPT ![w] = r]
  BY DEF IInv, Load
<1>2. /\ r \in Requests /\ r.op = op /\ r.at = "loaded" /\ r.booking = b /\ r.stage = stage[b]
  BY <1>1, IdleType DEF Requests, TypeOK
<1> HIDE DEF r
<1>3. /\ req' \in [Workers -> Requests] /\ req'[w] = r
      /\ \A u \in Workers : u # w => req'[u] = req[u]
  BY <1>1, <1>2 DEF TypeOK
<1>4. TypeOK'
  BY <1>1, <1>3 DEF TypeOK
<1>5. Alone'
  <2>1. \A v \in Workers : req[v].op \notin UnlockedOps /\ (op \in UnlockedOps => req[v].op = "none")
    BY DEF Load, Free, MayOverlap
  <2>2. QED BY <1>2, <1>3, <2>1 DEF Alone
<1>6. Accepted' = Accepted /\ LiveOnes' = LiveOnes
  BY <1>1, StagesStay
<1>7. ASSUME NEW v \in Workers PROVE Knows(v)'
  <2>1. CASE v # w
    BY <1>1, <1>3, <1>6, <2>1 DEF Knows
  <2>2. CASE v = w
    <3>1. stage[b] \in {"requested", "quoted", "accepted"}
      BY DEF Load, Permitted
    <3>2. op # "cancel" => b \in LiveOnes
      BY DEF Load, Permitted, LiveOnes, Open
    <3>3. QED BY <1>1, <1>2, <1>3, <1>6, <2>2, <3>1, <3>2 DEF Knows, WindowOps, BookingOps
  <2>3. QED BY <2>1, <2>2
<1>8. \A v \in Workers : Owes(v)' => Owes(v) /\ req'[v] = req[v]
  BY <1>2, <1>3 DEF Owes
<1>9. window'.exists => Counters'
  BY <1>1, <1>6, <1>8 DEF IInv, Counters
<1>10. QED BY <1>1, <1>4, <1>5, <1>6, <1>7, <1>9 DEF IInv

LEMMA LoadWindowKeeps ==
  ASSUME UnlockedRunAlone, IInv, NEW w \in Workers,
         NEW op \in WindowOps, NEW n \in Capacities, LoadWindow(w, op, n)
  PROVE  IInv'
<1> DEFINE r == [Idle EXCEPT !.op = op, !.at = "loaded", !.window = window, !.capacity = n]
<1>1. TypeOK /\ Alone /\ (\A v \in Workers : Knows(v)) /\ UNCHANGED <<window, stage>>
      /\ req' = [req EXCEPT ![w] = r] /\ MayChange(op, window, n)
  BY DEF IInv, LoadWindow
<1>2. r \in Requests /\ r.op = op /\ r.at = "loaded" /\ r.window = window /\ r.capacity = n
  BY <1>1, IdleType DEF Requests, TypeOK
<1> HIDE DEF r
<1>3. /\ req' \in [Workers -> Requests] /\ req'[w] = r
      /\ \A u \in Workers : u # w => req'[u] = req[u]
  BY <1>1, <1>2 DEF TypeOK
<1>4. TypeOK'
  BY <1>1, <1>3 DEF TypeOK
<1>5. Alone'
  <2>1. \A v \in Workers : req[v].op \notin UnlockedOps /\ (op \in UnlockedOps => req[v].op = "none")
    BY DEF LoadWindow, Free, MayOverlap
  <2>2. QED BY <1>2, <1>3, <2>1 DEF Alone
<1>6. Accepted' = Accepted /\ LiveOnes' = LiveOnes
  BY <1>1, StagesStay
<1>7. ASSUME NEW v \in Workers PROVE Knows(v)'
  <2>1. CASE v # w
    BY <1>1, <1>3, <1>6, <2>1 DEF Knows
  <2>2. CASE v = w
    <3>1. MayChange(op, window', n)
      BY <1>1
    <3>2. QED BY <1>1, <1>2, <1>3, <2>2, <3>1 DEF Knows, WindowOps
  <2>3. QED BY <2>1, <2>2
<1>8. \A v \in Workers : Owes(v)' => Owes(v) /\ req'[v] = req[v]
  BY <1>2, <1>3 DEF Owes
<1>9. window'.exists => Counters'
  BY <1>1, <1>6, <1>8 DEF IInv, Counters
<1>10. QED BY <1>1, <1>4, <1>5, <1>6, <1>7, <1>9 DEF IInv

(* Accepting: the place is there when it is counted, whatever was accepted *)
(* since the booking was read.                                             *)
LEMMA AcceptKeeps ==
  ASSUME UnlockedRunAlone, IInv, NEW w \in Workers, Accept(w)
  PROVE  IInv'
<1> DEFINE b == req[w].booking
<1>1. /\ TypeOK /\ Alone /\ (\A v \in Workers : Knows(v)) /\ Answer(w)
      /\ req[w].op = "accept"
  BY DEF IInv, Accept, At
<1>2. b \in LiveOnes /\ b \in Bookings /\ window.exists /\ Counters
  BY <1>1, Counting DEF IInv, Knows
<1>3. /\ req' \in [Workers -> Requests] /\ req'[w] = Idle /\ Alone'
      /\ \A u \in Workers : u # w => req'[u] = req[u]
  BY <1>1, Answered
<1>4. \A v \in Workers : req[v].op \notin UnlockedOps
  BY <1>1 DEF Alone, UnlockedOps, WindowOps
<1>5. \A v \in Workers : req'[v].op \notin UnlockedOps
  BY <1>3, <1>4, IdleType DEF UnlockedOps, WindowOps
<1> HIDE DEF b
<1>6. CASE ~Accepts(window)
  <2>1. UNCHANGED <<window, stage>>
    BY <1>6 DEF Accept
  <2>2. Accepted' = Accepted /\ LiveOnes' = LiveOnes
    BY <2>1, StagesStay
  <2>3. \A v \in Workers : Knows(v)'
    BY <1>1, <1>3, <1>5, <2>2, IdleType DEF Knows, UnlockedOps
  <2>4. Counters'
    BY <1>2, <1>5, <2>1, <2>2 DEF Counters, Owes, UnlockedOps
  <2>5. QED BY <1>1, <1>2, <1>3, <2>1, <2>3, <2>4 DEF IInv, TypeOK
<1>7. CASE Accepts(window)
  <2>1. /\ window' = Counted(window) /\ stage' = [stage EXCEPT ![b] = "accepted"]
        /\ window.confirmed < window.capacity
    BY <1>2, <1>7 DEF Accept, Accepts, HasRoom, b
  <2>2. window \in Windows /\ window.confirmed \in Nat /\ window.pending \in Nat
        /\ window.capacity \in Nat
    BY <1>1 DEF TypeOK, Windows, Capacities
  <2>3. /\ window' \in Windows /\ window'.exists /\ window'.capacity = window.capacity
        /\ window'.confirmed = window.confirmed + 1
        /\ window'.pending = IF window.pending > 0 THEN window.pending - 1 ELSE 0
    <3> DEFINE k == IF window.pending > 0 THEN window.pending - 1 ELSE 0
    <3>1. k \in Nat /\ window.confirmed + 1 \in Nat
      BY <2>2
    <3>2. window' = [window EXCEPT !.confirmed = window.confirmed + 1, !.pending = k]
      BY <1>2, <2>1 DEF Counted
    <3> HIDE DEF k
    <3>3. /\ window' \in Windows /\ window'.exists /\ window'.capacity = window.capacity
          /\ window'.confirmed = window.confirmed + 1 /\ window'.pending = k
      BY <1>2, <2>2, <3>1, <3>2 DEF Windows
    <3>4. QED BY <3>3 DEF k
  <2>4. Accepted' = Accepted \cup {b} /\ LiveOnes' = LiveOnes
    <3>1. Accepted' = Accepted \cup {b} /\ LiveOnes' = LiveOnes \cup {b}
      BY <1>1, <1>2, <2>1, BecomesAccepted, Zenon
    <3>2. LiveOnes \cup {b} = LiveOnes
      BY <1>2
    <3>3. QED BY <3>1, <3>2
  <2>5. Cardinality(Accepted') \in Nat /\ Cardinality(Accepted') <= Cardinality(Accepted) + 1
    BY <1>1, <2>4, Counting, OneMore
  <2>6. Counters'
    BY <1>1, <1>2, <1>5, <2>1, <2>2, <2>3, <2>4, <2>5, Counting
       DEF Counters, Owes, UnlockedOps
  <2>7. \A v \in Workers : Knows(v)'
    BY <1>1, <1>3, <1>5, <2>4, IdleType DEF Knows, UnlockedOps
  <2>8. TypeOK'
    BY <1>1, <1>3, <2>1, <2>3 DEF TypeOK, Stages
  <2>9. QED BY <1>3, <2>3, <2>6, <2>7, <2>8 DEF IInv
<1>8. QED BY <1>6, <1>7

(* Quoting moves a live booking between two live stages. *)
LEMMA QuoteKeeps ==
  ASSUME UnlockedRunAlone, IInv, NEW w \in Workers, Quote(w)
  PROVE  IInv'
<1> DEFINE b == req[w].booking
<1>1. /\ TypeOK /\ Alone /\ (\A v \in Workers : Knows(v)) /\ Answer(w) /\ UNCHANGED window
      /\ req[w].op \in {"send", "withdraw"}
  BY DEF IInv, Quote, At
<1>2. b \in LiveOnes /\ b \in Bookings /\ window.exists /\ Counters
  BY <1>1, Counting DEF IInv, Knows
<1>3. /\ req' \in [Workers -> Requests] /\ req'[w] = Idle /\ Alone'
      /\ \A u \in Workers : u # w => req'[u] = req[u]
  BY <1>1, Answered
<1>4. \A v \in Workers : req[v].op \notin UnlockedOps
  BY <1>1 DEF Alone, UnlockedOps, WindowOps
<1>5. \A v \in Workers : req'[v].op \notin UnlockedOps
  BY <1>3, <1>4, IdleType DEF UnlockedOps, WindowOps
<1>6. stage' = [stage EXCEPT ![b] = "quoted"] \/ stage' = [stage EXCEPT ![b] = "requested"]
  BY DEF Quote
<1> HIDE DEF b
<1>7. Accepted' = Accepted \ {b} /\ LiveOnes' = LiveOnes
  BY <1>1, <1>2, <1>6, BecomesOpen
<1>8. Cardinality(Accepted') \in Nat /\ Cardinality(Accepted') <= Cardinality(Accepted)
  BY <1>1, <1>7, Counting, OneLess, FS_Subset, FS_CardinalityType
<1>9. Counters'
  <2>1. window.confirmed \in Nat /\ window.pending \in Nat /\ window.capacity \in Nat
    BY <1>1 DEF TypeOK, Windows, Capacities
  <2>2. QED BY <1>1, <1>2, <1>5, <1>7, <1>8, <2>1, Counting DEF Counters, Owes, UnlockedOps
<1>10. \A v \in Workers : Knows(v)'
  BY <1>1, <1>3, <1>5, <1>7, IdleType DEF Knows, UnlockedOps
<1>11. TypeOK'
  BY <1>1, <1>3, <1>6 DEF TypeOK, Stages
<1>12. QED BY <1>1, <1>2, <1>3, <1>9, <1>10, <1>11 DEF IInv

(* Cancelling leaves the counters one too high until the place is returned. *)
LEMMA CancelKeeps ==
  ASSUME UnlockedRunAlone, IInv, NEW w \in Workers, Cancel(w)
  PROVE  IInv'
<1> DEFINE b == req[w].booking
<1>1. /\ TypeOK /\ Alone /\ (\A v \in Workers : Knows(v)) /\ UNCHANGED window
      /\ req[w].op = "cancel" /\ req[w].at = "loaded"
      /\ req' = [req EXCEPT ![w].at = "saved"]
      /\ stage' = [stage EXCEPT ![b] = "cancelled"]
  BY DEF IInv, Cancel, At
<1>2. /\ b \in Bookings /\ stage[b] = req[w].stage
      /\ req[w].stage \in {"requested", "quoted", "accepted"}
  BY <1>1 DEF Knows
<1> HIDE DEF b
<1>3. /\ req' \in [Workers -> Requests]
      /\ req'[w].op = "cancel" /\ req'[w].at = "saved"
      /\ req'[w].booking = req[w].booking /\ req'[w].stage = req[w].stage
      /\ \A u \in Workers : u # w => req'[u] = req[u]
  BY <1>1 DEF TypeOK, Requests
<1>4. b \in LiveOnes /\ window.exists /\ Counters
  BY <1>2 DEF IInv, LiveOnes, Accepted, Open
<1>5. Accepted' = Accepted \ {b} /\ LiveOnes' = LiveOnes \ {b}
  BY <1>1, <1>2, BecomesCancelled
<1>6. \A u \in Workers : u # w => req[u].op = "none"
  BY <1>1 DEF Alone, UnlockedOps
<1>7. TypeOK'
  BY <1>1, <1>3 DEF TypeOK, Stages
<1>8. Alone'
  BY <1>3, <1>6 DEF Alone, UnlockedOps, WindowOps
<1>9. \A v \in Workers : Knows(v)'
  BY <1>1, <1>2, <1>3, <1>6 DEF Knows, b, WindowOps
<1>10. Counters'
  <2>1. window.confirmed \in Nat /\ window.pending \in Nat /\ window.capacity \in Nat
    BY <1>1 DEF TypeOK, Windows, Capacities
  <2>2. Cardinality(LiveOnes') = Cardinality(LiveOnes) - 1
    BY <1>1, <1>4, <1>5, Counting, OneLess
  <2>3. /\ Cardinality(Accepted') <= Cardinality(Accepted)
        /\ req[w].stage = "accepted" => Cardinality(Accepted') = Cardinality(Accepted) - 1
    <3>1. req[w].stage = "accepted" => b \in Accepted
      BY <1>2 DEF Accepted
    <3>2. QED BY <1>1, <1>5, <3>1, Counting, OneLess
  <2>4. Cardinality(Accepted') \in Nat /\ Cardinality(LiveOnes') \in Nat
    BY <1>1, <1>5, Counting, FS_Subset, FS_CardinalityType
  <2>5. \A v \in Workers : Owes(v)' => v = w
    BY <1>3, <1>6 DEF Owes
  <2>6. QED BY <1>1, <1>3, <1>4, <2>1, <2>2, <2>3, <2>4, <2>5, Counting DEF Counters
<1>11. QED BY <1>1, <1>4, <1>7, <1>8, <1>9, <1>10 DEF IInv

(* Giving the place back: the window is read, and no one else is about. *)
LEMMA ReleaseLoadKeeps ==
  ASSUME UnlockedRunAlone, IInv, NEW w \in Workers, ReleaseLoad(w)
  PROVE  IInv'
<1>1. /\ TypeOK /\ Alone /\ (\A v \in Workers : Knows(v)) /\ UNCHANGED <<window, stage>>
      /\ req[w].op = "cancel" /\ req[w].at = "saved"
  BY DEF IInv, ReleaseLoad, At
<1>2. Accepted' = Accepted /\ LiveOnes' = LiveOnes
  BY <1>1, StagesStay
<1>3. \A u \in Workers : u # w => req[u].op = "none"
  BY <1>1 DEF Alone, UnlockedOps
<1>4. CASE ~window.exists
  <2>1. /\ req' \in [Workers -> Requests] /\ req'[w] = Idle /\ Alone'
        /\ \A u \in Workers : u # w => req'[u] = req[u]
    BY <1>1, <1>4, Answered DEF ReleaseLoad
  <2>2. \A v \in Workers : Knows(v)'
    BY <1>3, <2>1, IdleType DEF Knows, WindowOps
  <2>3. QED BY <1>1, <1>2, <1>4, <2>1, <2>2 DEF IInv, TypeOK
<1>5. CASE window.exists
  <2>1. /\ req' \in [Workers -> Requests]
        /\ req'[w].op = "cancel" /\ req'[w].at = "releasing" /\ req'[w].window = window
        /\ req'[w].booking = req[w].booking /\ req'[w].stage = req[w].stage
        /\ \A u \in Workers : u # w => req'[u] = req[u]
    BY <1>1, <1>5 DEF ReleaseLoad, TypeOK, Requests
  <2>2. Alone'
    BY <1>3, <2>1 DEF Alone, UnlockedOps, WindowOps
  <2>3. \A v \in Workers : Knows(v)'
    BY <1>1, <1>3, <1>5, <2>1 DEF Knows, WindowOps
  <2>4. \A v \in Workers : Owes(v)' => Owes(v) /\ req'[v].stage = req[v].stage
    BY <1>1, <2>1 DEF Owes
  <2>5. Counters'
    BY <1>1, <1>2, <1>5, <2>4 DEF IInv, Counters
  <2>6. QED BY <1>1, <1>2, <1>5, <2>1, <2>2, <2>3, <2>5 DEF IInv, TypeOK
<1>6. QED BY <1>4, <1>5

LEMMA ReleaseSaveKeeps ==
  ASSUME UnlockedRunAlone, IInv, NEW w \in Workers, ReleaseSave(w)
  PROVE  IInv'
<1>1. /\ TypeOK /\ Alone /\ (\A v \in Workers : Knows(v)) /\ UNCHANGED stage /\ Answer(w)
      /\ req[w].op = "cancel" /\ req[w].at = "releasing" /\ Owes(w)
      /\ window' = Returned(req[w].window, req[w].stage)
  BY DEF IInv, ReleaseSave, At, Owes
<1>2. req[w].window = window /\ window.exists /\ Counters
  BY <1>1 DEF IInv, Knows
<1>3. /\ req' \in [Workers -> Requests] /\ req'[w] = Idle /\ Alone'
      /\ \A u \in Workers : u # w => req'[u] = req[u]
  BY <1>1, Answered
<1>4. \A u \in Workers : req'[u].op = "none"
  BY <1>1, <1>3, IdleType DEF Alone, UnlockedOps
<1>5. Accepted' = Accepted /\ LiveOnes' = LiveOnes
  BY <1>1, StagesStay
<1>6. window \in Windows /\ window.confirmed \in Nat /\ window.pending \in Nat
      /\ window.capacity \in Nat
  BY <1>1 DEF TypeOK, Windows, Capacities
<1>7. /\ window' \in Windows /\ window'.exists /\ window'.capacity = window.capacity
      /\ window'.confirmed = IF req[w].stage = "accepted" /\ window.confirmed > 0
                               THEN window.confirmed - 1 ELSE window.confirmed
      /\ window'.pending = IF req[w].stage # "accepted" /\ window.pending > 0
                             THEN window.pending - 1 ELSE window.pending
  BY <1>1, <1>2, <1>6 DEF Returned, Windows
<1>8. Counters'
  BY <1>1, <1>2, <1>4, <1>5, <1>6, <1>7, Counting DEF Counters, Owes
<1>9. \A v \in Workers : Knows(v)'
  BY <1>4 DEF Knows, WindowOps
<1>10. QED BY <1>1, <1>3, <1>7, <1>8, <1>9 DEF IInv, TypeOK

(* The provider's change lands on the window it was decided on. *)
LEMMA SaveWindowKeeps ==
  ASSUME UnlockedRunAlone, IInv, NEW w \in Workers, SaveWindow(w)
  PROVE  IInv'
<1> DEFINE op == req[w].op
           n  == req[w].capacity
<1>1. /\ TypeOK /\ Alone /\ (\A v \in Workers : Knows(v)) /\ UNCHANGED stage /\ Answer(w)
      /\ op \in WindowOps
  BY DEF IInv, SaveWindow
<1>2. window' = Changed(op, window, n) /\ MayChange(op, window, n) /\ window.exists /\ Counters
  BY <1>1 DEF IInv, Knows, SaveWindow, MayChange
<1>3. n \in Capacities
  BY <1>1 DEF TypeOK, Requests
<1>4. /\ req' \in [Workers -> Requests] /\ req'[w] = Idle /\ Alone'
      /\ \A u \in Workers : u # w => req'[u] = req[u]
  BY <1>1, Answered
<1>5. \A u \in Workers : req'[u].op = "none"
  BY <1>1, <1>4, IdleType DEF Alone, UnlockedOps
<1>6. Accepted' = Accepted /\ LiveOnes' = LiveOnes
  BY <1>1, StagesStay
<1>7. window \in Windows /\ window.confirmed \in Nat /\ window.pending \in Nat
      /\ window.capacity \in Nat
  BY <1>1 DEF TypeOK, Windows, Capacities
<1> HIDE DEF op, n
<1>8. (\A v \in Workers : Knows(v)') /\ \A v \in Workers : ~Owes(v)'
  BY <1>5 DEF Knows, Owes, WindowOps
<1>9. CASE op = "remove"
  <2>1. window' = Deleted /\ window.confirmed = 0 /\ window.pending = 0
    BY <1>2, <1>9 DEF Changed, MayChange
  <2>2. Cardinality(LiveOnes) = 0
    BY <1>1, <1>2, <2>1, Counting DEF Counters
  <2>3. LiveOnes = {}
    BY <1>1, <2>2, Counting, FS_EmptySet
  <2>4. QED BY <1>1, <1>4, <1>6, <1>8, <2>1, <2>3, WindowTypes DEF IInv, TypeOK
<1>10. CASE op # "remove"
  <2>1. /\ window' \in Windows /\ window'.exists
        /\ window'.confirmed = window.confirmed /\ window'.pending = window.pending
        /\ window'.capacity = IF op = "update" THEN n ELSE window.capacity
    BY <1>1, <1>2, <1>3, <1>7, <1>10 DEF Changed, Windows, WindowOps
  <2>2. window.confirmed <= window'.capacity
    BY <1>2, <1>10, <2>1 DEF MayChange, Counters
  <2>3. Counters'
    BY <1>2, <1>6, <1>8, <2>1, <2>2 DEF Counters
  <2>4. QED BY <1>1, <1>4, <1>8, <2>1, <2>3 DEF IInv, TypeOK
<1>11. QED BY <1>9, <1>10

(* A request that dies leaves the counters as they are: too high at worst. *)
LEMMA RequestDiesKeeps ==
  ASSUME UnlockedRunAlone, IInv, NEW w \in Workers, RequestDies(w)
  PROVE  IInv'
<1>1. /\ TypeOK /\ Alone /\ (\A v \in Workers : Knows(v)) /\ UNCHANGED <<window, stage>>
      /\ Answer(w)
  BY DEF IInv, RequestDies
<1>2. /\ req' \in [Workers -> Requests] /\ req'[w] = Idle /\ Alone'
      /\ \A u \in Workers : u # w => req'[u] = req[u]
  BY <1>1, Answered
<1>3. Accepted' = Accepted /\ LiveOnes' = LiveOnes
  BY <1>1, StagesStay
<1>4. ASSUME NEW v \in Workers PROVE Knows(v)' /\ (Owes(v)' => Owes(v) /\ req'[v] = req[v])
  <2>1. CASE v = w
    BY <1>2, <2>1, IdleType DEF Knows, Owes, WindowOps
  <2>2. CASE v # w
    <3>1. req'[v] = req[v] BY <1>2, <2>2
    <3>2. QED BY <1>1, <1>3, <3>1 DEF Knows, Owes, MayChange
  <2>3. QED BY <2>1, <2>2
<1>5. window'.exists => Counters'
  BY <1>1, <1>3, <1>4 DEF IInv, Counters
<1>6. QED BY <1>1, <1>2, <1>3, <1>4, <1>5 DEF IInv, TypeOK

-----------------------------------------------------------------------------
(* The theorems *)

LEMMA InitEstablishes == Init => IInv
<1> SUFFICES ASSUME Init PROVE IInv
  OBVIOUS
<1>1. TypeOK
  BY WindowTypes, IdleType DEF Init, TypeOK, Stages
<1>2. \A v \in Workers : req[v].op = "none"
  BY IdleType DEF Init
<1>3. Alone /\ (\A v \in Workers : Knows(v) /\ ~Owes(v))
  BY <1>2 DEF Alone, Knows, Owes, UnlockedOps, WindowOps
<1>4. Accepted = {} /\ LiveOnes = {}
  BY DEF Init, Accepted, LiveOnes, Open
<1>5. Cardinality(Accepted) = 0 /\ Cardinality(LiveOnes) = 0
  BY <1>4, FS_EmptySet
<1>6. /\ window.confirmed = 0 /\ window.pending = 0 /\ window.exists
      /\ window.capacity \in Nat
  BY CapacityAssumption DEF Init, Created, Capacities
<1>7. Counters
  BY <1>3, <1>5, <1>6 DEF Counters
<1>8. QED BY <1>1, <1>3, <1>6, <1>7 DEF IInv

LEMMA StepKeeps ==
  ASSUME UnlockedRunAlone, IInv, [Next]_vars
  PROVE  IInv'
<1>1. CASE UNCHANGED vars
  <2>1. Accepted' = Accepted /\ LiveOnes' = LiveOnes
    BY <1>1, StagesStay DEF vars
  <2>2. (\A v \in Workers : Knows(v)' /\ (Owes(v)' => Owes(v)))
    BY <1>1, <2>1 DEF vars, IInv, Knows, Owes, MayChange
  <2>3. QED BY <1>1, <2>1, <2>2 DEF vars, IInv, TypeOK, Alone, Counters
<1>2. CASE \E b \in Bookings : Ask(b)
  BY <1>2, AskKeeps
<1>3. ASSUME NEW w \in Workers, NEW op \in BookingOps, NEW b \in Bookings, Load(w, op, b)
      PROVE  IInv'
  BY <1>3, LoadKeeps
<1>4. ASSUME NEW w \in Workers, NEW op \in WindowOps, NEW n \in Capacities, LoadWindow(w, op, n)
      PROVE  IInv'
  BY <1>4, LoadWindowKeeps
<1>5. ASSUME NEW w \in Workers,
             \/ Accept(w) \/ Quote(w) \/ SaveWindow(w)
             \/ Cancel(w) \/ ReleaseLoad(w) \/ ReleaseSave(w)
             \/ RequestDies(w)
      PROVE  IInv'
  BY <1>5, AcceptKeeps, QuoteKeeps, SaveWindowKeeps, CancelKeeps, ReleaseLoadKeeps,
     ReleaseSaveKeeps, RequestDiesKeeps
<1>6. QED BY <1>1, <1>2, <1>3, <1>4, <1>5 DEF Next

LEMMA Invariance ==
  ASSUME UnlockedRunAlone
  PROVE  Spec => []IInv
<1>1. Init => IInv
  BY InitEstablishes
<1>2. IInv /\ [Next]_vars => IInv'
  BY StepKeeps
<1>3. QED BY <1>1, <1>2, PTL DEF Spec

(* A window is never overbooked (confirm), for any number of bookings and  *)
(* of places and however the operations that lock the row overlap.         *)
THEOREM NeverOverbooked ==
  ASSUME UnlockedRunAlone
  PROVE  Spec => []NoOverbooking
<1>1. IInv => NoOverbooking
  <2> SUFFICES ASSUME IInv, window.exists PROVE Cardinality(Accepted) <= window.capacity
    BY DEF NoOverbooking
  <2>1. TypeOK /\ Counters /\ window \in Windows
    BY DEF IInv, TypeOK
  <2>2. window.confirmed \in Nat /\ window.capacity \in Nat
    BY <2>1 DEF Windows, Capacities
  <2>3. QED BY <2>1, <2>2, Counting DEF Counters
<1>2. QED BY <1>1, Invariance, PTL

(* A deleted window leaves no booking behind (remove), although only two   *)
(* counters are read before it goes.                                       *)
THEOREM DeletionStrandsNobody ==
  ASSUME UnlockedRunAlone
  PROVE  Spec => []DeletedWindowIsUnused
<1>1. IInv => DeletedWindowIsUnused
  BY DEF IInv, DeletedWindowIsUnused
<1>2. QED BY <1>1, Invariance, PTL

-----------------------------------------------------------------------------
(* The counters implement the promise *)

(* The promise counts as this module does. *)
LEMMA SameCount == ASSUME NEW T PROVE Promise!Cardinality(T) = Cardinality(T)
BY Zenon DEF Cardinality, Promise!Cardinality

LEMMA PromiseInit == Init => Promise!Init
<1> SUFFICES ASSUME Init PROVE Promise!Init
  OBVIOUS
<1>1. window.exists /\ window.capacity \in 1..MaxCapacity
  BY DEF Init, Created, Capacities
<1>2. Accepted = {}
  BY DEF Init, Accepted
<1>3. QED BY <1>1, <1>2 DEF Promise!Init

(* A step that touches neither the places nor their holders is a stutter.  *)
LEMMA PromiseStutter ==
  ASSUME window'.exists = window.exists, window'.capacity = window.capacity,
         Accepted' = Accepted
  PROVE  UNCHANGED Promise!promise
BY DEF Promise!promise

LEMMA AcceptTakes ==
  ASSUME UnlockedRunAlone, IInv, NEW w \in Workers, Accept(w)
  PROVE  [Promise!Next]_Promise!promise
<1> DEFINE b == req[w].booking
<1>1. TypeOK /\ (\A v \in Workers : Knows(v)) /\ req[w].op = "accept"
  BY DEF IInv, Accept, At
<1>2. b \in LiveOnes /\ b \in Bookings /\ window.exists /\ Counters
  BY <1>1, Counting DEF IInv, Knows
<1> HIDE DEF b
<1>3. CASE ~Accepts(window)
  <2>1. UNCHANGED <<window, stage>>
    BY <1>3 DEF Accept
  <2>2. QED BY <2>1, StagesStay, PromiseStutter
<1>4. CASE Accepts(window)
  <2>1. /\ window' = Counted(window) /\ stage' = [stage EXCEPT ![b] = "accepted"]
        /\ window.confirmed < window.capacity
    BY <1>2, <1>4 DEF Accept, Accepts, HasRoom, b
  <2>2. window \in Windows /\ window.confirmed \in Nat /\ window.capacity \in Nat
    BY <1>1 DEF TypeOK, Windows, Capacities
  <2>3. window'.exists = window.exists /\ window'.capacity = window.capacity
    BY <2>1, <2>2 DEF Counted, Windows
  <2>4. Accepted' = Accepted \cup {b}
    BY <1>1, <1>2, <2>1, BecomesAccepted
  <2>5. CASE b \in Accepted
    <3>1. Accepted' = Accepted
      BY <2>4, <2>5
    <3>2. QED BY <2>3, <3>1, PromiseStutter
  <2>6. CASE b \notin Accepted
    <3>1. Cardinality(Accepted) < window.capacity
      BY <1>1, <1>2, <2>1, <2>2, Counting DEF Counters
    <3>2. Promise!Take(b)
      BY <1>2, <2>3, <2>4, <2>6, <3>1, SameCount DEF Promise!Take
    <3>3. QED BY <1>2, <3>2 DEF Promise!Next
  <2>7. QED BY <2>5, <2>6
<1>5. QED BY <1>3, <1>4

(* Quoting anew and cancelling at most give a place back. *)
LEMMA LeavingGivesBack ==
  ASSUME NEW b \in Bookings, UNCHANGED window, Accepted' = Accepted \ {b}
  PROVE  [Promise!Next]_Promise!promise
<1>1. CASE b \in Accepted
  <2>1. Promise!GiveBack(b)
    BY <1>1 DEF Promise!GiveBack
  <2>2. QED BY <2>1 DEF Promise!Next
<1>2. CASE b \notin Accepted
  <2>1. Accepted' = Accepted
    BY <1>2
  <2>2. QED BY <2>1, PromiseStutter
<1>3. QED BY <1>1, <1>2

LEMMA QuoteGivesBack ==
  ASSUME IInv, NEW w \in Workers, Quote(w)
  PROVE  [Promise!Next]_Promise!promise
<1> DEFINE b == req[w].booking
<1>1. /\ TypeOK /\ (\A v \in Workers : Knows(v)) /\ UNCHANGED window
      /\ req[w].op \in {"send", "withdraw"}
      /\ stage' = [stage EXCEPT ![b] = "quoted"] \/ stage' = [stage EXCEPT ![b] = "requested"]
  BY DEF IInv, Quote, At
<1>2. b \in Bookings
  BY <1>1, Counting DEF Knows
<1> HIDE DEF b
<1>3. Accepted' = Accepted \ {b}
  BY <1>1, <1>2, BecomesOpen
<1>4. QED BY <1>1, <1>2, <1>3, LeavingGivesBack

LEMMA CancelGivesBack ==
  ASSUME IInv, NEW w \in Workers, Cancel(w)
  PROVE  [Promise!Next]_Promise!promise
<1> DEFINE b == req[w].booking
<1>1. /\ TypeOK /\ (\A v \in Workers : Knows(v)) /\ UNCHANGED window
      /\ req[w].op = "cancel" /\ stage' = [stage EXCEPT ![b] = "cancelled"]
  BY DEF IInv, Cancel, At
<1>2. b \in Bookings
  BY <1>1 DEF Knows
<1> HIDE DEF b
<1>3. Accepted' = Accepted \ {b}
  BY <1>1, <1>2, BecomesCancelled
<1>4. QED BY <1>1, <1>2, <1>3, LeavingGivesBack

LEMMA ReleaseIsHidden ==
  ASSUME IInv, NEW w \in Workers, ReleaseSave(w)
  PROVE  [Promise!Next]_Promise!promise
<1>1. req[w].window = window /\ window \in Windows /\ UNCHANGED stage
  BY DEF IInv, Knows, ReleaseSave, At, TypeOK
<1>2. window'.exists = window.exists /\ window'.capacity = window.capacity
  BY <1>1 DEF ReleaseSave, Returned, Windows
<1>3. QED BY <1>1, <1>2, StagesStay, PromiseStutter

LEMMA SaveResizes ==
  ASSUME IInv, NEW w \in Workers, SaveWindow(w)
  PROVE  [Promise!Next]_Promise!promise
<1> DEFINE op == req[w].op
           n  == req[w].capacity
<1>1. /\ TypeOK /\ op \in WindowOps /\ n \in 1..MaxCapacity
      /\ window' = Changed(op, window, n) /\ MayChange(op, window, n)
      /\ UNCHANGED stage
  BY DEF IInv, Knows, SaveWindow, TypeOK, Requests, Capacities
<1>2. /\ window \in Windows /\ window.exists /\ Counters
      /\ window.confirmed \in Nat /\ window.capacity \in Nat
  BY <1>1 DEF IInv, MayChange, TypeOK, Windows, Capacities
<1>3. Accepted' = Accepted
  BY <1>1, StagesStay
<1> HIDE DEF op, n
<1>4. CASE op = "update"
  <2>1. window'.exists /\ window'.capacity = n /\ window.confirmed <= n
    BY <1>1, <1>2, <1>4, CapacityAssumption DEF Changed, MayChange, Windows
  <2>2. Cardinality(Accepted) <= n
    BY <1>1, <1>2, <2>1, CapacityAssumption, Counting DEF Counters
  <2>3. Promise!Resize(n) /\ n \in 0..MaxCapacity
    BY <1>1, <1>2, <1>3, <2>1, <2>2, CapacityAssumption, SameCount DEF Promise!Resize
  <2>4. QED BY <2>3 DEF Promise!Next
<1>5. CASE op = "remove"
  <2>1. ~window'.exists /\ window.confirmed = 0
    BY <1>1, <1>5, WindowTypes DEF Changed, MayChange
  <2>2. Cardinality(Accepted) <= 0
    BY <1>2, <2>1 DEF Counters
  <2>3. Promise!Resize(0) /\ 0 \in 0..MaxCapacity
    BY <1>3, <2>1, <2>2, CapacityAssumption, SameCount DEF Promise!Resize
  <2>4. QED BY <2>3 DEF Promise!Next
<1>6. CASE op \in {"block", "unblock"}
  <2>1. window'.exists = window.exists /\ window'.capacity = window.capacity
    BY <1>1, <1>2, <1>6 DEF Changed, Windows
  <2>2. QED BY <1>3, <2>1, PromiseStutter
<1>7. QED BY <1>1, <1>4, <1>5, <1>6 DEF WindowOps

(* What one step of a window's life is in the terms of the promise. *)
LEMMA PromiseStep ==
  ASSUME UnlockedRunAlone, IInv, [Next]_vars
  PROVE  [Promise!Next]_Promise!promise
<1>1. CASE UNCHANGED <<window, stage>>
  BY <1>1, StagesStay, PromiseStutter
<1>2. ASSUME NEW b \in Bookings, Ask(b) PROVE [Promise!Next]_Promise!promise
  <2>1. TypeOK /\ window \in Windows
    BY DEF IInv, TypeOK
  <2>2. Accepted' = Accepted \ {b} /\ b \notin Accepted
    BY <1>2, <2>1, BecomesOpen DEF Ask, Accepted
  <2>3. window'.exists = window.exists /\ window'.capacity = window.capacity
    BY <1>2, <2>1 DEF Ask, Windows
  <2>4. Accepted' = Accepted
    BY <2>2
  <2>5. QED BY <2>3, <2>4, PromiseStutter
<1>3. ASSUME NEW w \in Workers,
             Accept(w) \/ Quote(w) \/ SaveWindow(w) \/ Cancel(w) \/ ReleaseSave(w)
      PROVE  [Promise!Next]_Promise!promise
  BY <1>3, AcceptTakes, QuoteGivesBack, SaveResizes, CancelGivesBack, ReleaseIsHidden
<1>4. QED BY <1>1, <1>2, <1>3 DEF Next, vars, Load, LoadWindow, ReleaseLoad, RequestDies

(* The counters, checks and locks of a window amount to the promise it     *)
(* makes: a place is taken only while one is left, and the provider never  *)
(* takes back a place that is held (reserve, confirm, release, update,     *)
(* remove).                                                                *)
THEOREM WindowKeepsPromise ==
  ASSUME UnlockedRunAlone
  PROVE  Spec => PromiseKept
<1>1. Init => Promise!Init
  BY PromiseInit
<1>2. IInv /\ [Next]_vars => [Promise!Next]_Promise!promise
  BY PromiseStep
<1>3. QED BY <1>1, <1>2, Invariance, PTL DEF Spec, PromiseKept, Promise!Spec
=============================================================================
