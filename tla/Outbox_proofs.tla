--------------------------- MODULE Outbox_proofs ---------------------------
(***************************************************************************)
(* Proofs about Outbox, for any number of events, replicas, overlapping    *)
(* ticks and faults: nothing is crossed off before it was delivered, one   *)
(* dispatcher works at a time while no session drops, events go out oldest *)
(* first, and every step of the dispatcher is a step of Relay.             *)
(***************************************************************************)
EXTENDS Outbox, FiniteSetTheorems, WellFoundedInduction, TLAPS

-----------------------------------------------------------------------------
(* Facts about the oldest event of a batch *)

LEMMA SmallestExists ==
  ASSUME NEW S \in SUBSET Nat, S # {}
  PROVE  \E e \in S : \A f \in S : e <= f
<1> DEFINE R == {ss \in Nat \X Nat : ss[1] < ss[2]}
<1>1. IsWellFoundedOn(R, Nat)
  BY NatLessThanWellFounded, Zenon DEF OpToRel
<1>2. PICK x \in S : \A y \in S : ~(<<y, x>> \in R)
  <2> HIDE DEF R
  <2> QED BY <1>1, WFMin, Zenon
<1>3. ASSUME NEW y \in S PROVE x <= y
  <2>1. x \in Nat /\ y \in Nat
    OBVIOUS
  <2>2. ~(y < x)
    <3>1. <<y, x>> \in Nat \X Nat
      BY <2>1
    <3>2. ~(<<y, x>> \in R)
      BY <1>2
    <3>3. ~(<<y, x>>[1] < <<y, x>>[2])
      BY <3>1, <3>2
    <3> QED BY <3>3
  <2> QED BY <2>1, <2>2
<1> QED BY <1>3

LEMMA OldestIsSmallest ==
  ASSUME NEW S \in SUBSET Events, S # {}
  PROVE  Oldest(S) \in S /\ \A f \in S : Oldest(S) <= f
<1>1. S \in SUBSET Nat
  BY EventsAssumption
<1>2. \E e \in S : \A f \in S : e <= f
  BY <1>1, SmallestExists
<1> QED BY <1>2 DEF Oldest

(* findUnprocessed leaves out no row older than one it returns. *)
LEMMA NothingOlderIsLeftOut ==
  ASSUME recorded \subseteq Events, NEW e \in OldestUnprocessed,
         NEW f \in Unprocessed, f < e
  PROVE  f \in OldestUnprocessed
<1>1. e \in Nat /\ f \in Nat /\ Unprocessed \subseteq Nat
  BY EventsAssumption DEF OldestUnprocessed, Unprocessed
<1>2. Earlier(e) \subseteq 0..e
  <2> SUFFICES ASSUME NEW g \in Unprocessed, g < e PROVE g \in 0..e
    BY DEF Earlier
  <2>1. g \in Nat
    BY <1>1
  <2> QED BY <1>1, <2>1
<1>3. IsFiniteSet(0..e)
  BY <1>1, FS_Interval
<1>4. IsFiniteSet(Earlier(e))
  BY <1>2, <1>3, FS_Subset
<1>5. Earlier(f) \subseteq Earlier(e)
  <2> SUFFICES ASSUME NEW g \in Unprocessed, g < f PROVE g < e
    BY DEF Earlier
  <2>1. g \in Nat
    BY <1>1
  <2> QED BY <1>1, <2>1
<1>6. IsFiniteSet(Earlier(f)) /\ Cardinality(Earlier(f)) <= Cardinality(Earlier(e))
  BY <1>4, <1>5, FS_Subset
<1>7. Cardinality(Earlier(f)) \in Nat /\ Cardinality(Earlier(e)) \in Nat
  BY <1>4, <1>6, FS_CardinalityType
<1>8. Cardinality(Earlier(e)) < BatchSize
  BY DEF OldestUnprocessed
<1>9. Cardinality(Earlier(f)) < BatchSize
  BY <1>6, <1>7, <1>8, BoundsAssumption
<1> QED BY <1>9 DEF OldestUnprocessed

-----------------------------------------------------------------------------
(* The inductive invariant *)

Working == {"publishing", "sending", "marking"}

(* A run at work holds a batch of recorded events, its head gone as far as *)
(* the run has got with it, and no older event is left outside the batch.  *)
BatchOK(r) ==
  /\ run[r].at \notin Working => run[r].batch = {}
  /\ run[r].at \in Working => run[r].batch # {}
  /\ run[r].batch \subseteq recorded
  /\ run[r].at \in {"sending", "marking"} => Head(r) \in onBus
  /\ run[r].at = "marking" => Head(r) \in onTopic \cup muted
  /\ \A e \in run[r].batch, f \in recorded :
       f < e /\ f \notin late => f \in processed \cup run[r].batch

(* While no session dropped, a run at work holds the lock and a batch nobody *)
(* else has touched.                                                         *)
Exclusive(r) == ~Idle(r) => lock = r
Fresh(r)     == run[r].batch \cap processed = {}

IInv ==
  /\ TypeOK
  /\ recorded \subseteq saved
  /\ onBus \subseteq recorded
  /\ ProcessedWasDelivered
  /\ OldestFirst
  /\ \A r \in Runs : BatchOK(r)
  /\ drops = 0 => \A r \in Runs : Exclusive(r) /\ Fresh(r)

LEMMA InitIInv == Init => IInv
<1> SUFFICES ASSUME Init PROVE IInv
  OBVIOUS
<1>1. TypeOK
  BY BoundsAssumption, RunsAssumption DEF Init, TypeOK, Runs, RunStates, NoBatch, Steps
<1> QED BY <1>1 DEF Init, IInv, ProcessedWasDelivered, OldestFirst, BatchOK, Exclusive,
              Fresh, Idle, NoBatch, Working

LEMMA HeadInBatch ==
  ASSUME IInv, NEW r \in Runs, run[r].at \in Working
  PROVE  /\ Head(r) \in run[r].batch /\ Head(r) \in recorded /\ Head(r) \in Events
         /\ \A f \in run[r].batch : Head(r) <= f
<1>1. run[r].batch # {} /\ run[r].batch \subseteq recorded /\ recorded \subseteq Events
  BY DEF IInv, BatchOK, TypeOK
<1> QED BY <1>1, OldestIsSmallest DEF Head

(* A step that leaves the rows and the deliveries alone and one run on its *)
(* way keeps the batches.                                                  *)
LEMMA SameBatch ==
  ASSUME NEW r, run'[r].batch = run[r].batch
  PROVE  Head(r)' = Head(r)
BY DEF Head, Oldest

-----------------------------------------------------------------------------
(* One lemma for each kind of step *)

LEMMA InsertKeeps ==
  ASSUME IInv, NEW e \in Events, e \notin recorded, Insert(e), saved \subseteq saved',
         e \in saved', saved' \subseteq Events, forgotten' \subseteq Events,
         UNCHANGED <<processed, lock, run, wires, people, faults>>
  PROVE  IInv'
<1>1. recorded' = recorded \cup {e} /\ recorded \subseteq Events
  BY DEF Insert, IInv, TypeOK
<1>2. late \subseteq late' /\ late' \subseteq Events
  BY DEF Insert, IInv, TypeOK
<1>3. \A g \in recorded : e < g => e \in late'
  <2> SUFFICES ASSUME NEW g \in recorded, e < g PROVE e \in late'
    OBVIOUS
  <2>1. g > e
    BY <1>1, EventsAssumption
  <2> QED BY <2>1 DEF Insert
<1>4. TypeOK'
  BY <1>1, <1>2 DEF TypeOK, IInv, wires, people, faults
<1>5. OldestFirst'
  BY <1>1, <1>2, <1>3 DEF OldestFirst, IInv, wires
<1>6. ASSUME NEW r \in Runs PROVE BatchOK(r)' /\ Exclusive(r)' = Exclusive(r) /\ Fresh(r)' = Fresh(r)
  <2>1. BatchOK(r)
    BY DEF IInv
  <2> QED BY <1>1, <1>2, <1>3, <2>1 DEF BatchOK, wires, Head, Oldest, Exclusive, Fresh, Idle
<1> QED BY <1>1, <1>4, <1>5, <1>6 DEF IInv, ProcessedWasDelivered, wires, faults

LEMMA SaveStep == ASSUME IInv, NEW e \in Events, Save(e) PROVE IInv'
<1>1. saved' = saved \cup {e} /\ e \notin recorded /\ saved' \subseteq Events
  BY DEF Save, IInv, TypeOK
<1>2. CASE e \in Transactional
  <2>1. Insert(e) /\ forgotten' \subseteq Events
    BY <1>2 DEF Save, IInv, TypeOK
  <2> QED BY <1>1, <2>1, InsertKeeps DEF Save
<1>3. CASE e \notin Transactional
  <2>1. UNCHANGED <<recorded, late, processed, forgotten, lock, run, wires, people, faults>>
    BY <1>3 DEF Save
  <2> QED BY <1>1, <2>1 DEF IInv, TypeOK, ProcessedWasDelivered, OldestFirst, BatchOK,
        Exclusive, Fresh, Idle, Head, Oldest, wires, people, faults
<1> QED BY <1>2, <1>3

LEMMA RecordStep == ASSUME IInv, NEW e \in Events, Record(e) PROVE IInv'
<1>1. /\ e \in saved /\ e \notin recorded /\ Insert(e)
      /\ UNCHANGED <<saved, forgotten>>
      /\ saved \subseteq Events /\ forgotten \subseteq Events
  BY DEF Record, Owing, IInv, TypeOK
<1> QED BY <1>1, InsertKeeps DEF Record

LEMMA ForgetStep == ASSUME IInv, NEW e \in Events, Forget(e) PROVE IInv'
BY DEF Forget, Owing, IInv, TypeOK, ProcessedWasDelivered, OldestFirst, BatchOK,
       Exclusive, Fresh, Idle, Head, Oldest, wires, people, faults

(* A step of one run that leaves the rows alone and keeps its batch, or *)
(* empties it.                                                          *)
LEMMA BatchesKeep ==
  ASSUME IInv, NEW r \in Runs, NEW new \in RunStates,
         run' = [run EXCEPT ![r] = new],
         UNCHANGED writes, processed \subseteq processed', onBus \subseteq onBus',
         onTopic \subseteq onTopic', muted \subseteq muted'
  PROVE  \A s \in Runs \ {r} : BatchOK(s)'
<1> SUFFICES ASSUME NEW s \in Runs, s # r PROVE BatchOK(s)'
  OBVIOUS
<1>1. run'[s] = run[s]
  BY DEF IInv, TypeOK
<1>2. BatchOK(s)
  BY DEF IInv
<1> QED BY <1>1, <1>2 DEF BatchOK, Head, Oldest, writes

LEMMA TickStep == ASSUME IInv, NEW r \in Runs, Tick(r) PROVE IInv'
<1> DEFINE new == [run[r] EXCEPT !.at = "reading"]
<1>1. run' = [run EXCEPT ![r] = new] /\ new \in RunStates /\ lock = NoRun /\ lock' = r
  BY DEF Tick, GoTo, IInv, TypeOK, RunStates, Steps
<1>2. run'[r].at = "reading" /\ run'[r].batch = run[r].batch /\ run[r].at = "idle"
  BY DEF Tick, GoTo, Idle, IInv, TypeOK, RunStates
<1>3. UNCHANGED <<writes, processed, wires, people, faults>>
  BY DEF Tick
<1>4. BatchOK(r)'
  BY <1>2, <1>3 DEF IInv, BatchOK, Working, writes
<1>5. \A s \in Runs \ {r} : BatchOK(s)'
  <2> HIDE DEF new
  <2> QED BY <1>1, <1>3, BatchesKeep DEF wires, writes
<1>6. TypeOK'
  <2> HIDE DEF new
  <2> QED BY <1>1, <1>3 DEF IInv, TypeOK, writes, wires, people, faults
<1>7. drops' = 0 => \A s \in Runs : Exclusive(s)' /\ Fresh(s)'
  <2> SUFFICES ASSUME drops = 0, NEW s \in Runs PROVE Exclusive(s)' /\ Fresh(s)'
    BY <1>3 DEF faults
  <2>1. Exclusive(s) /\ Fresh(s) /\ NoRun \notin Runs
    BY RunsAssumption DEF IInv, Runs
  <2>2. CASE s = r
    BY <1>1, <1>2, <1>3, <2>1, <2>2 DEF Exclusive, Fresh, Idle
  <2>3. CASE s # r
    <3>1. run'[s] = run[s]
      BY <2>3, <1>1 DEF IInv, TypeOK
    <3> QED BY <1>1, <1>3, <2>1, <3>1 DEF Exclusive, Fresh, Idle
  <2> QED BY <2>2, <2>3
<1> QED BY <1>3, <1>4, <1>5, <1>6, <1>7 DEF IInv, ProcessedWasDelivered, OldestFirst,
      writes, wires

LEMMA OthersAreIdle ==
  ASSUME IInv, drops = 0, NEW r \in Runs, ~Idle(r), NEW s \in Runs, s # r
  PROVE  Idle(s) /\ run[s].batch = {}
BY DEF IInv, Exclusive, BatchOK, Working, Idle

(* A run at work goes on while the others, if no session dropped, are idle. *)
LEMMA ExclusiveKeeps ==
  ASSUME IInv, NEW r \in Runs, ~Idle(r), NEW new \in RunStates,
         run' = [run EXCEPT ![r] = new], drops' = drops, lock' = lock,
         drops = 0 => new.batch \cap processed' = {}
  PROVE  drops' = 0 => \A s \in Runs : Exclusive(s)' /\ Fresh(s)'
<1> SUFFICES ASSUME drops = 0, NEW s \in Runs PROVE Exclusive(s)' /\ Fresh(s)'
  OBVIOUS
<1>1. lock = r
  BY DEF IInv, Exclusive
<1>2. CASE s = r
  <2>1. run'[s] = new
    BY <1>2 DEF IInv, TypeOK
  <2> QED BY <1>1, <1>2, <2>1 DEF Exclusive, Fresh
<1>3. CASE s # r
  <2>1. run'[s] = run[s]
    BY <1>3 DEF IInv, TypeOK
  <2>2. Idle(s) /\ run[s].batch = {}
    BY <1>3, OthersAreIdle
  <2> QED BY <2>1, <2>2 DEF Exclusive, Fresh, Idle
<1> QED BY <1>2, <1>3

LEMMA ReleaseStep == ASSUME IInv, NEW r \in Runs, Release(r) PROVE IInv'
<1>1. /\ run' = [run EXCEPT ![r] = NoBatch] /\ NoBatch \in RunStates
      /\ lock' = IF lock = r THEN NoRun ELSE lock
      /\ ~Idle(r)
      /\ UNCHANGED <<writes, processed, wires, people, faults>>
  BY DEF Release, NoBatch, RunStates, Steps, Idle
<1>2. run'[r].at = "idle" /\ run'[r].batch = {}
  BY <1>1 DEF IInv, TypeOK, NoBatch
<1>3. BatchOK(r)'
  BY <1>2 DEF BatchOK, Working
<1>4. \A s \in Runs \ {r} : BatchOK(s)'
  BY <1>1, BatchesKeep DEF wires, writes
<1>5. TypeOK'
  BY <1>1 DEF IInv, TypeOK, writes, wires, people, faults
<1>6. drops' = 0 => \A s \in Runs : Exclusive(s)' /\ Fresh(s)'
  <2> SUFFICES ASSUME drops = 0, NEW s \in Runs PROVE Exclusive(s)' /\ Fresh(s)'
    BY <1>1 DEF faults
  <2>1. CASE s = r
    BY <1>2, <2>1 DEF Exclusive, Fresh, Idle
  <2>2. CASE s # r
    <3>1. run'[s] = run[s] /\ Idle(s) /\ run[s].batch = {}
      BY <1>1, <2>2, OthersAreIdle DEF IInv, TypeOK
    <3> QED BY <3>1 DEF Exclusive, Fresh, Idle
  <2> QED BY <2>1, <2>2
<1> QED BY <1>1, <1>3, <1>4, <1>5, <1>6 DEF IInv, ProcessedWasDelivered, OldestFirst,
      writes, wires

LEMMA RestType ==
  ASSUME NEW events \in SUBSET Events
  PROVE  /\ Rest(events) \in RunStates /\ Rest(events).batch = events
         /\ events = {} => Rest(events).at = "releasing"
         /\ events # {} => Rest(events).at = "publishing"
BY DEF Rest, Stop, RunStates, Steps

LEMMA ReadStep == ASSUME IInv, NEW r \in Runs, Read(r) PROVE IInv'
<1> DEFINE batch == OldestUnprocessed
           new == Rest(batch)
<1>1. batch \subseteq Unprocessed /\ batch \in SUBSET Events
  BY DEF OldestUnprocessed, Unprocessed, IInv, TypeOK
<1>2. /\ run' = [run EXCEPT ![r] = new] /\ ~Idle(r)
      /\ UNCHANGED <<writes, processed, lock, wires, people, faults>>
  BY DEF Read, Idle
<1>3. \A e \in batch, f \in recorded : f < e => f \in processed \cup batch
  <2> SUFFICES ASSUME NEW e \in batch, NEW f \in recorded, f < e, f \notin processed
               PROVE  f \in batch
    OBVIOUS
  <2>1. f \in Unprocessed /\ recorded \subseteq Events
    BY DEF Unprocessed, IInv, TypeOK
  <2> QED BY <2>1, NothingOlderIsLeftOut
<1>4. /\ new \in RunStates /\ new.batch = batch
      /\ batch = {} => new.at = "releasing"
      /\ batch # {} => new.at = "publishing"
  BY <1>1, RestType
<1> HIDE DEF new, batch
<1>5. run'[r] = new
  BY <1>2 DEF IInv, TypeOK
<1>6. BatchOK(r)'
  BY <1>1, <1>2, <1>3, <1>4, <1>5 DEF BatchOK, Working, Unprocessed, writes
<1>7. \A s \in Runs \ {r} : BatchOK(s)'
  BY <1>2, <1>4, BatchesKeep DEF wires, writes
<1>8. TypeOK'
  BY <1>2, <1>4 DEF IInv, TypeOK, writes, wires, people, faults
<1>9. drops' = 0 => \A s \in Runs : Exclusive(s)' /\ Fresh(s)'
  BY <1>1, <1>2, <1>4, ExclusiveKeeps DEF Unprocessed, faults
<1> QED BY <1>2, <1>6, <1>7, <1>8, <1>9 DEF IInv, ProcessedWasDelivered, OldestFirst,
      writes, wires

LEMMA PublishStep == ASSUME IInv, NEW r \in Runs, Publish(r) PROVE IInv'
<1> DEFINE new == [run[r] EXCEPT !.at = "sending"]
<1>1. /\ run' = [run EXCEPT ![r] = new] /\ new \in RunStates /\ ~Idle(r)
      /\ run[r].at = "publishing" /\ new.at = "sending" /\ new.batch = run[r].batch
      /\ onBus' = onBus \cup {Head(r)}
      /\ UNCHANGED <<writes, processed, lock, connected, onTopic, muted, told, untold, faults>>
  BY DEF Publish, GoTo, Idle, IInv, TypeOK, RunStates, Steps
<1>2. telling' = telling \cup ({Replica(r)} \X ({Head(r)} \cap Subscribed))
  BY DEF Publish
<1> HIDE DEF new
<1>3. /\ Head(r) \in run[r].batch /\ Head(r) \in recorded /\ Head(r) \in Events
      /\ \A f \in run[r].batch : Head(r) <= f
  BY <1>1, HeadInBatch DEF Working
<1>4. run'[r] = new
  BY <1>1 DEF IInv, TypeOK
<1>5. Head(r)' = Head(r)
  BY <1>1, <1>4, SameBatch
<1>6. BatchOK(r)'
  <2>1. BatchOK(r)
    BY DEF IInv
  <2> QED BY <1>1, <1>4, <1>5, <2>1 DEF BatchOK, Working, writes
<1>7. \A s \in Runs \ {r} : BatchOK(s)'
  BY <1>1, BatchesKeep DEF writes
<1>8. TypeOK'
  <2>1. Replica(r) \in Replicas
    BY DEF Runs, Replica
  <2>2. telling' \subseteq Replicas \X Subscribed
    BY <1>2, <2>1 DEF IInv, TypeOK
  <2> QED BY <1>1, <1>3, <2>2 DEF IInv, TypeOK, writes, faults
<1>9. drops' = 0 => \A s \in Runs : Exclusive(s)' /\ Fresh(s)'
  <2>1. drops = 0 => new.batch \cap processed' = {}
    BY <1>1 DEF IInv, Fresh
  <2> QED BY <1>1, <2>1, ExclusiveKeeps DEF faults
<1>10. OldestFirst'
  <2> SUFFICES ASSUME NEW e \in recorded, NEW f \in recorded, f < e, f \notin late,
                      e \in onBus'
               PROVE  f \in processed
    BY <1>1 DEF OldestFirst, writes
  <2>1. CASE e \in onBus
    BY <2>1 DEF IInv, OldestFirst
  <2>2. CASE e = Head(r)
    <3>1. f \in processed \cup run[r].batch
      BY <1>3, <2>2 DEF IInv, BatchOK
    <3>2. f \in run[r].batch => e <= f
      BY <1>3, <2>2
    <3>3. e \in Nat /\ f \in Nat
      BY EventsAssumption DEF IInv, TypeOK
    <3> QED BY <3>1, <3>2, <3>3
  <2> QED BY <1>1, <2>1, <2>2
<1> QED BY <1>1, <1>3, <1>6, <1>7, <1>8, <1>9, <1>10 DEF IInv, ProcessedWasDelivered, writes

LEMMA SendStep == ASSUME IInv, NEW r \in Runs, Send(r) PROVE IInv'
<1> DEFINE new == [run[r] EXCEPT !.at = "marking"]
<1>1. /\ run' = [run EXCEPT ![r] = new] /\ new \in RunStates /\ ~Idle(r)
      /\ run[r].at = "sending" /\ new.at = "marking" /\ new.batch = run[r].batch
      /\ UNCHANGED <<writes, processed, lock, connected, onBus, people, faults>>
  BY DEF Send, GoTo, Idle, IInv, TypeOK, RunStates, Steps
<1>2. /\ onTopic \subseteq onTopic' /\ muted \subseteq muted'
      /\ onTopic' \cup muted' = onTopic \cup muted \cup {Head(r)}
  BY DEF Send, Reach
<1> HIDE DEF new
<1>3. Head(r) \in Events
  BY <1>1, HeadInBatch DEF Working
<1>4. run'[r] = new
  BY <1>1 DEF IInv, TypeOK
<1>5. Head(r)' = Head(r)
  BY <1>1, <1>4, SameBatch
<1>6. BatchOK(r)'
  <2>1. BatchOK(r)
    BY DEF IInv
  <2> QED BY <1>1, <1>2, <1>4, <1>5, <2>1 DEF BatchOK, Working, writes
<1>7. \A s \in Runs \ {r} : BatchOK(s)'
  BY <1>1, <1>2, BatchesKeep DEF writes
<1>8. TypeOK'
  <2>1. onTopic' \subseteq Events /\ muted' \subseteq Events
    BY <1>2, <1>3 DEF IInv, TypeOK
  <2> QED BY <1>1, <2>1 DEF IInv, TypeOK, writes, people, faults
<1>9. drops' = 0 => \A s \in Runs : Exclusive(s)' /\ Fresh(s)'
  <2>1. drops = 0 => new.batch \cap processed' = {}
    BY <1>1 DEF IInv, Fresh
  <2> QED BY <1>1, <2>1, ExclusiveKeeps DEF faults
<1> QED BY <1>1, <1>2, <1>6, <1>7, <1>8, <1>9 DEF IInv, ProcessedWasDelivered,
      OldestFirst, writes

LEMMA MarkStep == ASSUME IInv, NEW r \in Runs, Mark(r) PROVE IInv'
<1> DEFINE rest == run[r].batch \ {Head(r)}
           new == Rest(rest)
<1>1. /\ run' = [run EXCEPT ![r] = new] /\ ~Idle(r) /\ run[r].at = "marking"
      /\ processed' = processed \cup {Head(r)}
      /\ UNCHANGED <<writes, lock, wires, people, faults>>
  BY DEF Mark, Idle
<1>2. Head(r) \in run[r].batch /\ Head(r) \in recorded /\ Head(r) \in Events
  BY <1>1, HeadInBatch DEF Working
<1>3. /\ run[r].batch \subseteq Events /\ run[r].batch \subseteq recorded
      /\ Head(r) \in onBus /\ Head(r) \in onTopic \cup muted
      /\ \A e \in run[r].batch, f \in recorded :
           f < e /\ f \notin late => f \in processed \cup run[r].batch
  BY <1>1 DEF IInv, TypeOK, BatchOK
<1>4. /\ new \in RunStates /\ new.batch = rest
      /\ rest = {} => new.at = "releasing"
      /\ rest # {} => new.at = "publishing"
  BY <1>3, RestType
<1>5. rest = run[r].batch \ {Head(r)}
  OBVIOUS
<1> HIDE DEF new, rest
<1>6. run'[r] = new
  BY <1>1 DEF IInv, TypeOK
<1>7. BatchOK(r)'
  BY <1>1, <1>3, <1>4, <1>5, <1>6 DEF BatchOK, Working, writes
<1>8. \A s \in Runs \ {r} : BatchOK(s)'
  BY <1>1, <1>4, BatchesKeep DEF wires
<1>9. TypeOK'
  BY <1>1, <1>2, <1>4 DEF IInv, TypeOK, writes, wires, people, faults
<1>10. drops' = 0 => \A s \in Runs : Exclusive(s)' /\ Fresh(s)'
  <2>1. drops = 0 => new.batch \cap processed' = {}
    BY <1>1, <1>4, <1>5 DEF IInv, Fresh
  <2> QED BY <1>1, <1>4, <2>1, ExclusiveKeeps DEF faults
<1> QED BY <1>1, <1>2, <1>3, <1>7, <1>8, <1>9, <1>10 DEF IInv, ProcessedWasDelivered,
      OldestFirst, writes, wires

LEMMA RefuseStep == ASSUME IInv, NEW r \in Runs, Refuse(r) PROVE IInv'
<1>1. /\ run' = [run EXCEPT ![r] = Stop] /\ Stop \in RunStates /\ ~Idle(r)
      /\ run[r].at \in {"reading", "sending", "marking"}
      /\ UNCHANGED <<writes, lock, connected, onBus, muted, people, faults>>
      /\ Stop.at = "releasing" /\ Stop.batch = {}
  BY DEF Refuse, Idle, Stop, RunStates, Steps
<1>2. /\ onTopic \subseteq onTopic' /\ onTopic' \subseteq Events
      /\ \/ processed' = processed
         \/ run[r].at = "marking" /\ processed' = processed \cup {Head(r)}
  <2>1. run[r].at \in Working => Head(r) \in Events
    BY HeadInBatch
  <2> QED BY <2>1 DEF Refuse, Reach, Working, IInv, TypeOK
<1>3. run[r].at = "marking" =>
        /\ Head(r) \in recorded /\ Head(r) \in Events
        /\ Head(r) \in onBus /\ Head(r) \in onTopic \cup muted
  BY HeadInBatch DEF IInv, BatchOK, Working
<1>4. processed \subseteq processed' /\ processed' \subseteq Events
  BY <1>2, <1>3 DEF IInv, TypeOK
<1>5. run'[r] = Stop
  BY <1>1 DEF IInv, TypeOK
<1>6. BatchOK(r)'
  BY <1>1, <1>5 DEF BatchOK, Working
<1>7. \A s \in Runs \ {r} : BatchOK(s)'
  BY <1>1, <1>2, <1>4, BatchesKeep
<1>8. TypeOK'
  BY <1>1, <1>2, <1>4 DEF IInv, TypeOK, writes, people, faults
<1>9. drops' = 0 => \A s \in Runs : Exclusive(s)' /\ Fresh(s)'
  BY <1>1, ExclusiveKeeps DEF faults
<1>10. ProcessedWasDelivered'
  BY <1>1, <1>2, <1>3 DEF IInv, ProcessedWasDelivered, writes
<1>11. OldestFirst'
  BY <1>1, <1>4 DEF IInv, OldestFirst, writes
<1> QED BY <1>1, <1>6, <1>7, <1>8, <1>9, <1>10, <1>11 DEF IInv, writes

LEMMA TellStep ==
  ASSUME IInv, NEW c \in Replicas, NEW e \in Subscribed, Tell(c, e) \/ FailToTell(c, e)
  PROVE  IInv'
<1>1. UNCHANGED <<writes, processed, lock, run, wires, faults>>
  BY DEF Tell, FailToTell
<1>2. /\ telling' \subseteq telling /\ told' \subseteq told \cup {e}
      /\ untold' \subseteq untold \cup {e}
  BY DEF Tell, FailToTell
<1>3. TypeOK'
  BY <1>1, <1>2 DEF IInv, TypeOK, writes, wires, faults
<1> QED BY <1>1, <1>3 DEF IInv, ProcessedWasDelivered, OldestFirst, BatchOK,
        Exclusive, Fresh, Idle, Head, Oldest, writes, wires, faults

LEMMA CrashStep == ASSUME IInv, NEW c \in Replicas, Crash(c) PROVE IInv'
<1>1. /\ UNCHANGED <<writes, processed, onBus, onTopic, muted, told, drops>>
      /\ crashes + drops < MaxFaults /\ crashes' = crashes + 1
      /\ lock' = IF lock # NoRun /\ Replica(lock) = c THEN NoRun ELSE lock
      /\ connected' \in {connected \cup {c}, connected \ {c}}
      /\ untold' = untold \cup {e \in Subscribed : <<c, e>> \in telling}
      /\ telling' = telling \ ({c} \X Subscribed)
  BY DEF Crash
<1>2. run' = [r \in Runs |-> IF Replica(r) = c THEN NoBatch ELSE run[r]]
  BY DEF Crash
<1>3. NoBatch \in RunStates /\ NoBatch.at = "idle" /\ NoBatch.batch = {}
  BY DEF NoBatch, RunStates, Steps
<1>4. ASSUME NEW r \in Runs PROVE run'[r] = NoBatch \/ run'[r] = run[r]
  BY <1>2
<1>5. ASSUME NEW r \in Runs PROVE BatchOK(r)'
  <2>1. CASE run'[r] = NoBatch
    BY <1>3, <2>1 DEF BatchOK, Working
  <2>2. CASE run'[r] = run[r]
    <3>1. BatchOK(r)
      BY DEF IInv
    <3>2. Head(r)' = Head(r)
      BY <2>2 DEF Head, Oldest
    <3> QED BY <1>1, <2>2, <3>1, <3>2 DEF BatchOK, Working, writes
  <2> QED BY <1>4, <2>1, <2>2
<1>6. drops = 0 => \A r \in Runs : Exclusive(r)' /\ Fresh(r)'
  <2> SUFFICES ASSUME drops = 0, NEW r \in Runs PROVE Exclusive(r)' /\ Fresh(r)'
    OBVIOUS
  <2>1. Exclusive(r) /\ Fresh(r)
    BY DEF IInv
  <2>2. CASE Replica(r) = c
    <3>1. run'[r] = NoBatch
      BY <1>2, <2>2
    <3> QED BY <1>3, <3>1 DEF Exclusive, Fresh, Idle
  <2>3. CASE Replica(r) # c
    <3>1. run'[r] = run[r]
      BY <1>2, <2>3
    <3>2. lock = r => lock' = r
      BY <1>1, <2>3
    <3> QED BY <1>1, <2>1, <3>1, <3>2 DEF Exclusive, Fresh, Idle
  <2> QED BY <2>2, <2>3
<1>7. TypeOK'
  <2>1. run' \in [Runs -> RunStates]
    BY <1>2, <1>3 DEF IInv, TypeOK
  <2>2. lock' \in Runs \cup {NoRun}
    BY <1>1 DEF IInv, TypeOK
  <2>3. crashes' \in 0..MaxFaults
    BY <1>1, BoundsAssumption DEF IInv, TypeOK
  <2>4. connected' \subseteq Replicas
    BY <1>1 DEF IInv, TypeOK
  <2> QED BY <1>1, <2>1, <2>2, <2>3, <2>4 DEF IInv, TypeOK, writes
<1> QED BY <1>1, <1>5, <1>6, <1>7 DEF IInv, ProcessedWasDelivered, OldestFirst, writes

LEMMA DropSessionStep == ASSUME IInv, DropSession PROVE IInv'
<1>1. /\ UNCHANGED <<writes, processed, run, wires, people, crashes>>
      /\ crashes + drops < MaxFaults /\ drops' = drops + 1 /\ lock' = NoRun
  BY DEF DropSession
<1>2. drops' \in 0..MaxFaults /\ drops' # 0
  BY <1>1, BoundsAssumption DEF IInv, TypeOK
<1>3. TypeOK'
  BY <1>1, <1>2 DEF IInv, TypeOK, writes, wires, people
<1> QED BY <1>1, <1>2, <1>3 DEF IInv, ProcessedWasDelivered, OldestFirst, BatchOK,
        Head, Oldest, writes, wires

LEMMA NextIInv == IInv /\ [Next]_vars => IInv'
<1> SUFFICES ASSUME IInv, [Next]_vars PROVE IInv'
  OBVIOUS
<1>1. ASSUME NEW e \in Events, Produce(e) PROVE IInv'
  BY <1>1, SaveStep, RecordStep, ForgetStep DEF Produce
<1>2. ASSUME NEW r \in Runs, Dispatch(r) PROVE IInv'
  BY <1>2, TickStep, ReadStep, PublishStep, SendStep, MarkStep, RefuseStep, ReleaseStep
     DEF Dispatch
<1>3. ASSUME NEW c \in Replicas, NEW e \in Subscribed, Tell(c, e) \/ FailToTell(c, e)
      PROVE  IInv'
  BY <1>3, TellStep
<1>4. ASSUME NEW c \in Replicas, Crash(c) PROVE IInv'
  BY <1>4, CrashStep
<1>5. CASE DropSession
  BY <1>5, DropSessionStep
<1>6. CASE UNCHANGED vars
  BY <1>6 DEF vars, IInv, TypeOK, ProcessedWasDelivered, OldestFirst, BatchOK,
        Exclusive, Fresh, Idle, Head, Oldest
<1> QED BY <1>1, <1>2, <1>3, <1>4, <1>5, <1>6 DEF Next

LEMMA Inductive == Spec => []IInv
<1> QED BY InitIInv, NextIInv, PTL DEF Spec

-----------------------------------------------------------------------------
(* The properties *)

(* Every variable keeps its type through ticks, refusals, deaths and drops. *)
THEOREM TypeCorrect == Spec => []TypeOK
<1>1. IInv => TypeOK
  BY DEF IInv
<1> QED BY <1>1, Inductive, PTL

(* An event is crossed off only when it is on record, went over the bus and *)
(* reached the broker or met a replica that had no producer: processBatch   *)
(* marks each event after both publishes.                                   *)
THEOREM CrossedOffWasDelivered == Spec => []ProcessedWasDelivered
<1>1. IInv => ProcessedWasDelivered
  BY DEF IInv
<1> QED BY <1>1, Inductive, PTL

(* runExclusive lets one run of all replicas and ticks work at a time, while *)
(* no session drops.                                                         *)
THEOREM OneRunAtWork == Spec => []OneDispatcher
<1>1. IInv => OneDispatcher
  BY DEF IInv, OneDispatcher, Exclusive
<1> QED BY <1>1, Inductive, PTL

(* No event overtakes an older one that was on record in time, not even when *)
(* a dropped session lets two runs work side by side.                        *)
THEOREM NoneOvertakes == Spec => []OldestFirst
<1>1. IInv => OldestFirst
  BY DEF IInv
<1> QED BY <1>1, Inductive, PTL

(* While no session drops, no run hands over an event already crossed off:  *)
(* a batch read earlier never goes stale.                                   *)
THEOREM NoneIsRepeated == Spec => NeverAgain
<1> DEFINE Step == drops = 0 => \A r \in Runs :
             run[r].at = "publishing" /\ run'[r].at = "sending" => Head(r) \notin processed
<1>1. IInv /\ [Next]_vars => [Step]_vars
  <2> SUFFICES ASSUME IInv, drops = 0, NEW r \in Runs, run[r].at = "publishing"
               PROVE  Head(r) \notin processed
    OBVIOUS
  <2>1. Head(r) \in run[r].batch
    BY HeadInBatch DEF Working
  <2> QED BY <2>1 DEF IInv, Fresh
<1> HIDE DEF Step
<1>2. Spec => [][Step]_vars
  BY <1>1, Inductive, PTL DEF Spec
<1> QED BY <1>2 DEF NeverAgain, Step

-----------------------------------------------------------------------------
(* The refinement *)

(* A step that marks, whether or not its answer comes back, retires. *)
LEMMA RetireStep ==
  ASSUME IInv, NEW r \in Runs, run[r].at = "marking",
         processed' = processed \cup {Head(r)}, UNCHANGED <<recorded, onBus>>
  PROVE  [Promise!Next]_Promise!vars
<1>1. Head(r) \in Events /\ Head(r) \in onBus
  BY HeadInBatch DEF IInv, BatchOK, Working
<1>2. CASE Head(r) \in processed
  BY <1>2 DEF Promise!vars
<1>3. CASE Head(r) \notin processed
  <2>1. Promise!Retire(Head(r))
    BY <1>1, <1>3 DEF Promise!Retire
  <2> QED BY <1>1, <2>1 DEF Promise!Next
<1> QED BY <1>2, <1>3

(* A hand-over of an event not crossed off delivers; of one that is, it has *)
(* gone over the bus before.                                                *)
LEMMA DeliverStep ==
  ASSUME IInv, NEW r \in Runs, Publish(r)
  PROVE  [Promise!Next]_Promise!vars
<1>1. run[r].at \in Working /\ onBus' = onBus \cup {Head(r)} /\ UNCHANGED <<recorded, processed>>
  BY DEF Publish, Working, writes
<1>2. Head(r) \in Events /\ Head(r) \in recorded
  BY <1>1, HeadInBatch
<1>3. CASE Head(r) \in processed
  <2>1. Head(r) \in onBus
    BY <1>3 DEF IInv, ProcessedWasDelivered
  <2> QED BY <1>1, <2>1 DEF Promise!vars
<1>4. CASE Head(r) \notin processed
  <2>1. Promise!Deliver(Head(r))
    BY <1>1, <1>2, <1>4 DEF Promise!Deliver
  <2> QED BY <1>2, <2>1 DEF Promise!Next
<1> QED BY <1>3, <1>4

LEMMA InsertIsRecord ==
  ASSUME NEW e \in Events, e \notin recorded, Insert(e), UNCHANGED <<processed, onBus>>
  PROVE  [Promise!Next]_Promise!vars
<1>1. Promise!Record(e)
  BY DEF Insert, Promise!Record
<1> QED BY <1>1 DEF Promise!Next

LEMMA StepsAreRelaySteps == IInv /\ [Next]_vars => [Promise!Next]_Promise!vars
<1> SUFFICES ASSUME IInv, [Next]_vars PROVE [Promise!Next]_Promise!vars
  OBVIOUS
<1>1. ASSUME NEW e \in Events, Produce(e) PROVE [Promise!Next]_Promise!vars
  <2>1. CASE Save(e) /\ e \in Transactional
    <3>1. Insert(e) /\ e \notin recorded /\ UNCHANGED <<processed, onBus>>
      BY <2>1 DEF Save, IInv, wires
    <3> QED BY <3>1, InsertIsRecord
  <2>2. CASE Save(e) /\ e \notin Transactional
    BY <2>2 DEF Save, Promise!vars, wires
  <2>3. CASE Record(e)
    <3>1. Insert(e) /\ e \notin recorded /\ UNCHANGED <<processed, onBus>>
      BY <2>3 DEF Record, Owing, wires
    <3> QED BY <3>1, InsertIsRecord
  <2>4. CASE Forget(e)
    BY <2>4 DEF Forget, Promise!vars, wires
  <2> QED BY <1>1, <2>1, <2>2, <2>3, <2>4 DEF Produce
<1>2. ASSUME NEW r \in Runs, Dispatch(r) PROVE [Promise!Next]_Promise!vars
  <2>1. CASE Publish(r)
    BY <2>1, DeliverStep
  <2>2. CASE Mark(r)
    <3>1. /\ run[r].at = "marking" /\ processed' = processed \cup {Head(r)}
          /\ UNCHANGED <<recorded, onBus>>
      BY <2>2 DEF Mark, writes, wires
    <3> QED BY <3>1, RetireStep
  <2>3. CASE Refuse(r)
    <3>1. /\ UNCHANGED <<recorded, onBus>>
          /\ \/ processed' = processed
             \/ run[r].at = "marking" /\ processed' = processed \cup {Head(r)}
      BY <2>3 DEF Refuse, writes
    <3>2. CASE processed' = processed
      BY <3>1, <3>2 DEF Promise!vars
    <3> QED BY <3>1, <3>2, RetireStep
  <2>4. CASE Tick(r) \/ Read(r) \/ Send(r) \/ Release(r)
    BY <2>4 DEF Tick, Read, Send, Release, Promise!vars, writes, wires
  <2> QED BY <1>2, <2>1, <2>2, <2>3, <2>4 DEF Dispatch
<1>3. ASSUME NEW c \in Replicas, NEW e \in Subscribed, Tell(c, e) \/ FailToTell(c, e)
      PROVE  [Promise!Next]_Promise!vars
  BY <1>3 DEF Tell, FailToTell, Promise!vars, writes, wires
<1>4. CASE (\E c \in Replicas : Crash(c)) \/ DropSession \/ UNCHANGED vars
  BY <1>4 DEF Crash, DropSession, vars, Promise!vars, writes, wires
<1> QED BY <1>1, <1>2, <1>3, <1>4 DEF Next

(* The dispatcher, with its lock, its refusals and its faults, does to an   *)
(* event only what the relay allows: record it, deliver it while it is not  *)
(* retired, retire it once delivered. That it gets there is PromiseKept's   *)
(* fairness, which is model-checked.                                        *)
THEOREM DispatcherRelays == Spec => Promise!Safety
<1>1. Init => Promise!Init
  BY DEF Init, Promise!Init
<1> QED BY <1>1, StepsAreRelaySteps, Inductive, PTL DEF Spec, Promise!Safety
=============================================================================
