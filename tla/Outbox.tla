------------------------------- MODULE Outbox -------------------------------
(***************************************************************************)
(* The transactional outbox: events recorded next to a domain write, the   *)
(* dispatcher every replica runs every two seconds, the advisory lock that *)
(* keeps it to one replica, the broker, and the notifications subscribers  *)
(* of the in-process bus.                                                  *)
(*                                                                         *)
(* An event is named by its createdAt: a smaller one is older. Deliveries  *)
(* are sets: an event delivered twice is not told from one delivered once. *)
(***************************************************************************)
EXTENDS Naturals, FiniteSets

CONSTANTS
  Events,          \* a set of numbers, in the order of createdAt
  Transactional,   \* events recorded by the transaction of their domain write
  Subscribed,      \* events of a type some subscriber notifies people of
  Replicas,
  StartConnected,  \* replicas whose producer is connected to begin with
  Ticks,           \* ticks of one replica's timer that can be in progress
  NoRun,
  BatchSize,
  MaxFaults        \* bound: deaths of a replica and drops of a session

ASSUME EventsAssumption == /\ Events \subseteq Nat
                           /\ Transactional \subseteq Events
                           /\ Subscribed \subseteq Events
ASSUME RunsAssumption   == /\ NoRun \notin Replicas \X Ticks
                           /\ StartConnected \subseteq Replicas
ASSUME BoundsAssumption == /\ BatchSize \in Nat \ {0}
                           /\ MaxFaults \in Nat

VARIABLES
  saved,      \* domain writes that committed
  recorded,   \* rows of outbox_events
  late,       \* history: rows that appeared after a younger one
  processed,  \* rows whose processedAt is set
  forgotten,  \* events of handlers that died between the write and the record
  lock,       \* the run whose session holds outbox:dispatch
  run,        \* where each tick's run stands, and what is left of its batch
  connected,  \* replicas whose Kafka producer connected at start
  onBus,      \* events that went over the in-process bus
  onTopic,    \* events that reached the broker
  muted,      \* history: events a replica without a producer did not send
  telling,    \* <<replica, event>>: notifications still being written
  told,       \* events a notification was written of
  untold,     \* events a notification was lost of
  crashes,
  drops

vars == <<saved, recorded, late, processed, forgotten, lock, run, connected,
          onBus, onTopic, muted, telling, told, untold, crashes, drops>>

writes == <<saved, recorded, late, forgotten>>
wires  == <<connected, onBus, onTopic, muted>>
people == <<telling, told, untold>>
faults == <<crashes, drops>>

-----------------------------------------------------------------------------

Runs == Replicas \X Ticks
Replica(r) == r[1]

Steps == {"idle", "reading", "publishing", "sending", "marking", "releasing"}
RunStates == [at: Steps, batch: SUBSET Events]
NoBatch == [at |-> "idle", batch |-> {}]

Idle(r) == run[r].at = "idle"

(* Mutant: createdAt DESC. *)
Newest(events) == CHOOSE e \in events : \A f \in events : f <= e

(* createdAt ASC *)
Oldest(events) == CHOOSE e \in events : \A f \in events : e <= f
Head(r) == Oldest(run[r].batch)

(* Mutant: a cursor instead of a column, "younger than the last one done". *)
BeyondTheCursor == {e \in recorded : \A f \in processed : f < e}

(* findUnprocessed: the oldest rows, at most a batch of them. *)
Unprocessed == recorded \ processed
Earlier(e) == {f \in Unprocessed : f < e}
OldestUnprocessed == {e \in Unprocessed : Cardinality(Earlier(e)) < BatchSize}

GoTo(r, step) == run' = [run EXCEPT ![r].at = step]

-----------------------------------------------------------------------------
(* Producers *)

(* createdAt is taken when a transaction begins, the row appears when it *)
(* commits: an older event may appear after a younger one.               *)
Insert(e) ==
  /\ recorded' = recorded \cup {e}
  /\ late' = IF \E f \in recorded : f > e THEN late \cup {e} ELSE late

Save(e) ==
  /\ e \notin saved
  /\ saved' = saved \cup {e}
  /\ IF e \in Transactional THEN Insert(e) ELSE UNCHANGED <<recorded, late>>
  /\ UNCHANGED <<processed, forgotten, lock, run, wires, people, faults>>

(* record() without a manager: a write of its own, after the domain write. *)
Owing == saved \ (recorded \cup forgotten)

Record(e) ==
  /\ e \in Owing
  /\ Insert(e)
  /\ UNCHANGED <<saved, processed, forgotten, lock, run, wires, people, faults>>

Forget(e) ==
  /\ e \in Owing
  /\ forgotten' = forgotten \cup {e}
  /\ UNCHANGED <<saved, recorded, late, processed, lock, run, wires, people, faults>>

-----------------------------------------------------------------------------
(* runExclusive: a run whose try-lock fails ends at once. Each run asks on a *)
(* session of its own, so a replica's next tick does not enter either.       *)

(* Mutants: the answer of the try-lock is not looked at; the lock is taken *)
(* in the replica's name.                                                  *)
TickUnlocked(r) ==
  /\ Idle(r)
  /\ lock' = IF lock = NoRun THEN r ELSE lock
  /\ GoTo(r, "reading")
  /\ UNCHANGED <<writes, processed, wires, people, faults>>
TickAsReplica(r) ==
  /\ Idle(r)
  /\ lock = NoRun
  /\ lock' = Replica(r)
  /\ GoTo(r, "reading")
  /\ UNCHANGED <<writes, processed, wires, people, faults>>

Tick(r) ==
  /\ Idle(r)
  /\ lock = NoRun
  /\ lock' = r
  /\ GoTo(r, "reading")
  /\ UNCHANGED <<writes, processed, wires, people, faults>>

Release(r) ==
  /\ run[r].at = "releasing"
  /\ lock' = IF lock = r THEN NoRun ELSE lock
  /\ run' = [run EXCEPT ![r] = NoBatch]
  /\ UNCHANGED <<writes, processed, wires, people, faults>>

-----------------------------------------------------------------------------
(* processBatch: the events of a batch one after another, each published,  *)
(* sent and marked before the next. Whatever is refused ends the batch.    *)

Stop == [at |-> "releasing", batch |-> {}]
Rest(events) == IF events = {} THEN Stop ELSE [at |-> "publishing", batch |-> events]

Read(r) ==
  /\ run[r].at = "reading"
  /\ run' = [run EXCEPT ![r] = Rest(OldestUnprocessed)]
  /\ UNCHANGED <<writes, processed, lock, wires, people, faults>>

(* Mutant: the event goes to the broker and not over the bus. *)
PublishSilently(r) ==
  /\ run[r].at = "publishing"
  /\ onBus' = onBus \cup {Head(r)}
  /\ GoTo(r, "sending")
  /\ UNCHANGED <<writes, processed, lock, connected, onTopic, muted, people, faults>>

Publish(r) ==
  /\ run[r].at = "publishing"
  /\ onBus' = onBus \cup {Head(r)}
  /\ telling' = telling \cup ({Replica(r)} \X ({Head(r)} \cap Subscribed))
  /\ GoTo(r, "sending")
  /\ UNCHANGED <<writes, processed, lock, connected, onTopic, muted, told, untold, faults>>

Reach(e) == onTopic' = onTopic \cup {e}

(* A producer that did not connect at start sends nothing, and nobody is told. *)
Send(r) ==
  /\ run[r].at = "sending"
  /\ IF Replica(r) \in connected
     THEN Reach(Head(r)) /\ UNCHANGED muted
     ELSE muted' = muted \cup {Head(r)} /\ UNCHANGED onTopic
  /\ GoTo(r, "marking")
  /\ UNCHANGED <<writes, processed, lock, connected, onBus, people, faults>>

(* Mutants: the batch is marked as one; the marked row stays in the batch. *)
MarkBatch(r) ==
  /\ run[r].at = "marking"
  /\ processed' = processed \cup run[r].batch
  /\ run' = [run EXCEPT ![r] = Stop]
  /\ UNCHANGED <<writes, lock, wires, people, faults>>
MarkInPlace(r) ==
  /\ run[r].at = "marking"
  /\ processed' = processed \cup {Head(r)}
  /\ GoTo(r, "publishing")
  /\ UNCHANGED <<writes, lock, wires, people, faults>>

Mark(r) ==
  /\ run[r].at = "marking"
  /\ processed' = processed \cup {Head(r)}
  /\ run' = [run EXCEPT ![r] = Rest(run[r].batch \ {Head(r)})]
  /\ UNCHANGED <<writes, lock, wires, people, faults>>

(* Mutant: a refused send is logged and the row is marked all the same. *)
RefuseIgnored(r) ==
  /\ run[r].at = "sending"
  /\ GoTo(r, "marking")
  /\ UNCHANGED <<writes, processed, lock, wires, people, faults>>

(* The read, the send or the mark is refused, or done and its answer lost. *)
Refuse(r) ==
  /\ \/ run[r].at = "reading" /\ UNCHANGED <<onTopic, processed>>
     \/ /\ run[r].at = "sending" /\ Replica(r) \in connected
        /\ UNCHANGED onTopic \/ Reach(Head(r))
        /\ UNCHANGED processed
     \/ /\ run[r].at = "marking"
        /\ processed' \in {processed, processed \cup {Head(r)}}
        /\ UNCHANGED onTopic
  /\ run' = [run EXCEPT ![r] = Stop]
  /\ UNCHANGED <<writes, lock, connected, onBus, muted, people, faults>>

-----------------------------------------------------------------------------
(* The subscribers: a notification is written some time after the bus handed *)
(* the event over, by the replica it was handed over on.                     *)

Tell(c, e) ==
  /\ <<c, e>> \in telling
  /\ telling' = telling \ {<<c, e>>}
  /\ told' = told \cup {e}
  /\ UNCHANGED <<writes, processed, lock, run, wires, untold, faults>>

(* .catch((err) => this.logger.error(...)) *)
FailToTell(c, e) ==
  /\ <<c, e>> \in telling
  /\ telling' = telling \ {<<c, e>>}
  /\ untold' = untold \cup {e}
  /\ UNCHANGED <<writes, processed, lock, run, wires, told, faults>>

-----------------------------------------------------------------------------
(* Faults *)

(* A replica dies with its runs, its sessions and its subscribers, and starts *)
(* again, with or without the broker.                                         *)
Crash(c) ==
  /\ crashes + drops < MaxFaults
  /\ crashes' = crashes + 1
  /\ run' = [r \in Runs |-> IF Replica(r) = c THEN NoBatch ELSE run[r]]
  /\ lock' = IF lock # NoRun /\ Replica(lock) = c THEN NoRun ELSE lock
  /\ connected' \in {connected \cup {c}, connected \ {c}}
  /\ untold' = untold \cup {e \in Subscribed : <<c, e>> \in telling}
  /\ telling' = telling \ ({c} \X Subscribed)
  /\ UNCHANGED <<writes, processed, onBus, onTopic, muted, told, drops>>

(* The session that holds the lock drops while the run goes on. *)
DropSession ==
  /\ crashes + drops < MaxFaults
  /\ lock # NoRun
  /\ drops' = drops + 1
  /\ lock' = NoRun
  /\ UNCHANGED <<writes, processed, run, wires, people, crashes>>

-----------------------------------------------------------------------------

Init ==
  /\ saved = {} /\ recorded = {} /\ late = {} /\ processed = {} /\ forgotten = {}
  /\ lock = NoRun
  /\ run = [r \in Runs |-> NoBatch]
  /\ connected = StartConnected
  /\ onBus = {} /\ onTopic = {} /\ muted = {}
  /\ telling = {} /\ told = {} /\ untold = {}
  /\ crashes = 0 /\ drops = 0

Produce(e) == Save(e) \/ Record(e) \/ Forget(e)

Dispatch(r) ==
  \/ Tick(r) \/ Read(r) \/ Publish(r) \/ Send(r) \/ Mark(r) \/ Refuse(r) \/ Release(r)

Next ==
  \/ \E e \in Events : Produce(e)
  \/ \E r \in Runs : Dispatch(r)
  \/ \E c \in Replicas, e \in Subscribed : Tell(c, e) \/ FailToTell(c, e)
  \/ \E c \in Replicas : Crash(c)
  \/ DropSession

(* The timers tick and some run goes on. The database and the broker may *)
(* refuse again and again, but not every time. A handler and a subscriber *)
(* that are still alive get to their next statement.                      *)
Fairness ==
  /\ WF_vars(\E r \in Runs : Tick(r) \/ Publish(r) \/ Release(r))
  /\ SF_vars(\E r \in Runs : Read(r))
  /\ SF_vars(\E r \in Runs : Send(r))
  /\ SF_vars(\E r \in Runs : Mark(r))
  /\ \A e \in Events : WF_vars(Record(e))
  /\ \A c \in Replicas, e \in Subscribed : WF_vars(Tell(c, e))

Spec == Init /\ [][Next]_vars /\ Fairness

-----------------------------------------------------------------------------

TypeOK ==
  /\ saved \subseteq Events /\ recorded \subseteq Events /\ late \subseteq Events
  /\ processed \subseteq Events /\ forgotten \subseteq Events
  /\ lock \in Runs \cup {NoRun}
  /\ run \in [Runs -> RunStates]
  /\ connected \subseteq Replicas
  /\ onBus \subseteq Events /\ onTopic \subseteq Events /\ muted \subseteq Events
  /\ telling \subseteq Replicas \X Subscribed
  /\ told \subseteq Subscribed /\ untold \subseteq Subscribed
  /\ crashes \in 0..MaxFaults /\ drops \in 0..MaxFaults

(* Nothing is crossed off before it was handed over: whatever dies, drops or *)
(* is refused, a processed event is on record, went over the bus and reached *)
(* the broker, unless the replica that marked it had no producer to send it. *)
ProcessedWasDelivered ==
  \A e \in processed :
    e \in recorded \cap onBus \cap (onTopic \cup muted)

(* One dispatcher at a time: overlapping ticks of one replica and ticks of   *)
(* several exclude each other, and a dead one is replaced, unless the session *)
(* of a run at work drops.                                                   *)
OneDispatcher ==
  drops = 0 => \A r, s \in Runs : ~Idle(r) /\ ~Idle(s) => r = s

(* Events go out in the order they were created: nothing is handed over while *)
(* an older row is unprocessed, unless that row appeared after a younger one. *)
(* Two dispatchers keep the order as well, since each marks before it goes on; *)
(* so an event the broker refuses holds up all that follow.                   *)
OldestFirst ==
  \A e, f \in recorded :
    f < e /\ f \notin late /\ e \in onBus => f \in processed

(* An event that was marked is never handed over again, by a stale batch or  *)
(* another replica, as long as the lock is held.                             *)
NeverAgain ==
  [][drops = 0 => \A r \in Runs :
       run[r].at = "publishing" /\ run'[r].at = "sending" => Head(r) \notin processed]_vars

(* Every event somebody still lives to record is delivered and crossed off   *)
(* in the end, through refusals, dead replicas and dropped sessions.         *)
SavedIsRelayed ==
  \A e \in Events : (e \in saved) ~> (e \in processed \/ e \in forgotten)

(* Whoever the event concerns is told, or one of its notifications was lost: *)
(* a subscriber that fails or dies is not asked again.                       *)
RelayedIsTold ==
  \A e \in Subscribed : (e \in recorded) ~> (e \in told \cup untold)

Promise == INSTANCE Relay WITH
  recorded <- recorded, retired <- processed,
  delivered <- onBus

(* The dispatcher keeps the promise of an outbox. *)
PromiseKept == Promise!Spec
=============================================================================
