SPECIFICATION Spec
CONSTANTS
  c1 = c1
  c2 = c2
  t1 = t1
  t2 = t2
  Events = {1, 2}
  Transactional = {1}
  Subscribed = {1}
  Replicas = {c1, c2}
  StartConnected = {c1, c2}
  Ticks = {t1}
  NoRun = NoRun
  BatchSize = 2
  MaxFaults = 1
INVARIANTS
  TypeOK
  ProcessedWasDelivered
  OneDispatcher
  OldestFirst
PROPERTIES
  NeverAgain
  SavedIsRelayed
  RelayedIsTold
  PromiseKept
