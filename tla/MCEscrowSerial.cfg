SPECIFICATION Spec
CONSTANTS
  w1 = w1
  w2 = w2
  c1 = c1
  NoWorker = NoWorker
  NoCase = NoCase
  Workers <- OneWorker
  Cases <- OneCase
  MaxPayments = 3
  Amount = 2
  SettledAmounts <- SettledShares
  MaxLedger = 5
  Operations <- Everything
  GatewayMayRefuse = FALSE
  RequestsMayDie = FALSE
INVARIANTS
  TypeOK
  MoneyBeforeWork
  OneLivePaymentPerMilestone
  CompletedWasAccepted
  NoInstalmentMovesTwice
PROPERTIES
  FrozenMovesBySettlement
  OpenCaseFreezesEscrow
