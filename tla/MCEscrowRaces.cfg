SPECIFICATION Spec
CONSTANTS
  w1 = w1
  w2 = w2
  c1 = c1
  NoWorker = NoWorker
  NoCase = NoCase
  Workers <- TwoWorkers
  Cases <- NoCases
  MaxPayments = 2
  Amount = 2
  SettledAmounts <- SettledShares
  MaxLedger = 5
  Operations <- Racing
  GatewayMayRefuse = TRUE
  RequestsMayDie = TRUE
SYMMETRY Symmetry
INVARIANTS
  MoneyBeforeWork
  CashStaysOutOfEscrow
  RecordsOnlyWhatMoved
  OwedIsClaimedByOne
