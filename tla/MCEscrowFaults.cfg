SPECIFICATION Spec
CONSTANTS
  w1 = w1
  w2 = w2
  c1 = c1
  NoWorker = NoWorker
  NoCase = NoCase
  Workers <- OneWorker
  Cases <- OneCase
  MaxPayments = 1
  Amount = 2
  SettledAmounts <- SettledShares
  MaxLedger = 5
  Operations <- Everything
  GatewayMayRefuse = TRUE
  RequestsMayDie = TRUE
INVARIANTS
  RecordsOnlyWhatMoved
