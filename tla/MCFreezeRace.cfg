SPECIFICATION Spec
CONSTANTS
  w1 = w1
  w2 = w2
  c1 = c1
  NoWorker = NoWorker
  NoCase = NoCase
  Workers <- TwoWorkers
  Cases <- OneCase
  MaxPayments = 1
  Amount = 2
  SettledAmounts <- SettledShares
  MaxLedger = 5
  Operations <- Releases
  GatewayMayRefuse = FALSE
  RequestsMayDie = FALSE
PROPERTIES
  FrozenMovesBySettlement
