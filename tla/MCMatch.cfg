SPECIFICATION Spec
CONSTANTS
  w1 = w1
  w2 = w2
  bride = bride
  groom = groom
  rival = rival
  Workers = {w1}
  Profiles = {bride, groom, rival}
  Pairs <- MCPairs
  Represented = {groom}
  MaxDisturbances = 2
  RequestsMayDie = TRUE
CONSTRAINT Explored
INVARIANTS
  TypeOK
  FixedTookBoth
  AgencyFiltersAcceptance
  OneFixedMatch
  FixedClosesTheRest
  BothConfirmedThisMatch
PROPERTY NoApproachAfterTheEnd
