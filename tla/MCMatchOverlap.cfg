SPECIFICATION Spec
CONSTANTS
  w1 = w1
  w2 = w2
  bride = bride
  groom = groom
  rival = rival
  Workers = {w1, w2}
  Profiles = {bride, groom}
  Pairs <- MCOnePair
  Represented = {bride}
  MaxDisturbances = 3
  RequestsMayDie = TRUE
SYMMETRY MCSymmetry
INVARIANTS
  FixedWasAgreedTo
