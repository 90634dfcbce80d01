SPECIFICATION Spec
CONSTANTS
  w1 = w1
  w2 = w2
  o1 = o1
  o2 = o2
  Workers = {w1, w2}
  Officers = {o1, o2}
  NoOfficer = NoOfficer
  MaxRequests = 3
  MaxEditions = 3
  MaxCases = 2
  MaxDisturbances = 3
  RequestsMayDie = TRUE
SYMMETRY MCSymmetry
CONSTRAINT Explored
CHECK_DEADLOCK FALSE
INVARIANTS
  TypeOK
  ApprovalRestsOnAVisit
  VisibleWasApproved
  LiveAsVisited
  LockedListingIsInAQueue
  OneOpenRequest
  QueueAgreesWithListing
  ApprovedWasWrittenUp
