SPECIFICATION Spec
CONSTANTS
  w1 = w1
  w2 = w2
  b1 = b1
  b2 = b2
  b3 = b3
  NoBooking = NoBooking
  Workers <- TwoWorkers
  Bookings <- ThreeBookings
  MaxCapacity = 2
  UnlockedRunAlone = FALSE
  RequestsMayDie = FALSE
CHECK_DEADLOCK FALSE
INVARIANTS
  NoOverbooking
