SPECIFICATION Spec
CONSTANTS
  Bookings <- mcBookings
  Attendees <- mcAttendees
  CreatedAt <- mcCreatedAt
  Members <- mcMembers
  Emails <- mcEmails
  LowerCase <- mcLowerCase
  Orphaned = {1}
  Capacity = 3
  h1 = h1
  h2 = h2
  Handlers = {h1, h2}
  NoBooking = NoBooking
SYMMETRY mcSymmetry
CONSTRAINT UntilRaced
INVARIANTS
  TypeOK
  NoOverbooking
  OneBookingPerEmail
  HolderKnows
  NobodyWaitsForNothing
PROPERTIES
  CancelledStaysCancelled
  RestoredInOrder
CHECK_DEADLOCK FALSE
