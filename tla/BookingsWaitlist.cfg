SPECIFICATION Spec
CONSTANTS
  Bookings <- mcBookings
  Attendees <- mcAttendees
  CreatedAt <- mcCreatedAt
  Members <- mcSingleMembers
  Emails <- mcOwnEmails
  LowerCase <- mcLowerCase
  Orphaned = {}
  Capacity = 3
  h1 = h1
  h2 = h2
  Handlers = {h1}
  NoBooking = NoBooking
INVARIANT PlaceAvailableMeansRestored
CHECK_DEADLOCK FALSE
