SPECIFICATION Spec
CONSTANTS
  Bookings <- mcBookings
  Attendees <- mcAttendees
  CreatedAt <- mcCreatedAt
  Members <- mcMembers
  Emails <- mcTypedEmails
  LowerCase <- mcLowerCase
  Orphaned = {}
  Capacity = 3
  h1 = h1
  h2 = h2
  Handlers = {h1}
  NoBooking = NoBooking
INVARIANT OneBookingPerPerson
CHECK_DEADLOCK FALSE
