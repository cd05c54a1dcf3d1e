------------------------------ MODULE Bookings ------------------------------
(***************************************************************************)
(* Event bookings: the handlers of server/lib/mongo/controllers/booking.ts *)
(* over the bookings of one event.                                         *)
(*                                                                         *)
(* Every awaited call to the store is an action of its own, so the         *)
(* handlers of several requests interleave between a read and the writes   *)
(* that are based on it.  A handler works on the documents it has read: a  *)
(* save overwrites the status whatever it has become in the store.         *)
(***************************************************************************)
EXTENDS Naturals, FiniteSets

CONSTANTS
  Bookings,    \* the booking documents that requests may create
  Attendees,   \* the attendee records of each booking; their number is its places
  CreatedAt,   \* the createdAt each booking carries: set by the client
  Members,     \* the bookings requested by a logged-in member (memberBooking)
  Emails,      \* the addresses of each booking's attendees, as they are stored
  LowerCase,   \* maps an address to its lower-case form
  Orphaned,    \* bookings of a deleted event, which an admin may move to this one
  Capacity,    \* effectiveMaxCapacityForEvent
  Handlers,    \* the requests that can be in flight at the same time
  NoBooking    \* the booking of an idle handler

ASSUME BookingsAssumption ==
  /\ IsFiniteSet(Bookings)
  /\ NoBooking \notin Bookings
  /\ \A b \in Bookings : IsFiniteSet(Attendees[b]) /\ Attendees[b] # {}
  /\ \A b, c \in Bookings : b # c => Attendees[b] \cap Attendees[c] = {}
  /\ CreatedAt \in [Bookings -> Nat]
  /\ Members \subseteq Bookings
  /\ Orphaned \subseteq Bookings
  /\ Capacity \in Nat \ {0}

VARIABLES
  status,     \* the stored status of every booking, "none" before it is created
  req,        \* what each handler is doing
  priority,   \* memberPriorityWindow(event).active
  told,       \* the last email sent about each booking
  moved,      \* bookings an admin has moved to this event
  raced,      \* history: a handler has placed a booking on reads that the write of
              \* another handler, or of an admin, had overtaken
  failed      \* history: a store call was rejected, or the process stopped,
              \* while a handler was running

vars == <<status, req, priority, told, moved, raced, failed>>

Status == {"none", "active", "waitlisted", "cancelled", "deleted"}
Live == {"active", "waitlisted"}
Email == {"none", "confirmation", "waitlisted", "restored", "cancellation"}

Idle == [step |-> "idle", booking |-> NoBooking, queue |-> {}, done |-> {},
         wasActive |-> FALSE, overtaken |-> FALSE]

Steps == {"idle", "capacity", "nonMembers", "displacing", "rollback", "insert",
          "cancelling", "released", "restoring"}

Request == [step : Steps, booking : Bookings \cup {NoBooking},
            queue : SUBSET Bookings, done : SUBSET Bookings,
            wasActive : BOOLEAN, overtaken : BOOLEAN]

TypeOK ==
  /\ status \in [Bookings -> Status]
  /\ req \in [Handlers -> Request]
  /\ priority \in BOOLEAN
  /\ told \in [Bookings -> Email]
  /\ moved \in SUBSET Bookings
  /\ raced \in BOOLEAN
  /\ failed \in BOOLEAN
  /\ \A h \in Handlers : IF req[h].step = "idle" THEN req[h] = Idle
                          ELSE req[h].booking \in Bookings

-----------------------------------------------------------------------------
With(s) == {b \in Bookings : status[b] = s}
AttendeesOf(B) == UNION {Attendees[b] : b \in B}
Places(B) == Cardinality(AttendeesOf(B))

\* Mutant: a waiting-list booking does not count as a booking.
ActiveDuplicates(b) ==
  {c \in Bookings : /\ status[c] = "active"
                    /\ Emails[c] \cap {LowerCase[e] : e \in Emails[b]} # {}}

\* Mongo's {$in: [lower-case addresses]} against the addresses as they were stored.
ExistingDuplicates(b) ==
  {c \in Bookings : /\ status[c] \in Live
                    /\ Emails[c] \cap {LowerCase[e] : e \in Emails[b]} # {}}

\* The documents a find().sort({createdAt}) may deliver next.
Newest(B) == {b \in B : \A c \in B : CreatedAt[c] <= CreatedAt[b]}
SortedDescending(B) == Newest(B)   \* Mutant: restoring sorts as displacing does.
Oldest(B) == {b \in B : \A c \in B : CreatedAt[b] <= CreatedAt[c]}

\* A handler has read: only its own state changes.
Read(h, r) ==
  /\ req' = [req EXCEPT ![h] = r]
  /\ UNCHANGED <<status, moved, raced>>

\* Whatever the handlers in flight have read is out of date from here on.
Overtake == [k \in Handlers |-> IF req[k] = Idle THEN Idle
                                ELSE [req[k] EXCEPT !.overtaken = TRUE]]

\* A handler has written the status of booking b.
Write(h, b, s, r) ==
  /\ status' = [status EXCEPT ![b] = s]
  /\ req' = [Overtake EXCEPT ![h] = r]
  /\ raced' = (raced \/ (s # "cancelled" /\ req[h].overtaken))
  /\ UNCHANGED moved

Tell(B, email) == told' = [b \in Bookings |-> IF b \in B THEN email ELSE told[b]]

-----------------------------------------------------------------------------
(***************************************************************************)
(* create: duplicates, capacity, displacement when a member asks within    *)
(* the priority window, insertion, confirmation.                           *)
(***************************************************************************)

\* A refused request leaves nothing behind, and the client may submit it again.
FindDuplicates(h, b) ==
  /\ req[h] = Idle
  /\ status[b] = "none" /\ \A k \in Handlers : req[k].booking # b
  /\ ExistingDuplicates(b) = {}
  /\ Read(h, [Idle EXCEPT !.step = "capacity", !.booking = b])
  /\ UNCHANGED <<priority, told, failed>>

\* Mutant: an event that the request would just fill counts as full.
FindCapacityFilled(h) ==
  LET b == req[h].booking
      full == Places(With("active")) + Cardinality(Attendees[b]) >= Capacity
  IN
  /\ req[h].step = "capacity"
  /\ \/ ~full /\ Read(h, [req[h] EXCEPT !.step = "insert"])
     \/ full /\ b \in Members /\ priority /\ Read(h, [req[h] EXCEPT !.step = "nonMembers"])
     \/ full /\ ~(b \in Members /\ priority) /\ Read(h, Idle)
  /\ UNCHANGED <<priority, told, failed>>

FindCapacity(h) ==
  LET b == req[h].booking
      full == Places(With("active")) + Cardinality(Attendees[b]) > Capacity
  IN
  /\ req[h].step = "capacity"
  /\ \/ ~full /\ Read(h, [req[h] EXCEPT !.step = "insert"])
     \/ full /\ b \in Members /\ priority /\ Read(h, [req[h] EXCEPT !.step = "nonMembers"])
     \/ full /\ ~(b \in Members /\ priority) /\ Read(h, Idle)
  /\ UNCHANGED <<priority, told, failed>>

FindNonMembers(h) ==
  /\ req[h].step = "nonMembers"
  /\ Read(h, [req[h] EXCEPT !.step = "displacing", !.queue = With("active") \ Members])
  /\ UNCHANGED <<priority, told, failed>>

Freed(h) == Places(req[h].done)
Needed(h) == Cardinality(Attendees[req[h].booking])

\* One turn of the loop: the newest booking left gives up its places.
DisplaceNext(h) ==
  /\ req[h].step = "displacing"
  /\ Freed(h) < Needed(h)
  /\ \E b \in Newest(req[h].queue) :
       /\ status[b] # "deleted"
       /\ Write(h, b, "waitlisted", [req[h] EXCEPT !.queue = @ \ {b}, !.done = @ \cup {b}])
  /\ UNCHANGED <<priority, told, failed>>

DisplacedEnough(h) ==
  /\ req[h].step = "displacing"
  /\ Freed(h) >= Needed(h)
  /\ Tell(req[h].done, "waitlisted")
  /\ Read(h, [req[h] EXCEPT !.step = "insert", !.queue = {}])
  /\ UNCHANGED <<priority, failed>>

\* Mutant: the displaced bookings are told before the shortfall is noticed.
DisplacedTooFewTold(h) ==
  /\ req[h].step = "displacing"
  /\ Freed(h) < Needed(h) /\ req[h].queue = {}
  /\ Tell(req[h].done, "waitlisted")
  /\ Read(h, [req[h] EXCEPT !.step = "rollback"])
  /\ UNCHANGED <<priority, failed>>

DisplacedTooFew(h) ==
  /\ req[h].step = "displacing"
  /\ Freed(h) < Needed(h) /\ req[h].queue = {}
  /\ Read(h, [req[h] EXCEPT !.step = "rollback"])
  /\ UNCHANGED <<priority, told, failed>>

\* The updates of Promise.all reach the store in any order, unconditionally; a
\* booking that is no longer there is not updated.
RollBackNext(h) ==
  /\ req[h].step = "rollback"
  /\ \E b \in req[h].done :
       LET rest == [req[h] EXCEPT !.done = @ \ {b}] IN
       IF status[b] = "deleted" THEN Read(h, rest) ELSE Write(h, b, "active", rest)
  /\ UNCHANGED <<priority, told, failed>>

\* Mutant: the handler is left with the booking it refused.
RolledBackUnreset(h) ==
  /\ req[h].step = "rollback" /\ req[h].done = {}
  /\ Read(h, [req[h] EXCEPT !.step = "idle"])
  /\ UNCHANGED <<priority, told, failed>>

RolledBack(h) ==
  /\ req[h].step = "rollback" /\ req[h].done = {}
  /\ Read(h, Idle)
  /\ UNCHANGED <<priority, told, failed>>

Insert(h) ==
  /\ req[h].step = "insert"
  /\ Write(h, req[h].booking, "active", Idle)
  /\ Tell({req[h].booking}, "confirmation")
  /\ UNCHANGED <<priority, failed>>

-----------------------------------------------------------------------------
(***************************************************************************)
(* cancel, and the restoring of waitlisted bookings that it starts without *)
(* waiting for it.                                                         *)
(***************************************************************************)
FindBooking(h, b) ==
  /\ req[h] = Idle
  /\ status[b] \in Live
  /\ Read(h, [Idle EXCEPT !.step = "cancelling", !.booking = b,
                          !.wasActive = (status[b] = "active")])
  /\ UNCHANGED <<priority, told, failed>>

SaveCancelled(h) ==
  LET b == req[h].booking IN
  /\ req[h].step = "cancelling"
  /\ status[b] # "deleted"
  /\ Write(h, b, "cancelled", IF req[h].wasActive THEN [req[h] EXCEPT !.step = "released"] ELSE Idle)
  /\ Tell({b}, "cancellation")
  /\ UNCHANGED <<priority, failed>>

\* Mutant: whatever is not active is on the waiting list.
FindNotActive(h) ==
  /\ req[h].step = "released"
  /\ Read(h, [req[h] EXCEPT !.step = "restoring",
                            !.queue = With("waitlisted") \cup With("cancelled")])
  /\ UNCHANGED <<priority, told, failed>>

FindWaitlisted(h) ==
  /\ req[h].step = "released"
  /\ Read(h, [req[h] EXCEPT !.step = "restoring", !.queue = With("waitlisted")])
  /\ UNCHANGED <<priority, told, failed>>

\* Mutant: the places of the booking itself are not counted.
FitsFreedBefore(h, b) == Freed(h) < Needed(h)

FitsFreed(h, b) == Freed(h) + Cardinality(Attendees[b]) <= Needed(h)

\* One turn of the loop: the oldest booking left is restored if the places that
\* the cancelled booking released still cover it.
RestoreNext(h) ==
  /\ req[h].step = "restoring"
  /\ \E b \in Oldest(req[h].queue) :
       /\ FitsFreed(h, b)
       /\ status[b] # "deleted"
       /\ Write(h, b, "active", [req[h] EXCEPT !.queue = @ \ {b}, !.done = @ \cup {b}])
       /\ Tell({b}, "restored")
  /\ UNCHANGED <<priority, failed>>

\* The first one that does not fit ends the loop.
LoopOver(h) ==
  /\ req[h].step = "restoring"
  /\ \/ req[h].queue = {}
     \/ \E b \in Oldest(req[h].queue) : ~FitsFreed(h, b)

RestoreEnds(h) ==
  /\ LoopOver(h)
  /\ Read(h, Idle)
  /\ UNCHANGED <<priority, told, failed>>

-----------------------------------------------------------------------------
(***************************************************************************)
(* What happens around the handlers.                                       *)
(***************************************************************************)

\* deleteOne of the CRUD controller: the waiting list is not looked at.  What it does
\* to the reads of a handler in flight is harmless, so it does not count as overtaking.
AdminDelete(b) ==
  /\ status[b] \in Live \cup {"cancelled"}
  /\ status' = [status EXCEPT ![b] = "deleted"]
  /\ UNCHANGED <<req, priority, told, moved, raced, failed>>

\* update of the CRUD controller, as the admin page uses it: a booking of a deleted
\* event gets this event's id and keeps its status.
AdminReassign(b) ==
  /\ b \in Orphaned /\ status[b] = "none" /\ \A k \in Handlers : req[k].booking # b
  /\ \E s \in Live :
       /\ status' = [status EXCEPT ![b] = s]
       /\ Tell({b}, IF s = "active" THEN "confirmation" ELSE "waitlisted")
  /\ moved' = moved \cup {b}
  /\ req' = Overtake
  /\ UNCHANGED <<priority, raced, failed>>

PublicBookingOpens ==
  /\ priority
  /\ priority' = FALSE
  /\ UNCHANGED <<status, req, told, moved, raced, failed>>

\* The store rejects a call (a save of a deleted document is one such call), or the
\* process stops: the handler ends where it is and nothing is undone.
Fail(h) ==
  /\ req[h].step # "idle"
  /\ Read(h, Idle)
  /\ failed' = TRUE
  /\ UNCHANGED <<priority, told>>

-----------------------------------------------------------------------------
Init ==
  /\ status = [b \in Bookings |-> "none"]
  /\ req = [h \in Handlers |-> Idle]
  /\ priority \in BOOLEAN
  /\ told = [b \in Bookings |-> "none"]
  /\ moved = {}
  /\ raced = FALSE
  /\ failed = FALSE

Create(h) ==
  \/ \E b \in Bookings : FindDuplicates(h, b)
  \/ FindCapacity(h) \/ FindNonMembers(h)
  \/ DisplaceNext(h) \/ DisplacedEnough(h) \/ DisplacedTooFew(h)
  \/ RollBackNext(h) \/ RolledBack(h) \/ Insert(h)

Cancel(h) ==
  \/ \E b \in Bookings : FindBooking(h, b)
  \/ SaveCancelled(h) \/ FindWaitlisted(h) \/ RestoreNext(h) \/ RestoreEnds(h)

Next ==
  \/ \E h \in Handlers : Create(h) \/ Cancel(h) \/ Fail(h)
  \/ \E b \in Bookings : AdminDelete(b) \/ AdminReassign(b)
  \/ PublicBookingOpens

Spec == Init /\ [][Next]_vars

-----------------------------------------------------------------------------
(***************************************************************************)
(* Properties                                                              *)
(***************************************************************************)

\* The capacity check of create, the displacement and the restoring together never
\* seat more people than the event holds, except for the bookings an admin has moved
\* in, unless a handler has written on reads that another write had overtaken:
\* the gap between find and create (booking.ts:109-129), between two saves of a
\* displacement, and between a cancellation and its restoring, is the only way an
\* event gets overbooked.
NoOverbooking ==
  ~raced => Places(With("active")) <= Capacity + Places(moved)

\* One address holds at most one live booking of the event, unless handlers raced or
\* an admin moved bookings in: for addresses that were entered in lower case.
OneBookingPerEmail ==
  ~raced /\ moved = {} =>
    \A b, c \in Bookings :
      b # c /\ status[b] \in Live /\ status[c] \in Live =>
        \A e \in Emails[b] \cap Emails[c] : e # LowerCase[e]

\* Nobody who cancelled finds himself booked again: neither displacement, nor its
\* rollback, nor restoring takes a booking out of "cancelled", unless handlers raced.
CancelledStaysCancelled ==
  [][~raced' => \A b \in Bookings :
       status[b] = "cancelled" => status'[b] \in {"cancelled", "deleted"}]_vars

AllIdle == \A h \in Handlers : req[h] = Idle

Announced(s) ==
  CASE s = "active" -> {"confirmation", "restored"}
    [] s = "waitlisted" -> {"waitlisted"}
    [] s = "cancelled" -> {"cancellation"}
    [] s \in {"none", "deleted"} -> Email

\* At rest, the last email about a booking says what its status is: a displacement
\* that is rolled back is never announced, one that stands always is, unless handlers
\* raced or one of them was cut short.
HolderKnows ==
  ~raced /\ ~failed /\ AllIdle => \A b \in Bookings : told[b] \in Announced(status[b])

\* Nobody waits for nothing: at rest, unless a handler was cut short, somebody whom no admin
\* has put there is on the waiting list only if more places were booked than the event
\* holds.  What create found full it then displaces for, several saves later, and either
\* the booking that needs the places is made or every displaced one is put back, whatever
\* others write or delete meanwhile.
NobodyWaitsForNothing ==
  ~failed /\ AllIdle /\ With("waitlisted") \ moved # {} => Places(Bookings \ With("none")) > Capacity

\* Restoring serves the waiting list in the order of booking: a booking is restored
\* only when no older one is waiting, unless handlers raced.
RestoredInOrder ==
  [][~raced' => \A b \in Bookings :
       (status[b] = "waitlisted" /\ told[b] # told'[b] /\ told'[b] = "restored") =>
         \A c \in With("waitlisted") : CreatedAt[b] <= CreatedAt[c]]_vars

\* What the email to a displaced booking says (booking-config.model.ts:62): "If a place
\* becomes available, your booking will be automatically restored and you will be
\* notified by email."  When the restoring that follows a cancellation is over, and
\* nothing raced, failed, was deleted or moved in, the booking that has waited longest
\* is not one that the free places could seat.
PlaceAvailableMeansRestored ==
  ~raced /\ ~failed /\ moved = {} /\ With("deleted") = {} =>
    \A h \in Handlers : LoopOver(h) =>
      \A b \in Oldest(With("waitlisted")) :
        Places(With("active")) + Cardinality(Attendees[b]) > Capacity

\* What create answers (booking.ts:103), "A booking already exists for ... on this
\* event", it answers for the same address however it was typed: addresses are
\* compared in lower case (booking.ts:32-36, 68-71).
OneBookingPerPerson ==
  ~raced /\ moved = {} =>
    \A b, c \in Bookings :
      b # c /\ status[b] \in Live /\ status[c] \in Live =>
        {LowerCase[e] : e \in Emails[b]} \cap {LowerCase[e] : e \in Emails[c]} = {}
=============================================================================
