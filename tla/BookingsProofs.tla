--------------------------- MODULE BookingsProofs ---------------------------
(***************************************************************************)
(* Proofs about Bookings, for any bookings, capacity and number of         *)
(* requests in flight.                                                     *)
(***************************************************************************)
EXTENDS Bookings, FiniteSetTheorems, TLAPS

-----------------------------------------------------------------------------
(***************************************************************************)
(* Counting places.                                                        *)
(***************************************************************************)

\* Any set of bookings has finitely many attendees (what totalBooked sums up).
LEMMA AttendeesFinite ==
  ASSUME NEW B \in SUBSET Bookings
  PROVE  IsFiniteSet(AttendeesOf(B)) /\ Places(B) \in Nat
<1> DEFINE T == {Attendees[b] : b \in B}
           f == [b \in B |-> Attendees[b]]
<1>1. IsFiniteSet(B)
  BY FS_Subset, BookingsAssumption
<1>2. f \in Surjection(B, T)
  BY DEF Surjection
<1>3. IsFiniteSet(T)
  <2> HIDE DEF f, T
  <2> QED BY <1>1, <1>2, FS_Surjection
<1>4. IsFiniteSet(UNION T)
  BY <1>3, FS_UNION, BookingsAssumption
<1> QED
  BY <1>4, FS_CardinalityType DEF AttendeesOf, Places

\* Fewer bookings take no more places.
LEMMA PlacesMonotone ==
  ASSUME NEW B \in SUBSET Bookings, NEW A \in SUBSET B
  PROVE  Places(A) <= Places(B)
<1>1. AttendeesOf(A) \subseteq AttendeesOf(B)
  BY DEF AttendeesOf
<1> QED
  BY <1>1, AttendeesFinite, FS_Subset DEF Places

\* Bookings share no attendee, so the places of two sets add up.
LEMMA PlacesUnion ==
  ASSUME NEW A \in SUBSET Bookings, NEW B \in SUBSET Bookings
  PROVE  /\ Places(A \cup B) <= Places(A) + Places(B)
         /\ A \cap B = {} => Places(A \cup B) = Places(A) + Places(B)
<1>1. AttendeesOf(A \cup B) = AttendeesOf(A) \cup AttendeesOf(B)
  BY DEF AttendeesOf
<1>2. IsFiniteSet(AttendeesOf(A)) /\ IsFiniteSet(AttendeesOf(B))
  BY AttendeesFinite
<1> DEFINE common == AttendeesOf(A) \cap AttendeesOf(B)
<1>3. IsFiniteSet(common)
  BY <1>2, FS_Subset
<1>4. Places(A \cup B) = Places(A) + Places(B) - Cardinality(common)
  BY <1>1, <1>2, FS_Union DEF Places
<1>5. A \cap B = {} => common = {}
  BY BookingsAssumption DEF AttendeesOf
<1>6. Cardinality(common) \in Nat /\ (common = {} => Cardinality(common) = 0)
  BY <1>3, FS_CardinalityType, FS_EmptySet
<1>7. Places(A) \in Nat /\ Places(B) \in Nat
  BY AttendeesFinite
<1> QED
  BY <1>4, <1>5, <1>6, <1>7

\* One booking takes as many places as it has attendees.
LEMMA PlacesOfOne ==
  ASSUME NEW b \in Bookings
  PROVE  Places({b}) = Cardinality(Attendees[b]) /\ Cardinality(Attendees[b]) \in Nat
<1>1. AttendeesOf({b}) = Attendees[b]
  BY DEF AttendeesOf
<1> QED
  BY <1>1, FS_CardinalityType, BookingsAssumption DEF Places

LEMMA PlacesOfNone == Places({}) = 0
  BY FS_EmptySet DEF Places, AttendeesOf

-----------------------------------------------------------------------------
(***************************************************************************)
(* The inductive invariant.  What a handler whose reads nobody has         *)
(* overtaken still knows of the store, and the places that are its own:    *)
(* those it has found free, displaced or released and not yet filled.      *)
(***************************************************************************)
Bound == Capacity + Places(moved)

Creating == {"capacity", "nonMembers", "displacing", "rollback", "insert"}

TargetIsNew(h) ==
  req[h].step \in Creating =>
    status[req[h].booking] = "none" /\ ExistingDuplicates(req[h].booking) = {}

DisplacingKnows(h) ==
  /\ req[h].step = "displacing" =>
       \A b \in req[h].queue : status[b] \in {"active", "deleted"}
  /\ req[h].step \in {"displacing", "rollback"} =>
       /\ \A b \in req[h].done : status[b] \in {"waitlisted", "deleted"}
       /\ Places(With("active") \cup req[h].done) <= Bound

CancellingKnows(h) ==
  req[h].step = "cancelling" =>
    status[req[h].booking] \in {IF req[h].wasActive THEN "active" ELSE "waitlisted", "deleted"}

RestoringKnows(h) ==
  req[h].step = "restoring" =>
    /\ \A b \in req[h].queue : status[b] \in {"waitlisted", "deleted"}
    /\ Places(With("active") \ req[h].done) + Needed(h) <= Bound
    /\ Places(req[h].done) <= Needed(h)

HasRoom(h) ==
  req[h].step \in {"insert", "released"} => Places(With("active")) + Needed(h) <= Bound

HandlerInv(h) ==
  ~req[h].overtaken =>
    TargetIsNew(h) /\ DisplacingKnows(h) /\ CancellingKnows(h) /\ RestoringKnows(h) /\ HasRoom(h)

DoneEmpty ==
  \A h \in Handlers :
    req[h].step \in {"capacity", "nonMembers", "cancelling", "released"} => req[h].done = {}

MovedExist == \A b \in moved : status[b] # "none"

IInv ==
  /\ TypeOK
  /\ DoneEmpty
  /\ MovedExist
  /\ ~raced => /\ Places(With("active")) <= Bound
               /\ \A h \in Handlers : HandlerInv(h)

-----------------------------------------------------------------------------
(***************************************************************************)
(* Types                                                                   *)
(***************************************************************************)
RequestOK(r) == r \in Request /\ (IF r.step = "idle" THEN r = Idle ELSE r.booking \in Bookings)

LEMMA IdleOK == RequestOK(Idle)
  BY DEF RequestOK, Idle, Request, Steps

\* A handler that moves on with a well-typed request, after a read or a write, leaves
\* every handler well-typed.
LEMMA ReadType ==
  ASSUME TypeOK, NEW h \in Handlers, NEW r, RequestOK(r), Read(h, r),
         priority' \in BOOLEAN, told' \in [Bookings -> Email], failed' \in BOOLEAN
  PROVE  TypeOK'
  BY DEF TypeOK, Read, RequestOK

LEMMA OvertakeType ==
  ASSUME TypeOK
  PROVE  /\ Overtake \in [Handlers -> Request]
         /\ \A k \in Handlers : RequestOK(Overtake[k])
<1> SUFFICES ASSUME NEW k \in Handlers PROVE RequestOK(Overtake[k])
  BY DEF Overtake, RequestOK
<1>1. CASE req[k] = Idle
  BY <1>1, IdleOK DEF Overtake
<1>2. CASE req[k] # Idle
  BY <1>2 DEF Overtake, RequestOK, TypeOK, Request
<1> QED BY <1>1, <1>2

LEMMA WriteType ==
  ASSUME TypeOK, NEW h \in Handlers, NEW b \in Bookings, NEW s \in Status,
         NEW r, RequestOK(r), Write(h, b, s, r),
         priority' \in BOOLEAN, told' \in [Bookings -> Email], failed' \in BOOLEAN
  PROVE  TypeOK'
<1>1. req' \in [Handlers -> Request]
  BY OvertakeType DEF Write, RequestOK
<1>2. \A k \in Handlers : RequestOK(req'[k])
  BY OvertakeType DEF Write
<1>3. status' \in [Bookings -> Status] /\ moved' \in SUBSET Bookings /\ raced' \in BOOLEAN
  BY DEF Write, TypeOK
<1> QED
  BY <1>1, <1>2, <1>3 DEF TypeOK, RequestOK

LEMMA TellType ==
  ASSUME TypeOK, NEW B, NEW email \in Email, Tell(B, email)
  PROVE  told' \in [Bookings -> Email]
  BY DEF Tell, TypeOK

LEMMA TypeInit == Init => TypeOK
<1> SUFFICES ASSUME Init PROVE TypeOK
  OBVIOUS
<1>1. req \in [Handlers -> Request] /\ \A h \in Handlers : RequestOK(req[h])
  BY IdleOK DEF Init, RequestOK
<1> QED
  BY <1>1 DEF Init, TypeOK, RequestOK, Status, Email

LEMMA TypeNext == TypeOK /\ [Next]_vars => TypeOK'
<1> SUFFICES ASSUME TypeOK, [Next]_vars PROVE TypeOK'
  OBVIOUS
<1> USE DEF Status, Email
<1>0. \A h \in Handlers : RequestOK(req[h])
  BY DEF TypeOK, RequestOK
<1>1. ASSUME NEW h \in Handlers, NEW b \in Bookings, FindDuplicates(h, b) PROVE TypeOK'
  <2> DEFINE r == [Idle EXCEPT !.step = "capacity", !.booking = b]
  <2>1. RequestOK(r)
    BY DEF RequestOK, Idle, Request, Steps
  <2> QED BY <1>1, <2>1, ReadType DEF FindDuplicates, TypeOK
<1>2. ASSUME NEW h \in Handlers, FindCapacity(h) PROVE TypeOK'
  <2> DEFINE r == [req[h] EXCEPT !.step = "insert"]
             q == [req[h] EXCEPT !.step = "nonMembers"]
  <2>1. RequestOK(r) /\ RequestOK(q)
    BY <1>0, <1>2 DEF FindCapacity, RequestOK, Request, Steps
  <2>2. Read(h, r) \/ Read(h, q) \/ Read(h, Idle)
    BY <1>2 DEF FindCapacity
  <2>3. priority' \in BOOLEAN /\ told' \in [Bookings -> Email] /\ failed' \in BOOLEAN
    BY <1>2 DEF FindCapacity, TypeOK
  <2> HIDE DEF r, q
  <2> QED BY <2>1, <2>2, <2>3, ReadType, IdleOK
<1>3. ASSUME NEW h \in Handlers, FindNonMembers(h) PROVE TypeOK'
  <2> DEFINE r == [req[h] EXCEPT !.step = "displacing", !.queue = With("active") \ Members]
  <2>1. RequestOK(r)
    BY <1>0, <1>3 DEF FindNonMembers, RequestOK, Request, Steps, With
  <2> QED BY <1>3, <2>1, ReadType DEF FindNonMembers, TypeOK
<1>4. ASSUME NEW h \in Handlers, DisplaceNext(h) PROVE TypeOK'
  <2>1. PICK b \in Newest(req[h].queue) :
          Write(h, b, "waitlisted", [req[h] EXCEPT !.queue = @ \ {b}, !.done = @ \cup {b}])
    BY <1>4 DEF DisplaceNext
  <2>2. b \in Bookings
    BY <1>0 DEF Newest, RequestOK, Request
  <2> DEFINE r == [req[h] EXCEPT !.queue = @ \ {b}, !.done = @ \cup {b}]
  <2>3. RequestOK(r)
    BY <1>0, <1>4, <2>2 DEF DisplaceNext, RequestOK, Request, Steps
  <2> QED BY <1>4, <2>1, <2>2, <2>3, WriteType DEF DisplaceNext, TypeOK
<1>5. ASSUME NEW h \in Handlers, DisplacedEnough(h) PROVE TypeOK'
  <2> DEFINE r == [req[h] EXCEPT !.step = "insert", !.queue = {}]
  <2>1. RequestOK(r)
    BY <1>0, <1>5 DEF DisplacedEnough, RequestOK, Request, Steps
  <2> QED BY <1>5, <2>1, ReadType, TellType DEF DisplacedEnough, TypeOK
<1>6. ASSUME NEW h \in Handlers, DisplacedTooFew(h) PROVE TypeOK'
  <2> DEFINE r == [req[h] EXCEPT !.step = "rollback"]
  <2>1. RequestOK(r)
    BY <1>0, <1>6 DEF DisplacedTooFew, RequestOK, Request, Steps
  <2> QED BY <1>6, <2>1, ReadType DEF DisplacedTooFew, TypeOK
<1>7. ASSUME NEW h \in Handlers, RollBackNext(h) PROVE TypeOK'
  <2>1. PICK b \in req[h].done :
          LET rest == [req[h] EXCEPT !.done = @ \ {b}]
          IN  Read(h, rest) \/ Write(h, b, "active", rest)
    BY <1>7 DEF RollBackNext
  <2>2. b \in Bookings
    BY <1>0 DEF RequestOK, Request
  <2> DEFINE r == [req[h] EXCEPT !.done = @ \ {b}]
  <2>3. RequestOK(r)
    BY <1>0, <1>7, <2>2 DEF RollBackNext, RequestOK, Request, Steps
  <2> QED BY <1>7, <2>1, <2>2, <2>3, ReadType, WriteType DEF RollBackNext, TypeOK
<1>8. ASSUME NEW h \in Handlers, RolledBack(h) PROVE TypeOK'
  BY <1>8, IdleOK, ReadType DEF RolledBack, TypeOK
<1>9. ASSUME NEW h \in Handlers, Insert(h) PROVE TypeOK'
  <2>1. req[h].booking \in Bookings
    BY <1>0, <1>9 DEF Insert, RequestOK
  <2> QED BY <1>9, <2>1, IdleOK, WriteType, TellType DEF Insert, TypeOK
<1>10. ASSUME NEW h \in Handlers, NEW b \in Bookings, FindBooking(h, b) PROVE TypeOK'
  <2> DEFINE r == [Idle EXCEPT !.step = "cancelling", !.booking = b,
                               !.wasActive = (status[b] = "active")]
  <2>1. RequestOK(r)
    BY DEF RequestOK, Idle, Request, Steps
  <2> QED BY <1>10, <2>1, ReadType DEF FindBooking, TypeOK
<1>11. ASSUME NEW h \in Handlers, SaveCancelled(h) PROVE TypeOK'
  <2> DEFINE r == IF req[h].wasActive THEN [req[h] EXCEPT !.step = "released"] ELSE Idle
  <2>1. req[h].booking \in Bookings
    BY <1>0, <1>11 DEF SaveCancelled, RequestOK
  <2>2. RequestOK(r)
    BY <1>0, <1>11, IdleOK DEF SaveCancelled, RequestOK, Request, Steps
  <2> QED BY <1>11, <2>1, <2>2, WriteType, TellType DEF SaveCancelled, TypeOK
<1>12. ASSUME NEW h \in Handlers, FindWaitlisted(h) PROVE TypeOK'
  <2> DEFINE r == [req[h] EXCEPT !.step = "restoring", !.queue = With("waitlisted")]
  <2>1. RequestOK(r)
    BY <1>0, <1>12 DEF FindWaitlisted, RequestOK, Request, Steps, With
  <2> QED BY <1>12, <2>1, ReadType DEF FindWaitlisted, TypeOK
<1>13. ASSUME NEW h \in Handlers, RestoreNext(h) PROVE TypeOK'
  <2>1. PICK b \in Oldest(req[h].queue) :
          /\ Write(h, b, "active", [req[h] EXCEPT !.queue = @ \ {b}, !.done = @ \cup {b}])
          /\ Tell({b}, "restored")
    BY <1>13 DEF RestoreNext
  <2>2. b \in Bookings
    BY <1>0 DEF Oldest, RequestOK, Request
  <2> DEFINE r == [req[h] EXCEPT !.queue = @ \ {b}, !.done = @ \cup {b}]
  <2>3. RequestOK(r)
    BY <1>0, <1>13, <2>2 DEF RestoreNext, RequestOK, Request, Steps
  <2> QED BY <1>13, <2>1, <2>2, <2>3, WriteType, TellType DEF RestoreNext, TypeOK
<1>14. ASSUME NEW h \in Handlers, RestoreEnds(h) PROVE TypeOK'
  BY <1>14, IdleOK, ReadType DEF RestoreEnds, TypeOK
<1>15. ASSUME NEW h \in Handlers, Fail(h) PROVE TypeOK'
  BY <1>15, IdleOK, ReadType DEF Fail, TypeOK
<1>16. ASSUME NEW b \in Bookings, AdminDelete(b) PROVE TypeOK'
  BY <1>16 DEF AdminDelete, TypeOK
<1>17. ASSUME NEW b \in Bookings, AdminReassign(b) PROVE TypeOK'
  <2>1. req' \in [Handlers -> Request] /\ \A k \in Handlers : RequestOK(req'[k])
    BY <1>17, OvertakeType DEF AdminReassign
  <2>2. told' \in [Bookings -> Email]
    BY <1>17, TellType DEF AdminReassign
  <2>3. status' \in [Bookings -> Status] /\ moved' \in SUBSET Bookings
    BY <1>17 DEF AdminReassign, TypeOK, Live
  <2> QED BY <1>17, <2>1, <2>2, <2>3 DEF AdminReassign, TypeOK, RequestOK
<1>18. CASE PublicBookingOpens
  BY <1>18 DEF PublicBookingOpens, TypeOK
<1>19. CASE UNCHANGED vars
  BY <1>19 DEF vars, TypeOK
<1> QED
  BY <1>1, <1>2, <1>3, <1>4, <1>5, <1>6, <1>7, <1>8, <1>9, <1>10, <1>11, <1>12, <1>13,
     <1>14, <1>15, <1>16, <1>17, <1>18, <1>19 DEF Next, Create, Cancel

\* Every behaviour keeps the types: in particular an idle handler holds nothing over
\* from the request it served before, and a busy one is about a booking.
THEOREM TypeCorrect == Spec => []TypeOK
  BY TypeInit, TypeNext, PTL DEF Spec

-----------------------------------------------------------------------------
(***************************************************************************)
(* The invariant is inductive                                              *)
(***************************************************************************)
DoneOK(r) == r.step \in {"capacity", "nonMembers", "cancelling", "released"} => r.done = {}

LEMMA BoundType ==
  ASSUME TypeOK
  PROVE  /\ Bound \in Nat /\ Capacity <= Bound
         /\ With("active") \in SUBSET Bookings
         /\ Places(With("active")) \in Nat
<1>1. Places(moved) \in Nat
  BY AttendeesFinite DEF TypeOK
<1>2. With("active") \in SUBSET Bookings
  BY DEF With
<1> QED
  BY <1>1, <1>2, AttendeesFinite, BookingsAssumption DEF Bound

LEMMA RequestFields ==
  ASSUME TypeOK, NEW h \in Handlers
  PROVE  /\ req[h].queue \in SUBSET Bookings /\ req[h].done \in SUBSET Bookings
         /\ req[h].step \in Steps
         /\ req[h].step # "idle" => req[h].booking \in Bookings /\ Needed(h) \in Nat
<1>1. req[h] \in Request
  BY DEF TypeOK
<1>2. req[h].step # "idle" => req[h].booking \in Bookings
  BY DEF TypeOK
<1> QED
  BY <1>1, <1>2, PlacesOfOne DEF Request, Needed

\* A read changes no claim but the reader's own.
LEMMA ReadStep ==
  ASSUME IInv, TypeOK', NEW h \in Handlers, NEW r, Read(h, r), DoneOK(r),
         ~raced => HandlerInv(h)'
  PROVE  IInv'
<1>1. status' = status /\ moved' = moved /\ raced' = raced
  BY DEF Read
<1>2. req' = [req EXCEPT ![h] = r] /\ req \in [Handlers -> Request]
  BY DEF Read, IInv, TypeOK
<1>3. DoneEmpty'
  BY <1>2 DEF DoneEmpty, DoneOK, IInv
<1>4. MovedExist'
  BY <1>1 DEF MovedExist, IInv
<1>5. With("active")' = With("active") /\ Bound' = Bound
  BY <1>1 DEF With, Bound
<1>6. ASSUME ~raced, NEW k \in Handlers, k # h PROVE HandlerInv(k)'
  <2>1. req'[k] = req[k]
    BY <1>2, <1>6
  <2>2. HandlerInv(k)
    BY <1>6 DEF IInv
  <2> QED
    BY <1>1, <1>5, <2>1, <2>2 DEF HandlerInv, TargetIsNew, DisplacingKnows, CancellingKnows,
       RestoringKnows, HasRoom, ExistingDuplicates, Needed
<1> QED
  BY <1>1, <1>3, <1>4, <1>5, <1>6 DEF IInv

\* A handler that idles or has been overtaken claims nothing.
LEMMA NoClaim ==
  ASSUME NEW h \in Handlers, req[h].step = "idle" \/ req[h].overtaken
  PROVE  HandlerInv(h)
  BY DEF HandlerInv, TargetIsNew, DisplacingKnows, CancellingKnows, RestoringKnows, HasRoom, Creating

\* A write overtakes all other handlers, so only the writer's claim has to be kept.
LEMMA WriteStep ==
  ASSUME IInv, TypeOK', NEW h \in Handlers, NEW b \in Bookings, NEW s \in Status \ {"none"},
         NEW r, Write(h, b, s, r), DoneOK(r),
         ~raced' => Places(With("active"))' <= Bound' /\ HandlerInv(h)'
  PROVE  IInv'
<1>1. /\ status' = [status EXCEPT ![b] = s] /\ status \in [Bookings -> Status]
      /\ moved' = moved /\ moved \in SUBSET Bookings
  BY DEF Write, IInv, TypeOK
<1>2. req' = [Overtake EXCEPT ![h] = r]
  BY DEF Write
<1>3. ASSUME NEW k \in Handlers, k # h
      PROVE  DoneOK(req'[k]) /\ (req'[k].step = "idle" \/ req'[k].overtaken)
  <2>1. req'[k] = IF req[k] = Idle THEN Idle ELSE [req[k] EXCEPT !.overtaken = TRUE]
    BY <1>2, <1>3 DEF Overtake
  <2>2. req[k] \in Request
    BY DEF IInv, TypeOK
  <2>3. DoneOK(req[k]) /\ DoneOK(Idle)
    BY DEF IInv, DoneEmpty, DoneOK, Idle
  <2> QED
    BY <2>1, <2>2, <2>3 DEF DoneOK, Idle, Request
<1>4. DoneEmpty'
  <2>1. DoneOK(req'[h])
    BY <1>2 DEF Overtake
  <2> QED BY <2>1, <1>3 DEF DoneEmpty, DoneOK
<1>5. MovedExist'
  BY <1>1 DEF MovedExist, IInv
<1>6. \A k \in Handlers : k # h => HandlerInv(k)'
  BY <1>3 DEF HandlerInv, TargetIsNew, DisplacingKnows, CancellingKnows, RestoringKnows, HasRoom,
     Creating
<1> QED
  BY <1>4, <1>5, <1>6 DEF IInv

\* A save that keeps a live booking live, or ends it, makes no new duplicate.
LEMMA NoNewDuplicate ==
  ASSUME NEW c \in Bookings, ExistingDuplicates(c) = {},
         \A b \in Bookings : status'[b] \in Live => status[b] \in Live
  PROVE  ExistingDuplicates(c)' = {}
  BY DEF ExistingDuplicates

LEMMA CreateReads ==
  ASSUME IInv, TypeOK', NEW h \in Handlers,
         \/ \E b \in Bookings : FindDuplicates(h, b)
         \/ FindCapacity(h) \/ FindNonMembers(h) \/ DisplacedEnough(h) \/ DisplacedTooFew(h)
         \/ RolledBack(h)
  PROVE  IInv'
<1> USE DEF DoneOK
<1>0. TypeOK
  BY DEF IInv
<1>a. req \in [Handlers -> Request] /\ req[h] \in Request
  BY <1>0 DEF TypeOK
<1>b. ~raced => HandlerInv(h) /\ Places(With("active")) <= Bound
  BY DEF IInv
<1>1. ASSUME NEW b \in Bookings, FindDuplicates(h, b) PROVE IInv'
  <2> DEFINE r == [Idle EXCEPT !.step = "capacity", !.booking = b]
  <2>1. Read(h, r) /\ ExistingDuplicates(b) = {} /\ status[b] = "none"
    BY <1>1 DEF FindDuplicates
  <2>2. req'[h] = r /\ status' = status
    BY <2>1, <1>a DEF Read
  <2>3. r.step = "capacity" /\ r.booking = b /\ r.done = {}
    BY DEF Idle
  <2>4. HandlerInv(h)'
    BY <2>1, <2>2, <2>3 DEF HandlerInv, TargetIsNew, DisplacingKnows, CancellingKnows,
       RestoringKnows, HasRoom, Creating, ExistingDuplicates
  <2> HIDE DEF r
  <2> QED BY <2>1, <2>3, <2>4, ReadStep
<1>2. ASSUME FindCapacity(h) PROVE IInv'
  <2>1. req[h].step = "capacity" /\ req[h].done = {}
    BY <1>2 DEF FindCapacity, IInv, DoneEmpty
  <2>2. CASE Read(h, Idle)
    <3>1. HandlerInv(h)'
      BY <2>2, <1>a DEF Read, Idle, HandlerInv, TargetIsNew, DisplacingKnows, CancellingKnows,
         RestoringKnows, HasRoom, Creating
    <3> QED BY <2>2, <3>1, ReadStep DEF Idle
  <2>3. CASE /\ ~(Places(With("active")) + Cardinality(Attendees[req[h].booking]) > Capacity)
             /\ Read(h, [req[h] EXCEPT !.step = "insert"])
    <3> DEFINE r == [req[h] EXCEPT !.step = "insert"]
    <3>1. req'[h] = r /\ status' = status /\ moved' = moved /\ raced' = raced
      BY <2>3, <1>a DEF Read
    <3>2. r.step = "insert" /\ r.booking = req[h].booking /\ r.overtaken = req[h].overtaken
      BY <1>a DEF Request
    <3>3. Places(With("active")) + Needed(h) <= Bound
      <4>1. Places(With("active")) \in Nat /\ Bound \in Nat /\ Capacity <= Bound /\ Capacity \in Nat
        BY <1>0, BoundType, BookingsAssumption
      <4>2. Needed(h) \in Nat
        BY <1>0, <2>1, RequestFields
      <4>3. ~(Places(With("active")) + Needed(h) > Capacity)
        BY <2>3 DEF Needed
      <4> QED BY <4>1, <4>2, <4>3
    <3>4. ~raced => HandlerInv(h)'
      BY <1>b, <2>1, <3>1, <3>2, <3>3
         DEF HandlerInv, TargetIsNew, DisplacingKnows, CancellingKnows, RestoringKnows, HasRoom,
              Creating, ExistingDuplicates, Needed, With, Bound
    <3> HIDE DEF r
    <3> QED BY <2>3, <3>2, <3>4, ReadStep DEF r
  <2>4. CASE Read(h, [req[h] EXCEPT !.step = "nonMembers"])
    <3> DEFINE r == [req[h] EXCEPT !.step = "nonMembers"]
    <3>1. req'[h] = r /\ status' = status
      BY <2>4, <1>a DEF Read
    <3>2. /\ r.step = "nonMembers" /\ r.booking = req[h].booking /\ r.done = {}
          /\ r.overtaken = req[h].overtaken
      BY <1>a, <2>1 DEF Request
    <3>3. ~raced => HandlerInv(h)'
      BY <1>b, <2>1, <3>1, <3>2 DEF HandlerInv, TargetIsNew, DisplacingKnows, CancellingKnows,
         RestoringKnows, HasRoom, Creating, ExistingDuplicates
    <3> QED BY <2>4, <3>2, <3>3, ReadStep
  <2> QED BY <1>2, <2>2, <2>3, <2>4 DEF FindCapacity
<1>3. ASSUME FindNonMembers(h) PROVE IInv'
  <2> DEFINE r == [req[h] EXCEPT !.step = "displacing", !.queue = With("active") \ Members]
  <2>1. req[h].step = "nonMembers" /\ req[h].done = {} /\ Read(h, r)
    BY <1>3 DEF FindNonMembers, IInv, DoneEmpty
  <2>2. req'[h] = r /\ status' = status /\ moved' = moved
    BY <2>1, <1>a DEF Read
  <2>3. /\ r.step = "displacing" /\ r.booking = req[h].booking /\ r.done = {}
        /\ r.queue = With("active") \ Members /\ r.overtaken = req[h].overtaken
    BY <1>a, <2>1 DEF Request
  <2>4. With("active") \cup {} = With("active")
    OBVIOUS
  <2>5. ~raced => HandlerInv(h)'
    BY <1>b, <2>1, <2>2, <2>3, <2>4 DEF HandlerInv, TargetIsNew, DisplacingKnows, CancellingKnows,
       RestoringKnows, HasRoom, Creating, ExistingDuplicates, With, Bound
  <2> QED BY <2>1, <2>3, <2>5, ReadStep
<1>4. ASSUME DisplacedEnough(h) PROVE IInv'
  <2> DEFINE r == [req[h] EXCEPT !.step = "insert", !.queue = {}]
             A == With("active")
             D == req[h].done
  <2>1. req[h].step = "displacing" /\ Places(D) >= Needed(h) /\ Read(h, r)
    BY <1>4 DEF DisplacedEnough, Freed
  <2>2. req'[h] = r /\ status' = status /\ moved' = moved
    BY <2>1, <1>a DEF Read
  <2>3. r.step = "insert" /\ r.booking = req[h].booking /\ r.overtaken = req[h].overtaken
    BY <1>a DEF Request
  <2>4. ASSUME ~raced, ~req[h].overtaken PROVE Places(A) + Needed(h) <= Bound
    <3>1. Places(A \cup D) <= Bound /\ A \cap D = {}
      BY <1>b, <2>1, <2>4 DEF HandlerInv, DisplacingKnows, With
    <3>2. D \in SUBSET Bookings /\ A \in SUBSET Bookings /\ Needed(h) \in Nat
      BY <1>0, <2>1, RequestFields, BoundType
    <3>3. Places(A \cup D) = Places(A) + Places(D)
      BY <3>1, <3>2, PlacesUnion
    <3>4. Places(D) \in Nat /\ Places(A) \in Nat /\ Bound \in Nat
      BY <3>2, <1>0, AttendeesFinite, BoundType
    <3> QED BY <2>1, <3>1, <3>2, <3>3, <3>4
  <2>5. ~raced => HandlerInv(h)'
    BY <1>b, <2>1, <2>2, <2>3, <2>4 DEF HandlerInv, TargetIsNew, DisplacingKnows, CancellingKnows,
       RestoringKnows, HasRoom,
              Creating, ExistingDuplicates, Needed, With, Bound
  <2> QED BY <2>1, <2>3, <2>5, ReadStep
<1>5. ASSUME DisplacedTooFew(h) PROVE IInv'
  <2> DEFINE r == [req[h] EXCEPT !.step = "rollback"]
  <2>1. req[h].step = "displacing" /\ Read(h, r)
    BY <1>5 DEF DisplacedTooFew
  <2>2. req'[h] = r /\ status' = status /\ moved' = moved
    BY <2>1, <1>a DEF Read
  <2>3. /\ r.step = "rollback" /\ r.booking = req[h].booking /\ r.done = req[h].done
        /\ r.overtaken = req[h].overtaken
    BY <1>a DEF Request
  <2>4. ~raced => HandlerInv(h)'
    BY <1>b, <2>1, <2>2, <2>3 DEF HandlerInv, TargetIsNew, DisplacingKnows, CancellingKnows,
       RestoringKnows, HasRoom, Creating, ExistingDuplicates, With, Bound
  <2> QED BY <2>1, <2>3, <2>4, ReadStep
<1>6. ASSUME RolledBack(h) PROVE IInv'
  <2>1. Read(h, Idle)
    BY <1>6 DEF RolledBack
  <2>2. HandlerInv(h)'
    BY <2>1, <1>a DEF Read, Idle, HandlerInv, TargetIsNew, DisplacingKnows, CancellingKnows,
       RestoringKnows, HasRoom, Creating
  <2> QED BY <2>1, <2>2, ReadStep DEF Idle
<1> QED
  BY <1>1, <1>2, <1>3, <1>4, <1>5, <1>6

LEMMA CreateWrites ==
  ASSUME IInv, TypeOK', NEW h \in Handlers,
         DisplaceNext(h) \/ RollBackNext(h) \/ Insert(h)
  PROVE  IInv'
<1> USE DEF DoneOK
<1>0. TypeOK
  BY DEF IInv
<1>a. /\ req \in [Handlers -> Request] /\ req[h] \in Request
      /\ status \in [Bookings -> Status]
  BY <1>0 DEF TypeOK
<1>b. ~raced => HandlerInv(h) /\ Places(With("active")) <= Bound
  BY DEF IInv
<1>c. /\ Places(With("active")) \in Nat /\ Bound \in Nat /\ With("active") \in SUBSET Bookings
      /\ req[h].done \in SUBSET Bookings
  BY <1>0, BoundType, RequestFields
<1> DEFINE A == With("active")
           D == req[h].done
<1>1. ASSUME DisplaceNext(h) PROVE IInv'
  <2>0. PICK b \in Newest(req[h].queue) :
          /\ status[b] # "deleted"
          /\ Write(h, b, "waitlisted", [req[h] EXCEPT !.queue = @ \ {b}, !.done = @ \cup {b}])
    BY <1>1 DEF DisplaceNext
  <2> DEFINE r == [req[h] EXCEPT !.queue = @ \ {b}, !.done = @ \cup {b}]
  <2>1. b \in req[h].queue /\ b \in Bookings /\ req[h].step = "displacing"
    BY <1>0, <1>1, <2>0, RequestFields DEF Newest, DisplaceNext
  <2>2. req'[h] = r /\ status' = [status EXCEPT ![b] = "waitlisted"] /\ moved' = moved
    BY <2>0 DEF Write, Overtake
  <2>3. /\ r.step = "displacing" /\ r.booking = req[h].booking
        /\ r.queue = req[h].queue \ {b} /\ r.done = D \cup {b} /\ r.overtaken = req[h].overtaken
    BY <1>a, <2>1 DEF Request
  <2>4. With("active")' = A \ {b} /\ Bound' = Bound
    BY <1>a, <2>1, <2>2 DEF With, Bound
  <2>5. Places(A \ {b}) <= Places(A) /\ Places(A \ {b}) \in Nat
    BY <1>c, PlacesMonotone, AttendeesFinite
  <2>6. ASSUME ~raced' PROVE Places(With("active"))' <= Bound' /\ HandlerInv(h)'
    <3>1. ~raced /\ ~req[h].overtaken
      BY <2>0, <2>6 DEF Write
    <3>2. Places(With("active"))' <= Bound'
      <4>1. Places(With("active"))' = Places(A \ {b})
        BY <2>4 DEF Places, AttendeesOf
      <4> QED BY <1>b, <1>c, <2>4, <2>5, <3>1, <4>1
    <3>3. TargetIsNew(h) /\ DisplacingKnows(h)
      BY <1>b, <3>1 DEF HandlerInv
    <3>4. status[b] = "active"
      BY <2>0, <2>1, <3>3 DEF DisplacingKnows
    <3>5. TargetIsNew(h)'
      <4>1. req[h].booking \in Bookings /\ req[h].booking # b
        BY <1>0, <2>1, <3>3, <3>4, RequestFields DEF TargetIsNew, Creating
      <4>2. \A c \in Bookings : status'[c] \in Live => status[c] \in Live
        BY <1>a, <2>2, <3>4 DEF Live
      <4> QED BY <1>a, <2>1, <2>2, <2>3, <3>3, <4>1, <4>2, NoNewDuplicate DEF TargetIsNew, Creating
    <3>6. DisplacingKnows(h)'
      <4>1. (A \ {b}) \cup (D \cup {b}) = A \cup D
        BY <2>1, <3>4 DEF With
      <4>2. Places(With("active") \cup req[h].done)' = Places(A \cup D)
        BY <2>2, <2>3, <2>4, <4>1 DEF Places, AttendeesOf
      <4>3. /\ \A c \in req'[h].queue : status'[c] \in {"active", "deleted"}
            /\ \A c \in req'[h].done : status'[c] \in {"waitlisted", "deleted"}
        BY <1>0, <1>a, <1>c, <2>1, <2>2, <2>3, <3>3, RequestFields DEF DisplacingKnows
      <4>4. Places(A \cup D) <= Bound
        BY <2>1, <3>3 DEF DisplacingKnows
      <4> QED BY <2>4, <4>2, <4>3, <4>4 DEF DisplacingKnows
    <3> QED BY <2>2, <2>3, <3>2, <3>5, <3>6 DEF HandlerInv, CancellingKnows, RestoringKnows, HasRoom
  <2> HIDE DEF r
  <2> QED BY <2>0, <2>1, <2>3, <2>6, WriteStep DEF Status, r
<1>2. ASSUME RollBackNext(h) PROVE IInv'
  <2>0. PICK b \in D :
          LET rest == [req[h] EXCEPT !.done = @ \ {b}]
          IN  IF status[b] = "deleted" THEN Read(h, rest) ELSE Write(h, b, "active", rest)
    BY <1>2 DEF RollBackNext
  <2> DEFINE r == [req[h] EXCEPT !.done = @ \ {b}]
  <2>1. b \in Bookings /\ req[h].step = "rollback"
    BY <1>2, <1>c DEF RollBackNext
  <2>2. /\ r.step = "rollback" /\ r.booking = req[h].booking
        /\ r.done = D \ {b} /\ r.overtaken = req[h].overtaken
    BY <1>a, <2>1 DEF Request
  <2>3. req'[h] = r /\ moved' = moved /\ Bound' = Bound
    BY <1>a, <2>0 DEF Read, Write, Overtake, Bound
  <2>4. Places(A \cup (D \ {b})) <= Places(A \cup D) /\ Places(A \cup {b}) <= Places(A \cup D)
    BY <1>c, PlacesMonotone
  <2>5. /\ Places(A \cup (D \ {b})) \in Nat /\ Places(A \cup {b}) \in Nat
        /\ Places(A \cup D) \in Nat
    BY <1>c, AttendeesFinite
  <2>6. ASSUME ~raced, ~req[h].overtaken
        PROVE  TargetIsNew(h) /\ DisplacingKnows(h) /\ Places(A \cup D) <= Bound
    BY <1>b, <2>1, <2>6 DEF HandlerInv, DisplacingKnows
  <2>7. CASE status[b] = "deleted"
    <3>1. Read(h, r) /\ status' = status
      BY <2>0, <2>7 DEF Read
    <3>2. ASSUME ~raced PROVE HandlerInv(h)'
      <4>1. SUFFICES ASSUME ~req[h].overtaken PROVE HandlerInv(h)'
        BY <2>2, <2>3 DEF HandlerInv
      <4>2. TargetIsNew(h)'
        BY <2>1, <2>2, <2>3, <2>6, <3>1, <3>2, <4>1 DEF TargetIsNew, Creating, ExistingDuplicates
      <4>3. Places(With("active") \cup req[h].done)' = Places(A \cup (D \ {b}))
        BY <2>2, <2>3, <3>1 DEF Places, AttendeesOf, With
      <4>4. DisplacingKnows(h)'
        BY <1>c, <2>1, <2>2, <2>3, <2>4, <2>5, <2>6, <3>1, <3>2, <4>1, <4>3 DEF DisplacingKnows
      <4> QED BY <2>2, <2>3, <4>2, <4>4 DEF HandlerInv, CancellingKnows, RestoringKnows, HasRoom
    <3> HIDE DEF r
    <3> QED BY <2>2, <3>1, <3>2, ReadStep
  <2>8. CASE status[b] # "deleted"
    <3>1. Write(h, b, "active", r) /\ status' = [status EXCEPT ![b] = "active"]
      BY <2>0, <2>8 DEF Write
    <3>2. With("active")' = A \cup {b}
      BY <1>a, <2>1, <3>1 DEF With
    <3>3. ASSUME ~raced' PROVE Places(With("active"))' <= Bound' /\ HandlerInv(h)'
      <4>1. ~raced /\ ~req[h].overtaken
        BY <3>1, <3>3 DEF Write
      <4>2. Places(With("active"))' <= Bound'
        <5>1. Places(With("active"))' = Places(A \cup {b})
          BY <3>2 DEF Places, AttendeesOf
        <5> QED BY <1>c, <2>3, <2>4, <2>5, <2>6, <4>1, <5>1
      <4>3. status[b] = "waitlisted" /\ status[req[h].booking] = "none"
        BY <2>1, <2>6, <2>8, <4>1 DEF DisplacingKnows, TargetIsNew, Creating
      <4>4. TargetIsNew(h)'
        <5>1. req[h].booking \in Bookings /\ req[h].booking # b
          BY <1>0, <2>1, <4>3, RequestFields
        <5>2. \A c \in Bookings : status'[c] \in Live => status[c] \in Live
          BY <1>a, <3>1, <4>3 DEF Live
        <5> QED BY <1>a, <2>1, <2>2, <2>3, <2>6, <3>1, <4>1, <5>1, <5>2, NoNewDuplicate
               DEF TargetIsNew, Creating
      <4>5. DisplacingKnows(h)'
        <5>1. (A \cup {b}) \cup (D \ {b}) = A \cup D
          BY <2>0
        <5>2. Places(With("active") \cup req[h].done)' = Places(A \cup D)
          BY <2>2, <2>3, <3>2, <5>1 DEF Places, AttendeesOf
        <5>3. \A c \in req'[h].done : status'[c] \in {"waitlisted", "deleted"}
          BY <1>a, <1>c, <2>1, <2>2, <2>3, <2>6, <3>1, <4>1 DEF DisplacingKnows
        <5> QED BY <2>2, <2>3, <2>6, <4>1, <5>2, <5>3 DEF DisplacingKnows
      <4> QED BY <2>2, <2>3, <4>2, <4>4, <4>5 DEF HandlerInv, CancellingKnows, RestoringKnows, HasRoom
    <3> HIDE DEF r
    <3> QED BY <2>1, <2>2, <3>1, <3>3, WriteStep DEF Status
  <2> QED BY <2>7, <2>8
<1>3. ASSUME Insert(h) PROVE IInv'
  <2> DEFINE b == req[h].booking
  <2>1. req[h].step = "insert" /\ b \in Bookings /\ Write(h, b, "active", Idle)
    BY <1>0, <1>3, RequestFields DEF Insert
  <2>2. With("active")' = A \cup {b} /\ moved' = moved /\ req'[h] = Idle
    BY <1>a, <2>1 DEF With, Write, Overtake
  <2>3. ASSUME ~raced' PROVE Places(With("active"))' <= Bound'
    <3>1. ~raced /\ ~req[h].overtaken
      BY <2>1, <2>3 DEF Write
    <3>2. Places(A) + Needed(h) <= Bound
      BY <1>b, <2>1, <3>1 DEF HandlerInv, HasRoom
    <3>3. Places(A \cup {b}) <= Places(A) + Needed(h) /\ Places(A \cup {b}) \in Nat
      BY <1>c, <2>1, PlacesUnion, PlacesOfOne, AttendeesFinite DEF Needed
    <3>4. Needed(h) \in Nat
      BY <1>0, <2>1, RequestFields
    <3>5. Places(A \cup {b}) <= Bound
      BY <1>c, <3>2, <3>3, <3>4
    <3>6. Places(With("active"))' = Places(A \cup {b}) /\ Bound' = Bound
      BY <2>2 DEF Places, AttendeesOf, Bound
    <3> QED BY <3>5, <3>6
  <2>4. HandlerInv(h)'
    BY <2>2 DEF Idle, HandlerInv, TargetIsNew, DisplacingKnows, CancellingKnows, RestoringKnows,
       HasRoom, Creating
  <2> HIDE DEF b
  <2> QED BY <2>1, <2>3, <2>4, WriteStep DEF Idle, Status
<1> QED BY <1>1, <1>2, <1>3

LEMMA CancelSteps ==
  ASSUME IInv, TypeOK', NEW h \in Handlers, Cancel(h)
  PROVE  IInv'
<1> USE DEF DoneOK
<1>0. TypeOK
  BY DEF IInv
<1>a. /\ req \in [Handlers -> Request] /\ req[h] \in Request
      /\ status \in [Bookings -> Status]
  BY <1>0 DEF TypeOK
<1>b. ~raced => HandlerInv(h) /\ Places(With("active")) <= Bound
  BY DEF IInv
<1>c. /\ Places(With("active")) \in Nat /\ Bound \in Nat /\ With("active") \in SUBSET Bookings
      /\ req[h].done \in SUBSET Bookings
  BY <1>0, BoundType, RequestFields
<1> DEFINE A == With("active")
           D == req[h].done
<1>1. ASSUME NEW b \in Bookings, FindBooking(h, b) PROVE IInv'
  <2> DEFINE r == [Idle EXCEPT !.step = "cancelling", !.booking = b,
                               !.wasActive = (status[b] = "active")]
  <2>1. Read(h, r) /\ status[b] \in Live
    BY <1>1 DEF FindBooking
  <2>2. req'[h] = r /\ status' = status
    BY <2>1, <1>a DEF Read
  <2>3. /\ r.step = "cancelling" /\ r.booking = b /\ r.done = {}
        /\ r.wasActive = (status[b] = "active")
    BY DEF Idle
  <2>4. HandlerInv(h)'
    BY <2>1, <2>2, <2>3 DEF HandlerInv, TargetIsNew, DisplacingKnows, CancellingKnows,
       RestoringKnows, HasRoom, Creating, Live
  <2> HIDE DEF r
  <2> QED BY <2>1, <2>3, <2>4, ReadStep
<1>2. ASSUME SaveCancelled(h) PROVE IInv'
  <2> DEFINE b == req[h].booking
             r == IF req[h].wasActive THEN [req[h] EXCEPT !.step = "released"] ELSE Idle
  <2>1. /\ req[h].step = "cancelling" /\ b \in Bookings /\ Needed(h) \in Nat
        /\ status[b] # "deleted" /\ Write(h, b, "cancelled", r) /\ D = {}
    BY <1>0, <1>2, RequestFields DEF SaveCancelled, IInv, DoneEmpty
  <2>2. With("active")' = A \ {b} /\ Bound' = Bound /\ req'[h] = r
    BY <1>a, <2>1 DEF With, Write, Overtake, Bound
  <2>3. Places(With("active"))' = Places(A \ {b})
    BY <2>2 DEF Places, AttendeesOf
  <2>4. Places(A \ {b}) <= Places(A) /\ Places(A \ {b}) \in Nat
    BY <1>c, PlacesMonotone, AttendeesFinite
  <2>5. DoneOK(r)
    BY <1>a, <2>1 DEF Idle, Request
  <2>6. ASSUME ~raced' PROVE Places(With("active"))' <= Bound' /\ HandlerInv(h)'
    <3>1. ~raced
      BY <2>1, <2>6 DEF Write
    <3>2. Places(With("active"))' <= Bound'
      BY <1>b, <1>c, <2>2, <2>3, <2>4, <3>1
    <3>3. CASE ~req[h].wasActive
      BY <2>2, <3>2, <3>3 DEF Idle, HandlerInv, TargetIsNew, DisplacingKnows, CancellingKnows,
         RestoringKnows, HasRoom, Creating
    <3>4. CASE req[h].wasActive
      <4>1. /\ req'[h].step = "released" /\ req'[h].booking = b
            /\ req'[h].overtaken = req[h].overtaken
        BY <1>a, <2>2, <3>4 DEF Request
      <4>2. ASSUME ~req[h].overtaken PROVE Places(With("active"))' + Needed(h)' <= Bound'
        <5>1. status[b] = "active"
          BY <1>b, <2>1, <3>1, <3>4, <4>2 DEF HandlerInv, CancellingKnows
        <5>2. A = (A \ {b}) \cup {b} /\ (A \ {b}) \cap {b} = {}
          BY <2>1, <5>1 DEF With
        <5>3. Places(A) = Places(A \ {b}) + Places({b})
          BY <1>c, <2>1, <5>2, PlacesUnion
        <5>4. Places({b}) = Needed(h) /\ Needed(h)' = Needed(h)
          BY <2>1, <4>1, PlacesOfOne DEF Needed
        <5> QED BY <1>b, <1>c, <2>1, <2>2, <2>3, <2>4, <3>1, <5>3, <5>4
      <4> QED BY <3>2, <4>1, <4>2 DEF HandlerInv, TargetIsNew, DisplacingKnows, CancellingKnows, RestoringKnows, HasRoom, Creating
    <3> QED BY <3>3, <3>4
  <2> HIDE DEF r, b
  <2> QED BY <2>1, <2>5, <2>6, WriteStep DEF Status
<1>3. ASSUME FindWaitlisted(h) PROVE IInv'
  <2> DEFINE r == [req[h] EXCEPT !.step = "restoring", !.queue = With("waitlisted")]
  <2>1. req[h].step = "released" /\ Read(h, r) /\ D = {} /\ Needed(h) \in Nat
    BY <1>0, <1>3, RequestFields DEF FindWaitlisted, IInv, DoneEmpty
  <2>2. req'[h] = r /\ status' = status /\ moved' = moved
    BY <2>1, <1>a DEF Read
  <2>3. /\ r.step = "restoring" /\ r.booking = req[h].booking /\ r.done = {}
        /\ r.queue = With("waitlisted") /\ r.overtaken = req[h].overtaken
    BY <1>a, <2>1 DEF Request
  <2>4. A \ {} = A
    OBVIOUS
  <2>5. /\ req'[h].step = "restoring" /\ req'[h].done = {} /\ req'[h].queue = With("waitlisted")
        /\ req'[h].overtaken = req[h].overtaken
    BY <2>2, <2>3
  <2>6. Needed(h)' = Needed(h) /\ Bound' = Bound /\ With("active")' = A
    BY <2>2, <2>3 DEF Needed, Bound, With, Places, AttendeesOf
  <2>7. ASSUME ~raced, ~req[h].overtaken PROVE RestoringKnows(h)'
    <3>1. Places(A) + Needed(h) <= Bound
      BY <1>b, <2>1, <2>7 DEF HandlerInv, HasRoom
    <3>2. /\ Places(With("active") \ req[h].done)' = Places(A)
          /\ Places(req[h].done)' = 0
      BY <2>4, <2>5, <2>6, PlacesOfNone DEF Places, AttendeesOf
    <3>3. \A b \in req'[h].queue : status'[b] = "waitlisted"
      BY <2>2, <2>5 DEF With
    <3> QED BY <2>1, <2>6, <3>1, <3>2, <3>3 DEF RestoringKnows
  <2>8. ~raced => HandlerInv(h)'
    BY <2>5, <2>7 DEF HandlerInv, TargetIsNew, DisplacingKnows, CancellingKnows, HasRoom, Creating
  <2> QED BY <2>1, <2>3, <2>8, ReadStep
<1>4. ASSUME RestoreNext(h) PROVE IInv'
  <2>0. PICK b \in Oldest(req[h].queue) :
          /\ FitsFreed(h, b) /\ status[b] # "deleted"
          /\ Write(h, b, "active", [req[h] EXCEPT !.queue = @ \ {b}, !.done = @ \cup {b}])
    BY <1>4 DEF RestoreNext
  <2> DEFINE r == [req[h] EXCEPT !.queue = @ \ {b}, !.done = @ \cup {b}]
  <2>1. /\ b \in req[h].queue /\ b \in Bookings /\ req[h].step = "restoring"
        /\ Needed(h) \in Nat
    BY <1>0, <1>4, <2>0, RequestFields DEF Oldest, RestoreNext
  <2>2. /\ req'[h] = r /\ status' = [status EXCEPT ![b] = "active"]
        /\ moved' = moved /\ Bound' = Bound
    BY <2>0 DEF Write, Overtake, Bound
  <2>3. /\ r.step = "restoring" /\ r.booking = req[h].booking
        /\ r.queue = req[h].queue \ {b} /\ r.done = D \cup {b} /\ r.overtaken = req[h].overtaken
    BY <1>a, <2>1 DEF Request
  <2>4. With("active")' = A \cup {b}
    BY <1>a, <2>1, <2>2 DEF With
  <2>5. Places(D \cup {b}) <= Needed(h)
    <3>1. Places(D \cup {b}) <= Places(D) + Places({b})
      BY <1>c, <2>1, PlacesUnion
    <3>2. Places(D) + Cardinality(Attendees[b]) <= Needed(h)
      BY <2>0 DEF FitsFreed, Freed
    <3>3. /\ Places(D) \in Nat /\ Places(D \cup {b}) \in Nat
          /\ Places({b}) = Cardinality(Attendees[b]) /\ Cardinality(Attendees[b]) \in Nat
      BY <1>c, <2>1, AttendeesFinite, PlacesOfOne
    <3> QED BY <2>1, <3>1, <3>2, <3>3
  <2>6. ASSUME ~raced' PROVE Places(With("active"))' <= Bound' /\ HandlerInv(h)'
    <3>1. ~raced /\ ~req[h].overtaken
      BY <2>0, <2>6 DEF Write
    <3>2. RestoringKnows(h)
      BY <1>b, <3>1 DEF HandlerInv
    <3>3. Places(A \ D) + Needed(h) <= Bound
      BY <2>1, <3>2 DEF RestoringKnows
    <3>4. status[b] = "waitlisted"
      BY <2>0, <2>1, <3>2 DEF RestoringKnows
    <3>5. Places((A \cup {b}) \ (D \cup {b})) <= Places(A \ D)
      BY <1>c, PlacesMonotone
    <3>6. Places(A \cup {b}) <= Places(A \ D) + Places(D \cup {b})
      <4>1. Places((A \ D) \cup (D \cup {b})) <= Places(A \ D) + Places(D \cup {b})
        BY <1>c, <2>1, PlacesUnion
      <4>2. Places(A \cup {b}) <= Places((A \ D) \cup (D \cup {b}))
        BY <1>c, <2>1, PlacesMonotone
      <4>3. /\ Places((A \ D) \cup (D \cup {b})) \in Nat /\ Places(A \cup {b}) \in Nat
            /\ Places(A \ D) \in Nat /\ Places(D \cup {b}) \in Nat
        BY <1>c, <2>1, AttendeesFinite
      <4> QED BY <4>1, <4>2, <4>3
    <3>7. /\ Places(A \cup {b}) \in Nat /\ Places(A \ D) \in Nat /\ Places(D \cup {b}) \in Nat
          /\ Places((A \cup {b}) \ (D \cup {b})) \in Nat
      BY <1>c, <2>1, AttendeesFinite
    <3>8. /\ Places(With("active"))' = Places(A \cup {b})
          /\ Places(With("active") \ req[h].done)' = Places((A \cup {b}) \ (D \cup {b}))
          /\ Places(req[h].done)' = Places(D \cup {b})
      BY <2>2, <2>3, <2>4 DEF Places, AttendeesOf
    <3>9. Places(With("active"))' <= Bound'
      BY <1>c, <2>1, <2>2, <2>5, <3>3, <3>6, <3>7, <3>8
    <3>10. RestoringKnows(h)'
      <4>1. \A c \in req'[h].queue : status'[c] \in {"waitlisted", "deleted"}
        BY <1>0, <1>a, <2>1, <2>2, <2>3, <3>2, RequestFields DEF RestoringKnows
      <4>2. Needed(h)' = Needed(h)
        BY <2>2, <2>3 DEF Needed
      <4>3. Places(With("active") \ req[h].done)' + Needed(h)' <= Bound'
        BY <1>c, <2>1, <2>2, <3>3, <3>5, <3>7, <3>8, <4>2
      <4>4. Places(req[h].done)' <= Needed(h)'
        BY <2>5, <3>8, <4>2
      <4> QED BY <4>1, <4>3, <4>4 DEF RestoringKnows
    <3> QED BY <2>2, <2>3, <3>9, <3>10
           DEF HandlerInv, TargetIsNew, Creating, DisplacingKnows, CancellingKnows, HasRoom
  <2> HIDE DEF r
  <2> QED BY <2>0, <2>1, <2>3, <2>6, WriteStep DEF Status, r
<1>5. ASSUME RestoreEnds(h) PROVE IInv'
  <2>1. Read(h, Idle)
    BY <1>5 DEF RestoreEnds
  <2>2. HandlerInv(h)'
    BY <2>1, <1>a DEF Read, Idle, HandlerInv, TargetIsNew, DisplacingKnows, CancellingKnows,
       RestoringKnows, HasRoom, Creating
  <2> QED BY <2>1, <2>2, ReadStep DEF Idle
<1> QED BY <1>1, <1>2, <1>3, <1>4, <1>5 DEF Cancel

LEMMA FailStep ==
  ASSUME IInv, TypeOK', NEW h \in Handlers, Fail(h)
  PROVE  IInv'
<1>1. Read(h, Idle) /\ DoneOK(Idle)
  BY DEF Fail, DoneOK, Idle
<1>2. req'[h] = Idle
  BY <1>1 DEF Read, IInv, TypeOK
<1>3. HandlerInv(h)'
  BY <1>2 DEF Idle, HandlerInv, TargetIsNew, DisplacingKnows, CancellingKnows, RestoringKnows,
     HasRoom, Creating
<1> QED BY <1>1, <1>3, ReadStep

LEMMA DeleteStep ==
  ASSUME IInv, TypeOK', NEW b \in Bookings, AdminDelete(b)
  PROVE  IInv'
<1>0. TypeOK /\ status \in [Bookings -> Status]
  BY DEF IInv, TypeOK
<1>1. /\ status' = [status EXCEPT ![b] = "deleted"] /\ status[b] \in Live \cup {"cancelled"}
      /\ req' = req /\ moved' = moved /\ raced' = raced
  BY DEF AdminDelete
<1>2. With("active")' = With("active") \ {b} /\ Bound' = Bound
  BY <1>0, <1>1 DEF With, Bound
<1>3. With("active") \in SUBSET Bookings /\ Bound \in Nat
  BY <1>0, BoundType
<1>4. Places(With("active"))' <= Places(With("active")) /\ Places(With("active"))' \in Nat
  <2>1. Places(With("active"))' = Places(With("active") \ {b})
    BY <1>2 DEF Places, AttendeesOf
  <2> QED BY <1>3, <2>1, PlacesMonotone, AttendeesFinite
<1>5. Places(With("active")) \in Nat
  BY <1>0, BoundType
<1>6. ASSUME ~raced, NEW h \in Handlers PROVE HandlerInv(h)'
  <2>1. SUFFICES ASSUME ~req[h].overtaken, req[h].step # "idle" PROVE HandlerInv(h)'
    BY <1>1 DEF HandlerInv, TargetIsNew, DisplacingKnows, CancellingKnows, RestoringKnows, HasRoom,
       Creating
  <2>2. TargetIsNew(h) /\ DisplacingKnows(h) /\ CancellingKnows(h) /\ RestoringKnows(h) /\ HasRoom(h)
    BY <1>6, <2>1 DEF IInv, HandlerInv
  <2>3. /\ req[h].queue \in SUBSET Bookings /\ req[h].done \in SUBSET Bookings
        /\ req[h].booking \in Bookings /\ Needed(h) \in Nat /\ Needed(h)' = Needed(h)
    BY <1>0, <1>1, <2>1, RequestFields DEF Needed
  <2> DEFINE A == With("active")
             D == req[h].done
  <2>4. TargetIsNew(h)'
    <3>1. req[h].step \in Creating => req[h].booking # b
      BY <1>1, <2>2 DEF TargetIsNew, Live
    <3>2. \A c \in Bookings : status'[c] \in Live => status[c] \in Live
      BY <1>0, <1>1 DEF Live
    <3> QED BY <1>0, <1>1, <2>2, <2>3, <3>1, <3>2, NoNewDuplicate DEF TargetIsNew
  <2>5. /\ Places(With("active") \cup req[h].done)' = Places((A \ {b}) \cup D)
        /\ Places((A \ {b}) \cup D) <= Places(A \cup D)
        /\ Places((A \ {b}) \cup D) \in Nat /\ Places(A \cup D) \in Nat
    <3>1. Places(With("active") \cup req[h].done)' = Places((A \ {b}) \cup D)
      BY <1>1, <1>2 DEF Places, AttendeesOf
    <3> QED BY <1>3, <2>3, <3>1, PlacesMonotone, AttendeesFinite
  <2>6. DisplacingKnows(h)'
    <3>1. req[h].step \in {"displacing", "rollback"} => Places(With("active") \cup req[h].done)' <= Bound'
      BY <1>2, <1>3, <2>2, <2>5 DEF DisplacingKnows
    <3> QED BY <1>0, <1>1, <2>2, <2>3, <3>1 DEF DisplacingKnows
  <2>7. CancellingKnows(h)'
    BY <1>0, <1>1, <2>2, <2>3 DEF CancellingKnows
  <2>8. /\ Places(With("active") \ req[h].done)' = Places((A \ {b}) \ D)
        /\ Places((A \ {b}) \ D) <= Places(A \ D)
        /\ Places((A \ {b}) \ D) \in Nat /\ Places(A \ D) \in Nat
        /\ Places(req[h].done)' = Places(D)
    <3>1. /\ Places(With("active") \ req[h].done)' = Places((A \ {b}) \ D)
          /\ Places(req[h].done)' = Places(D)
      BY <1>1, <1>2 DEF Places, AttendeesOf
    <3> QED BY <1>3, <2>3, <3>1, PlacesMonotone, AttendeesFinite
  <2>9. RestoringKnows(h)'
    <3>1. req[h].step = "restoring" => Places(With("active") \ req[h].done)' + Needed(h)' <= Bound'
      BY <1>2, <1>3, <2>2, <2>3, <2>8 DEF RestoringKnows
    <3>2. req[h].step = "restoring" => Places(req[h].done)' <= Needed(h)'
      BY <2>2, <2>3, <2>8 DEF RestoringKnows
    <3> QED BY <1>0, <1>1, <2>2, <2>3, <3>1, <3>2 DEF RestoringKnows
  <2>10. HasRoom(h)'
    BY <1>1, <1>2, <1>3, <1>4, <1>5, <2>2, <2>3 DEF HasRoom
  <2> QED BY <2>4, <2>6, <2>7, <2>9, <2>10 DEF HandlerInv
<1>7. DoneEmpty' /\ MovedExist'
  BY <1>0, <1>1 DEF IInv, DoneEmpty, MovedExist
<1>8. ~raced => Places(With("active"))' <= Bound'
  BY <1>2, <1>3, <1>4, <1>5 DEF IInv
<1> QED BY <1>1, <1>6, <1>7, <1>8 DEF IInv

LEMMA ReassignStep ==
  ASSUME IInv, TypeOK', NEW b \in Bookings, AdminReassign(b)
  PROVE  IInv'
<1>0. TypeOK /\ status \in [Bookings -> Status] /\ moved \in SUBSET Bookings
  BY DEF IInv, TypeOK
<1>1. PICK s \in Live : status' = [status EXCEPT ![b] = s]
  BY DEF AdminReassign
<1>2. status[b] = "none" /\ moved' = moved \cup {b} /\ raced' = raced /\ req' = Overtake
  BY DEF AdminReassign
<1>3. ASSUME NEW k \in Handlers
      PROVE  DoneOK(req'[k]) /\ (req'[k].step = "idle" \/ req'[k].overtaken)
  <2>1. req'[k] = IF req[k] = Idle THEN Idle ELSE [req[k] EXCEPT !.overtaken = TRUE]
    BY <1>2 DEF Overtake
  <2>2. req[k] \in Request
    BY <1>0 DEF TypeOK
  <2>3. DoneOK(req[k]) /\ DoneOK(Idle)
    BY DEF IInv, DoneEmpty, DoneOK, Idle
  <2> QED BY <2>1, <2>2, <2>3 DEF DoneOK, Idle, Request
<1>4. \A k \in Handlers : HandlerInv(k)'
  BY <1>3 DEF HandlerInv, TargetIsNew, DisplacingKnows, CancellingKnows, RestoringKnows, HasRoom,
     Creating
<1>5. DoneEmpty'
  BY <1>3 DEF DoneEmpty, DoneOK
<1>6. MovedExist'
  BY <1>0, <1>1, <1>2 DEF MovedExist, IInv, Live
<1>7. b \notin moved
  BY <1>2 DEF IInv, MovedExist
<1>8. Bound' = Bound + Places({b})
  <2>1. moved \cap {b} = {}
    BY <1>7
  <2>2. Places(moved \cup {b}) = Places(moved) + Places({b})
    BY <1>0, <2>1, PlacesUnion
  <2>3. Bound' = Capacity + Places(moved \cup {b})
    BY <1>2 DEF Bound, Places, AttendeesOf
  <2>4. Places(moved) \in Nat /\ Places({b}) \in Nat /\ Capacity \in Nat
    BY <1>0, AttendeesFinite, BookingsAssumption
  <2> QED BY <2>2, <2>3, <2>4 DEF Bound
<1>9. Places(With("active"))' <= Places(With("active")) + Places({b})
  <2>1. With("active") \in SUBSET Bookings
    BY DEF With
  <2>2. With("active")' \in SUBSET (With("active") \cup {b})
    BY <1>0, <1>1 DEF With
  <2> DEFINE B == With("active")'
  <2>3. Places(B) <= Places(With("active") \cup {b})
    <3> HIDE DEF B
    <3>1. B \in SUBSET (With("active") \cup {b})
      BY <2>2 DEF B
    <3> QED BY <2>1, <3>1, PlacesMonotone
  <2>4. Places(With("active") \cup {b}) <= Places(With("active")) + Places({b})
    BY <2>1, PlacesUnion
  <2>5. /\ Places(B) \in Nat /\ Places(With("active") \cup {b}) \in Nat
        /\ Places(With("active")) \in Nat /\ Places({b}) \in Nat
    <3> HIDE DEF B
    <3>1. B \in SUBSET Bookings
      BY <2>1, <2>2 DEF B
    <3> QED BY <2>1, <3>1, AttendeesFinite
  <2>6. Places(With("active"))' = Places(B)
    BY DEF Places, AttendeesOf
  <2> HIDE DEF B
  <2> QED BY <2>3, <2>4, <2>5, <2>6
<1>10. ~raced => Places(With("active"))' <= Bound'
  <2>1. /\ Places(With("active"))' \in Nat /\ Places({b}) \in Nat
        /\ Places(With("active")) \in Nat /\ Bound \in Nat
    <3> DEFINE B == With("active")'
    <3>1. B \in SUBSET Bookings
      BY DEF With
    <3>2. Places(B) \in Nat
      <4> HIDE DEF B
      <4> QED BY <3>1, AttendeesFinite
    <3>3. Places(With("active"))' = Places(B)
      BY DEF Places, AttendeesOf
    <3> HIDE DEF B
    <3> QED BY <1>0, <3>2, <3>3, BoundType, AttendeesFinite
  <2> QED BY <1>8, <1>9, <2>1 DEF IInv
<1> QED BY <1>2, <1>4, <1>5, <1>6, <1>10 DEF IInv

LEMMA QuietStep ==
  ASSUME IInv, TypeOK', UNCHANGED <<status, req, moved, raced>>
  PROVE  IInv'
<1>1. With("active")' = With("active") /\ Bound' = Bound
  BY DEF With, Bound
<1>2. Places(With("active"))' = Places(With("active"))
  BY <1>1 DEF Places, AttendeesOf
<1>3. \A h \in Handlers : HandlerInv(h)' <=> HandlerInv(h)
  BY <1>1 DEF HandlerInv, TargetIsNew, DisplacingKnows, CancellingKnows, RestoringKnows, HasRoom,
     Creating, ExistingDuplicates, Needed
<1>4. DoneEmpty' /\ MovedExist'
  BY DEF IInv, DoneEmpty, MovedExist
<1> QED BY <1>1, <1>2, <1>3, <1>4 DEF IInv

LEMMA InvInit == Init => IInv
<1> SUFFICES ASSUME Init PROVE IInv
  OBVIOUS
<1>1. TypeOK
  BY TypeInit
<1>2. \A h \in Handlers : req[h] = Idle
  BY DEF Init
<1>3. DoneEmpty /\ MovedExist
  BY <1>2 DEF DoneEmpty, MovedExist, Init, Idle
<1>4. With("active") = {}
  BY DEF With, Init
<1>5. Places(With("active")) <= Bound
  BY <1>1, <1>4, PlacesOfNone, BoundType
<1>6. \A h \in Handlers : HandlerInv(h)
  BY <1>2, NoClaim DEF Idle
<1> QED BY <1>1, <1>3, <1>5, <1>6 DEF IInv

LEMMA InvNext == IInv /\ [Next]_vars => IInv'
<1> SUFFICES ASSUME IInv, [Next]_vars PROVE IInv'
  OBVIOUS
<1>0. TypeOK'
  BY TypeNext DEF IInv
<1>1. ASSUME NEW h \in Handlers, Create(h) PROVE IInv'
  BY <1>0, <1>1, CreateReads, CreateWrites DEF Create
<1>2. ASSUME NEW h \in Handlers, Cancel(h) PROVE IInv'
  BY <1>0, <1>2, CancelSteps
<1>3. ASSUME NEW h \in Handlers, Fail(h) PROVE IInv'
  BY <1>0, <1>3, FailStep
<1>4. ASSUME NEW b \in Bookings, AdminDelete(b) PROVE IInv'
  BY <1>0, <1>4, DeleteStep
<1>5. ASSUME NEW b \in Bookings, AdminReassign(b) PROVE IInv'
  BY <1>0, <1>5, ReassignStep
<1>6. CASE PublicBookingOpens
  BY <1>0, <1>6, QuietStep DEF PublicBookingOpens
<1>7. CASE UNCHANGED vars
  BY <1>0, <1>7, QuietStep DEF vars
<1> QED BY <1>1, <1>2, <1>3, <1>4, <1>5, <1>6, <1>7 DEF Next

LEMMA Invariant == Spec => []IInv
  BY InvInit, InvNext, PTL DEF Spec

-----------------------------------------------------------------------------
(***************************************************************************)
(* The theorems                                                            *)
(***************************************************************************)

\* Whatever the capacity, the bookings and the number of requests in flight, and
\* wherever a request is cut short: until a handler places a booking on reads that
\* another write has overtaken, the event seats no more than it holds.
THEOREM Capacity_Kept == Spec => []NoOverbooking
<1>1. IInv => NoOverbooking
  BY DEF IInv, NoOverbooking, Bound
<1> QED BY <1>1, Invariant, PTL

LEMMA CancelledStep ==
  ASSUME IInv, [Next]_vars, ~raced', NEW c \in Bookings, status[c] = "cancelled"
  PROVE  status'[c] \in {"cancelled", "deleted"}
<1>0. TypeOK /\ status \in [Bookings -> Status]
  BY DEF IInv, TypeOK
<1>1. ASSUME NEW h \in Handlers, NEW b \in Bookings, NEW s, NEW r, Write(h, b, s, r),
             s = "cancelled" \/ (~raced /\ ~req[h].overtaken => status[b] # "cancelled")
      PROVE  status'[c] \in {"cancelled", "deleted"}
  BY <1>0, <1>1 DEF Write
<1>2. ASSUME NEW h \in Handlers, NEW r, Read(h, r) PROVE status'[c] \in {"cancelled", "deleted"}
  BY <1>2 DEF Read
<1>3. ASSUME NEW h \in Handlers, Create(h) PROVE status'[c] \in {"cancelled", "deleted"}
  <2>1. ~raced => TargetIsNew(h) \/ req[h].overtaken
    BY <1>3 DEF IInv, HandlerInv
  <2>2. ~raced => DisplacingKnows(h) \/ req[h].overtaken
    BY <1>3 DEF IInv, HandlerInv
  <2>3. /\ req[h].queue \in SUBSET Bookings /\ req[h].done \in SUBSET Bookings
        /\ req[h].step # "idle" => req[h].booking \in Bookings
    BY <1>0, <1>3, RequestFields
  <2>4. CASE DisplaceNext(h)
    <3>1. PICK b \in req[h].queue :
            req[h].step = "displacing" /\ \E r : Write(h, b, "waitlisted", r)
      BY <2>4 DEF DisplaceNext, Newest
    <3>2. PICK r : Write(h, b, "waitlisted", r)
      BY <3>1
    <3> QED BY <1>1, <2>2, <2>3, <3>1, <3>2 DEF DisplacingKnows
  <2>5. CASE RollBackNext(h)
    <3>1. PICK b \in req[h].done :
            req[h].step = "rollback" /\ \E r : Read(h, r) \/ Write(h, b, "active", r)
      BY <2>5 DEF RollBackNext
    <3>2. PICK r : Read(h, r) \/ Write(h, b, "active", r)
      BY <3>1
    <3> QED BY <1>1, <1>2, <2>2, <2>3, <3>1, <3>2 DEF DisplacingKnows
  <2>6. CASE Insert(h)
    BY <1>1, <2>1, <2>3, <2>6 DEF Insert, TargetIsNew, Creating
  <2>7. CASE ~(DisplaceNext(h) \/ RollBackNext(h) \/ Insert(h))
    BY <1>3, <2>7 DEF Create, Read, FindDuplicates, FindCapacity, FindNonMembers,
       DisplacedEnough, DisplacedTooFew, RolledBack
  <2> QED BY <2>4, <2>5, <2>6, <2>7
<1>4. ASSUME NEW h \in Handlers, Cancel(h) PROVE status'[c] \in {"cancelled", "deleted"}
  <2>1. ~raced => RestoringKnows(h) \/ req[h].overtaken
    BY <1>4 DEF IInv, HandlerInv
  <2>2. req[h].queue \in SUBSET Bookings /\ (req[h].step # "idle" => req[h].booking \in Bookings)
    BY <1>0, <1>4, RequestFields
  <2>3. CASE SaveCancelled(h)
    BY <1>1, <2>2, <2>3 DEF SaveCancelled
  <2>4. CASE RestoreNext(h)
    <3>1. PICK b \in req[h].queue : req[h].step = "restoring" /\ \E r : Write(h, b, "active", r)
      BY <2>4 DEF RestoreNext, Oldest
    <3>2. PICK r : Write(h, b, "active", r)
      BY <3>1
    <3> QED BY <1>1, <2>1, <2>2, <3>1, <3>2 DEF RestoringKnows
  <2>5. CASE ~(SaveCancelled(h) \/ RestoreNext(h))
    BY <1>4, <2>5 DEF Cancel, Read, FindBooking, FindWaitlisted, RestoreEnds
  <2> QED BY <2>3, <2>4, <2>5
<1>5. ASSUME NEW h \in Handlers, Fail(h) PROVE status'[c] \in {"cancelled", "deleted"}
  BY <1>5 DEF Fail, Read
<1>6. ASSUME NEW b \in Bookings, AdminDelete(b) \/ AdminReassign(b)
      PROVE  status'[c] \in {"cancelled", "deleted"}
  BY <1>0, <1>6 DEF AdminDelete, AdminReassign
<1>7. CASE PublicBookingOpens \/ UNCHANGED vars
  BY <1>7 DEF PublicBookingOpens, vars
<1> QED BY <1>3, <1>4, <1>5, <1>6, <1>7 DEF Next

\* Until handlers race, a confirmed cancellation stands: neither a displacement, nor
\* its rollback, nor a restoring brings the booking back.
THEOREM CancellationsStand == Spec => CancelledStaysCancelled
<1>1. IInv /\ [Next]_vars =>
        [~raced' => \A b \in Bookings :
           status[b] = "cancelled" => status'[b] \in {"cancelled", "deleted"}]_vars
  BY CancelledStep
<1> QED BY <1>1, Invariant, PTL DEF Spec, CancelledStaysCancelled

\* One request at a time never races.
SoloInv ==
  /\ ~raced /\ moved = {}
  /\ \A h \in Handlers : ~req[h].overtaken

LEMMA SoloNext ==
  ASSUME \A h, k \in Handlers : h = k, Orphaned = {}, TypeOK, SoloInv, [Next]_vars
  PROVE  SoloInv'
<1>0. req \in [Handlers -> Request]
  BY DEF TypeOK
<1>1. ASSUME NEW h \in Handlers, NEW r, ~r.overtaken, Read(h, r) PROVE SoloInv'
  BY <1>0, <1>1 DEF Read, SoloInv
<1>2. ASSUME NEW h \in Handlers, NEW b, NEW s, NEW r, ~r.overtaken, Write(h, b, s, r) PROVE SoloInv'
  BY <1>0, <1>2 DEF Write, Overtake, SoloInv
<1>3. ASSUME NEW h \in Handlers, Create(h) PROVE SoloInv'
  <2>1. req[h] \in Request /\ ~req[h].overtaken
    BY <1>0, <1>3 DEF SoloInv
  <2>2. PICK b, s, r : ~r.overtaken /\ (Read(h, r) \/ Write(h, b, s, r))
    BY <1>3, <2>1 DEF Create, FindDuplicates, FindCapacity, FindNonMembers, DisplaceNext,
       DisplacedEnough, DisplacedTooFew, RollBackNext, RolledBack, Insert, Idle, Request
  <2> QED BY <1>1, <1>2, <1>3, <2>2
<1>4. ASSUME NEW h \in Handlers, Cancel(h) PROVE SoloInv'
  <2>1. req[h] \in Request /\ ~req[h].overtaken
    BY <1>0, <1>4 DEF SoloInv
  <2>2. PICK b, s, r : ~r.overtaken /\ (Read(h, r) \/ Write(h, b, s, r))
    BY <1>4, <2>1 DEF Cancel, FindBooking, SaveCancelled, FindWaitlisted, RestoreNext,
       RestoreEnds, Idle, Request
  <2> QED BY <1>1, <1>2, <1>4, <2>2
<1>5. ASSUME NEW h \in Handlers, Fail(h) PROVE SoloInv'
  BY <1>1, <1>5 DEF Fail, Idle
<1>6. ASSUME NEW b \in Bookings, AdminDelete(b) PROVE SoloInv'
  BY <1>6 DEF AdminDelete, SoloInv
<1>7. ASSUME NEW b \in Bookings, AdminReassign(b) PROVE SoloInv'
  BY <1>7 DEF AdminReassign
<1>8. CASE PublicBookingOpens \/ UNCHANGED vars
  BY <1>8 DEF PublicBookingOpens, vars, SoloInv
<1> QED BY <1>3, <1>4, <1>5, <1>6, <1>7, <1>8 DEF Next

\* A process that served one booking request at a time, its restoring included, would
\* never overbook an event that no admin moves bookings to, whatever store call fails
\* and wherever it is stopped.
THEOREM SerialNeverOverbooks ==
  ASSUME \A h, k \in Handlers : h = k, Orphaned = {}
  PROVE  Spec => [](Places(With("active")) <= Capacity)
<1>1. Init => SoloInv
  BY DEF Init, SoloInv, Idle
<1>2. IInv /\ SoloInv /\ [Next]_vars => SoloInv'
  BY SoloNext DEF IInv
<1>3. IInv /\ SoloInv => Places(With("active")) <= Capacity
  BY PlacesOfNone, BookingsAssumption DEF IInv, SoloInv, Bound
<1> QED BY <1>1, <1>2, <1>3, Invariant, PTL DEF Spec
-----------------------------------------------------------------------------
(***************************************************************************)
(* What a step of one handler leaves of the requests of the others.        *)
(***************************************************************************)
SameRequest(k) ==
  /\ req'[k].step = req[k].step /\ req'[k].booking = req[k].booking
  /\ req'[k].queue = req[k].queue /\ req'[k].done = req[k].done
  /\ req[k].overtaken => req'[k].overtaken

OutOfDate(k) == req'[k] = Idle \/ req'[k].overtaken

LEMMA Reader ==
  ASSUME TypeOK, NEW h \in Handlers, NEW r, Read(h, r)
  PROVE  /\ req'[h] = r
         /\ \A k \in Handlers \ {h} : req'[k] = req[k]
         /\ status' = status /\ moved' = moved
         /\ raced' <=> raced
  BY DEF TypeOK, Read

LEMMA OvertakeKeeps ==
  ASSUME TypeOK, NEW k \in Handlers, req'[k] = Overtake[k]
  PROVE  SameRequest(k) /\ OutOfDate(k)
<1>1. req[k] \in Request
  BY DEF TypeOK
<1>2. CASE req[k] = Idle
  BY <1>2 DEF Overtake, SameRequest, OutOfDate
<1>3. CASE req[k] # Idle
  BY <1>1, <1>3 DEF Overtake, SameRequest, OutOfDate, Request
<1> QED BY <1>2, <1>3

\* Only a cancellation may be saved by a handler that has been overtaken.
LEMMA Writer ==
  ASSUME TypeOK, NEW h \in Handlers, NEW b \in Bookings, NEW s, NEW r, Write(h, b, s, r)
  PROVE  /\ req'[h] = r
         /\ \A k \in Handlers \ {h} : SameRequest(k) /\ OutOfDate(k)
         /\ status'[b] = s /\ \A c \in Bookings \ {b} : status'[c] = status[c]
         /\ moved' = moved
         /\ ~raced' => ~raced /\ (s # "cancelled" => ~req[h].overtaken)
<1>1. req'[h] = r /\ \A k \in Handlers \ {h} : req'[k] = Overtake[k]
  BY DEF Write, Overtake
<1>2. \A k \in Handlers \ {h} : SameRequest(k) /\ OutOfDate(k)
  BY <1>1, OvertakeKeeps
<1>3. ~raced' => ~raced /\ (s # "cancelled" => ~req[h].overtaken)
  BY DEF Write
<1> QED BY <1>1, <1>2, <1>3 DEF Write, TypeOK

LEMMA Reassigner ==
  ASSUME TypeOK, NEW b \in Bookings, AdminReassign(b)
  PROVE  /\ \A k \in Handlers : SameRequest(k) /\ OutOfDate(k)
         /\ status[b] = "none" /\ \A c \in Bookings \ {b} : status'[c] = status[c]
         /\ moved' # {} /\ (raced' <=> raced)
  BY OvertakeKeeps DEF AdminReassign, TypeOK

\* The handlers whose reads are of another handler, or of none, stay as they are.
LEMMA Elsewhere ==
  ASSUME TypeOK, \/ \E b \in Bookings : AdminDelete(b)
                 \/ PublicBookingOpens \/ UNCHANGED vars
  PROVE  /\ req' = req /\ told' = told /\ moved' = moved
         /\ raced' <=> raced
         /\ failed' <=> failed
         /\ \A c \in Bookings : status'[c] \in {status[c], "deleted"}
  BY DEF AdminDelete, PublicBookingOpens, vars, TypeOK

-----------------------------------------------------------------------------
(***************************************************************************)
(* Waiting.  Whom a displacement has taken is held by its handler until    *)
(* the booking that needs the places is made, and the event has been found *)
(* too small for that booking beside all that were ever made.              *)
(***************************************************************************)
Made == Bookings \ With("none")

Displaces(r) == r.step \in {"displacing", "rollback", "insert"}

FoundFull(r) == r.step \in {"nonMembers", "displacing"} \/ (r.step = "insert" /\ r.done # {})

Sound(r) ==
  /\ r.queue \cup r.done \subseteq Made
  /\ r.step \in {"cancelling", "released", "restoring"} => r.booking \in Made
  /\ r.step \in Creating => r.booking \notin Made
  /\ FoundFull(r) => Places(Made \cup {r.booking}) > Capacity

Unique ==
  \A h, k \in Handlers :
    req[h].step \in Creating /\ req[k].step \in Creating /\ req[h].booking = req[k].booking => h = k

Covered(b) == \E h \in Handlers : Displaces(req[h]) /\ b \in req[h].done

Accounted ==
  ~failed => \/ Places(Made) > Capacity
             \/ \A b \in With("waitlisted") \ moved : Covered(b)

AllSound == (\A h \in Handlers : Sound(req[h])) /\ Unique

\* A request stays sound while others make bookings, unless it is its own that they make.
LEMMA SoundOthers ==
  ASSUME TypeOK, NEW k \in Handlers, Sound(req[k]), SameRequest(k),
         Made \subseteq Made', req[k].step \in Creating => req[k].booking \notin Made'
  PROVE  Sound(req[k])'
<1>1. CASE FoundFull(req[k])
  <2>1. req[k].booking \in Bookings
    BY <1>1, RequestFields DEF FoundFull
  <2> DEFINE A == Made \cup {req[k].booking}
             B == Made' \cup {req[k].booking}
  <2>2. B \in SUBSET Bookings /\ A \in SUBSET B
    BY <2>1 DEF Made
  <2>3. Places(A) > Capacity
    BY <1>1 DEF Sound
  <2> HIDE DEF A, B
  <2>4. Places(B) > Capacity
    <3>1. A \in SUBSET Bookings
      BY <2>2
    <3>2. Places(A) <= Places(B) /\ Places(A) \in Nat /\ Places(B) \in Nat
      BY <2>2, <3>1, PlacesMonotone, AttendeesFinite
    <3> QED BY <2>3, <3>2, BookingsAssumption
  <2>5. Places(Made' \cup {req'[k].booking}) > Capacity
    BY <2>4 DEF B, SameRequest
  <2>6. (Places(Made \cup {req[k].booking}))' > Capacity
    BY <2>5 DEF Places, AttendeesOf
  <2> QED BY <2>6 DEF Sound, SameRequest
<1>2. CASE ~FoundFull(req[k])
  BY <1>2 DEF Sound, SameRequest, FoundFull
<1> QED BY <1>1, <1>2

\* A handler reads and goes on with r; whom it has displaced it keeps, or it fails.
LEMMA ReadAccounts ==
  ASSUME TypeOK, AllSound, Accounted, NEW h \in Handlers, NEW r, Read(h, r), Sound(r),
         r.step \in Creating =>
           \/ req[h].step \in Creating /\ r.booking = req[h].booking
           \/ \A k \in Handlers : req[k].booking # r.booking,
         ~failed' => ~failed /\ (Displaces(req[h]) /\ req[h].done # {} =>
                                   Displaces(r) /\ req[h].done \subseteq r.done)
  PROVE  AllSound' /\ Accounted'
<1>1. /\ req'[h] = r /\ \A k \in Handlers \ {h} : req'[k] = req[k]
      /\ status' = status /\ moved' = moved
  BY Reader
<1>2. Made' = Made /\ With("waitlisted")' = With("waitlisted")
  BY <1>1 DEF Made, With
<1>3. \A k \in Handlers : Sound(req[k])'
  BY <1>1, <1>2 DEF AllSound, Sound, Places, AttendeesOf, FoundFull
<1>4. Unique'
  BY <1>1 DEF AllSound, Unique
<1>5. \A b : ~failed' /\ Covered(b) => Covered(b)'
  BY <1>1 DEF Covered, Displaces
<1>6. Places(Made)' = Places(Made)
  BY <1>2 DEF Places, AttendeesOf
<1>7. Accounted'
  BY <1>1, <1>2, <1>5, <1>6 DEF Accounted
<1> QED BY <1>3, <1>4, <1>7 DEF AllSound

\* A handler writes the status of a booking that was made, or makes the one it is for.
LEMMA WriteAccounts ==
  ASSUME TypeOK, AllSound, Accounted, NEW h \in Handlers, NEW b \in Bookings, NEW s, NEW r,
         Write(h, b, s, r), s # "none", req[h].step # "idle", failed' <=> failed,
         r = Idle \/ (r.booking = req[h].booking /\ (r.step \in Creating => req[h].step \in Creating)),
         r.queue \cup r.done \subseteq Made,
         r.step \in {"cancelling", "released", "restoring"} => r.booking \in Made,
         FoundFull(r) => FoundFull(req[h]),
         b \in Made \/ (r = Idle /\ b = req[h].booking /\ req[h].step \in Creating),
         s = "waitlisted" => Displaces(r) /\ b \in r.done,
         Displaces(req[h]) => \/ Places(Made \cup {b}) > Capacity
                              \/ \A c \in req[h].done \ {b} : Displaces(r) /\ c \in r.done
  PROVE  AllSound' /\ Accounted'
<1>1. /\ req'[h] = r /\ \A k \in Handlers \ {h} : SameRequest(k)
      /\ status'[b] = s /\ \A c \in Bookings \ {b} : status'[c] = status[c]
      /\ moved' = moved
  BY Writer
<1>2. Made' = Made \cup {b}
  BY <1>1 DEF Made, With
<1>3. ASSUME NEW k \in Handlers \ {h} PROVE Sound(req[k])'
  <2>1. req[k].step \in Creating => req[k].booking \notin Made'
    BY <1>2 DEF AllSound, Sound, Unique
  <2> QED BY <1>1, <1>2, <2>1, SoundOthers DEF AllSound
<1>4. Sound(req[h])'
  <2>1. CASE r = Idle
    BY <1>1, <2>1 DEF Sound, Idle, FoundFull, Creating
  <2>2. CASE r # Idle
    <3>1. b \in Made /\ Made' = Made
      BY <1>2, <2>2
    <3>2. Places(Made \cup {req[h].booking})' = Places(Made \cup {r.booking})
      BY <1>1, <3>1 DEF Places, AttendeesOf
    <3>3. Sound(req[h])
      BY DEF AllSound
    <3> QED BY <1>1, <2>2, <3>1, <3>2, <3>3 DEF Sound, FoundFull
  <2> QED BY <2>1, <2>2
<1>5. Unique'
  <2>1. r.step \in Creating => req[h].step \in Creating /\ r.booking = req[h].booking
    BY DEF Idle, Creating
  <2> QED BY <1>1, <2>1 DEF AllSound, Unique, SameRequest
<1>6. Accounted'
  <2>0. SUFFICES ASSUME ~failed' PROVE Places(Made') > Capacity
                                       \/ \A c \in (With("waitlisted") \ moved)' : Covered(c)'
    BY DEF Accounted, Places, AttendeesOf
  <2>1. CASE Places(Made') > Capacity
    BY <2>1
  <2>2. CASE ~(Places(Made') > Capacity)
    <3>1. ~(Places(Made) > Capacity)
      <4>1. Made \in SUBSET Made' /\ Made' \in SUBSET Bookings /\ Made \in SUBSET Bookings
        BY <1>2 DEF Made
      <4> DEFINE A == Made
                 B == Made'
      <4> HIDE DEF A, B
      <4>2. Places(A) <= Places(B) /\ Places(A) \in Nat /\ Places(B) \in Nat
        BY <4>1, PlacesMonotone, AttendeesFinite DEF A, B
      <4> QED BY <2>2, <4>2, BookingsAssumption DEF A, B
    <3>2. \A c \in With("waitlisted") \ moved : Covered(c)
      BY <2>0, <3>1 DEF Accounted
    <3>3. Displaces(req[h]) => \A c \in req[h].done \ {b} : Displaces(r) /\ c \in r.done
      BY <1>2, <2>2
    <3>4. ASSUME NEW c \in (With("waitlisted") \ moved)' PROVE Covered(c)'
      <4>1. CASE c = b
        BY <1>1, <3>4, <4>1 DEF Covered, Displaces, With
      <4>2. CASE c # b
        <5>1. PICK k \in Handlers : Displaces(req[k]) /\ c \in req[k].done
          BY <1>1, <3>2, <3>4, <4>2 DEF With, Covered
        <5> QED BY <1>1, <3>3, <4>2, <5>1 DEF Covered, Displaces, SameRequest
      <4> QED BY <4>1, <4>2
    <3> QED BY <3>4
  <2> QED BY <2>1, <2>2
<1> QED BY <1>3, <1>4, <1>5, <1>6 DEF AllSound

\* A handler that rolls back passes over a booking that has been deleted.
LEMMA DeletedLetGo ==
  ASSUME TypeOK, AllSound, Accounted, NEW h \in Handlers, NEW r, NEW b \in Bookings, Read(h, r),
         Sound(r), status[b] = "deleted", failed' <=> failed,
         r.step = "rollback" /\ req[h].step = "rollback", r.booking = req[h].booking,
         r.done = req[h].done \ {b}
  PROVE  AllSound' /\ Accounted'
<1>1. /\ req'[h] = r /\ \A k \in Handlers \ {h} : req'[k] = req[k]
      /\ status' = status /\ moved' = moved
  BY Reader
<1>2. Made' = Made /\ With("waitlisted")' = With("waitlisted") /\ b \notin With("waitlisted")
  BY <1>1 DEF Made, With
<1>3. \A k \in Handlers : Sound(req[k])'
  BY <1>1, <1>2 DEF AllSound, Sound, Places, AttendeesOf, FoundFull
<1>4. Unique'
  BY <1>1 DEF AllSound, Unique, Creating
<1>5. \A c : c # b /\ Covered(c) => Covered(c)'
  BY <1>1 DEF Covered, Displaces
<1>6. Places(Made)' = Places(Made)
  BY <1>2 DEF Places, AttendeesOf
<1>7. Accounted'
  BY <1>1, <1>2, <1>5, <1>6 DEF Accounted
<1> QED BY <1>3, <1>4, <1>7 DEF AllSound

LEMMA CreateAccounts ==
  ASSUME TypeOK, DoneEmpty, AllSound, Accounted, NEW h \in Handlers, Create(h)
  PROVE  AllSound' /\ Accounted'
<1>0. /\ req[h] \in Request /\ DoneOK(req[h]) /\ Sound(req[h])
      /\ req[h].queue \in SUBSET Bookings /\ req[h].done \in SUBSET Bookings
      /\ req[h].step # "idle" => req[h].booking \in Bookings
  BY RequestFields DEF DoneEmpty, DoneOK, TypeOK, AllSound
<1>f. failed' <=> failed
  <2>1. CASE DisplaceNext(h)
    BY <2>1 DEF DisplaceNext
  <2>2. CASE DisplacedEnough(h) \/ DisplacedTooFew(h)
    BY <2>2 DEF DisplacedEnough, DisplacedTooFew
  <2>3. CASE RollBackNext(h)
    BY <2>3 DEF RollBackNext
  <2>4. CASE RolledBack(h) \/ Insert(h)
    BY <2>4 DEF RolledBack, Insert
  <2>5. CASE \E b \in Bookings : FindDuplicates(h, b)
    BY <2>5 DEF FindDuplicates
  <2>6. CASE FindCapacity(h) \/ FindNonMembers(h)
    BY <2>6 DEF FindCapacity, FindNonMembers
  <2> QED BY <2>1, <2>2, <2>3, <2>4, <2>5, <2>6 DEF Create
<1>i. Sound(Idle)
  BY DEF Sound, Idle, FoundFull, Creating
<1>1. ASSUME NEW b \in Bookings, FindDuplicates(h, b) PROVE AllSound' /\ Accounted'
  <2> DEFINE r == [Idle EXCEPT !.step = "capacity", !.booking = b]
  <2>1. r.step = "capacity" /\ r.booking = b /\ r.queue = {} /\ r.done = {}
    BY DEF Idle
  <2>2. /\ Read(h, r) /\ b \notin Made /\ \A k \in Handlers : req[k].booking # b
        /\ req[h].step = "idle"
    BY <1>1 DEF FindDuplicates, Made, With, Idle
  <2> HIDE DEF r
  <2>3. Sound(r)
    BY <2>1, <2>2 DEF Sound, FoundFull
  <2> QED BY <1>f, <2>1, <2>2, <2>3, ReadAccounts DEF Displaces
<1>2. CASE FindCapacity(h)
  <2> DEFINE r == [req[h] EXCEPT !.step = "insert"]
             q == [req[h] EXCEPT !.step = "nonMembers"]
             b == req[h].booking
  <2>1. /\ r.step = "insert" /\ q.step = "nonMembers" /\ req[h].step = "capacity"
        /\ r.booking = b /\ q.booking = b
        /\ r.queue = req[h].queue /\ q.queue = req[h].queue
        /\ req[h].done = {} /\ r.done = {} /\ q.done = {}
    BY <1>0, <1>2 DEF FindCapacity, DoneOK, Request
  <2>2. b \in Bookings /\ b \notin Made
    BY <1>0, <2>1 DEF Sound, Creating
  <2>3. \/ Read(h, r) \/ Read(h, Idle)
        \/ Read(h, q) /\ Places(With("active")) + Cardinality(Attendees[b]) > Capacity
    BY <1>2 DEF FindCapacity
  <2> HIDE DEF r, q, b
  <2>4. CASE Read(h, r)
    <3>1. Sound(r)
      BY <1>0, <2>1, <2>2 DEF Sound, FoundFull
    <3> QED BY <1>f, <2>1, <2>4, <3>1, ReadAccounts DEF b, Creating
  <2>5. CASE Read(h, Idle)
    BY <1>f, <1>i, <2>1, <2>5, ReadAccounts DEF Idle, Creating
  <2>6. CASE Read(h, q) /\ Places(With("active")) + Cardinality(Attendees[b]) > Capacity
    <3> DEFINE A == With("active")
               B == Made \cup {b}
    <3>1. A \cap {b} = {} /\ A \cup {b} \in SUBSET B /\ B \in SUBSET Bookings /\ A \in SUBSET Bookings
      BY <2>2 DEF Made, With
    <3> HIDE DEF A, B
    <3>2. Places(A \cup {b}) = Places(A) + Cardinality(Attendees[b])
      BY <2>2, <3>1, PlacesUnion, PlacesOfOne
    <3>3. /\ Places(A \cup {b}) <= Places(B)
          /\ Places(A \cup {b}) \in Nat /\ Places(B) \in Nat
      <4>1. A \cup {b} \in SUBSET Bookings
        BY <3>1
      <4> QED BY <3>1, <4>1, PlacesMonotone, AttendeesFinite
    <3>4. Places(B) > Capacity
      BY <2>6, <3>2, <3>3, BookingsAssumption DEF A
    <3>5. Sound(q)
      BY <1>0, <2>1, <2>2, <3>4 DEF Sound, B
    <3> QED BY <1>f, <2>1, <2>6, <3>5, ReadAccounts DEF b, Creating
  <2> QED BY <2>3, <2>4, <2>5, <2>6
<1>3. CASE FindNonMembers(h)
  <2> DEFINE r == [req[h] EXCEPT !.step = "displacing", !.queue = With("active") \ Members]
  <2>1. /\ r.step = "displacing" /\ req[h].step = "nonMembers" /\ r.booking = req[h].booking
        /\ r.queue = With("active") \ Members /\ req[h].done = {} /\ r.done = {} /\ Read(h, r)
    BY <1>0, <1>3 DEF FindNonMembers, DoneOK, Request
  <2> HIDE DEF r
  <2>2. Sound(r)
    BY <1>0, <2>1 DEF Sound, FoundFull, Creating, Made, With
  <2> QED BY <1>f, <2>1, <2>2, ReadAccounts DEF Creating
<1>4. CASE DisplaceNext(h)
  <2>1. PICK b \in Newest(req[h].queue) :
          Write(h, b, "waitlisted", [req[h] EXCEPT !.queue = @ \ {b}, !.done = @ \cup {b}])
    BY <1>4 DEF DisplaceNext
  <2> DEFINE r == [req[h] EXCEPT !.queue = @ \ {b}, !.done = @ \cup {b}]
  <2>w. Write(h, b, "waitlisted", r) /\ b \in Bookings /\ b \in Made
    BY <1>0, <2>1 DEF Newest, Sound
  <2>s. req[h].step = "displacing"
    BY <1>4 DEF DisplaceNext
  <2>2. /\ r.step = "displacing" /\ req[h].step = "displacing" /\ r.booking = req[h].booking
        /\ r.queue = req[h].queue \ {b} /\ r.done = req[h].done \cup {b}
        /\ b \in Bookings /\ b \in Made /\ Write(h, b, "waitlisted", r)
    BY <1>0, <2>w, <2>s DEF Request
  <2> HIDE DEF r
  <2>3. r.queue \cup r.done \subseteq Made
    BY <1>0, <2>2 DEF Sound
  <2>4. FoundFull(r) => FoundFull(req[h])
    BY <2>2 DEF FoundFull
  <2> QED BY <1>f, <2>2, <2>3, <2>4, WriteAccounts DEF Displaces, Creating
<1>5. CASE DisplacedEnough(h) \/ DisplacedTooFew(h)
  <2> DEFINE r == [req[h] EXCEPT !.step = "insert", !.queue = {}]
             q == [req[h] EXCEPT !.step = "rollback"]
  <2>1. /\ r.step = "insert" /\ q.step = "rollback" /\ req[h].step = "displacing"
        /\ r.booking = req[h].booking /\ q.booking = req[h].booking
        /\ r.queue = {} /\ q.queue = req[h].queue
        /\ r.done = req[h].done /\ q.done = req[h].done
        /\ (Read(h, r) \/ Read(h, q))
    BY <1>0, <1>5 DEF DisplacedEnough, DisplacedTooFew, Request
  <2> HIDE DEF r, q
  <2>2. Sound(r) /\ Sound(q)
    BY <1>0, <2>1 DEF Sound, FoundFull, Creating
  <2> QED BY <1>f, <2>1, <2>2, ReadAccounts DEF Creating, Displaces
<1>6. CASE RollBackNext(h)
  <2>1. PICK b \in req[h].done :
          LET rest == [req[h] EXCEPT !.done = @ \ {b}]
          IN  IF status[b] = "deleted" THEN Read(h, rest) ELSE Write(h, b, "active", rest)
    BY <1>6 DEF RollBackNext
  <2> DEFINE r == [req[h] EXCEPT !.done = @ \ {b}]
  <2>2. /\ r.step = "rollback" /\ req[h].step = "rollback" /\ r.booking = req[h].booking
        /\ r.queue = req[h].queue /\ r.done = req[h].done \ {b}
        /\ b \in Bookings /\ b \in Made
        /\ \/ Read(h, r) /\ status[b] = "deleted"
           \/ Write(h, b, "active", r)
    BY <1>0, <1>6, <2>1 DEF RollBackNext, Sound, Request
  <2> HIDE DEF r
  <2>3. r.queue \cup r.done \subseteq Made /\ Sound(r)
    BY <1>0, <2>2 DEF Sound, FoundFull, Creating
  <2>4. CASE Write(h, b, "active", r)
    <3>1. ~FoundFull(r)
      BY <2>2 DEF FoundFull
    <3> QED BY <1>f, <2>2, <2>3, <2>4, <3>1, WriteAccounts DEF Displaces, Creating
  <2>5. CASE Read(h, r) /\ status[b] = "deleted"
    BY <1>f, <2>2, <2>3, <2>5, DeletedLetGo DEF Creating, Displaces
  <2> QED BY <2>2, <2>4, <2>5
<1>7. CASE RolledBack(h)
  <2>1. Read(h, Idle) /\ req[h].done = {}
    BY <1>7 DEF RolledBack
  <2> QED BY <1>f, <1>i, <2>1, ReadAccounts DEF Idle, Creating
<1>8. CASE Insert(h)
  <2>1. req[h].step = "insert" /\ req[h].booking \in Bookings /\ Write(h, req[h].booking, "active", Idle)
    BY <1>0, <1>8 DEF Insert
  <2>2. Places(Made \cup {req[h].booking}) > Capacity \/ req[h].done = {}
    BY <1>0, <2>1 DEF Sound, FoundFull
  <2> QED BY <1>f, <2>1, <2>2, WriteAccounts DEF Idle, Creating, FoundFull
<1> QED BY <1>1, <1>2, <1>3, <1>4, <1>5, <1>6, <1>7, <1>8 DEF Create

LEMMA CancelAccounts ==
  ASSUME TypeOK, AllSound, Accounted, NEW h \in Handlers, Cancel(h) \/ Fail(h)
  PROVE  AllSound' /\ Accounted'
<1>0. /\ req[h] \in Request /\ Sound(req[h])
      /\ req[h].queue \in SUBSET Bookings /\ req[h].done \in SUBSET Bookings
      /\ req[h].step # "idle" => req[h].booking \in Bookings
  BY RequestFields DEF TypeOK, AllSound
<1>i. Sound(Idle)
  BY DEF Sound, Idle, FoundFull, Creating
<1>1. ASSUME NEW b \in Bookings, FindBooking(h, b) PROVE AllSound' /\ Accounted'
  <2> DEFINE r == [Idle EXCEPT !.step = "cancelling", !.booking = b,
                               !.wasActive = (status[b] = "active")]
  <2>1. r.step = "cancelling" /\ r.booking = b /\ r.queue = {} /\ r.done = {}
    BY DEF Idle
  <2>2. Read(h, r) /\ b \in Made /\ req[h].step = "idle" /\ (failed' <=> failed)
    BY <1>1 DEF FindBooking, Made, With, Idle, Live
  <2> HIDE DEF r
  <2>3. Sound(r)
    BY <2>1, <2>2 DEF Sound, FoundFull, Creating
  <2> QED BY <2>1, <2>2, <2>3, ReadAccounts DEF Displaces, Creating
<1>2. CASE SaveCancelled(h)
  <2> DEFINE r == IF req[h].wasActive THEN [req[h] EXCEPT !.step = "released"] ELSE Idle
  <2>1. /\ r = Idle \/ (/\ r.step = "released" /\ r.booking = req[h].booking
                        /\ r.queue = req[h].queue /\ r.done = req[h].done)
        /\ req[h].step = "cancelling" /\ Write(h, req[h].booking, "cancelled", r)
        /\ failed' <=> failed
    BY <1>0, <1>2 DEF SaveCancelled, Request
  <2> HIDE DEF r
  <2>2. /\ r.queue \cup r.done \subseteq Made /\ ~FoundFull(r) /\ req[h].booking \in Made
        /\ req[h].booking \in Bookings /\ r.step \notin Creating
    BY <1>0, <2>1 DEF Sound, FoundFull, Idle, Creating
  <2> QED BY <2>1, <2>2, WriteAccounts DEF Displaces, Idle
<1>3. CASE FindWaitlisted(h)
  <2> DEFINE r == [req[h] EXCEPT !.step = "restoring", !.queue = With("waitlisted")]
  <2>1. /\ r.step = "restoring" /\ req[h].step = "released" /\ r.booking = req[h].booking
        /\ r.queue = With("waitlisted") /\ r.done = req[h].done /\ Read(h, r)
        /\ failed' <=> failed
    BY <1>0, <1>3 DEF FindWaitlisted, Request
  <2> HIDE DEF r
  <2>2. Sound(r)
    BY <1>0, <2>1 DEF Sound, FoundFull, Creating, Made, With
  <2> QED BY <2>1, <2>2, ReadAccounts DEF Displaces, Creating
<1>4. CASE RestoreNext(h)
  <2>1. PICK b \in Oldest(req[h].queue) :
          Write(h, b, "active", [req[h] EXCEPT !.queue = @ \ {b}, !.done = @ \cup {b}])
    BY <1>4 DEF RestoreNext
  <2> DEFINE r == [req[h] EXCEPT !.queue = @ \ {b}, !.done = @ \cup {b}]
  <2>w. Write(h, b, "active", r) /\ b \in Bookings /\ b \in Made
    BY <1>0, <2>1 DEF Oldest, Sound
  <2>s. req[h].step = "restoring" /\ (failed' <=> failed)
    BY <1>4 DEF RestoreNext
  <2>2. /\ r.step = "restoring" /\ req[h].step = "restoring" /\ r.booking = req[h].booking
        /\ r.queue = req[h].queue \ {b} /\ r.done = req[h].done \cup {b}
        /\ b \in Bookings /\ b \in Made /\ Write(h, b, "active", r)
    BY <1>0, <2>w, <2>s DEF Request
  <2> HIDE DEF r
  <2>3. r.queue \cup r.done \subseteq Made /\ r.booking \in Made /\ ~FoundFull(r)
    BY <1>0, <2>2 DEF Sound, FoundFull
  <2> QED BY <2>s, <2>2, <2>3, WriteAccounts DEF Displaces, Creating
<1>5. CASE RestoreEnds(h) \/ Fail(h)
  <2>1. /\ Read(h, Idle)
        /\ ~failed' => ~failed /\ req[h].step = "restoring"
    BY <1>5 DEF RestoreEnds, LoopOver, Fail
  <2> QED BY <1>i, <2>1, ReadAccounts DEF Idle, Creating, Displaces
<1> QED BY <1>1, <1>2, <1>3, <1>4, <1>5 DEF Cancel

LEMMA ElsewhereAccounts ==
  ASSUME TypeOK, AllSound, Accounted,
         \/ \E b \in Bookings : AdminDelete(b) \/ AdminReassign(b)
         \/ PublicBookingOpens \/ UNCHANGED vars
  PROVE  AllSound' /\ Accounted'
<1>1. CASE \/ \E b \in Bookings : AdminDelete(b)
           \/ PublicBookingOpens \/ UNCHANGED vars
  <2>1. req' = req /\ moved' = moved /\ (failed' <=> failed)
    BY <1>1, Elsewhere
  <2>2. Made' = Made /\ With("waitlisted")' \subseteq With("waitlisted")
    BY <1>1 DEF AdminDelete, PublicBookingOpens, vars, Made, With, Live, TypeOK
  <2>3. Places(Made)' = Places(Made)
    BY <2>2 DEF Places, AttendeesOf
  <2>4. \A k \in Handlers : Sound(req[k])'
    BY <2>1, <2>2 DEF AllSound, Sound, FoundFull, Places, AttendeesOf
  <2>5. Unique'
    BY <2>1 DEF AllSound, Unique
  <2>6. \A c : Covered(c) => Covered(c)'
    BY <2>1 DEF Covered, Displaces
  <2>7. Accounted'
    BY <2>1, <2>2, <2>3, <2>6 DEF Accounted
  <2> QED BY <2>4, <2>5, <2>7 DEF AllSound
<1>2. ASSUME NEW b \in Bookings, AdminReassign(b) PROVE AllSound' /\ Accounted'
  <2>1. /\ \A k \in Handlers : SameRequest(k) /\ req[k].booking # b
        /\ status[b] = "none" /\ \A c \in Bookings \ {b} : status'[c] = status[c]
        /\ status'[b] \in Live /\ moved' = moved \cup {b} /\ (failed' <=> failed)
    BY <1>2, Reassigner DEF AdminReassign, TypeOK
  <2>2. Made' = Made \cup {b} /\ With("waitlisted")' \subseteq With("waitlisted") \cup {b}
    BY <2>1 DEF Made, With, Live
  <2>3. \A k \in Handlers : Sound(req[k])'
    <3> SUFFICES ASSUME NEW k \in Handlers PROVE Sound(req[k])'
      OBVIOUS
    <3>1. Made \subseteq Made' /\ (req[k].step \in Creating => req[k].booking \notin Made')
      BY <2>1, <2>2 DEF AllSound, Sound
    <3> QED BY <2>1, <3>1, SoundOthers DEF AllSound
  <2>4. Unique'
    BY <2>1 DEF AllSound, Unique, SameRequest
  <2>5. \A c : Covered(c) => Covered(c)'
    BY <2>1 DEF Covered, Displaces, SameRequest
  <2>6. Places(Made) > Capacity => Places(Made') > Capacity
    <3> DEFINE A == Made
               B == Made'
    <3>1. A \in SUBSET B /\ B \in SUBSET Bookings /\ A \in SUBSET Bookings
      BY <2>2 DEF Made
    <3> HIDE DEF A, B
    <3>2. Places(A) <= Places(B) /\ Places(A) \in Nat /\ Places(B) \in Nat
      BY <3>1, PlacesMonotone, AttendeesFinite
    <3>3. Places(A) > Capacity => Places(B) > Capacity
      BY <3>2, BookingsAssumption
    <3> QED BY <3>3 DEF A, B
  <2>7. Accounted'
    <3> SUFFICES ASSUME ~failed'
                 PROVE  \/ Places(Made') > Capacity
                        \/ \A c \in (With("waitlisted") \ moved)' : Covered(c)'
      BY DEF Accounted, Places, AttendeesOf
    <3>1. ~failed
      BY <2>1
    <3>2. (With("waitlisted") \ moved)' \subseteq With("waitlisted") \ moved
      BY <2>1, <2>2
    <3> QED BY <2>5, <2>6, <3>1, <3>2 DEF Accounted
  <2> QED BY <2>3, <2>4, <2>7 DEF AllSound
<1> QED BY <1>1, <1>2

\* Whoever waits has been displaced by a request in flight, or the event is too small for
\* all that was booked: for any bookings, requests and interleaving, races included.
THEOREM WaitingIsDue == Spec => []NobodyWaitsForNothing
<1>1. Init => AllSound /\ Accounted
  BY DEF Init, AllSound, Unique, Accounted, Sound, FoundFull, Idle, Creating, With
<1>2. IInv /\ AllSound /\ Accounted /\ [Next]_vars => (AllSound /\ Accounted)'
  BY CreateAccounts, CancelAccounts, ElsewhereAccounts DEF IInv, Next
<1>3. Accounted => NobodyWaitsForNothing
  BY DEF Accounted, NobodyWaitsForNothing, AllIdle, Covered, Displaces, Idle, Made
<1> QED BY <1>1, <1>2, <1>3, Invariant, PTL DEF Spec

-----------------------------------------------------------------------------
(***************************************************************************)
(* Restoring: until it is overtaken, a handler that restores has the whole *)
(* waiting list in its queue.                                              *)
(***************************************************************************)
HasList(h) == req[h].step = "restoring" /\ ~req[h].overtaken => With("waitlisted") \subseteq req[h].queue

LEMMA HasListStep ==
  ASSUME TypeOK, \A h \in Handlers : HasList(h), [Next]_vars
  PROVE  \A h \in Handlers : HasList(h)'
<1>0. req \in [Handlers -> Request]
  BY DEF TypeOK
<1>r. ASSUME NEW h \in Handlers, NEW r, Read(h, r),
             r.step = "restoring" => With("waitlisted") \subseteq r.queue
      PROVE  \A k \in Handlers : HasList(k)'
  <2>1. req'[h] = r /\ (\A k \in Handlers \ {h} : req'[k] = req[k]) /\ status' = status
    BY <1>r, Reader
  <2>2. With("waitlisted")' = With("waitlisted")
    BY <2>1 DEF With
  <2> QED BY <1>r, <2>1, <2>2 DEF HasList
<1>w. ASSUME NEW h \in Handlers, NEW b \in Bookings, NEW s, NEW r, Write(h, b, s, r),
             r.step # "restoring"
      PROVE  \A k \in Handlers : HasList(k)'
  BY <1>w, Writer DEF HasList, OutOfDate, Idle
<1>1. ASSUME NEW h \in Handlers, Create(h) PROVE \A k \in Handlers : HasList(k)'
  <2>0. /\ req[h] \in Request
        /\ req[h].queue \in SUBSET Bookings /\ req[h].done \in SUBSET Bookings
        /\ req[h].step # "idle" => req[h].booking \in Bookings
    BY <1>0, <1>1, RequestFields
  <2>1. CASE \E b \in Bookings : FindDuplicates(h, b)
    BY <1>r, <1>1, <2>1 DEF FindDuplicates, Idle
  <2>2. CASE FindCapacity(h)
    <3> DEFINE r == [req[h] EXCEPT !.step = "insert"]
               q == [req[h] EXCEPT !.step = "nonMembers"]
    <3>1. r.step = "insert" /\ q.step = "nonMembers" /\ Idle.step = "idle"
      BY <2>0 DEF Idle, Request
    <3>2. Read(h, r) \/ Read(h, q) \/ Read(h, Idle)
      BY <2>2 DEF FindCapacity
    <3> HIDE DEF r, q
    <3> QED BY <1>r, <1>1, <3>1, <3>2
  <2>3. CASE FindNonMembers(h)
    <3> DEFINE r == [req[h] EXCEPT !.step = "displacing", !.queue = With("active") \ Members]
    <3>1. r.step = "displacing" /\ Read(h, r)
      BY <2>0, <2>3 DEF FindNonMembers, Request
    <3> HIDE DEF r
    <3> QED BY <1>r, <1>1, <3>1
  <2>4. CASE DisplaceNext(h)
    <3>1. PICK b \in Newest(req[h].queue) :
            Write(h, b, "waitlisted", [req[h] EXCEPT !.queue = @ \ {b}, !.done = @ \cup {b}])
      BY <2>4 DEF DisplaceNext
    <3> DEFINE r == [req[h] EXCEPT !.queue = @ \ {b}, !.done = @ \cup {b}]
    <3>2. r.step = "displacing" /\ b \in Bookings /\ Write(h, b, "waitlisted", r)
      BY <2>0, <2>4, <3>1 DEF DisplaceNext, Newest, Request
    <3> HIDE DEF r
    <3> QED BY <1>w, <1>1, <3>2
  <2>5. CASE DisplacedEnough(h) \/ DisplacedTooFew(h) \/ RolledBack(h)
    <3> DEFINE r == [req[h] EXCEPT !.step = "insert", !.queue = {}]
               q == [req[h] EXCEPT !.step = "rollback"]
    <3>1. r.step = "insert" /\ q.step = "rollback" /\ Idle.step = "idle"
      BY <2>0 DEF Idle, Request
    <3>2. Read(h, r) \/ Read(h, q) \/ Read(h, Idle)
      BY <2>5 DEF DisplacedEnough, DisplacedTooFew, RolledBack
    <3> HIDE DEF r, q
    <3> QED BY <1>r, <1>1, <3>1, <3>2
  <2>6. CASE RollBackNext(h)
    <3>1. PICK b \in req[h].done :
            LET rest == [req[h] EXCEPT !.done = @ \ {b}]
            IN  Read(h, rest) \/ Write(h, b, "active", rest)
      BY <2>6 DEF RollBackNext
    <3> DEFINE r == [req[h] EXCEPT !.done = @ \ {b}]
    <3>2. r.step = "rollback" /\ b \in Bookings /\ (Read(h, r) \/ Write(h, b, "active", r))
      BY <2>0, <2>6, <3>1 DEF RollBackNext, Request
    <3> HIDE DEF r
    <3> QED BY <1>r, <1>w, <1>1, <3>2
  <2>7. CASE Insert(h)
    BY <1>w, <1>1, <2>0, <2>7 DEF Insert, Idle
  <2> QED BY <1>1, <2>1, <2>2, <2>3, <2>4, <2>5, <2>6, <2>7 DEF Create
<1>2. ASSUME NEW h \in Handlers, Cancel(h) \/ Fail(h) PROVE \A k \in Handlers : HasList(k)'
  <2>0. /\ req[h] \in Request /\ req[h].queue \in SUBSET Bookings
        /\ req[h].step # "idle" => req[h].booking \in Bookings
    BY <1>0, <1>2, RequestFields
  <2>1. CASE \E b \in Bookings : FindBooking(h, b)
    BY <1>r, <1>2, <2>1 DEF FindBooking, Idle
  <2>2. CASE SaveCancelled(h)
    <3> DEFINE r == IF req[h].wasActive THEN [req[h] EXCEPT !.step = "released"] ELSE Idle
    <3>1. r.step # "restoring"
      BY <2>0 DEF Idle, Request
    <3>2. Write(h, req[h].booking, "cancelled", r) /\ req[h].booking \in Bookings
      BY <2>0, <2>2 DEF SaveCancelled
    <3> HIDE DEF r
    <3> QED BY <1>w, <1>2, <3>1, <3>2
  <2>3. CASE FindWaitlisted(h)
    <3> DEFINE r == [req[h] EXCEPT !.step = "restoring", !.queue = With("waitlisted")]
    <3>1. r.queue = With("waitlisted") /\ Read(h, r)
      BY <2>0, <2>3 DEF FindWaitlisted, Request
    <3> HIDE DEF r
    <3> QED BY <1>r, <1>2, <3>1
  <2>4. CASE RestoreNext(h)
    <3>1. PICK b \in Oldest(req[h].queue) :
            Write(h, b, "active", [req[h] EXCEPT !.queue = @ \ {b}, !.done = @ \cup {b}])
      BY <2>4 DEF RestoreNext
    <3> DEFINE r == [req[h] EXCEPT !.queue = @ \ {b}, !.done = @ \cup {b}]
    <3>2. /\ r.queue = req[h].queue \ {b} /\ r.overtaken = req[h].overtaken
          /\ req[h].step = "restoring" /\ b \in Bookings
      BY <2>0, <2>4, <3>1 DEF RestoreNext, Oldest, Request
    <3>3. /\ req'[h] = r /\ \A k \in Handlers \ {h} : OutOfDate(k)
          /\ status'[b] = "active" /\ \A c \in Bookings \ {b} : status'[c] = status[c]
      BY <1>2, <3>1, <3>2, Writer
    <3> HIDE DEF r
    <3>4. HasList(h)'
      BY <1>2, <3>2, <3>3 DEF HasList, With
    <3> QED BY <3>3, <3>4 DEF HasList, OutOfDate, Idle
  <2>5. CASE RestoreEnds(h) \/ Fail(h)
    BY <1>r, <1>2, <2>5 DEF RestoreEnds, Fail, Idle
  <2> QED BY <1>2, <2>1, <2>2, <2>3, <2>4, <2>5 DEF Cancel
<1>3. ASSUME NEW b \in Bookings, AdminReassign(b) PROVE \A k \in Handlers : HasList(k)'
  BY <1>3, Reassigner DEF HasList, OutOfDate, Idle
<1>4. CASE \/ \E b \in Bookings : AdminDelete(b)
           \/ PublicBookingOpens \/ UNCHANGED vars
  BY <1>4, Elsewhere DEF HasList, With
<1> QED BY <1>1, <1>2, <1>3, <1>4 DEF Next

LEMMA OrderStep ==
  ASSUME TypeOK, \A h \in Handlers : HasList(h), [Next]_vars, ~raced',
         NEW b \in Bookings, status[b] = "waitlisted", told[b] # told'[b], told'[b] = "restored",
         NEW c \in With("waitlisted")
  PROVE  CreatedAt[b] <= CreatedAt[c]
<1>0. told \in [Bookings -> Email]
  BY DEF TypeOK
<1>t. ASSUME NEW B, NEW email, Tell(B, email) PROVE email = "restored" /\ b \in B
  BY <1>0, <1>t DEF Tell
<1>1. PICK h \in Handlers : RestoreNext(h)
  <2>1. ASSUME NEW h \in Handlers, Create(h) PROVE FALSE
    <3>1. \/ told' = told
          \/ Tell(req[h].done, "waitlisted")
          \/ Tell({req[h].booking}, "confirmation")
      <4>1. CASE DisplacedEnough(h)
        BY <4>1 DEF DisplacedEnough
      <4>2. CASE Insert(h)
        BY <4>2 DEF Insert
      <4>3. CASE FindCapacity(h) \/ FindNonMembers(h) \/ DisplaceNext(h)
        BY <4>3 DEF FindCapacity, FindNonMembers, DisplaceNext
      <4>4. CASE DisplacedTooFew(h) \/ RollBackNext(h) \/ RolledBack(h)
        BY <4>4 DEF DisplacedTooFew, RollBackNext, RolledBack
      <4>5. CASE \E x \in Bookings : FindDuplicates(h, x)
        BY <4>5 DEF FindDuplicates
      <4> QED BY <2>1, <4>1, <4>2, <4>3, <4>4, <4>5 DEF Create
    <3> QED BY <1>t, <3>1
  <2>2. ASSUME NEW h \in Handlers, Cancel(h), ~RestoreNext(h) PROVE FALSE
    <3>1. told' = told \/ Tell({req[h].booking}, "cancellation")
      <4>1. CASE SaveCancelled(h)
        BY <4>1 DEF SaveCancelled
      <4>2. CASE FindWaitlisted(h) \/ RestoreEnds(h) \/ \E x \in Bookings : FindBooking(h, x)
        BY <4>2 DEF FindWaitlisted, RestoreEnds, FindBooking
      <4> QED BY <2>2, <4>1, <4>2 DEF Cancel
    <3> QED BY <1>t, <3>1
  <2>3. ASSUME NEW h \in Handlers, Fail(h) PROVE FALSE
    BY <2>3 DEF Fail
  <2>4. ASSUME NEW x \in Bookings, AdminReassign(x) PROVE FALSE
    BY <1>t, <2>4 DEF AdminReassign
  <2>5. CASE \/ \E x \in Bookings : AdminDelete(x)
             \/ PublicBookingOpens \/ UNCHANGED vars
    BY <2>5, Elsewhere
  <2> QED BY <2>1, <2>2, <2>3, <2>4, <2>5 DEF Next
<1>2. PICK x \in Oldest(req[h].queue) :
        /\ \E r : Write(h, x, "active", r)
        /\ Tell({x}, "restored")
  BY <1>1 DEF RestoreNext
<1>3. b = x
  BY <1>2, <1>t
<1>4. x \in Bookings
  BY RequestFields DEF Oldest
<1>5. ~req[h].overtaken /\ req[h].step = "restoring"
  <2>1. PICK r : Write(h, x, "active", r)
    BY <1>2
  <2> QED BY <1>1, <1>4, <2>1, Writer DEF RestoreNext
<1>6. c \in req[h].queue
  BY <1>5 DEF HasList
<1> QED BY <1>2, <1>3, <1>6 DEF Oldest

\* For any bookings and requests in flight: until handlers race, a booking that is restored
\* has waited no less long than any that is not (restoreWaitlisted).
THEOREM RestoresInOrder == Spec => RestoredInOrder
<1> DEFINE Lists == \A h \in Handlers : HasList(h)
<1>1. Init => Lists
  BY DEF Init, HasList, Idle
<1>2. IInv /\ Lists /\ [Next]_vars => Lists'
  BY HasListStep DEF IInv
<1>3. IInv /\ Lists /\ [Next]_vars =>
        [~raced' => \A b \in Bookings :
           (status[b] = "waitlisted" /\ told[b] # told'[b] /\ told'[b] = "restored") =>
             \A c \in With("waitlisted") : CreatedAt[b] <= CreatedAt[c]]_vars
  <2> HIDE DEF Lists
  <2> SUFFICES ASSUME IInv, Lists, [Next]_vars, ~raced', NEW b \in Bookings,
                      status[b] = "waitlisted", told[b] # told'[b], told'[b] = "restored",
                      NEW c \in With("waitlisted")
               PROVE  CreatedAt[b] <= CreatedAt[c]
    OBVIOUS
  <2>1. TypeOK
    BY DEF IInv
  <2> QED BY <2>1, OrderStep DEF Lists
<1> QED BY <1>1, <1>2, <1>3, Invariant, PTL DEF Spec, RestoredInOrder

-----------------------------------------------------------------------------
(***************************************************************************)
(* Duplicates: a booking becomes live only by its insertion, which was     *)
(* looked up for, or by an admin.                                          *)
(***************************************************************************)
LiveGrowsBy(B) == \A c \in Bookings \ B : status'[c] \in Live => status[c] \in Live

LEMMA LiveStep ==
  ASSUME IInv, [Next]_vars, ~raced', moved' = {}
  PROVE  /\ ~raced /\ moved = {}
         /\ \/ LiveGrowsBy({})
            \/ \E b \in Bookings : ExistingDuplicates(b) = {} /\ LiveGrowsBy({b})
<1>0. TypeOK /\ (~raced => \A h \in Handlers : HandlerInv(h))
  BY DEF IInv
<1> DEFINE Goal == /\ ~raced /\ moved = {}
                   /\ \/ LiveGrowsBy({})
                      \/ \E b \in Bookings : ExistingDuplicates(b) = {} /\ LiveGrowsBy({b})
<1>r. ASSUME NEW h \in Handlers, NEW r, Read(h, r) PROVE Goal
  BY <1>0, <1>r, Reader DEF LiveGrowsBy
<1>w. ASSUME NEW h \in Handlers, NEW b \in Bookings, NEW s, NEW r, Write(h, b, s, r),
             \/ s = "cancelled"
             \/ ~raced /\ ~req[h].overtaken => status[b] \in Live \/ ExistingDuplicates(b) = {}
      PROVE  Goal
  <2>1. /\ status'[b] = s /\ (\A c \in Bookings \ {b} : status'[c] = status[c])
        /\ moved' = moved /\ ~raced /\ (s # "cancelled" => ~req[h].overtaken)
    BY <1>0, <1>w, Writer
  <2>2. CASE s = "cancelled" \/ status[b] \in Live
    <3>1. LiveGrowsBy({})
      BY <2>1, <2>2 DEF LiveGrowsBy, Live
    <3> QED BY <2>1, <3>1
  <2>3. CASE s # "cancelled" /\ ExistingDuplicates(b) = {}
    <3>1. LiveGrowsBy({b})
      BY <2>1 DEF LiveGrowsBy
    <3> QED BY <2>1, <2>3, <3>1
  <2> QED BY <1>w, <2>1, <2>2, <2>3
<1>1. ASSUME NEW h \in Handlers, Create(h) PROVE Goal
  <2>1. /\ req[h].queue \in SUBSET Bookings /\ req[h].done \in SUBSET Bookings
        /\ req[h].step # "idle" => req[h].booking \in Bookings
    BY <1>0, <1>1, RequestFields
  <2>2. ~raced /\ ~req[h].overtaken => TargetIsNew(h) /\ DisplacingKnows(h)
    BY <1>0, <1>1 DEF HandlerInv
  <2>3. CASE DisplaceNext(h)
    <3>1. PICK b \in req[h].queue : /\ status[b] # "deleted" /\ req[h].step = "displacing"
                                    /\ \E r : Write(h, b, "waitlisted", r)
      BY <2>3 DEF DisplaceNext, Newest
    <3>2. PICK r : Write(h, b, "waitlisted", r)
      BY <3>1
    <3>3. ~raced /\ ~req[h].overtaken => status[b] \in Live
      BY <2>2, <3>1 DEF DisplacingKnows, Live
    <3> QED BY <1>w, <1>1, <2>1, <3>2, <3>3
  <2>4. CASE RollBackNext(h)
    <3>1. PICK b \in req[h].done :
            /\ req[h].step = "rollback"
            /\ \E r : Read(h, r) \/ (status[b] # "deleted" /\ Write(h, b, "active", r))
      BY <2>4 DEF RollBackNext
    <3>2. PICK r : Read(h, r) \/ (status[b] # "deleted" /\ Write(h, b, "active", r))
      BY <3>1
    <3>3. ~raced /\ ~req[h].overtaken => status[b] \in Live \cup {"deleted"}
      BY <2>2, <3>1 DEF DisplacingKnows, Live
    <3> QED BY <1>r, <1>w, <1>1, <2>1, <3>2, <3>3
  <2>5. CASE Insert(h)
    <3>1. req[h].step = "insert" /\ Write(h, req[h].booking, "active", Idle)
      BY <2>5 DEF Insert
    <3>2. ~raced /\ ~req[h].overtaken => ExistingDuplicates(req[h].booking) = {}
      BY <2>2, <3>1 DEF TargetIsNew, Creating
    <3> QED BY <1>w, <1>1, <2>1, <3>1, <3>2
  <2>6. CASE ~(DisplaceNext(h) \/ RollBackNext(h) \/ Insert(h))
    <3>1. \E r : Read(h, r)
      BY <1>1, <2>6 DEF Create, FindDuplicates, FindCapacity, FindNonMembers,
         DisplacedEnough, DisplacedTooFew, RolledBack
    <3> QED BY <1>r, <1>1, <3>1
  <2> QED BY <2>3, <2>4, <2>5, <2>6
<1>2. ASSUME NEW h \in Handlers, Cancel(h) PROVE Goal
  <2>1. req[h].queue \in SUBSET Bookings /\ (req[h].step # "idle" => req[h].booking \in Bookings)
    BY <1>0, <1>2, RequestFields
  <2>2. CASE SaveCancelled(h)
    BY <1>w, <1>2, <2>1, <2>2 DEF SaveCancelled
  <2>3. CASE RestoreNext(h)
    <3>1. PICK b \in req[h].queue : /\ status[b] # "deleted" /\ req[h].step = "restoring"
                                    /\ \E r : Write(h, b, "active", r)
      BY <2>3 DEF RestoreNext, Oldest
    <3>2. PICK r : Write(h, b, "active", r)
      BY <3>1
    <3>3. ~raced /\ ~req[h].overtaken => status[b] \in Live
      BY <1>0, <1>2, <3>1 DEF HandlerInv, RestoringKnows, Live
    <3> QED BY <1>w, <1>2, <2>1, <3>2, <3>3
  <2>4. CASE ~(SaveCancelled(h) \/ RestoreNext(h))
    <3>1. \E r : Read(h, r)
      BY <1>2, <2>4 DEF Cancel, FindBooking, FindWaitlisted, RestoreEnds
    <3> QED BY <1>r, <1>2, <3>1
  <2> QED BY <2>2, <2>3, <2>4
<1>3. ASSUME NEW h \in Handlers, Fail(h) PROVE Goal
  BY <1>r, <1>3 DEF Fail
<1>4. ASSUME NEW b \in Bookings, AdminReassign(b) PROVE FALSE
  BY <1>0, <1>4, Reassigner
<1>5. CASE \/ \E b \in Bookings : AdminDelete(b)
           \/ PublicBookingOpens \/ UNCHANGED vars
  <2>1. /\ moved' = moved /\ (raced' <=> raced)
        /\ \A c \in Bookings : status'[c] \in {status[c], "deleted"}
    BY <1>0, <1>5, Elsewhere
  <2> QED BY <2>1 DEF LiveGrowsBy, Live
<1> QED BY <1>1, <1>2, <1>3, <1>4, <1>5 DEF Next

LEMMA EmailStep ==
  ASSUME IInv, OneBookingPerEmail, [Next]_vars
  PROVE  OneBookingPerEmail'
<1> SUFFICES ASSUME ~raced', moved' = {}, NEW b \in Bookings, NEW c \in Bookings, b # c,
                    status'[b] \in Live, status'[c] \in Live, NEW e \in Emails[b] \cap Emails[c]
             PROVE  e # LowerCase[e]
  BY DEF OneBookingPerEmail
<1>1. ~raced /\ moved = {}
  BY LiveStep
<1>2. CASE status[b] \in Live /\ status[c] \in Live
  BY <1>1, <1>2 DEF OneBookingPerEmail
<1>3. CASE ~(status[b] \in Live /\ status[c] \in Live)
  <2>1. PICK x \in Bookings : ExistingDuplicates(x) = {} /\ LiveGrowsBy({x})
    BY <1>3, LiveStep DEF LiveGrowsBy
  <2>2. CASE x = b /\ status[c] \in Live
    BY <2>1, <2>2 DEF ExistingDuplicates
  <2>3. CASE x = c /\ status[b] \in Live
    BY <2>1, <2>3 DEF ExistingDuplicates
  <2>4. (x = b /\ status[c] \in Live) \/ (x = c /\ status[b] \in Live)
    BY <1>3, <2>1 DEF LiveGrowsBy
  <2> QED BY <2>2, <2>3, <2>4
<1> QED BY <1>2, <1>3

\* For any bookings, addresses and requests in flight: until handlers race or an admin moves
\* a booking in, no address, entered in lower case, is on two live bookings, although a
\* booking may be displaced, restored, cancelled and asked for again.
THEOREM OneLiveBookingPerAddress == Spec => []OneBookingPerEmail
<1>1. Init => OneBookingPerEmail
  BY DEF Init, OneBookingPerEmail, Live
<1>2. IInv /\ OneBookingPerEmail /\ [Next]_vars => OneBookingPerEmail'
  BY EmailStep
<1> QED BY <1>1, <1>2, Invariant, PTL DEF Spec
-----------------------------------------------------------------------------
(***************************************************************************)
(* What holders know.  Between a displacement and the email that says so,  *)
(* or its rollback, the holder still knows of an active booking; and a     *)
(* handler that is to insert on reads that have been overtaken will race.  *)
(***************************************************************************)
Holding(r) == r.step \in {"displacing", "rollback"}
Taken(b) == \E h \in Handlers : Holding(req[h]) /\ b \in req[h].done
ToldRight(b) == told[b] \in Announced(status[b])
ToldActive(b) == told[b] \in Announced("active")

Fresh(h) == ~req[h].overtaken /\ req[h].done # {}
OneFresh == \A h, k \in Handlers : Fresh(h) /\ Fresh(k) => h = k

Doomed == \E h \in Handlers : req[h].step = "insert" /\ req[h].overtaken

Unannounced(h) ==
  Holding(req[h]) /\ ~req[h].overtaken =>
    \A b \in req[h].done : status[b] = "deleted" \/ ToldActive(b)

Told ==
  /\ \A b \in Bookings : ToldRight(b) \/ (ToldActive(b) /\ Taken(b))
  /\ \A h \in Handlers : Unannounced(h)

Informed == ~raced => OneFresh /\ (~failed /\ ~Doomed => Told)

LEMMA AnnouncedSets ==
  /\ Announced("active") = {"confirmation", "restored"}
  /\ Announced("waitlisted") = {"waitlisted"}
  /\ Announced("cancelled") = {"cancellation"}
  /\ Announced("deleted") = Email /\ Announced("none") = Email
  BY DEF Announced

LEMMA Moves ==
  ASSUME TypeOK, NEW h \in Handlers, Create(h) \/ Cancel(h) \/ Fail(h)
  PROVE  (\E r : Read(h, r)) \/ (\E b \in Bookings : \E s, r : Write(h, b, s, r))
<1>0. /\ req[h].queue \in SUBSET Bookings /\ req[h].done \in SUBSET Bookings
      /\ req[h].step # "idle" => req[h].booking \in Bookings
  BY RequestFields
<1>1. CASE DisplaceNext(h) \/ RollBackNext(h) \/ RestoreNext(h)
  BY <1>0, <1>1 DEF DisplaceNext, RollBackNext, RestoreNext, Newest, Oldest
<1>2. CASE Insert(h) \/ SaveCancelled(h)
  BY <1>0, <1>2 DEF Insert, SaveCancelled
<1>3. CASE \/ \E b \in Bookings : FindDuplicates(h, b)
           \/ FindCapacity(h) \/ FindNonMembers(h) \/ DisplacedEnough(h) \/ DisplacedTooFew(h)
           \/ RolledBack(h)
  BY <1>3 DEF FindDuplicates, FindCapacity, FindNonMembers, DisplacedEnough, DisplacedTooFew, RolledBack
<1>4. CASE \/ \E b \in Bookings : FindBooking(h, b)
           \/ FindWaitlisted(h) \/ RestoreEnds(h) \/ Fail(h)
  BY <1>4 DEF FindBooking, FindWaitlisted, RestoreEnds, Fail
<1> QED BY <1>1, <1>2, <1>3, <1>4 DEF Create, Cancel

LEMMA OthersGoOn ==
  ASSUME TypeOK, NEW h \in Handlers, Create(h) \/ Cancel(h) \/ Fail(h), NEW k \in Handlers \ {h}
  PROVE  SameRequest(k)
<1>1. ASSUME NEW r, Read(h, r) PROVE SameRequest(k)
  BY <1>1, Reader DEF SameRequest
<1>2. ASSUME NEW b \in Bookings, NEW s, NEW r, Write(h, b, s, r) PROVE SameRequest(k)
  BY <1>2, Writer
<1> QED BY <1>1, <1>2, Moves

\* A handler that is to insert on what has been overtaken does so, and races, or fails.
LEMMA DoomedStays ==
  ASSUME TypeOK, Doomed, [Next]_vars, ~raced', ~failed'
  PROVE  Doomed'
<1>1. PICK k \in Handlers : req[k].step = "insert" /\ req[k].overtaken
  BY DEF Doomed
<1>0. req[k] \in Request /\ req[k].booking \in Bookings
  BY <1>1, RequestFields DEF TypeOK
<1>2. ASSUME SameRequest(k) \/ req'[k] = req[k] PROVE Doomed'
  BY <1>1, <1>2 DEF Doomed, SameRequest
<1>3. ASSUME NEW h \in Handlers, Create(h) \/ Cancel(h) \/ Fail(h) PROVE Doomed'
  <2>1. CASE h # k
    BY <1>2, <1>3, <2>1, OthersGoOn
  <2>2. CASE h = k
    <3>1. ~Insert(k)
      BY <1>0, <1>1, Writer DEF Insert
    <3>2. ~Fail(k)
      BY DEF Fail
    <3>3. req[k] # Idle
      BY <1>1 DEF Idle
    <3>4. ~Cancel(k)
      <4>1. ~\E b \in Bookings : FindBooking(k, b)
        BY <3>3 DEF FindBooking
      <4>2. ~SaveCancelled(k) /\ ~FindWaitlisted(k) /\ ~RestoreNext(k) /\ ~RestoreEnds(k)
        BY <1>1 DEF SaveCancelled, FindWaitlisted, RestoreNext, RestoreEnds, LoopOver
      <4> QED BY <4>1, <4>2 DEF Cancel
    <3>5. Create(k) => Insert(k)
      <4>1. ~\E b \in Bookings : FindDuplicates(k, b)
        BY <3>3 DEF FindDuplicates
      <4>2. ~FindCapacity(k) /\ ~FindNonMembers(k) /\ ~DisplaceNext(k) /\ ~DisplacedEnough(k)
        BY <1>1 DEF FindCapacity, FindNonMembers, DisplaceNext, DisplacedEnough
      <4>3. ~DisplacedTooFew(k) /\ ~RollBackNext(k) /\ ~RolledBack(k)
        BY <1>1 DEF DisplacedTooFew, RollBackNext, RolledBack
      <4> QED BY <4>1, <4>2, <4>3 DEF Create
    <3> QED BY <1>3, <2>2, <3>1, <3>2, <3>4, <3>5
  <2> QED BY <2>1, <2>2
<1>4. ASSUME NEW b \in Bookings, AdminReassign(b) PROVE Doomed'
  BY <1>2, <1>4, Reassigner
<1>5. CASE \/ \E b \in Bookings : AdminDelete(b)
           \/ PublicBookingOpens \/ UNCHANGED vars
  BY <1>2, <1>5, Elsewhere
<1> QED BY <1>3, <1>4, <1>5 DEF Next

\* A handler that reads, and tells nobody.
LEMMA ReadTells ==
  ASSUME TypeOK, OneFresh, NEW h \in Handlers, NEW r, Read(h, r), told' = told,
         r.done = {} \/ (~r.overtaken => ~req[h].overtaken /\ r.done \subseteq req[h].done),
         Holding(r) => r.done = {} \/ Holding(req[h]),
         \A b \in req[h].done : Holding(req[h]) => (Holding(r) /\ b \in r.done) \/ ToldRight(b)
  PROVE  OneFresh' /\ (Told => Told')
<1>0. /\ req'[h] = r
      /\ \A k \in Handlers \ {h} : req'[k] = req[k]
      /\ status' = status
  BY Reader
<1>1. OneFresh'
  BY <1>0 DEF OneFresh, Fresh
<1>2. ASSUME Told, NEW b \in Bookings PROVE ToldRight(b)' \/ (ToldActive(b)' /\ Taken(b)')
  <2>1. CASE ToldRight(b)
    BY <1>0, <2>1 DEF ToldRight
  <2>2. CASE ~ToldRight(b)
    <3>1. ToldActive(b) /\ Taken(b)
      BY <1>2, <2>2 DEF Told
    <3>2. ToldActive(b)'
      BY <3>1 DEF ToldActive
    <3>3. PICK k \in Handlers : Holding(req[k]) /\ b \in req[k].done
      BY <3>1 DEF Taken
    <3>4. Holding(req'[k]) /\ b \in req'[k].done
      BY <1>0, <2>2, <3>3
    <3>5. Taken(b)'
      BY <3>4 DEF Taken, Holding
    <3> QED BY <3>2, <3>5
  <2> QED BY <2>1, <2>2
<1>3. ASSUME Told, NEW k \in Handlers PROVE Unannounced(k)'
  <2>1. CASE k # h
    BY <1>0, <1>3, <2>1 DEF Told, Unannounced, Holding, ToldActive
  <2>2. CASE k = h
    BY <1>0, <1>3, <2>2 DEF Told, Unannounced, Holding, ToldActive
  <2> QED BY <2>1, <2>2
<1> QED BY <1>1, <1>2, <1>3 DEF Told

\* A handler that saves a booking, and tells nobody but its holder.
LEMMA WriteTells ==
  ASSUME TypeOK, NEW h \in Handlers, NEW b \in Bookings, NEW s, NEW r, Write(h, b, s, r),
         \A c \in Bookings \ {b} : told'[c] = told[c],
         \/ told'[b] \in Announced(s)
         \/ told'[b] \in Announced("active") /\ Holding(r) /\ b \in r.done,
         \A c \in req[h].done \ {b} : Holding(req[h]) => Holding(r) /\ c \in r.done,
         Holding(r) /\ ~r.overtaken =>
           \A c \in r.done : \/ c = b /\ told'[b] \in Announced("active")
                             \/ c # b /\ Holding(req[h]) /\ ~req[h].overtaken /\ c \in req[h].done
  PROVE  OneFresh' /\ (Told => Told')
<1>0. /\ req'[h] = r
      /\ \A k \in Handlers \ {h} : SameRequest(k) /\ OutOfDate(k)
      /\ status'[b] = s /\ \A c \in Bookings \ {b} : status'[c] = status[c]
      /\ req[h].done \in SUBSET Bookings
  BY Writer, RequestFields
<1>1. OneFresh'
  BY <1>0 DEF OneFresh, Fresh, OutOfDate, Idle
<1>2. ASSUME Told, NEW c \in Bookings PROVE ToldRight(c)' \/ (ToldActive(c)' /\ Taken(c)')
  <2>1. CASE c = b
    <3>1. CASE told'[b] \in Announced(s)
      BY <1>0, <2>1, <3>1 DEF ToldRight
    <3>2. CASE told'[b] \in Announced("active") /\ Holding(r) /\ b \in r.done
      <4>1. Taken(b)'
        BY <1>0, <3>2 DEF Taken, Holding
      <4>2. ToldActive(b)'
        BY <3>2 DEF ToldActive, Announced
      <4> QED BY <2>1, <4>1, <4>2
    <3> QED BY <3>1, <3>2
  <2>2. CASE c # b /\ ToldRight(c)
    BY <1>0, <2>2 DEF ToldRight
  <2>3. CASE c # b /\ ~ToldRight(c)
    <3>1. ToldActive(c) /\ Taken(c)
      BY <1>2, <2>3 DEF Told
    <3>2. ToldActive(c)'
      BY <2>3, <3>1 DEF ToldActive, Announced
    <3>3. PICK k \in Handlers : Holding(req[k]) /\ c \in req[k].done
      BY <3>1 DEF Taken
    <3>4. Holding(req'[k]) /\ c \in req'[k].done
      BY <1>0, <2>3, <3>3 DEF SameRequest, Holding
    <3>5. Taken(c)'
      BY <3>4 DEF Taken, Holding
    <3> QED BY <3>2, <3>5
  <2> QED BY <2>1, <2>2, <2>3
<1>3. ASSUME Told, NEW k \in Handlers PROVE Unannounced(k)'
  <2>1. CASE k # h
    BY <1>0, <2>1 DEF Unannounced, OutOfDate, Holding, Idle
  <2>2. CASE k = h
    <3> SUFFICES ASSUME Holding(r), ~r.overtaken, NEW c \in r.done
                 PROVE  status'[c] = "deleted" \/ told'[c] \in Announced("active")
      BY <1>0, <2>2 DEF Unannounced, Holding, ToldActive, Announced
    <3>1. CASE c = b
      BY <3>1
    <3>2. CASE c # b /\ Holding(req[h]) /\ ~req[h].overtaken /\ c \in req[h].done
      <4>1. status[c] = "deleted" \/ told[c] \in Announced("active")
        BY <1>3, <3>2 DEF Told, Unannounced, ToldActive
      <4> QED BY <1>0, <3>2, <4>1
    <3> QED BY <3>1, <3>2
  <2> QED BY <2>1, <2>2
<1> QED BY <1>1, <1>2, <1>3 DEF Told
LEMMA DisplacementTells ==
  ASSUME TypeOK, OneFresh, NEW h \in Handlers, DisplacedEnough(h),
         ~raced => HandlerInv(h), ~raced
  PROVE  OneFresh' /\ (Told => Told' \/ Doomed')
<1> DEFINE r == [req[h] EXCEPT !.step = "insert", !.queue = {}]
<1>0. /\ req[h] \in Request /\ req[h].done \in SUBSET Bookings
      /\ told \in [Bookings -> Email] /\ status \in [Bookings -> Status]
  BY RequestFields DEF TypeOK
<1>1. /\ r.step = "insert" /\ r.done = req[h].done /\ r.overtaken = req[h].overtaken
      /\ req[h].step = "displacing" /\ Read(h, r) /\ Tell(req[h].done, "waitlisted")
  BY <1>0 DEF DisplacedEnough, Request
<1> HIDE DEF r
<1>2. /\ req'[h] = r
      /\ \A k \in Handlers \ {h} : req'[k] = req[k]
      /\ status' = status
  BY <1>1, Reader
<1>3. OneFresh'
  BY <1>1, <1>2 DEF OneFresh, Fresh
<1>4. CASE req[h].overtaken
  <2>1. Doomed'
    BY <1>1, <1>2, <1>4 DEF Doomed
  <2> QED BY <1>3, <2>1
<1>5. ASSUME ~req[h].overtaken, Told PROVE Told'
  <2>1. \A b \in req[h].done : status[b] \in {"waitlisted", "deleted"}
    BY <1>1, <1>5 DEF HandlerInv, DisplacingKnows
  <2>2. /\ \A b \in req[h].done : told'[b] = "waitlisted"
        /\ \A b \in Bookings \ req[h].done : told'[b] = told[b]
    BY <1>0, <1>1 DEF Tell
  <2>3. ASSUME NEW b \in Bookings PROVE ToldRight(b)' \/ (ToldActive(b)' /\ Taken(b)')
    <3>1. CASE b \in req[h].done
      <4>1. told'[b] \in Announced(status[b])
        BY <2>1, <2>2, <3>1, AnnouncedSets DEF Email
      <4>2. ToldRight(b)'
        BY <1>2, <4>1 DEF ToldRight, Announced
      <4> QED BY <4>2
    <3>2. CASE b \notin req[h].done /\ ToldRight(b)
      BY <1>2, <2>2, <3>2 DEF ToldRight, Announced
    <3>3. CASE b \notin req[h].done /\ ~ToldRight(b)
      <4>1. ToldActive(b) /\ Taken(b)
        BY <1>5, <3>3 DEF Told
      <4>2. ToldActive(b)'
        BY <2>2, <3>3, <4>1 DEF ToldActive, Announced
      <4>3. PICK k \in Handlers : Holding(req[k]) /\ b \in req[k].done
        BY <4>1 DEF Taken
      <4>4. Holding(req'[k]) /\ b \in req'[k].done
        BY <1>2, <3>3, <4>3
      <4>5. Taken(b)'
        BY <4>4 DEF Taken, Holding
      <4> QED BY <4>2, <4>5
    <3> QED BY <3>1, <3>2, <3>3
  <2>4. ASSUME NEW k \in Handlers PROVE Unannounced(k)'
    <3>1. CASE k = h
      BY <1>1, <1>2, <3>1 DEF Unannounced, Holding
    <3>2. CASE k # h
      <4> SUFFICES ASSUME Holding(req[k]), ~req[k].overtaken, NEW b \in req[k].done
                   PROVE  status'[b] = "deleted" \/ told'[b] \in Announced("active")
        BY <1>2, <3>2 DEF Unannounced, Holding, ToldActive, Announced
      <4>1. req[h].done = {}
        BY <1>5, <3>2 DEF OneFresh, Fresh
      <4>2. b \in Bookings
        BY RequestFields
      <4>3. told'[b] = told[b]
        BY <2>2, <4>1, <4>2
      <4>4. status[b] = "deleted" \/ told[b] \in Announced("active")
        BY <1>5 DEF Told, Unannounced, ToldActive
      <4> QED BY <1>2, <4>3, <4>4
    <3> QED BY <3>1, <3>2
  <2> QED BY <2>3, <2>4 DEF Told
<1> QED BY <1>3, <1>4, <1>5

LEMMA CreateTells ==
  ASSUME IInv, OneFresh, NEW h \in Handlers, Create(h), ~raced'
  PROVE  OneFresh' /\ (Told => Told' \/ Doomed')
<1>0. /\ TypeOK /\ DoneOK(req[h]) /\ req[h] \in Request
      /\ told \in [Bookings -> Email] /\ status \in [Bookings -> Status]
  BY DEF IInv, TypeOK, DoneEmpty, DoneOK
<1>a. /\ req[h].queue \in SUBSET Bookings /\ req[h].done \in SUBSET Bookings
      /\ req[h].step # "idle" => req[h].booking \in Bookings
  BY <1>0, RequestFields
<1>b. ~raced /\ HandlerInv(h)
  <2>1. ~raced
    BY <1>0, Reader, Writer, Moves
  <2> QED BY <2>1 DEF IInv
<1>c. told' = told => \A b \in Bookings : told'[b] = told[b]
  OBVIOUS
<1>1. ASSUME NEW b \in Bookings, FindDuplicates(h, b) PROVE OneFresh' /\ (Told => Told')
  <2> DEFINE r == [Idle EXCEPT !.step = "capacity", !.booking = b]
  <2>1. Read(h, r) /\ r.done = {} /\ told' = told /\ req[h].done = {}
    BY <1>1 DEF FindDuplicates, Idle
  <2> HIDE DEF r
  <2> QED BY <1>0, <2>1, ReadTells
<1>2. CASE FindCapacity(h) \/ FindNonMembers(h)
  <2>1. req[h].done = {} /\ told' = told
    BY <1>0, <1>2 DEF FindCapacity, FindNonMembers, DoneOK
  <2> DEFINE r == [req[h] EXCEPT !.step = "insert"]
             q == [req[h] EXCEPT !.step = "nonMembers"]
             p == [req[h] EXCEPT !.step = "displacing", !.queue = With("active") \ Members]
  <2>2. r.done = {} /\ q.done = {} /\ p.done = {} /\ Idle.done = {}
    BY <1>0, <2>1 DEF Idle, Request
  <2>3. Read(h, r) \/ Read(h, q) \/ Read(h, p) \/ Read(h, Idle)
    BY <1>2 DEF FindCapacity, FindNonMembers
  <2> HIDE DEF r, q, p
  <2> QED BY <1>0, <2>1, <2>2, <2>3, ReadTells
<1>3. CASE DisplaceNext(h)
  <2>1. PICK b \in Newest(req[h].queue) :
          /\ status[b] # "deleted"
          /\ Write(h, b, "waitlisted", [req[h] EXCEPT !.queue = @ \ {b}, !.done = @ \cup {b}])
    BY <1>3 DEF DisplaceNext
  <2> DEFINE r == [req[h] EXCEPT !.queue = @ \ {b}, !.done = @ \cup {b}]
  <2>2. /\ b \in Bookings /\ b \in req[h].queue /\ r.step = "displacing" /\ req[h].step = "displacing"
        /\ r.done = req[h].done \cup {b} /\ r.overtaken = req[h].overtaken /\ told' = told
        /\ Write(h, b, "waitlisted", r)
    BY <1>0, <1>3, <1>a, <2>1 DEF DisplaceNext, Newest, Request
  <2> HIDE DEF r
  <2>3. ~req[h].overtaken
    BY <1>0, <2>2, Writer
  <2>4. status[b] = "active"
    BY <1>b, <2>1, <2>2, <2>3 DEF HandlerInv, DisplacingKnows
  <2>5. Told => told'[b] \in Announced("active")
    BY <2>2, <2>4 DEF Told, ToldRight, ToldActive
  <2>6. ASSUME Told PROVE OneFresh' /\ Told'
    BY <1>0, <2>2, <2>3, <2>5, <2>6, WriteTells DEF Holding
  <2>7. OneFresh'
    BY <1>0, <2>2, Writer DEF OneFresh, Fresh, OutOfDate, Idle
  <2> QED BY <2>6, <2>7
<1>4. CASE DisplacedEnough(h)
  BY <1>0, <1>4, <1>b, DisplacementTells
<1>5. CASE DisplacedTooFew(h)
  <2> DEFINE r == [req[h] EXCEPT !.step = "rollback"]
  <2>1. /\ r.step = "rollback" /\ r.done = req[h].done /\ r.overtaken = req[h].overtaken
        /\ req[h].step = "displacing" /\ Read(h, r) /\ told' = told
    BY <1>0, <1>5 DEF DisplacedTooFew, Request
  <2> HIDE DEF r
  <2> QED BY <1>0, <2>1, ReadTells DEF Holding
<1>6. CASE RollBackNext(h)
  <2>1. PICK b \in req[h].done :
          LET rest == [req[h] EXCEPT !.done = @ \ {b}] IN
          IF status[b] = "deleted" THEN Read(h, rest) ELSE Write(h, b, "active", rest)
    BY <1>6 DEF RollBackNext
  <2> DEFINE r == [req[h] EXCEPT !.done = @ \ {b}]
  <2>2. /\ b \in Bookings /\ r.step = "rollback" /\ req[h].step = "rollback"
        /\ r.done = req[h].done \ {b} /\ r.overtaken = req[h].overtaken /\ told' = told
        /\ IF status[b] = "deleted" THEN Read(h, r) ELSE Write(h, b, "active", r)
    BY <1>0, <1>6, <1>a, <2>1 DEF RollBackNext, Request
  <2> HIDE DEF r
  <2>3. CASE status[b] = "deleted"
    <3>1. ToldRight(b)
      BY <1>0, <2>2, <2>3, AnnouncedSets DEF ToldRight
    <3> QED BY <1>0, <2>2, <2>3, <3>1, ReadTells DEF Holding
  <2>4. CASE status[b] # "deleted"
    <3>1. Write(h, b, "active", r) /\ ~req[h].overtaken
      BY <1>0, <2>2, <2>4, Writer
    <3>2. Told => told'[b] \in Announced("active")
      BY <2>2, <2>4, <3>1 DEF Told, Unannounced, Holding, ToldActive
    <3>3. ASSUME Told PROVE OneFresh' /\ Told'
      BY <1>0, <2>2, <3>1, <3>2, <3>3, WriteTells DEF Holding
    <3>4. OneFresh'
      BY <1>0, <2>2, <3>1, Writer DEF OneFresh, Fresh, OutOfDate, Idle
    <3> QED BY <3>3, <3>4
  <2> QED BY <2>3, <2>4
<1>7. CASE RolledBack(h)
  <2>1. Read(h, Idle) /\ Idle.done = {} /\ req[h].done = {} /\ told' = told
    BY <1>7 DEF RolledBack, Idle
  <2> QED BY <1>0, <2>1, ReadTells
<1>8. CASE Insert(h)
  <2>1. /\ Write(h, req[h].booking, "active", Idle) /\ Tell({req[h].booking}, "confirmation")
        /\ req[h].step = "insert" /\ req[h].booking \in Bookings
    BY <1>8, <1>a DEF Insert
  <2>2. told'[req[h].booking] \in Announced("active")
    BY <1>0, <2>1, AnnouncedSets DEF Tell
  <2>3. \A c \in Bookings \ {req[h].booking} : told'[c] = told[c]
    BY <1>0, <2>1 DEF Tell
  <2>4. ~Holding(Idle) /\ ~Holding(req[h])
    BY <2>1 DEF Holding, Idle
  <2> QED BY <1>0, <2>1, <2>2, <2>3, <2>4, WriteTells
<1> QED BY <1>1, <1>2, <1>3, <1>4, <1>5, <1>6, <1>7, <1>8 DEF Create

LEMMA CancelTells ==
  ASSUME IInv, OneFresh, NEW h \in Handlers, Cancel(h), ~raced'
  PROVE  OneFresh' /\ (Told => Told')
<1>0. /\ TypeOK /\ DoneOK(req[h]) /\ req[h] \in Request
      /\ told \in [Bookings -> Email] /\ status \in [Bookings -> Status]
  BY DEF IInv, TypeOK, DoneEmpty, DoneOK
<1>a. /\ req[h].queue \in SUBSET Bookings
      /\ req[h].step # "idle" => req[h].booking \in Bookings
  BY <1>0, RequestFields
<1>1. ASSUME NEW b \in Bookings, FindBooking(h, b) PROVE OneFresh' /\ (Told => Told')
  <2> DEFINE r == [Idle EXCEPT !.step = "cancelling", !.booking = b,
                               !.wasActive = (status[b] = "active")]
  <2>1. Read(h, r) /\ r.done = {} /\ told' = told /\ req[h].done = {}
    BY <1>1 DEF FindBooking, Idle
  <2> HIDE DEF r
  <2> QED BY <1>0, <2>1, ReadTells
<1>2. CASE SaveCancelled(h)
  <2> DEFINE r == IF req[h].wasActive THEN [req[h] EXCEPT !.step = "released"] ELSE Idle
             b == req[h].booking
  <2>1. /\ Write(h, b, "cancelled", r) /\ Tell({b}, "cancellation")
        /\ req[h].step = "cancelling" /\ b \in Bookings
    BY <1>2, <1>a DEF SaveCancelled
  <2>2. ~Holding(r) /\ ~Holding(req[h])
    BY <1>0, <2>1 DEF Holding, Idle, Request
  <2> HIDE DEF r, b
  <2>3. told'[b] \in Announced("cancelled") /\ \A c \in Bookings \ {b} : told'[c] = told[c]
    BY <1>0, <2>1, AnnouncedSets DEF Tell
  <2> QED BY <1>0, <2>1, <2>2, <2>3, WriteTells
<1>3. CASE FindWaitlisted(h)
  <2> DEFINE r == [req[h] EXCEPT !.step = "restoring", !.queue = With("waitlisted")]
  <2>1. Read(h, r) /\ r.done = {} /\ told' = told /\ req[h].done = {}
    BY <1>0, <1>3 DEF FindWaitlisted, DoneOK, Request
  <2> HIDE DEF r
  <2> QED BY <1>0, <2>1, ReadTells
<1>4. CASE RestoreNext(h)
  <2>1. PICK b \in Oldest(req[h].queue) :
          /\ Write(h, b, "active", [req[h] EXCEPT !.queue = @ \ {b}, !.done = @ \cup {b}])
          /\ Tell({b}, "restored")
    BY <1>4 DEF RestoreNext
  <2> DEFINE r == [req[h] EXCEPT !.queue = @ \ {b}, !.done = @ \cup {b}]
  <2>2. b \in Bookings /\ r.step = "restoring" /\ req[h].step = "restoring" /\ Write(h, b, "active", r)
    BY <1>0, <1>4, <1>a, <2>1 DEF RestoreNext, Oldest, Request
  <2> HIDE DEF r
  <2>3. told'[b] \in Announced("active") /\ \A c \in Bookings \ {b} : told'[c] = told[c]
    BY <1>0, <2>1, <2>2, AnnouncedSets DEF Tell
  <2>4. ~Holding(r) /\ ~Holding(req[h])
    BY <2>2 DEF Holding
  <2> QED BY <1>0, <2>2, <2>3, <2>4, WriteTells
<1>5. CASE RestoreEnds(h)
  <2>1. Read(h, Idle) /\ Idle.done = {} /\ told' = told /\ ~Holding(req[h])
    BY <1>5 DEF RestoreEnds, LoopOver, Holding, Idle
  <2>2. ~Holding(Idle)
    BY DEF Holding, Idle
  <2> QED BY <1>0, <2>1, <2>2, ReadTells
<1> QED BY <1>1, <1>2, <1>3, <1>4, <1>5 DEF Cancel

LEMMA ReassignTells ==
  ASSUME TypeOK, NEW b \in Bookings, AdminReassign(b)
  PROVE  OneFresh' /\ (Told => Told')
<1>0. /\ told \in [Bookings -> Email] /\ status \in [Bookings -> Status]
  BY DEF TypeOK
<1>1. /\ \A k \in Handlers : SameRequest(k) /\ OutOfDate(k)
      /\ \A c \in Bookings \ {b} : status'[c] = status[c]
  BY Reassigner
<1>2. OneFresh'
  BY <1>1 DEF OneFresh, Fresh, OutOfDate, Idle
<1>3. \A k \in Handlers : Unannounced(k)'
  BY <1>1 DEF Unannounced, OutOfDate, Holding, Idle
<1>4. PICK s \in Live : /\ status' = [status EXCEPT ![b] = s]
                        /\ Tell({b}, IF s = "active" THEN "confirmation" ELSE "waitlisted")
  BY DEF AdminReassign
<1>5. told'[b] \in Announced(status'[b])
  BY <1>0, <1>4, AnnouncedSets DEF Tell, Live
<1>6. \A c \in Bookings \ {b} : told'[c] = told[c]
  BY <1>0, <1>4 DEF Tell
<1>7. ASSUME Told, NEW c \in Bookings PROVE ToldRight(c)' \/ (ToldActive(c)' /\ Taken(c)')
  <2>1. CASE c = b
    BY <1>5, <2>1 DEF ToldRight, Announced
  <2>2. CASE c # b /\ ToldRight(c)
    BY <1>1, <1>6, <2>2 DEF ToldRight, Announced
  <2>3. CASE c # b /\ ~ToldRight(c)
    <3>1. ToldActive(c) /\ Taken(c)
      BY <1>7, <2>3 DEF Told
    <3>2. ToldActive(c)'
      BY <1>6, <2>3, <3>1 DEF ToldActive, Announced
    <3>3. Taken(c)'
      BY <1>1, <3>1 DEF Taken, SameRequest, Holding
    <3> QED BY <3>2, <3>3
  <2> QED BY <2>1, <2>2, <2>3
<1> QED BY <1>2, <1>3, <1>7 DEF Told

LEMMA ElsewhereTells ==
  ASSUME TypeOK, TypeOK',
         \/ \E b \in Bookings : AdminDelete(b)
         \/ PublicBookingOpens \/ UNCHANGED vars
  PROVE  (OneFresh => OneFresh') /\ (Told => Told')
<1>1. /\ req' = req /\ told' = told
      /\ \A c \in Bookings : status'[c] \in {status[c], "deleted"}
  BY Elsewhere
<1>2. OneFresh => OneFresh'
  BY <1>1 DEF OneFresh, Fresh
<1>3. ASSUME Told, NEW k \in Handlers PROVE Unannounced(k)'
  <2>1. \A c \in req[k].done : c \in Bookings
    BY RequestFields
  <2> QED BY <1>1, <1>3, <2>1 DEF Told, Unannounced, Holding, ToldActive, Announced
<1>4. ASSUME Told, NEW c \in Bookings PROVE ToldRight(c)' \/ (ToldActive(c)' /\ Taken(c)')
  <2>1. CASE status'[c] = "deleted"
    <3>1. told'[c] \in Announced(status'[c])
      BY <2>1, AnnouncedSets DEF TypeOK
    <3> QED BY <3>1 DEF ToldRight, Announced
  <2>2. CASE status'[c] = status[c]
    <3>1. told'[c] = told[c] /\ (Taken(c)' <=> Taken(c))
      BY <1>1 DEF Taken
    <3> QED BY <1>4, <2>2, <3>1 DEF Told, ToldRight, ToldActive, Announced
  <2> QED BY <1>1, <2>1, <2>2
<1> QED BY <1>2, <1>3, <1>4 DEF Told

LEMMA InformedStep ==
  ASSUME IInv, Informed, [Next]_vars
  PROVE  Informed'
<1>0. TypeOK /\ TypeOK'
  BY TypeNext DEF IInv
<1> SUFFICES ASSUME ~raced' PROVE OneFresh' /\ (~failed' /\ ~Doomed' => Told')
  BY DEF Informed
<1>1. ~raced
  <2>1. ASSUME NEW h \in Handlers, Create(h) \/ Cancel(h) \/ Fail(h) PROVE ~raced
    BY <1>0, <2>1, Moves, Reader, Writer
  <2>2. ASSUME NEW b \in Bookings, AdminReassign(b) PROVE ~raced
    BY <1>0, <2>2, Reassigner
  <2>3. CASE \/ \E b \in Bookings : AdminDelete(b)
             \/ PublicBookingOpens \/ UNCHANGED vars
    BY <1>0, <2>3, Elsewhere
  <2> QED BY <2>1, <2>2, <2>3 DEF Next
<1>2. OneFresh
  BY <1>1 DEF Informed
<1>3. ASSUME ~failed', ~Doomed' PROVE Told
  <2>1. ~Doomed
    BY <1>0, <1>3, DoomedStays
  <2>2. ~failed
    <3>1. ASSUME NEW h \in Handlers, Create(h) PROVE failed' = failed
      <4>1. CASE DisplaceNext(h) \/ DisplacedEnough(h) \/ DisplacedTooFew(h) \/ RollBackNext(h)
        BY <4>1 DEF DisplaceNext, DisplacedEnough, DisplacedTooFew, RollBackNext
      <4>2. CASE FindCapacity(h) \/ FindNonMembers(h) \/ RolledBack(h) \/ Insert(h)
        BY <4>2 DEF FindCapacity, FindNonMembers, RolledBack, Insert
      <4>3. CASE \E b \in Bookings : FindDuplicates(h, b)
        BY <4>3 DEF FindDuplicates
      <4> QED BY <3>1, <4>1, <4>2, <4>3 DEF Create
    <3>2. ASSUME NEW h \in Handlers, Cancel(h) PROVE failed' = failed
      BY <3>2 DEF Cancel, FindBooking, SaveCancelled, FindWaitlisted, RestoreNext, RestoreEnds
    <3>3. ASSUME NEW h \in Handlers, Fail(h) PROVE FALSE
      BY <1>3, <3>3 DEF Fail
    <3>4. ASSUME NEW b \in Bookings, AdminReassign(b) PROVE failed' = failed
      BY <3>4 DEF AdminReassign
    <3>5. CASE \/ \E b \in Bookings : AdminDelete(b)
               \/ PublicBookingOpens \/ UNCHANGED vars
      BY <1>0, <1>3, <3>5, Elsewhere
    <3> QED BY <1>3, <3>1, <3>2, <3>3, <3>4, <3>5 DEF Next
  <2> QED BY <1>1, <2>1, <2>2 DEF Informed
<1>4. ASSUME NEW h \in Handlers, Create(h) PROVE OneFresh' /\ (~failed' /\ ~Doomed' => Told')
  BY <1>2, <1>3, <1>4, CreateTells
<1>5. ASSUME NEW h \in Handlers, Cancel(h) PROVE OneFresh' /\ (~failed' /\ ~Doomed' => Told')
  BY <1>2, <1>3, <1>5, CancelTells
<1>6. ASSUME NEW h \in Handlers, Fail(h) PROVE OneFresh' /\ (~failed' /\ ~Doomed' => Told')
  <2>1. Read(h, Idle) /\ failed'
    BY <1>6 DEF Fail
  <2>2. req'[h] = Idle /\ \A k \in Handlers \ {h} : req'[k] = req[k]
    BY <1>0, <1>6, <2>1, Reader
  <2>3. OneFresh'
    BY <1>2, <2>2 DEF OneFresh, Fresh, Idle
  <2> QED BY <2>1, <2>3
<1>7. ASSUME NEW b \in Bookings, AdminReassign(b) PROVE OneFresh' /\ (~failed' /\ ~Doomed' => Told')
  BY <1>0, <1>3, <1>7, ReassignTells
<1>8. CASE \/ \E b \in Bookings : AdminDelete(b)
           \/ PublicBookingOpens \/ UNCHANGED vars
  BY <1>0, <1>2, <1>3, <1>8, ElsewhereTells
<1> QED BY <1>4, <1>5, <1>6, <1>7, <1>8 DEF Next

\* For any bookings and requests in flight: when no handler is busy, and until handlers race
\* or one of them is cut short, the last email about every booking says what has become of
\* it, whatever has been displaced, rolled back, restored, deleted or moved in meanwhile.
THEOREM HoldersAreTold == Spec => []HolderKnows
<1>1. Init => Informed
  <2> SUFFICES ASSUME Init PROVE Informed
    OBVIOUS
  <2>1. \A h \in Handlers : req[h] = Idle
    BY DEF Init
  <2>2. OneFresh /\ \A h \in Handlers : Unannounced(h)
    BY <2>1 DEF OneFresh, Fresh, Unannounced, Holding, Idle
  <2>3. \A b \in Bookings : ToldRight(b)
    BY AnnouncedSets DEF Init, ToldRight, Email
  <2> QED BY <2>2, <2>3 DEF Informed, Told
<1>2. IInv /\ Informed /\ [Next]_vars => Informed'
  BY InformedStep
<1>3. Informed => HolderKnows
  <2> SUFFICES ASSUME Informed, ~raced, ~failed, AllIdle, NEW b \in Bookings
               PROVE  told[b] \in Announced(status[b])
    BY DEF HolderKnows
  <2>1. ~Doomed /\ ~Taken(b)
    BY DEF AllIdle, Doomed, Taken, Idle
  <2>2. Told
    BY <2>1 DEF Informed
  <2> QED BY <2>1, <2>2 DEF Told, ToldRight
<1> QED BY <1>1, <1>2, <1>3, Invariant, PTL DEF Spec
=============================================================================
