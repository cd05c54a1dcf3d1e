-------------------------- MODULE InboxSyncProofs ---------------------------
(***************************************************************************)
(* Proofs about InboxSync, for any number of polls and messages and any    *)
(* sizes of listings and pages: which messages the cursor can leave        *)
(* behind, which can be stored twice, and what becomes of a push.          *)
(***************************************************************************)
EXTENDS InboxSync, WellFoundedInduction, TLAPS

-----------------------------------------------------------------------------
(***************************************************************************)
(* Types.                                                                  *)
(***************************************************************************)

\* A set of messages has an oldest one.
LEMMA HasLeast ==
  ASSUME NEW S \in SUBSET Nat, S # {}
  PROVE  Min(S) \in S
<1> DEFINE Less == {pair \in Nat \X Nat : pair[1] < pair[2]}
<1>1. IsWellFoundedOn(Less, Nat)
  BY NatLessThanWellFounded DEF OpToRel
<1>2. \E x \in S : \A y \in S : ~ (<<y, x>> \in Less)
  <2> HIDE DEF Less
  <2> QED BY <1>1, WFMin
<1>3. PICK x \in S : \A y \in S : ~ (<<y, x>> \in Less)
  BY <1>2
<1>4. \A y \in S : x <= y
  <2> SUFFICES ASSUME NEW y \in S PROVE x <= y
    OBVIOUS
  <2>1. <<y, x>> \in Nat \X Nat /\ <<y, x>>[1] = y /\ <<y, x>>[2] = x
    OBVIOUS
  <2>2. ~(y < x)
    BY <1>3, <2>1
  <2> QED BY <2>2
<1> QED BY <1>4 DEF Min

Stages == {"idle", "list", "find", "thread", "newThread", "lookup", "create", "note", "profile",
           "cursor", "register", "registered", "refetch"}
Handling == {"find", "thread", "newThread", "lookup", "create", "note"}
PollSet == [kind : {"push", "other"}, start : Null .. arrived, at : Stages,
            todo : SUBSET (1 .. arrived), unseen : SUBSET (1 .. arrived), upto : 0 .. arrived]

\* A poll that handles messages has one, and one that is done with them has none.
PollOK(r) ==
  /\ r \in PollSet
  /\ r.at \in Handling => r.todo # {}
  /\ r.at \in {"profile", "cursor"} => r.todo = {}

MailTypes ==
  /\ watch \in BOOLEAN /\ arrived \in 0 .. MaxMessages /\ cursor \in Null .. arrived
  /\ pushed \in 0 .. arrived /\ failed \in BOOLEAN /\ faults \in 0 .. MaxFaults
StoreTypes ==
  /\ threaded \subseteq 1 .. arrived /\ gaps \subseteq 1 .. arrived /\ contended \subseteq 1 .. arrived
  /\ copies \in [Messages -> Nat]
PollTypes == polls = [p \in Pollers |-> polls[p]] /\ \A p \in Pollers : PollOK(polls[p])
FlightTypes ==
  /\ inFlight \in BOOLEAN /\ rerun \in BOOLEAN /\ (rerun => inFlight)
  /\ inFlight => \E p \in Pollers : polls[p].kind = "push" /\ polls[p].at \in Polling

Types == MailTypes /\ StoreTypes /\ PollTypes /\ FlightTypes

LEMMA BoundTypes == MaxMessages \in Nat /\ MaxFaults \in Nat /\ Window \in Nat /\ PageSize \in Nat
  BY InboxAssumption

LEMMA TypesImply == Types => TypeOK
<1> SUFFICES ASSUME Types PROVE TypeOK
  OBVIOUS
<1>1. polls \in [Pollers -> PollSet]
  BY DEF Types, PollTypes, PollOK
<1>2. Stages = Polling \cup {"idle", "register", "registered", "refetch"}
  BY DEF Stages, Polling, Storing
<1> QED BY <1>1, <1>2 DEF Types, MailTypes, StoreTypes, FlightTypes, TypeOK, PollSet

\* The message a poll is at is one of the mailbox.
LEMMA CurrentType ==
  ASSUME Types, NEW p \in Pollers, polls[p].at \in Handling
  PROVE  /\ Current(p) \in polls[p].todo /\ Current(p) \in 1 .. arrived /\ Current(p) \in Messages
         /\ copies[Current(p)] \in Nat
<1>1. polls[p].todo \subseteq 1 .. arrived /\ polls[p].todo # {}
  BY DEF Types, PollTypes, PollOK, PollSet
<1>2. arrived \in Nat /\ arrived <= MaxMessages /\ MaxMessages \in Nat
  BY BoundTypes DEF Types, MailTypes
<1>3. polls[p].todo \in SUBSET Nat
  BY <1>1, <1>2
<1>4. Current(p) \in polls[p].todo
  BY <1>1, <1>3, HasLeast DEF Current
<1>5. Current(p) \in 1 .. arrived /\ Current(p) \in Messages
  BY <1>1, <1>2, <1>4 DEF Messages
<1> QED BY <1>4, <1>5 DEF Types, StoreTypes

LEMMA FaultTypes ==
  ASSUME Types, \/ UNCHANGED fault
                \/ Fault(FALSE)
                \/ Fault(TRUE)
  PROVE  failed' \in BOOLEAN /\ faults' \in 0 .. MaxFaults
<1>1. failed \in BOOLEAN /\ faults \in 0 .. MaxFaults
  BY DEF Types, MailTypes
<1>2. failed' \in BOOLEAN
  BY <1>1, Zenon DEF fault, Fault
<1>3. faults' \in 0 .. MaxFaults
  BY <1>1, BoundTypes DEF fault, Fault
<1> QED BY <1>2, <1>3

\* One poll becomes r; the mailbox stays as it is.
Becomes(p, r) == polls' = [polls EXCEPT ![p] = r] /\ UNCHANGED arrived

LEMMA OneBecomes ==
  ASSUME Types, NEW p \in Pollers, NEW r, PollOK(r), Becomes(p, r)
  PROVE  /\ PollTypes'
         /\ polls'[p] = r /\ \A q \in Pollers \ {p} : polls'[q] = polls[q]
<1>1. polls'[p] = r /\ \A q \in Pollers \ {p} : polls'[q] = polls[q]
  BY DEF Becomes, Types, PollTypes
<1>2. \A q \in Pollers : PollOK(polls[q])'
  BY <1>1 DEF Becomes, Types, PollTypes, PollOK, PollSet
<1> QED BY <1>1, <1>2 DEF Becomes, Types, PollTypes

\* A poll that goes on as one of its kind keeps the flags true.
LEMMA FlightKept ==
  ASSUME Types, NEW p \in Pollers, NEW r, PollOK(r), Becomes(p, r),
         inFlight' = inFlight, rerun' = rerun,
         polls[p].at \in Polling => r.kind = polls[p].kind /\ r.at \in Polling
  PROVE  FlightTypes'
  BY OneBecomes DEF Types, FlightTypes

\* Where a poll goes on with these messages, or beyond its last one.
LEMMA RemainingOK ==
  ASSUME Types, NEW r \in PollSet, NEW ids \in SUBSET (1 .. arrived)
  PROVE  /\ PollOK(Remaining(r, ids)) /\ Remaining(r, ids).kind = r.kind
         /\ Remaining(r, ids).at \in Polling
         /\ Remaining(r, ids).todo = ids /\ Remaining(r, ids).unseen = r.unseen
         /\ Remaining(r, ids).upto = r.upto /\ Remaining(r, ids).at \in {"find", "profile", "cursor"}
  BY DEF PollOK, PollSet, Remaining, Polling, Storing, Stages, Handling

LEMMA IdleOK == ASSUME arrived \in Nat PROVE PollOK(Idle)
  BY DEF PollOK, PollSet, Idle, Null, Stages, Handling

\* A poll at its beginning.
Begun(kind, start) == [Idle EXCEPT !.kind = kind, !.at = "list", !.start = start]

LEMMA BeginOK ==
  ASSUME Types, NEW kind \in {"push", "other"}, NEW start \in Null .. arrived
  PROVE  /\ PollOK(Begun(kind, start)) /\ Begun(kind, start).at \in Polling
         /\ Begun(kind, start).kind = kind
         /\ Begun(kind, start).at = "list" /\ Begun(kind, start).start = start
<1>1. arrived \in Nat
  BY BoundTypes DEF Types, MailTypes
<1> DEFINE r == [Idle EXCEPT !.kind = kind, !.at = "list", !.start = start]
<1>2. Idle \in PollSet
  BY <1>1, IdleOK DEF PollOK
<1>3. r \in PollSet /\ r.at = "list" /\ r.kind = kind /\ r.start = start
  BY <1>2 DEF PollSet, Stages
<1>4. Begun(kind, start) = r
  BY DEF Begun
<1> HIDE DEF r
<1> QED BY <1>3, <1>4 DEF PollOK, Handling, Polling

\* The poll is at another stage, with what it holds.
LEMMA GoesOK ==
  ASSUME Types, NEW p \in Pollers, NEW at \in Stages, Goes(p, at), UNCHANGED arrived,
         at \in Handling => polls[p].at \in Handling,
         at \in {"profile", "cursor"} => polls[p].at \in {"profile", "cursor"}
  PROVE  LET r == [polls[p] EXCEPT !.at = at]
         IN  PollOK(r) /\ Becomes(p, r) /\ r.at = at /\ r.kind = polls[p].kind
             /\ r.todo = polls[p].todo /\ r.unseen = polls[p].unseen /\ r.upto = polls[p].upto
<1> DEFINE r == [polls[p] EXCEPT !.at = at]
<1>1. PollOK(polls[p]) /\ polls[p] \in PollSet
  BY DEF Types, PollTypes, PollOK
<1>2. r \in PollSet /\ r.at = at /\ r.kind = polls[p].kind /\ r.todo = polls[p].todo
      /\ r.unseen = polls[p].unseen /\ r.upto = polls[p].upto
  BY <1>1 DEF PollSet
<1>3. PollOK(r)
  BY <1>1, <1>2 DEF PollOK
<1>4. Becomes(p, r)
  BY DEF Goes, Becomes
<1> QED BY <1>2, <1>3, <1>4

\* What List makes of a poll.
Listed(p) ==
  LET poll == polls[p]
      listing == poll.start = Null
      after == {m \in 1 .. arrived : m > poll.start}
      ids == IF listing THEN Newest(after, Window) ELSE First(after, PageSize)
  IN  Remaining([poll EXCEPT !.start = IF listing THEN Null ELSE 0, !.unseen = after \ ids,
                             !.upto = arrived], ids)

LEMMA ListOK ==
  ASSUME Types, NEW p \in Pollers, List(p)
  PROVE  LET r == Listed(p)
             after == {m \in 1 .. arrived : m > polls[p].start}
         IN  /\ PollOK(r) /\ Becomes(p, r) /\ r.kind = polls[p].kind
             /\ r.at \in {"find", "profile", "cursor"}
             /\ r.todo \cup r.unseen = after /\ r.upto = arrived
<1> DEFINE poll == polls[p]
           listing == poll.start = Null
           after == {m \in 1 .. arrived : m > poll.start}
           ids == IF listing THEN Newest(after, Window) ELSE First(after, PageSize)
           q == [poll EXCEPT !.start = IF listing THEN Null ELSE 0, !.unseen = after \ ids,
                             !.upto = arrived]
<1>1. arrived \in Nat /\ poll \in PollSet
  BY BoundTypes DEF Types, MailTypes, PollTypes, PollOK
<1>2. ids \subseteq after /\ after \subseteq 1 .. arrived
  BY DEF Newest, First
<1>3. q \in PollSet /\ q.kind = poll.kind /\ q.unseen = after \ ids /\ q.upto = arrived
  <2> DEFINE start == IF listing THEN Null ELSE 0
             rest == after \ ids
  <2>1. start \in Null .. arrived /\ rest \in SUBSET (1 .. arrived) /\ arrived \in 0 .. arrived
    BY <1>1, <1>2 DEF Null
  <2> HIDE DEF start, rest, poll
  <2>2. [poll EXCEPT !.start = start, !.unseen = rest, !.upto = arrived] \in PollSet
    BY <1>1, <2>1 DEF PollSet
  <2>3. /\ [poll EXCEPT !.start = start, !.unseen = rest, !.upto = arrived].kind = poll.kind
        /\ [poll EXCEPT !.start = start, !.unseen = rest, !.upto = arrived].unseen = rest
        /\ [poll EXCEPT !.start = start, !.unseen = rest, !.upto = arrived].upto = arrived
    BY <1>1 DEF PollSet
  <2> QED BY <2>2, <2>3 DEF start, rest
<1>4. Listed(p) = Remaining(q, ids) /\ Becomes(p, Remaining(q, ids))
  BY DEF List, Listed, Becomes
<1> HIDE DEF poll, listing, after, ids, q
<1>5. /\ PollOK(Remaining(q, ids)) /\ Remaining(q, ids).kind = q.kind
      /\ Remaining(q, ids).todo = ids /\ Remaining(q, ids).unseen = q.unseen
      /\ Remaining(q, ids).upto = q.upto /\ Remaining(q, ids).at \in {"find", "profile", "cursor"}
  BY <1>2, <1>3, RemainingOK
<1> QED BY <1>2, <1>3, <1>4, <1>5 DEF poll, after

\* A poll is done with the message it is at.
LEMMA DoneOK ==
  ASSUME Types, NEW p \in Pollers
  PROVE  LET r == Remaining(polls[p], polls[p].todo \ {Current(p)})
         IN  /\ PollOK(r) /\ r.kind = polls[p].kind /\ r.at \in {"find", "profile", "cursor"}
             /\ r.todo = polls[p].todo \ {Current(p)} /\ r.unseen = polls[p].unseen
             /\ r.upto = polls[p].upto
<1>1. polls[p] \in PollSet /\ polls[p].todo \ {Current(p)} \in SUBSET (1 .. arrived)
  BY DEF Types, PollTypes, PollOK, PollSet
<1> QED BY <1>1, RemainingOK

\* After a listing the end of the mailbox is read, and with it what has come since.
Profiled(p) ==
  [polls[p] EXCEPT !.at = "cursor", !.upto = arrived,
                   !.unseen = @ \cup {m \in 1 .. arrived : m > polls[p].upto}]

LEMMA ProfileOK ==
  ASSUME Types, NEW p \in Pollers, Profile(p)
  PROVE  /\ PollOK(Profiled(p)) /\ Becomes(p, Profiled(p)) /\ Profiled(p).kind = polls[p].kind
         /\ Profiled(p).at = "cursor" /\ Profiled(p).upto = arrived
         /\ Profiled(p).todo = polls[p].todo
         /\ Profiled(p).unseen = polls[p].unseen \cup {m \in 1 .. arrived : m > polls[p].upto}
<1>1. PollOK(polls[p]) /\ polls[p] \in PollSet /\ arrived \in Nat
  BY BoundTypes DEF Types, MailTypes, PollTypes, PollOK
<1>2. polls[p].at = "profile"
  BY DEF Profile
<1> DEFINE late == {m \in 1 .. arrived : m > polls[p].upto}
           r == [polls[p] EXCEPT !.at = "cursor", !.upto = arrived, !.unseen = @ \cup late]
<1>3. late \subseteq 1 .. arrived
  OBVIOUS
<1>4. Profiled(p) = r
  BY DEF Profiled
<1>5. Becomes(p, r)
  BY DEF Profile, Becomes
<1> HIDE DEF late
<1>6. /\ r \in PollSet /\ r.kind = polls[p].kind /\ r.at = "cursor" /\ r.upto = arrived
      /\ r.todo = polls[p].todo /\ r.unseen = polls[p].unseen \cup late
  <2> DEFINE all == polls[p].unseen \cup late
  <2>0. polls[p].unseen \in SUBSET (1 .. arrived)
    BY <1>1 DEF PollSet
  <2>1. all \in SUBSET (1 .. arrived)
    BY <1>3, <2>0
  <2>5. arrived \in 0 .. arrived
    BY <1>1
  <2>2. r = [polls[p] EXCEPT !.at = "cursor", !.upto = arrived, !.unseen = all]
    OBVIOUS
  <2> HIDE DEF all, r
  <2>3. r \in PollSet
    BY <1>1, <2>1, <2>2, <2>5 DEF PollSet, Stages
  <2>4. /\ r.kind = polls[p].kind /\ r.at = "cursor" /\ r.upto = arrived
        /\ r.todo = polls[p].todo /\ r.unseen = all
    BY <1>1, <2>2 DEF PollSet
  <2> QED BY <2>3, <2>4 DEF all
<1>7. PollOK(r)
  BY <1>1, <1>2, <1>6 DEF PollOK, Handling
<1> QED BY <1>4, <1>5, <1>6, <1>7 DEF late

\* How a poll returns.
LEMMA EndsOK ==
  ASSUME Types, NEW p \in Pollers, Ends(p), UNCHANGED arrived, polls[p].at \in Polling
  PROVE  /\ PollOK(Returned(p)) /\ Becomes(p, Returned(p)) /\ FlightTypes'
         /\ Returned(p).at \in {"idle", "register", "refetch"}
<1>1. arrived \in Nat
  BY BoundTypes DEF Types, MailTypes
<1>2. Idle \in PollSet
  BY <1>1, IdleOK DEF PollOK
<1>3. Returned(p) \in PollSet /\ Returned(p).at \in {"idle", "register", "refetch"}
  BY <1>2 DEF Returned, PollSet, Stages, Idle
<1>4. PollOK(Returned(p))
  BY <1>3 DEF PollOK, Handling
<1>5. Becomes(p, Returned(p))
  BY DEF Ends, Becomes
<1>6. /\ inFlight' \in BOOLEAN /\ rerun' \in BOOLEAN
      /\ inFlight' => polls[p].kind # "push" /\ inFlight
      /\ rerun' => polls[p].kind # "push" /\ rerun
  BY Zenon DEF Ends, Types, FlightTypes
<1>7. rerun' => inFlight'
  <2>1. rerun => inFlight
    BY DEF Types, FlightTypes
  <2> QED BY <2>1, Zenon DEF Ends
<1>8. inFlight' => \E q \in Pollers : polls'[q].kind = "push" /\ polls'[q].at \in Polling
  <2> SUFFICES ASSUME inFlight' PROVE \E q \in Pollers : polls'[q].kind = "push" /\ polls'[q].at \in Polling
    OBVIOUS
  <2>1. PICK q \in Pollers : polls[q].kind = "push" /\ polls[q].at \in Polling
    BY <1>6 DEF Types, FlightTypes
  <2>2. polls'[q] = polls[q]
    BY <1>4, <1>5, <1>6, <2>1, OneBecomes
  <2> QED BY <2>1, <2>2
<1> QED BY <1>3, <1>4, <1>5, <1>6, <1>7, <1>8 DEF FlightTypes

\* What the steps of polls leave alone, whatever else they do.
Unmailed == UNCHANGED <<watch, arrived, pushed>>

LEMMA TypesPut ==
  ASSUME Types, Unmailed, PollTypes', FlightTypes', cursor' \in Null .. arrived, StoreTypes',
         \/ UNCHANGED fault
         \/ Fault(FALSE)
         \/ Fault(TRUE)
  PROVE  Types'
  BY FaultTypes DEF Types, MailTypes, Unmailed

\* A poll handles a message, or lists messages: it goes on, and what is stored has its type.
LEMMA GoingOn ==
  ASSUME Types, NEW p \in Pollers, NEW r, PollOK(r), Becomes(p, r), r.kind = polls[p].kind,
         r.at \in Polling, UNCHANGED <<watch, cursor, sync, gaps, fault>>, StoreTypes'
  PROVE  Types'
<1>1. PollTypes'
  BY OneBecomes
<1>2. FlightTypes'
  BY FlightKept DEF sync
<1>3. cursor' \in Null .. arrived
  BY DEF Types, MailTypes
<1> QED BY <1>1, <1>2, <1>3, TypesPut DEF Unmailed, Becomes, sync

LEMMA StoreKept ==
  ASSUME Types, UNCHANGED <<arrived, store, gaps>>
  PROVE  StoreTypes'
  BY DEF Types, StoreTypes, store

\* The steps of a poll that handle messages.
LEMMA HandlingTypes ==
  ASSUME Types, NEW p \in Pollers,
         \/ Find(p) \/ FindThread(p) \/ CreateThread(p) \/ Lookup(p) \/ Create(p) \/ Note(p)
  PROVE  Types'
<1>0. Handling \subseteq Polling /\ {"find", "profile", "cursor"} \subseteq Polling
  BY DEF Handling, Polling, Storing
<1> DEFINE done == Remaining(polls[p], polls[p].todo \ {Current(p)})
<1>1. PollOK(done) /\ done.kind = polls[p].kind /\ done.at \in Polling
  BY <1>0, DoneOK
<1> HIDE DEF done
\* The poll goes from stage to stage of one message.
<1>g. ASSUME NEW at \in Handling, Goes(p, at), polls[p].at \in Handling,
             UNCHANGED <<watch, arrived, cursor, sync, gaps, fault>>, StoreTypes'
      PROVE  Types'
  <2>1. at \in Stages /\ at \notin {"profile", "cursor"}
    BY DEF Handling, Stages
  <2> DEFINE r == [polls[p] EXCEPT !.at = at]
  <2>2. PollOK(r) /\ Becomes(p, r) /\ r.at = at /\ r.kind = polls[p].kind
    BY <1>g, <2>1, GoesOK
  <2> HIDE DEF r
  <2> QED BY <1>0, <1>g, <2>2, GoingOn
<1>2. CASE Find(p)
  <2>1. StoreTypes'
    BY <1>2, StoreKept DEF Find
  <2>2. CASE Current(p) \in threaded
    <3>1. Becomes(p, done)
      BY <1>2, <2>2 DEF Find, Becomes, done
    <3> QED BY <1>1, <1>2, <2>1, <3>1, GoingOn DEF Find
  <2>3. CASE Current(p) \notin threaded
    <3>1. Goes(p, "thread") /\ polls[p].at \in Handling
      BY <1>2, <2>3 DEF Find, Goes, Handling
    <3> QED BY <1>2, <1>g, <2>1, <3>1 DEF Find, Handling
  <2> QED BY <2>2, <2>3
<1>3. CASE FindThread(p)
  <2>1. StoreTypes'
    BY <1>3, StoreKept DEF FindThread
  <2> QED BY <1>3, <1>g, <2>1 DEF FindThread, Handling
<1>4. CASE CreateThread(p)
  <2>1. polls[p].at \in Handling
    BY <1>4 DEF CreateThread, Handling
  <2>2. StoreTypes'
    BY <1>4, <2>1, CurrentType DEF CreateThread, Types, StoreTypes
  <2> QED BY <1>4, <1>g, <2>1, <2>2 DEF CreateThread, Handling
<1>5. CASE Lookup(p)
  <2>1. StoreTypes'
    BY <1>5, StoreKept DEF Lookup
  <2> QED BY <1>5, <1>g, <2>1 DEF Lookup, Handling
<1>6. CASE Create(p)
  <2>1. polls[p].at \in Handling
    BY <1>6 DEF Create, Handling
  <2>2. copies' = [copies EXCEPT ![Current(p)] = @ + 1]
    BY <1>6 DEF Create
  <2>3. copies' \in [Messages -> Nat]
    BY <2>1, <2>2, CurrentType DEF Types, StoreTypes
  <2>4. contended' \subseteq contended \cup {Current(p)}
    BY <1>6 DEF Create
  <2>5. StoreTypes'
    BY <1>6, <2>1, <2>3, <2>4, CurrentType DEF Create, Types, StoreTypes
  <2> QED BY <1>6, <1>g, <2>1, <2>5 DEF Create, Handling
<1>7. CASE Note(p)
  <2>1. polls[p].at \in Handling
    BY <1>7 DEF Note, Handling
  <2>2. StoreTypes'
    BY <1>7, <2>1, CurrentType DEF Note, Types, StoreTypes
  <2>3. Becomes(p, done)
    BY <1>7 DEF Note, Becomes, done
  <2> QED BY <1>1, <1>7, <2>2, <2>3, GoingOn DEF Note
<1> QED BY <1>2, <1>3, <1>4, <1>5, <1>6, <1>7

\* The steps of a poll at its beginning and its end.
LEMMA FrameTypes ==
  ASSUME Types, NEW p \in Pollers,
         \/ List(p) \/ Profile(p) \/ SetCursor(p)
         \/ Refetch(p) \/ Register(p) \/ Registered(p) \/ Fail(p)
  PROVE  Types'
<1>0. arrived \in Nat /\ cursor \in Null .. arrived /\ polls[p] \in PollSet /\ PollOK(polls[p])
  BY BoundTypes DEF Types, MailTypes, PollTypes, PollOK
<1>u. polls[p].upto \in 0 .. arrived /\ polls[p].unseen \subseteq 1 .. arrived
  BY <1>0 DEF PollSet
<1>i. PollOK(Idle)
  BY <1>0, IdleOK
<1>1. CASE List(p)
  <2>1. StoreTypes'
    BY <1>1, StoreKept DEF List
  <2>2. PollOK(Listed(p)) /\ Becomes(p, Listed(p)) /\ Listed(p).kind = polls[p].kind
        /\ Listed(p).at \in Polling
    BY <1>1, ListOK DEF Polling, Storing
  <2> QED BY <1>1, <2>1, <2>2, GoingOn DEF List
<1>2. CASE Profile(p)
  <2>1. StoreTypes'
    BY <1>2, StoreKept DEF Profile
  <2>2. Profiled(p).at \in Polling
    BY <1>2, ProfileOK DEF Polling
  <2> QED BY <1>2, <2>1, <2>2, ProfileOK, GoingOn DEF Profile
<1>3. CASE SetCursor(p)
  <2>1. polls[p].at \in Polling /\ UNCHANGED <<watch, arrived, store, pushed, fault>> /\ Ends(p)
    BY <1>3 DEF SetCursor, Polling
  <2>2. PollTypes' /\ FlightTypes'
    BY <2>1, EndsOK, OneBecomes
  <2>3. cursor' \in Null .. arrived
    BY <1>0, <1>3, <1>u DEF SetCursor, Null
  <2>4. StoreTypes'
    BY <1>3, <1>u, <2>1 DEF SetCursor, Types, StoreTypes, store
  <2> QED BY <2>1, <2>2, <2>3, <2>4, TypesPut DEF Unmailed
<1>4. CASE Fail(p)
  <2>1. polls[p].at \in Polling /\ UNCHANGED <<watch, arrived, cursor, store, pushed, gaps>>
        /\ Ends(p) /\ Fault(TRUE)
    BY <1>4 DEF Fail
  <2>2. PollTypes' /\ FlightTypes'
    BY <2>1, EndsOK, OneBecomes
  <2> QED BY <1>0, <2>1, <2>2, StoreKept, TypesPut DEF Unmailed
<1>5. CASE Refetch(p)
  <2> DEFINE r == Begun("push", cursor)
  <2>1. PollOK(r) /\ r.at \in Polling /\ r.kind = "push"
    BY <1>0, BeginOK
  <2>2. Becomes(p, r)
    BY <1>5 DEF Refetch, Begin, Begun, Becomes
  <2> HIDE DEF r
  <2>3. PollTypes' /\ polls'[p] = r
    BY <2>1, <2>2, OneBecomes
  <2>4. FlightTypes'
    BY <1>5, <2>1, <2>3 DEF Refetch, Types, FlightTypes
  <2> QED BY <1>0, <1>5, <2>3, <2>4, StoreKept, TypesPut DEF Unmailed, Refetch
<1>6. CASE Register(p)
  <2>1. polls[p].at \notin Polling
    BY <1>6 DEF Register, Polling, Storing
  <2>2. PICK r : PollOK(r) /\ Becomes(p, r)
    <3>1. CASE polls' = [polls EXCEPT ![p] = Idle]
      BY <1>6, <1>i, <3>1 DEF Register, Becomes
    <3>2. CASE polls' = [polls EXCEPT ![p].at = "registered", ![p].upto = arrived]
      <4> DEFINE r == [polls[p] EXCEPT !.at = "registered", !.upto = arrived]
      <4>0. arrived \in 0 .. arrived
        BY <1>0
      <4>1. r \in PollSet /\ r.at = "registered"
        BY <1>0, <4>0 DEF PollSet, Stages
      <4>2. PollOK(r)
        BY <4>1 DEF PollOK, Handling
      <4>3. Becomes(p, r)
        BY <1>6, <3>2 DEF Register, Becomes
      <4> QED BY <4>2, <4>3
    <3> QED BY <1>6, <3>1, <3>2 DEF Register
  <2>3. UNCHANGED <<watch, arrived, cursor, store, sync, gaps, fault>>
    BY <1>6 DEF Register
  <2>4. PollTypes'
    BY <2>2, OneBecomes
  <2>5. UNCHANGED <<inFlight, rerun, pushed>>
    BY <2>3 DEF sync
  <2>6. FlightTypes'
    BY <2>1, <2>2, <2>5, FlightKept
  <2>7. StoreTypes'
    BY <2>3, StoreKept
  <2> QED BY <1>0, <2>3, <2>4, <2>5, <2>6, <2>7, TypesPut DEF Unmailed
<1>7. CASE Registered(p)
  <2>1. polls[p].at \notin Polling
    BY <1>7 DEF Registered, Polling, Storing
  <2>2. Becomes(p, Idle) /\ UNCHANGED <<watch, arrived, store, sync, fault>>
    BY <1>7 DEF Registered, Becomes
  <2>3. PollTypes'
    BY <1>i, <2>2, OneBecomes
  <2>7. UNCHANGED <<inFlight, rerun, pushed>>
    BY <2>2 DEF sync
  <2>8. FlightTypes'
    BY <1>i, <2>1, <2>2, <2>7, FlightKept
  <2>4. cursor' \in Null .. arrived
    BY <1>0, <1>7, <1>u DEF Registered, Null
  <2> DEFINE passed == {m \in 1 .. polls[p].upto : m > cursor}
  <2>9. passed \subseteq 1 .. arrived
    BY <1>0, <1>u
  <2>10. gaps' = gaps \cup passed
    BY <1>7 DEF Registered
  <2> HIDE DEF passed
  <2>5. gaps' \subseteq 1 .. arrived
    BY <2>9, <2>10 DEF Types, StoreTypes
  <2>6. StoreTypes'
    BY <2>2, <2>5 DEF Types, StoreTypes, store
  <2> QED BY <2>2, <2>3, <2>4, <2>6, <2>7, <2>8, TypesPut DEF Unmailed
<1> QED BY <1>1, <1>2, <1>3, <1>4, <1>5, <1>6, <1>7

\* What starts a poll, and what takes the cursor back.
LEMMA StartTypes ==
  ASSUME Types, NEW p \in Pollers, Push(p) \/ Start(p) \/ Reset(p) \/ Expire(p)
  PROVE  Types'
<1>0. arrived \in Nat /\ cursor \in Null .. arrived /\ Null \in Null .. arrived
  BY BoundTypes DEF Types, MailTypes, Null
<1>k. polls[p].kind \in {"push", "other"}
  BY DEF Types, PollTypes, PollOK, PollSet
\* A poll that begins, of the kind it was if it went on.
<1>b. ASSUME NEW kind \in {"push", "other"}, NEW start \in Null .. arrived, Begin(p, kind, start),
             UNCHANGED arrived
      PROVE  /\ PollTypes'
             /\ inFlight' = inFlight /\ rerun' = rerun /\ (polls[p].at \in Polling => kind = polls[p].kind)
                  => FlightTypes'
             /\ kind = "push" /\ inFlight' = TRUE /\ UNCHANGED rerun => FlightTypes'
  <2> DEFINE r == Begun(kind, start)
  <2>1. PollOK(r) /\ r.at \in Polling /\ r.kind = kind
    BY BeginOK
  <2>2. Becomes(p, r)
    BY <1>b DEF Begin, Begun, Becomes
  <2> HIDE DEF r
  <2>3. PollTypes' /\ polls'[p] = r
    BY <2>1, <2>2, OneBecomes
  <2>4. inFlight' = inFlight /\ rerun' = rerun /\ (polls[p].at \in Polling => kind = polls[p].kind)
          => FlightTypes'
    <3>1. (polls[p].at \in Polling => kind = polls[p].kind)
            => (polls[p].at \in Polling => r.kind = polls[p].kind /\ r.at \in Polling)
      BY <2>1
    <3> QED BY <2>1, <2>2, <3>1, FlightKept
  <2>5. kind = "push" /\ inFlight' = TRUE /\ UNCHANGED rerun => FlightTypes'
    BY <2>1, <2>3 DEF Types, FlightTypes
  <2> QED BY <2>3, <2>4, <2>5
<1>1. CASE Push(p)
  <2>1. inFlight' = TRUE /\ pushed' = arrived /\ Begin(p, "push", cursor)
        /\ UNCHANGED <<watch, arrived, cursor, store, rerun, gaps, fault>>
    BY <1>1 DEF Push
  <2>2. PollTypes' /\ FlightTypes' /\ StoreTypes'
    BY <1>0, <1>b, <2>1, StoreKept
  <2>3. failed' \in BOOLEAN /\ faults' \in 0 .. MaxFaults
    BY <2>1, FaultTypes
  <2>4. pushed' \in 0 .. arrived'
    BY <1>0, <2>1
  <2>5. watch' \in BOOLEAN /\ arrived' \in 0 .. MaxMessages /\ cursor' \in Null .. arrived'
    BY <2>1 DEF Types, MailTypes
  <2> QED BY <2>2, <2>3, <2>4, <2>5 DEF Types, MailTypes
<1>2. CASE Start(p)
  <2>1. Begin(p, "other", cursor) /\ UNCHANGED <<watch, arrived, cursor, store, sync, gaps, fault>>
    BY <1>2 DEF Start
  <2>2. polls[p].at \notin Polling /\ UNCHANGED <<inFlight, rerun, pushed>>
    BY <1>2, <2>1 DEF Start, Free, Polling, Storing, sync
  <2>3. PollTypes' /\ FlightTypes' /\ StoreTypes'
    BY <1>0, <1>b, <2>1, <2>2, StoreKept
  <2> QED BY <1>0, <2>1, <2>2, <2>3, TypesPut DEF Unmailed
<1>3. CASE Reset(p)
  <2>1. Begin(p, "other", Null) /\ cursor' = Null /\ Fault(FALSE)
        /\ UNCHANGED <<watch, arrived, store, sync, gaps>>
    BY <1>3 DEF Reset
  <2>2. polls[p].at \notin Polling /\ UNCHANGED <<inFlight, rerun, pushed>>
    BY <1>3, <2>1 DEF Reset, Free, Polling, Storing, sync
  <2>3. PollTypes' /\ FlightTypes' /\ StoreTypes'
    BY <1>0, <1>b, <2>1, <2>2, StoreKept
  <2> QED BY <1>0, <2>1, <2>2, <2>3, TypesPut DEF Unmailed
<1>4. CASE Expire(p)
  <2>1. Begin(p, polls[p].kind, Null) /\ cursor' = Null /\ Fault(FALSE)
        /\ UNCHANGED <<watch, arrived, store, sync, gaps>>
    BY <1>4 DEF Expire
  <2>2. UNCHANGED <<inFlight, rerun, pushed>>
    BY <2>1 DEF sync
  <2>3. PollTypes' /\ FlightTypes' /\ StoreTypes'
    BY <1>0, <1>b, <1>k, <2>1, <2>2, StoreKept
  <2> QED BY <1>0, <2>1, <2>2, <2>3, TypesPut DEF Unmailed
<1> QED BY <1>1, <1>2, <1>3, <1>4

\* What no poll does: a message arrives, a push finds a sync running, the process stops.
LEMMA OutsideTypes ==
  ASSUME Types, Arrive \/ Coalesce \/ Stop
  PROVE  Types'
<1>0. arrived \in Nat /\ cursor \in Null .. arrived /\ MaxMessages \in Nat
  BY BoundTypes DEF Types, MailTypes
<1>1. CASE Arrive
  <2>1. arrived' = arrived + 1 /\ arrived < MaxMessages
        /\ UNCHANGED <<watch, cursor, store, polls, sync, gaps, fault>>
    BY <1>1 DEF Arrive
  <2>2. 1 .. arrived \subseteq 1 .. arrived' /\ 0 .. arrived \subseteq 0 .. arrived'
        /\ Null .. arrived \subseteq Null .. arrived' /\ arrived' \in 0 .. MaxMessages
    BY <1>0, <2>1 DEF Null
  <2>3. PollTypes'
    <3> SUFFICES ASSUME NEW q \in Pollers PROVE PollOK(polls[q])'
      BY <2>1 DEF Types, PollTypes
    <3>1. PollOK(polls[q])
      BY DEF Types, PollTypes
    <3>2. polls'[q] \in PollSet'
      BY <2>1, <2>2, <3>1 DEF PollOK, PollSet
    <3> QED BY <2>1, <3>1, <3>2 DEF PollOK
  <2>4. FlightTypes'
    BY <2>1 DEF Types, FlightTypes, sync
  <2>5. StoreTypes'
    BY <2>1, <2>2 DEF Types, StoreTypes, store
  <2>6. MailTypes'
    BY <2>1, <2>2 DEF Types, MailTypes, sync, fault
  <2> QED BY <2>3, <2>4, <2>5, <2>6 DEF Types
<1>2. CASE Coalesce
  <2>1. inFlight /\ rerun' = TRUE /\ pushed' = arrived
        /\ UNCHANGED <<watch, arrived, cursor, store, polls, inFlight, gaps, fault>>
    BY <1>2 DEF Coalesce
  <2>2. PollTypes'
    BY <2>1 DEF Types, PollTypes, PollOK, PollSet
  <2>3. FlightTypes'
    BY <2>1 DEF Types, FlightTypes
  <2>4. failed' \in BOOLEAN /\ faults' \in 0 .. MaxFaults /\ StoreTypes'
    BY <2>1, FaultTypes, StoreKept
  <2>5. pushed' \in 0 .. arrived'
    BY <1>0, <2>1
  <2> QED BY <2>1, <2>2, <2>3, <2>4, <2>5 DEF Types, MailTypes
<1>3. CASE Stop
  <2>1. polls' = [p \in Pollers |-> Idle] /\ inFlight' = FALSE /\ rerun' = FALSE
        /\ UNCHANGED <<watch, arrived, cursor, store, pushed, gaps>> /\ Fault(TRUE)
    BY <1>3 DEF Stop
  <2>2. PollTypes'
    <3>1. PollOK(Idle)
      BY <1>0, IdleOK
    <3> QED BY <2>1, <3>1 DEF PollTypes, PollOK, PollSet
  <2>3. FlightTypes'
    BY <2>1 DEF FlightTypes
  <2> QED BY <1>0, <2>1, <2>2, <2>3, StoreKept, TypesPut DEF Unmailed
<1> QED BY <1>1, <1>2, <1>3

LEMMA TypesInit == Init => Types
<1> SUFFICES ASSUME Init PROVE Types
  OBVIOUS
<1>1. arrived = 0 /\ cursor = Null /\ pushed = 0 /\ faults = 0 /\ failed = FALSE /\ watch \in BOOLEAN
  BY DEF Init
<1>2. MailTypes
  <2>1. 0 \in 0 .. MaxMessages /\ 0 \in 0 .. MaxFaults /\ Null \in Null .. 0 /\ 0 \in 0 .. 0
    BY BoundTypes DEF Null
  <2> QED BY <1>1, <2>1, Zenon DEF MailTypes
<1>3. StoreTypes
  BY DEF Init, StoreTypes
<1>4. PollTypes
  <2>1. PollOK(Idle)
    BY <1>1, IdleOK
  <2> QED BY <2>1 DEF Init, PollTypes
<1>5. FlightTypes
  BY DEF Init, FlightTypes
<1> QED BY <1>2, <1>3, <1>4, <1>5 DEF Types

LEMMA TypesStutter == Types /\ UNCHANGED vars => Types'
<1> SUFFICES ASSUME Types, UNCHANGED vars PROVE Types'
  OBVIOUS
<1>1. /\ UNCHANGED <<watch, arrived, cursor, polls, inFlight, rerun, pushed, gaps, failed, faults>>
      /\ UNCHANGED store
  BY DEF vars, store, sync, fault
<1>2. MailTypes'
  BY <1>1 DEF Types, MailTypes
<1>3. PollTypes'
  BY <1>1 DEF Types, PollTypes, PollOK, PollSet
<1>4. FlightTypes'
  BY <1>1 DEF Types, FlightTypes
<1> QED BY <1>1, <1>2, <1>3, <1>4, StoreKept DEF Types

LEMMA TypesNext == Types /\ [Next]_vars => Types'
<1> SUFFICES ASSUME Types, [Next]_vars PROVE Types'
  OBVIOUS
<1>1. CASE UNCHANGED vars
  BY <1>1, TypesStutter
<1>2. CASE Arrive \/ Coalesce \/ Stop
  BY <1>2, OutsideTypes
<1>3. ASSUME NEW p \in Pollers, Push(p) \/ Start(p) \/ Reset(p) \/ Step(p) \/ Expire(p) \/ Fail(p)
      PROVE  Types'
  BY <1>3, StartTypes, HandlingTypes, FrameTypes DEF Step
<1> QED BY <1>1, <1>2, <1>3 DEF Next

LEMMA TypesAlways == Spec => []Types
  BY TypesInit, TypesNext, PTL DEF Spec

\* Everything has its type; a rerun is asked for only while a sync is in flight, and one is in
\* flight only while a push's poll goes on (connectionSyncInFlight).
THEOREM TypeCorrect == Spec => []TypeOK
  BY TypesAlways, TypesImply, PTL

-----------------------------------------------------------------------------
(***************************************************************************)
(* What the cursor leaves behind.  A poll accounts for every message up to *)
(* where it will move the cursor: the message is known, or the poll still  *)
(* has it to do, or will note that it has not looked at it.                *)
(***************************************************************************)

\* The messages that are stored, listed by a thread, or noted as passed over.
Accounted == {m \in Messages : copies[m] > 0 \/ m \in threaded \/ m \in gaps}

Tracks(r, known) ==
  /\ r.at = "list" => 1 .. r.start \subseteq known
  /\ r.at \in Handling \cup {"profile", "cursor"}
       => 1 .. r.upto \subseteq known \cup r.todo \cup r.unseen

Accounts == 1 .. cursor \subseteq Accounted /\ \A p \in Pollers : Tracks(polls[p], Accounted)

LEMMA AccountsImply == Types /\ Accounts => MissedOnlyInGaps
  BY DEF Accounts, Accounted, MissedOnlyInGaps

LEMMA AccountsInit == Init => Accounts
<1> SUFFICES ASSUME Init PROVE Accounts
  OBVIOUS
<1>1. cursor = Null /\ 1 .. Null = {}
  BY DEF Init, Null
<1>2. \A p \in Pollers : polls[p].at = "idle"
  BY DEF Init, Idle
<1> QED BY <1>1, <1>2 DEF Accounts, Tracks, Handling

\* What is known stays known, where the store only grows.
LEMMA Grows ==
  ASSUME Types, UNCHANGED copies, threaded \subseteq threaded', gaps \subseteq gaps'
  PROVE  Accounted \subseteq Accounted'
  BY DEF Accounted

\* More known messages keep a poll's account true.
LEMMA TracksMore ==
  ASSUME NEW r, NEW known, NEW more, Tracks(r, known), known \subseteq more
  PROVE  Tracks(r, more)
  BY DEF Tracks

LEMMA AccountsPut ==
  ASSUME Types, Accounts, NEW p \in Pollers, NEW r, PollOK(r), Becomes(p, r),
         Accounted \subseteq Accounted', Tracks(r, Accounted'), 1 .. cursor' \subseteq Accounted'
  PROVE  Accounts'
<1>1. polls'[p] = r /\ \A q \in Pollers \ {p} : polls'[q] = polls[q]
  BY OneBecomes
<1>2. ASSUME NEW q \in Pollers PROVE Tracks(polls'[q], Accounted')
  <2>1. CASE q = p
    BY <1>1, <2>1
  <2>2. CASE q # p
    <3>1. Tracks(polls[q], Accounted)
      BY DEF Accounts
    <3>2. Tracks(polls[q], Accounted')
      BY <3>1, TracksMore
    <3> QED BY <1>1, <2>2, <3>2
  <2> QED BY <2>1, <2>2
<1> QED BY <1>2 DEF Accounts

\* Where the cursor stays or is taken back, it leaves no more behind.
LEMMA CursorBehind ==
  ASSUME Accounts, Accounted \subseteq Accounted', cursor' \in {cursor, Null}
  PROVE  1 .. cursor' \subseteq Accounted'
<1>1. 1 .. Null = {}
  BY DEF Null
<1> QED BY <1>1 DEF Accounts

\* The steps of a poll within one message: it still has to do what it had.
LEMMA HandlingAccounts ==
  ASSUME Types, Accounts, NEW p \in Pollers,
         \/ Find(p) \/ FindThread(p) \/ CreateThread(p) \/ Lookup(p) \/ Create(p) \/ Note(p)
  PROVE  Accounts'
<1> DEFINE done == Remaining(polls[p], polls[p].todo \ {Current(p)})
<1>1. polls[p].at \in Handling
  BY DEF Find, FindThread, CreateThread, Lookup, Create, Note, Handling
<1>2. Current(p) \in Messages /\ copies[Current(p)] \in Nat /\ copies \in [Messages -> Nat]
  BY <1>1, CurrentType DEF Types, StoreTypes
<1>3. 1 .. polls[p].upto \subseteq Accounted \cup polls[p].todo \cup polls[p].unseen
  BY <1>1 DEF Accounts, Tracks
<1>4. Accounted \subseteq Accounted'
  <2>1. CASE Create(p)
    <3>1. /\ copies' = [copies EXCEPT ![Current(p)] = @ + 1]
          /\ threaded' = threaded /\ gaps' = gaps
      BY <2>1 DEF Create
    <3>2. \A m \in Messages : copies[m] > 0 => copies'[m] > 0
      BY <1>2, <3>1
    <3> QED BY <3>1, <3>2 DEF Accounted
  <2>2. CASE ~Create(p)
    <3>1. UNCHANGED <<copies, gaps>> /\ threaded \subseteq threaded'
      BY <2>2 DEF Find, FindThread, CreateThread, Lookup, Note, store
    <3> QED BY <3>1, Grows
  <2> QED BY <2>1, <2>2
<1>5. cursor' = cursor
  BY DEF Find, FindThread, CreateThread, Lookup, Create, Note
<1>6. 1 .. cursor' \subseteq Accounted'
  BY <1>4, <1>5, CursorBehind
\* The poll goes from stage to stage of its message.
<1>g. ASSUME NEW at \in Handling, Goes(p, at), UNCHANGED arrived PROVE Accounts'
  <2>1. at \in Stages /\ at \notin {"profile", "cursor"} /\ at # "list"
    BY DEF Handling, Stages
  <2> DEFINE r == [polls[p] EXCEPT !.at = at]
  <2>2. /\ PollOK(r) /\ Becomes(p, r) /\ r.at = at
        /\ r.todo = polls[p].todo /\ r.unseen = polls[p].unseen /\ r.upto = polls[p].upto
    BY <1>1, <1>g, <2>1, GoesOK
  <2> HIDE DEF r
  <2>3. Tracks(r, Accounted')
    BY <1>3, <1>4, <2>1, <2>2 DEF Tracks
  <2> QED BY <1>4, <1>6, <2>2, <2>3, AccountsPut
\* The poll is done with its message, which is known.
<1>d. ASSUME Becomes(p, done), Current(p) \in Accounted' PROVE Accounts'
  <2>1. /\ PollOK(done) /\ done.at \in {"find", "profile", "cursor"}
        /\ done.todo = polls[p].todo \ {Current(p)} /\ done.unseen = polls[p].unseen
        /\ done.upto = polls[p].upto
    BY DoneOK
  <2> HIDE DEF done
  <2>2. Tracks(done, Accounted')
    BY <1>3, <1>4, <1>d, <2>1 DEF Tracks
  <2> QED BY <1>4, <1>6, <1>d, <2>1, <2>2, AccountsPut
<1>7. CASE Find(p)
  <2>1. CASE Current(p) \in threaded
    <3>1. Becomes(p, done)
      BY <1>7, <2>1 DEF Find, Becomes
    <3>2. Current(p) \in Accounted
      BY <1>2, <2>1 DEF Accounted
    <3> QED BY <1>4, <1>d, <3>1, <3>2
  <2>2. CASE Current(p) \notin threaded
    <3>1. Goes(p, "thread") /\ UNCHANGED arrived
      BY <1>7, <2>2 DEF Find, Goes
    <3> QED BY <1>g, <3>1 DEF Handling
  <2> QED BY <2>1, <2>2
<1>8. CASE Note(p)
  <2>1. Becomes(p, done) /\ Current(p) \in threaded'
    BY <1>8 DEF Note, Becomes
  <2>2. Current(p) \in Accounted'
    BY <1>2, <1>8, <2>1 DEF Note, Accounted
  <2> QED BY <1>d, <2>1, <2>2
<1>9. CASE FindThread(p) \/ CreateThread(p) \/ Lookup(p) \/ Create(p)
  BY <1>9, <1>g DEF FindThread, CreateThread, Lookup, Create, Handling
<1> QED BY <1>7, <1>8, <1>9

\* The steps of a poll at its beginning and its end.
LEMMA FrameAccounts ==
  ASSUME Types, Accounts, NEW p \in Pollers,
         \/ List(p) \/ Profile(p) \/ SetCursor(p)
         \/ Refetch(p) \/ Register(p) \/ Registered(p) \/ Fail(p)
  PROVE  Accounts'
<1>0. /\ arrived \in Nat /\ cursor \in Null .. arrived /\ polls[p] \in PollSet /\ PollOK(polls[p])
      /\ 1 .. arrived \subseteq Messages
  BY BoundTypes DEF Types, MailTypes, PollTypes, PollOK, Messages
<1>s. polls[p].start \in Null .. arrived /\ polls[p].upto \in 0 .. arrived
  BY <1>0 DEF PollSet
<1>i. PollOK(Idle) /\ Idle.at = "idle"
  BY <1>0, IdleOK DEF Idle
<1>t. Tracks(polls[p], Accounted)
  BY DEF Accounts
<1>k. UNCHANGED store
  BY DEF List, Profile, SetCursor, Refetch, Register, Registered, Fail
<1>g. gaps \subseteq gaps'
  BY DEF List, Profile, SetCursor, Refetch, Register, Registered, Fail
<1>m. Accounted \subseteq Accounted'
  BY <1>k, <1>g, Grows DEF store
<1>1. CASE List(p)
  <2> DEFINE after == {m \in 1 .. arrived : m > polls[p].start}
  <2>1. /\ PollOK(Listed(p)) /\ Becomes(p, Listed(p)) /\ Listed(p).at \in {"find", "profile", "cursor"}
        /\ Listed(p).todo \cup Listed(p).unseen = after /\ Listed(p).upto = arrived
    BY <1>1, ListOK
  <2>2. 1 .. polls[p].start \subseteq Accounted
    BY <1>1, <1>t DEF List, Tracks
  <2>3. 1 .. arrived \subseteq Accounted \cup after
    BY <1>0, <1>s, <2>2 DEF Null
  <2> HIDE DEF after
  <2>4. 1 .. Listed(p).upto \subseteq Accounted' \cup Listed(p).todo \cup Listed(p).unseen
    BY <1>m, <2>1, <2>3
  <2>5. Tracks(Listed(p), Accounted')
    BY <2>1, <2>4 DEF Tracks
  <2>6. 1 .. cursor' \subseteq Accounted'
    BY <1>1, <1>m, CursorBehind DEF List
  <2> QED BY <1>m, <2>1, <2>5, <2>6, AccountsPut
<1>2. CASE Profile(p)
  <2> DEFINE late == {m \in 1 .. arrived : m > polls[p].upto}
  <2>1. /\ PollOK(Profiled(p)) /\ Becomes(p, Profiled(p)) /\ Profiled(p).at = "cursor"
        /\ Profiled(p).upto = arrived /\ Profiled(p).todo = polls[p].todo
        /\ Profiled(p).unseen = polls[p].unseen \cup late
    BY <1>2, ProfileOK
  <2>2. 1 .. polls[p].upto \subseteq Accounted \cup polls[p].todo \cup polls[p].unseen
    BY <1>2, <1>t DEF Profile, Tracks
  <2>3. 1 .. arrived \subseteq (1 .. polls[p].upto) \cup late
    BY <1>0, <1>s
  <2> HIDE DEF late
  <2>4. 1 .. Profiled(p).upto \subseteq Accounted' \cup Profiled(p).todo \cup Profiled(p).unseen
    BY <1>m, <2>1, <2>2, <2>3
  <2>5. Tracks(Profiled(p), Accounted')
    BY <2>1, <2>4 DEF Tracks
  <2>6. 1 .. cursor' \subseteq Accounted'
    BY <1>2, <1>m, CursorBehind DEF Profile
  <2> QED BY <1>m, <2>1, <2>5, <2>6, AccountsPut
<1>3. CASE SetCursor(p) \/ Fail(p)
  <2>1. polls[p].at \in Polling /\ Ends(p) /\ UNCHANGED arrived
    BY <1>3 DEF SetCursor, Fail, Polling
  <2>2. PollOK(Returned(p)) /\ Becomes(p, Returned(p))
        /\ Returned(p).at \in {"idle", "register", "refetch"}
    BY <2>1, EndsOK
  <2>3. Tracks(Returned(p), Accounted')
    BY <2>2 DEF Tracks, Handling
  <2>4. CASE SetCursor(p)
    \* Nothing is left to do: what is not known was not listed, and is noted now.
    <3>1. polls[p].at = "cursor" /\ cursor' = polls[p].upto /\ gaps' = gaps \cup polls[p].unseen
      BY <2>4 DEF SetCursor
    <3>2. polls[p].todo = {} /\ 1 .. polls[p].upto \subseteq Accounted \cup polls[p].unseen
      BY <1>0, <1>t, <3>1 DEF PollOK, Tracks
    <3>3. polls[p].unseen \subseteq Messages
      BY <1>0 DEF PollSet
    <3>4. polls[p].unseen \subseteq Accounted'
      BY <3>1, <3>3 DEF Accounted
    <3>5. 1 .. cursor' \subseteq Accounted'
      BY <1>m, <3>1, <3>2, <3>4
    <3> QED BY <1>m, <2>2, <2>3, <3>5, AccountsPut
  <2>5. CASE Fail(p)
    <3>1. 1 .. cursor' \subseteq Accounted'
      BY <2>5, <1>m, CursorBehind DEF Fail
    <3> QED BY <1>m, <2>2, <2>3, <3>1, AccountsPut
  <2> QED BY <1>3, <2>4, <2>5
<1>4. CASE Refetch(p)
  \* The cursor read here has only accounted messages behind it.
  <2> DEFINE r == Begun("push", cursor)
  <2>1. PollOK(r) /\ r.at = "list" /\ r.start = cursor
    BY <1>0, BeginOK
  <2>2. Becomes(p, r) /\ cursor' = cursor
    BY <1>4 DEF Refetch, Begin, Begun, Becomes
  <2> HIDE DEF r
  <2>3. 1 .. cursor' \subseteq Accounted'
    BY <1>m, <2>2, CursorBehind
  <2>4. Tracks(r, Accounted')
    BY <2>1, <2>2, <2>3 DEF Tracks, Handling
  <2> QED BY <1>m, <2>1, <2>2, <2>3, <2>4, AccountsPut
<1>5. CASE Register(p)
  <2>1. PICK r : PollOK(r) /\ Becomes(p, r) /\ r.at \in {"idle", "registered"}
    <3>1. CASE polls' = [polls EXCEPT ![p] = Idle]
      BY <1>5, <1>i, <3>1 DEF Register, Becomes
    <3>2. CASE polls' = [polls EXCEPT ![p].at = "registered", ![p].upto = arrived]
      <4> DEFINE r == [polls[p] EXCEPT !.at = "registered", !.upto = arrived]
      <4>0. arrived \in 0 .. arrived
        BY <1>0
      <4>1. r \in PollSet /\ r.at = "registered"
        BY <1>0, <4>0 DEF PollSet, Stages
      <4>2. PollOK(r)
        BY <4>1 DEF PollOK, Handling
      <4>3. Becomes(p, r)
        BY <1>5, <3>2 DEF Register, Becomes
      <4> QED BY <4>1, <4>2, <4>3
    <3> QED BY <1>5, <3>1, <3>2 DEF Register
  <2>2. 1 .. cursor' \subseteq Accounted'
    BY <1>5, <1>m, CursorBehind DEF Register
  <2>3. Tracks(r, Accounted')
    BY <2>1 DEF Tracks, Handling
  <2> QED BY <1>m, <2>1, <2>2, <2>3, AccountsPut
<1>6. CASE Registered(p)
  \* What lies between the cursor and where it goes is noted.
  <2> DEFINE passed == {m \in 1 .. polls[p].upto : m > cursor}
  <2>1. Becomes(p, Idle) /\ cursor' = polls[p].upto /\ gaps' = gaps \cup passed
    BY <1>6 DEF Registered, Becomes
  <2>2. passed \subseteq Messages /\ 1 .. polls[p].upto \subseteq (1 .. cursor) \cup passed
    BY <1>0, <1>s DEF Null
  <2> HIDE DEF passed
  <2>3. passed \subseteq Accounted'
    BY <2>1, <2>2 DEF Accounted
  <2>4. 1 .. cursor \subseteq Accounted
    BY DEF Accounts
  <2>5. 1 .. cursor' \subseteq Accounted'
    BY <1>m, <2>1, <2>2, <2>3, <2>4
  <2>6. Tracks(Idle, Accounted')
    BY <1>i DEF Tracks, Handling
  <2> QED BY <1>i, <1>m, <2>1, <2>5, <2>6, AccountsPut
<1> QED BY <1>1, <1>2, <1>3, <1>4, <1>5, <1>6

\* A poll that begins trusts the cursor it read; without one it looks at everything.
LEMMA StartAccounts ==
  ASSUME Types, Accounts, NEW p \in Pollers, Push(p) \/ Start(p) \/ Reset(p) \/ Expire(p)
  PROVE  Accounts'
<1>0. cursor \in Null .. arrived /\ Null \in Null .. arrived
  BY BoundTypes DEF Types, MailTypes, Null
<1>k. polls[p].kind \in {"push", "other"}
  BY DEF Types, PollTypes, PollOK, PollSet
<1>1. UNCHANGED <<arrived, store, gaps>>
  BY DEF Push, Start, Reset, Expire
<1>m. Accounted \subseteq Accounted'
  BY <1>1, Grows DEF store
<1>2. \E kind \in {"push", "other"}, start \in {cursor, Null} :
        Becomes(p, Begun(kind, start)) /\ cursor' \in {cursor, Null}
  BY <1>k, <1>1 DEF Push, Start, Reset, Expire, Begin, Begun, Becomes
<1>3. PICK kind \in {"push", "other"}, start \in {cursor, Null} :
        Becomes(p, Begun(kind, start)) /\ cursor' \in {cursor, Null}
  BY <1>2
<1> DEFINE r == Begun(kind, start)
<1>4. PollOK(r) /\ r.at = "list" /\ r.start = start
  BY <1>0, <1>3, BeginOK
<1>5. Becomes(p, r)
  BY <1>3
<1> HIDE DEF r
<1>6. 1 .. start \subseteq Accounted
  <2>1. 1 .. Null = {}
    BY DEF Null
  <2> QED BY <1>3, <2>1 DEF Accounts
<1>7. Tracks(r, Accounted')
  BY <1>m, <1>4, <1>6 DEF Tracks, Handling
<1>8. 1 .. cursor' \subseteq Accounted'
  BY <1>m, <1>3, CursorBehind
<1> QED BY <1>m, <1>4, <1>5, <1>7, <1>8, AccountsPut

LEMMA OutsideAccounts ==
  ASSUME Types, Accounts, Arrive \/ Coalesce \/ Stop \/ UNCHANGED vars
  PROVE  Accounts'
<1>1. UNCHANGED <<cursor, store, gaps>>
  BY DEF Arrive, Coalesce, Stop, vars
<1>m. Accounted \subseteq Accounted'
  BY <1>1, Grows DEF store
<1>2. 1 .. cursor' \subseteq Accounted'
  BY <1>1, <1>m, CursorBehind
<1>3. ASSUME NEW q \in Pollers PROVE Tracks(polls'[q], Accounted')
  <2>1. Tracks(polls[q], Accounted)
    BY DEF Accounts
  <2>2. Tracks(polls[q], Accounted')
    BY <1>m, <2>1, TracksMore
  <2>3. CASE Stop
    BY <2>3 DEF Stop, Idle, Tracks, Handling
  <2>4. CASE polls' = polls
    BY <2>2, <2>4
  <2> QED BY <2>3, <2>4 DEF Arrive, Coalesce, vars
<1> QED BY <1>2, <1>3 DEF Accounts

LEMMA AccountsNext == Types /\ Accounts /\ [Next]_vars => Accounts'
<1> SUFFICES ASSUME Types, Accounts, [Next]_vars PROVE Accounts'
  OBVIOUS
<1>1. CASE Arrive \/ Coalesce \/ Stop \/ UNCHANGED vars
  BY <1>1, OutsideAccounts
<1>2. ASSUME NEW p \in Pollers, Push(p) \/ Start(p) \/ Reset(p) \/ Step(p) \/ Expire(p) \/ Fail(p)
      PROVE  Accounts'
  BY <1>2, StartAccounts, HandlingAccounts, FrameAccounts DEF Step
<1> QED BY <1>1, <1>2 DEF Next

\* Wherever polls of all kinds meet, fail or stop, the cursor moves past no message that is
\* neither stored, nor listed by a thread, nor among those that nothing looked at
\* (processGmailMessageIds before lastHistoryId is set).
THEOREM CursorLeavesNothing == Spec => []MissedOnlyInGaps
<1>1. Init => Types /\ Accounts
  BY TypesInit, AccountsInit
<1>2. Types /\ Accounts /\ [Next]_vars => (Types /\ Accounts)'
  BY TypesNext, AccountsNext
<1> QED BY <1>1, <1>2, AccountsImply, PTL DEF Spec

-----------------------------------------------------------------------------
(***************************************************************************)
(* What is stored twice.  A poll that is to store a message has not found  *)
(* it stored, unless another poll stored it since, which then knew of the  *)
(* poll: the message is contended.                                         *)
(***************************************************************************)

\* The poll is about to store its message.
Storer(p) == polls[p].at = "create"

OnceEach ==
  /\ TwiceOnlyIfContended
  /\ \A p \in Pollers : Storer(p) => copies[Current(p)] = 0 \/ Current(p) \in contended

LEMMA OnceInit == Init => OnceEach
  BY DEF Init, OnceEach, TwiceOnlyIfContended, Storer, Idle

\* Where nothing is stored, and no poll but one that looked it up comes to store its message.
LEMMA OnceKept ==
  ASSUME OnceEach, UNCHANGED copies, contended \subseteq contended',
         \A q \in Pollers :
           \/ Storer(q)' => Storer(q) /\ polls'[q].todo = polls[q].todo
           \/ copies[Current(q)'] = 0 \/ Current(q)' \in contended
  PROVE  OnceEach'
<1>1. TwiceOnlyIfContended'
  BY DEF OnceEach, TwiceOnlyIfContended
<1>2. ASSUME NEW q \in Pollers, Storer(q)'
      PROVE  copies'[Current(q)'] = 0 \/ Current(q)' \in contended'
  <2>1. CASE Storer(q) /\ polls'[q].todo = polls[q].todo
    <3>1. Current(q)' = Current(q)
      BY <2>1 DEF Current
    <3>2. copies[Current(q)] = 0 \/ Current(q) \in contended
      BY <2>1 DEF OnceEach
    <3> QED BY <3>1, <3>2
  <2>2. CASE copies[Current(q)'] = 0 \/ Current(q)' \in contended
    BY <2>2
  <2> QED BY <1>2, <2>1, <2>2
<1> QED BY <1>1, <1>2 DEF OnceEach

\* A poll becomes r, which is not about to store a message.
LEMMA OnceBecomes ==
  ASSUME Types, OnceEach, NEW p \in Pollers, NEW r, PollOK(r), Becomes(p, r), r.at # "create",
         UNCHANGED <<copies, contended>>
  PROVE  OnceEach'
<1>1. polls'[p] = r /\ \A q \in Pollers \ {p} : polls'[q] = polls[q]
  BY OneBecomes
<1>2. \A q \in Pollers : Storer(q)' => Storer(q) /\ polls'[q].todo = polls[q].todo
  BY <1>1 DEF Storer
<1> QED BY <1>2, OnceKept

LEMMA OnceHandling ==
  ASSUME Types, OnceEach, NEW p \in Pollers,
         Find(p) \/ FindThread(p) \/ CreateThread(p) \/ Lookup(p) \/ Note(p)
  PROVE  OnceEach'
<1> DEFINE done == Remaining(polls[p], polls[p].todo \ {Current(p)})
<1>1. polls[p].at \in Handling
  BY DEF Find, FindThread, CreateThread, Lookup, Note, Handling
<1>2. UNCHANGED <<copies, contended>> /\ UNCHANGED arrived
  BY DEF Find, FindThread, CreateThread, Lookup, Note, store
<1>3. PollOK(done) /\ done.at # "create"
  BY DoneOK
<1> HIDE DEF done
<1>4. CASE Becomes(p, done)
  BY <1>2, <1>3, <1>4, OnceBecomes
<1>g. ASSUME NEW at \in Handling, Goes(p, at),
             at = "create" => copies[Current(p)] = 0 \/ Current(p) \in contended
      PROVE  OnceEach'
  <2>1. at \in Stages /\ at \notin {"profile", "cursor"}
    BY DEF Handling, Stages
  <2> DEFINE r == [polls[p] EXCEPT !.at = at]
  <2>2. PollOK(r) /\ Becomes(p, r) /\ r.at = at /\ r.todo = polls[p].todo
    BY <1>1, <1>2, <1>g, <2>1, GoesOK
  <2> HIDE DEF r
  <2>3. polls'[p] = r /\ \A q \in Pollers \ {p} : polls'[q] = polls[q]
    BY <2>2, OneBecomes
  <2>4. CASE at # "create"
    BY <1>2, <2>2, <2>4, OnceBecomes
  <2>5. CASE at = "create"
    <3>1. Current(p)' = Current(p)
      BY <2>2, <2>3 DEF Current
    <3>2. copies[Current(p)'] = 0 \/ Current(p)' \in contended
      BY <1>g, <2>5, <3>1
    <3>3. \A q \in Pollers \ {p} : Storer(q)' => Storer(q) /\ polls'[q].todo = polls[q].todo
      BY <2>3 DEF Storer
    <3> QED BY <1>2, <3>2, <3>3, OnceKept
  <2> QED BY <2>4, <2>5
<1>5. CASE Find(p)
  <2>1. CASE Current(p) \in threaded
    BY <1>4, <1>5, <2>1 DEF Find, Becomes, done
  <2>2. CASE Current(p) \notin threaded
    <3>1. Goes(p, "thread")
      BY <1>5, <2>2 DEF Find, Goes
    <3> QED BY <1>g, <3>1 DEF Handling
  <2> QED BY <2>1, <2>2
<1>6. CASE Note(p)
  BY <1>4, <1>6 DEF Note, Becomes, done
<1>7. CASE FindThread(p) \/ CreateThread(p) \/ Lookup(p)
  BY <1>7, <1>g DEF FindThread, CreateThread, Lookup, Handling
<1> QED BY <1>5, <1>6, <1>7

\* Whoever else is to store the message makes it contended.
LEMMA OnceCreate ==
  ASSUME Types, OnceEach, NEW p \in Pollers, Create(p)
  PROVE  OnceEach'
<1> DEFINE m == Current(p)
<1>1. Storer(p) /\ polls[p].at \in Handling
  BY DEF Create, Storer, Handling
<1>2. m \in Messages /\ copies[m] \in Nat /\ copies \in [Messages -> Nat]
  BY <1>1, CurrentType DEF Types, StoreTypes
<1>3. copies[m] = 0 \/ m \in contended
  BY <1>1 DEF OnceEach
<1>4. copies' = [copies EXCEPT ![m] = @ + 1]
  BY DEF Create
<1>5. contended \subseteq contended'
  BY DEF Create
<1>6. \A q \in Pollers \ {p} : Storer(q) /\ Current(q) = m => m \in contended'
  BY DEF Create, Storer, Storing
<1>7. \A q \in Pollers \ {p} : polls'[q] = polls[q]
  BY DEF Create, Goes, Types, PollTypes
<1>8. ~Storer(p)'
  <2> DEFINE r == [polls[p] EXCEPT !.at = "note"]
  <2>1. Goes(p, "note") /\ UNCHANGED arrived /\ "note" \in Stages
    BY DEF Create, Stages
  <2>2. PollOK(r) /\ Becomes(p, r) /\ r.at = "note"
    BY <1>1, <2>1, GoesOK
  <2>3. polls'[p] = r
    BY <2>2, OneBecomes
  <2> QED BY <2>2, <2>3 DEF Storer
<1> HIDE DEF m
<1>9. TwiceOnlyIfContended'
  <2> SUFFICES ASSUME NEW k \in Messages PROVE copies'[k] <= 1 \/ k \in contended'
    BY DEF TwiceOnlyIfContended
  <2>1. copies[k] <= 1 \/ k \in contended
    BY DEF OnceEach, TwiceOnlyIfContended
  <2>2. CASE k = m
    BY <1>2, <1>3, <1>4, <1>5, <2>2
  <2>3. CASE k # m
    BY <1>2, <1>4, <1>5, <2>1, <2>3
  <2> QED BY <2>2, <2>3
<1>10. ASSUME NEW q \in Pollers, Storer(q)'
       PROVE  copies'[Current(q)'] = 0 \/ Current(q)' \in contended'
  <2>1. q # p /\ polls'[q] = polls[q] /\ Storer(q)
    BY <1>7, <1>8, <1>10 DEF Storer
  <2>2. Current(q)' = Current(q) /\ Current(q) \in Messages
    BY <2>1, CurrentType DEF Current, Storer, Handling
  <2>3. copies[Current(q)] = 0 \/ Current(q) \in contended
    BY <2>1 DEF OnceEach
  <2>4. CASE Current(q) = m
    BY <1>6, <2>1, <2>2, <2>4
  <2>5. CASE Current(q) # m
    BY <1>2, <1>4, <1>5, <2>2, <2>3, <2>5
  <2> QED BY <2>4, <2>5
<1> QED BY <1>9, <1>10 DEF OnceEach

LEMMA OnceFrame ==
  ASSUME Types, OnceEach, NEW p \in Pollers,
         \/ List(p) \/ Profile(p) \/ SetCursor(p) \/ Refetch(p) \/ Register(p) \/ Registered(p)
         \/ Fail(p) \/ Push(p) \/ Start(p) \/ Reset(p) \/ Expire(p)
  PROVE  OnceEach'
<1>1. UNCHANGED <<arrived, copies, contended>>
  BY DEF List, Profile, SetCursor, Refetch, Register, Registered, Fail, Push, Start, Reset, Expire, store
<1>2. \A q \in Pollers : PollOK(polls[q])
  BY DEF Types, PollTypes
<1>3. \A q \in Pollers \ {p} : polls'[q] = polls[q]
  BY DEF List, Profile, SetCursor, Ends, Refetch, Register, Registered, Fail, Push, Start, Reset, Expire,
         Begin, Types, PollTypes
<1>4. ~Storer(p)'
  <2>1. CASE List(p)
    <3>1. polls'[p] = Listed(p) /\ Listed(p).at # "create"
      BY <2>1, ListOK, OneBecomes
    <3> QED BY <3>1 DEF Storer
  <2>2. CASE Profile(p)
    <3>1. polls'[p] = Profiled(p) /\ Profiled(p).at # "create"
      BY <2>2, ProfileOK, OneBecomes
    <3> QED BY <3>1 DEF Storer
  <2>3. CASE SetCursor(p) \/ Fail(p)
    <3>1. polls[p].at \in Polling /\ Ends(p)
      BY <2>3 DEF SetCursor, Fail, Polling
    <3>2. polls'[p] = Returned(p) /\ Returned(p).at # "create"
      BY <1>1, <3>1, EndsOK, OneBecomes
    <3> QED BY <3>2 DEF Storer
  <2>4. CASE Register(p) \/ Registered(p)
    <3>1. CASE polls' = [polls EXCEPT ![p] = Idle]
      BY <3>1 DEF Idle, Storer, Types, PollTypes
    <3>2. CASE polls' = [polls EXCEPT ![p].at = "registered", ![p].upto = arrived]
      <4>1. polls'[p] = [polls[p] EXCEPT !.at = "registered", !.upto = arrived]
        BY <3>2 DEF Types, PollTypes
      <4>2. polls'[p].at = "registered"
        BY <1>2, <4>1 DEF PollOK, PollSet
      <4> QED BY <4>2 DEF Storer
    <3> QED BY <2>4, <3>1, <3>2 DEF Register, Registered
  <2>5. CASE Refetch(p) \/ Push(p) \/ Start(p) \/ Reset(p) \/ Expire(p)
    BY <2>5 DEF Refetch, Push, Start, Reset, Expire, Begin, Idle, Storer, Types, PollTypes
  <2> QED BY <2>1, <2>2, <2>3, <2>4, <2>5
<1>5. \A q \in Pollers : Storer(q)' => Storer(q) /\ polls'[q].todo = polls[q].todo
  BY <1>3, <1>4 DEF Storer
<1> QED BY <1>1, <1>5, OnceKept

LEMMA OnceOutside ==
  ASSUME Types, OnceEach, Arrive \/ Coalesce \/ Stop \/ UNCHANGED vars
  PROVE  OnceEach'
<1>1. UNCHANGED <<copies, contended>>
  BY DEF Arrive, Coalesce, Stop, vars, store
<1>2. \A q \in Pollers : Storer(q)' => Storer(q) /\ polls'[q].todo = polls[q].todo
  <2>1. CASE Stop
    BY <2>1 DEF Stop, Idle, Storer
  <2>2. CASE polls' = polls
    BY <2>2 DEF Storer
  <2> QED BY <2>1, <2>2 DEF Arrive, Coalesce, vars
<1> QED BY <1>1, <1>2, OnceKept

\* A message is stored a second time only if one poll stored it while another was between its
\* search for the thread and its own store, wherever polls failed or the process stopped.
THEOREM StoredOnceUnlessContended == Spec => []TwiceOnlyIfContended
<1>1. Init => Types /\ OnceEach
  BY TypesInit, OnceInit
<1>2. Types /\ OnceEach /\ [Next]_vars => (Types /\ OnceEach)'
  <2> SUFFICES ASSUME Types, OnceEach, [Next]_vars PROVE Types' /\ OnceEach'
    OBVIOUS
  <2>1. Types'
    BY TypesNext
  <2>2. CASE Arrive \/ Coalesce \/ Stop \/ UNCHANGED vars
    BY <2>1, <2>2, OnceOutside
  <2>3. ASSUME NEW p \in Pollers, Push(p) \/ Start(p) \/ Reset(p) \/ Step(p) \/ Expire(p) \/ Fail(p)
        PROVE  OnceEach'
    BY <2>3, OnceHandling, OnceCreate, OnceFrame DEF Step
  <2> QED BY <2>1, <2>2, <2>3 DEF Next
<1>3. OnceEach => TwiceOnlyIfContended
  BY DEF OnceEach
<1> QED BY <1>1, <1>2, <1>3, PTL DEF Spec

\* Where no two polls ever go on together, nothing is stored twice: processes that stop, polls
\* that fail, cursors taken back and polls begun again are not enough for it.
THEOREM SolePollStoresOnce ==
  Spec => []((\A p, q \in Pollers : p = q) => \A m \in Messages : copies[m] <= 1)
<1> DEFINE Sole == \A p, q \in Pollers : p = q
           Uncontended == Sole => contended = {}
<1>1. Init => Uncontended
  BY DEF Init
<1>2. Uncontended /\ [Next]_vars => Uncontended'
  <2> SUFFICES ASSUME Sole, contended = {}, [Next]_vars PROVE contended' = {}
    OBVIOUS
  <2>1. ASSUME NEW p \in Pollers, Create(p) PROVE contended' = {}
    <3>1. Pollers \ {p} = {}
      OBVIOUS
    <3> QED BY <2>1, <3>1 DEF Create
  <2>2. ASSUME NEW p \in Pollers,
               \/ List(p) \/ Profile(p) \/ SetCursor(p)
               \/ Find(p) \/ FindThread(p) \/ CreateThread(p) \/ Lookup(p) \/ Note(p)
               \/ Refetch(p) \/ Register(p) \/ Registered(p)
               \/ Push(p) \/ Start(p) \/ Reset(p) \/ Expire(p) \/ Fail(p)
        PROVE  contended' = {}
    BY <2>2 DEF List, Profile, SetCursor, Find, FindThread, CreateThread, Lookup, Note, Refetch,
                Register, Registered, Push, Start, Reset, Expire, Fail, store
  <2>3. CASE Arrive \/ Coalesce \/ Stop \/ UNCHANGED vars
    BY <2>3 DEF Arrive, Coalesce, Stop, vars, store
  <2> QED BY <2>1, <2>2, <2>3 DEF Next, Step
<1>3. Uncontended /\ TwiceOnlyIfContended => (Sole => \A m \in Messages : copies[m] <= 1)
  BY DEF TwiceOnlyIfContended
<1> HIDE DEF Uncontended
<1> QED BY <1>1, <1>2, <1>3, StoredOnceUnlessContended, PTL DEF Spec

-----------------------------------------------------------------------------
(***************************************************************************)
(* What pushes announced.  Until a poll fails, each message up to the last *)
(* push is accounted for, or a sync of a push is on its way to it.         *)
(***************************************************************************)

\* The poll is to list the message, has it to do, or will note that it has not looked at it.
Pursues(r, m) ==
  /\ r.kind = "push"
  /\ \/ r.at = "refetch"
     \/ r.at = "list" /\ r.start < m
     \/ r.at \in Polling \ {"list"} /\ m \in r.todo \cup r.unseen

Pursued ==
  \A m \in 1 .. pushed :
    m \in Accounted \/ failed \/ rerun \/ \E p \in Pollers : Pursues(polls[p], m)

LEMMA AccountedGrows == Types /\ [Next]_vars => Accounted \subseteq Accounted'
<1> SUFFICES ASSUME Types, [Next]_vars PROVE Accounted \subseteq Accounted'
  OBVIOUS
<1>1. ASSUME NEW p \in Pollers, Create(p) PROVE Accounted \subseteq Accounted'
  <2>1. Current(p) \in Messages /\ copies[Current(p)] \in Nat /\ copies \in [Messages -> Nat]
    BY <1>1, CurrentType DEF Create, Handling, Types, StoreTypes
  <2>2. /\ copies' = [copies EXCEPT ![Current(p)] = @ + 1]
        /\ threaded' = threaded /\ gaps' = gaps
    BY <1>1 DEF Create
  <2>3. \A m \in Messages : copies[m] > 0 => copies'[m] > 0
    BY <2>1, <2>2
  <2> QED BY <2>2, <2>3 DEF Accounted
<1>2. ASSUME NEW p \in Pollers,
             \/ List(p) \/ Profile(p) \/ SetCursor(p)
             \/ Find(p) \/ FindThread(p) \/ CreateThread(p) \/ Lookup(p) \/ Note(p)
             \/ Refetch(p) \/ Register(p) \/ Registered(p)
             \/ Push(p) \/ Start(p) \/ Reset(p) \/ Expire(p) \/ Fail(p)
      PROVE  Accounted \subseteq Accounted'
  <2>1. UNCHANGED copies /\ threaded \subseteq threaded' /\ gaps \subseteq gaps'
    BY <1>2 DEF List, Profile, SetCursor, Find, FindThread, CreateThread, Lookup, Note, Refetch,
                Register, Registered, Push, Start, Reset, Expire, Fail, store
  <2> QED BY <2>1, Grows
<1>3. CASE Arrive \/ Coalesce \/ Stop \/ UNCHANGED vars
  <2>1. UNCHANGED <<copies, threaded, gaps>>
    BY <1>3 DEF Arrive, Coalesce, Stop, vars, store
  <2> QED BY <2>1, Grows
<1> QED BY <1>1, <1>2, <1>3 DEF Next, Step

\* One poll moves on, and hands over what it pursued.
LEMMA PursuedPut ==
  ASSUME Types, Pursued, Accounted \subseteq Accounted', NEW p \in Pollers,
         \A q \in Pollers \ {p} : polls'[q] = polls[q],
         pushed' = pushed, failed => failed',
         \A m \in 1 .. pushed : rerun \/ Pursues(polls[p], m) =>
           m \in Accounted' \/ failed' \/ rerun' \/ Pursues(polls'[p], m)
  PROVE  Pursued'
<1> SUFFICES ASSUME NEW m \in 1 .. pushed
             PROVE  m \in Accounted' \/ failed' \/ rerun' \/ \E q \in Pollers : Pursues(polls'[q], m)
  BY DEF Pursued
<1>1. CASE m \in Accounted \/ failed \/ rerun
  BY <1>1
<1>2. CASE \E q \in Pollers : Pursues(polls[q], m)
  <2>1. PICK q \in Pollers : Pursues(polls[q], m)
    BY <1>2
  <2>2. CASE q = p
    BY <2>1, <2>2
  <2>3. CASE q # p
    <3>1. Pursues(polls'[q], m)
      BY <2>1, <2>3
    <3> QED BY <3>1
  <2> QED BY <2>2, <2>3
<1> QED BY <1>1, <1>2 DEF Pursued

\* A poll that handles messages drops none that is not known by then.
LEMMA HandlingDropsNone ==
  ASSUME Types, NEW p \in Pollers,
         \/ Find(p) \/ FindThread(p) \/ CreateThread(p) \/ Lookup(p) \/ Create(p) \/ Note(p)
  PROVE  /\ \A q \in Pollers \ {p} : polls'[q] = polls[q]
         /\ polls'[p].kind = polls[p].kind /\ polls'[p].at \in Polling \ {"list"}
         /\ polls'[p].unseen = polls[p].unseen
         /\ polls[p].todo \subseteq polls'[p].todo \cup Accounted'
<1> DEFINE done == Remaining(polls[p], polls[p].todo \ {Current(p)})
<1>1. polls[p].at \in Handling
  BY DEF Find, FindThread, CreateThread, Lookup, Create, Note, Handling
<1>2. Current(p) \in Messages
  BY <1>1, CurrentType
<1>g. ASSUME NEW at \in Handling, Goes(p, at), UNCHANGED arrived
      PROVE  /\ \A q \in Pollers \ {p} : polls'[q] = polls[q]
             /\ polls'[p].kind = polls[p].kind /\ polls'[p].at \in Polling \ {"list"}
             /\ polls'[p].unseen = polls[p].unseen /\ polls'[p].todo = polls[p].todo
  <2>1. at \in Stages /\ at \notin {"profile", "cursor"} /\ at \in Polling \ {"list"}
    BY DEF Handling, Stages, Polling, Storing
  <2> DEFINE r == [polls[p] EXCEPT !.at = at]
  <2>2. /\ PollOK(r) /\ Becomes(p, r) /\ r.at = at /\ r.kind = polls[p].kind
        /\ r.todo = polls[p].todo /\ r.unseen = polls[p].unseen
    BY <1>1, <1>g, <2>1, GoesOK
  <2> HIDE DEF r
  <2>3. polls'[p] = r /\ \A q \in Pollers \ {p} : polls'[q] = polls[q]
    BY <2>2, OneBecomes
  <2> QED BY <2>1, <2>2, <2>3
<1>d. ASSUME Becomes(p, done), Current(p) \in Accounted'
      PROVE  /\ \A q \in Pollers \ {p} : polls'[q] = polls[q]
             /\ polls'[p].kind = polls[p].kind /\ polls'[p].at \in Polling \ {"list"}
             /\ polls'[p].unseen = polls[p].unseen
             /\ polls[p].todo \subseteq polls'[p].todo \cup Accounted'
  <2>1. /\ PollOK(done) /\ done.kind = polls[p].kind /\ done.at \in {"find", "profile", "cursor"}
        /\ done.todo = polls[p].todo \ {Current(p)} /\ done.unseen = polls[p].unseen
    BY DoneOK
  <2> HIDE DEF done
  <2>2. polls'[p] = done /\ \A q \in Pollers \ {p} : polls'[q] = polls[q]
    BY <1>d, <2>1, OneBecomes
  <2>3. done.at \in Polling \ {"list"}
    BY <2>1 DEF Polling
  <2> QED BY <1>d, <2>1, <2>2, <2>3
<1>3. CASE Find(p) /\ Current(p) \in threaded
  <2>1. Becomes(p, done) /\ threaded' = threaded
    BY <1>3 DEF Find, Becomes, store
  <2>2. Current(p) \in Accounted'
    BY <1>2, <1>3, <2>1 DEF Accounted
  <2> QED BY <1>d, <2>1, <2>2
<1>4. CASE Note(p)
  <2>1. Becomes(p, done) /\ Current(p) \in threaded'
    BY <1>4 DEF Note, Becomes
  <2>2. Current(p) \in Accounted'
    BY <1>2, <2>1 DEF Accounted
  <2> QED BY <1>d, <2>1, <2>2
<1>5. CASE ~Note(p) /\ ~(Find(p) /\ Current(p) \in threaded)
  <2>1. \E at \in Handling : Goes(p, at) /\ UNCHANGED arrived
    BY <1>5 DEF Find, FindThread, CreateThread, Lookup, Create, Goes, Handling
  <2> QED BY <1>g, <2>1
<1> QED BY <1>3, <1>4, <1>5

\* A sync that begins will list whatever is beyond the cursor; what is not is accounted for.
LEMMA PursuedAnew ==
  ASSUME Types, Accounts, Accounted \subseteq Accounted', NEW p \in Pollers,
         Begin(p, "push", cursor), pushed' \in 0 .. arrived, UNCHANGED arrived
  PROVE  Pursued'
<1> DEFINE r == Begun("push", cursor)
<1>0. cursor \in Null .. arrived /\ arrived \in Nat
  BY BoundTypes DEF Types, MailTypes
<1>1. PollOK(r) /\ r.kind = "push" /\ r.at = "list" /\ r.start = cursor
  BY <1>0, BeginOK
<1>2. Becomes(p, r)
  BY DEF Begin, Begun, Becomes
<1> HIDE DEF r
<1>3. polls'[p] = r
  BY <1>1, <1>2, OneBecomes
<1> SUFFICES ASSUME NEW m \in 1 .. pushed' PROVE m \in Accounted' \/ Pursues(polls'[p], m)
  BY DEF Pursued
<1>4. CASE m \in 1 .. cursor
  BY <1>4 DEF Accounts
<1>5. CASE m \notin 1 .. cursor
  <2>1. m \in Nat /\ m >= 1 /\ cursor < m
    BY <1>0, <1>5 DEF Null
  <2> QED BY <1>1, <1>3, <2>1 DEF Pursues
<1> QED BY <1>4, <1>5

LEMMA PursuedFrame ==
  ASSUME Types, Pursued, Accounted \subseteq Accounted', NEW p \in Pollers,
         List(p) \/ Profile(p) \/ SetCursor(p) \/ Expire(p)
  PROVE  Pursued'
<1>0. /\ arrived \in Nat /\ pushed \in 0 .. arrived /\ PollOK(polls[p]) /\ polls[p] \in PollSet
      /\ UNCHANGED <<arrived, pushed>> /\ (failed => failed')
  BY BoundTypes DEF Types, MailTypes, PollTypes, PollOK, List, Profile, SetCursor, Expire, sync, fault, Fault
<1>1. CASE List(p)
  <2> DEFINE r == Listed(p)
             after == {m \in 1 .. arrived : m > polls[p].start}
  <2>1. /\ PollOK(r) /\ Becomes(p, r) /\ r.kind = polls[p].kind
        /\ r.at \in {"find", "profile", "cursor"} /\ r.todo \cup r.unseen = after
    BY <1>1, ListOK
  <2> HIDE DEF r
  <2>2. polls'[p] = r /\ (\A q \in Pollers \ {p} : polls'[q] = polls[q]) /\ rerun' = rerun
    BY <1>1, <2>1, OneBecomes DEF List, sync
  <2>3. ASSUME NEW m \in 1 .. pushed, Pursues(polls[p], m) PROVE Pursues(r, m)
    <3>1. polls[p].kind = "push" /\ polls[p].start < m /\ m \in 1 .. arrived
      BY <1>0, <1>1, <2>3 DEF List, Pursues
    <3>2. polls[p].start \in Int /\ m \in Int
      BY <1>0 DEF PollSet, Null
    <3>3. m \in after
      BY <3>1, <3>2
    <3> QED BY <2>1, <3>1, <3>3 DEF Pursues, Polling
  <2>9. \A m \in 1 .. pushed : rerun \/ Pursues(polls[p], m) =>
          m \in Accounted' \/ failed' \/ rerun' \/ Pursues(polls'[p], m)
    BY <2>2, <2>3, Zenon
  <2> QED BY <1>0, <2>2, <2>9, PursuedPut
<1>2. CASE Profile(p)
  <2> DEFINE r == Profiled(p)
  <2>1. /\ PollOK(r) /\ Becomes(p, r) /\ r.kind = polls[p].kind /\ r.at = "cursor"
        /\ r.todo = polls[p].todo /\ polls[p].unseen \subseteq r.unseen
    BY <1>2, ProfileOK
  <2> HIDE DEF r
  <2>2. polls'[p] = r /\ (\A q \in Pollers \ {p} : polls'[q] = polls[q]) /\ rerun' = rerun
    BY <1>2, <2>1, OneBecomes DEF Profile, sync
  <2>3. \A m : Pursues(polls[p], m) => Pursues(r, m)
    BY <1>2, <2>1 DEF Profile, Pursues, Polling
  <2>9. \A m \in 1 .. pushed : rerun \/ Pursues(polls[p], m) =>
          m \in Accounted' \/ failed' \/ rerun' \/ Pursues(polls'[p], m)
    BY <2>2, <2>3, Zenon
  <2> QED BY <1>0, <2>2, <2>9, PursuedPut
<1>3. CASE SetCursor(p)
  <2>1. polls[p].at = "cursor" /\ Ends(p) /\ gaps' = gaps \cup polls[p].unseen
    BY <1>3 DEF SetCursor
  <2>2. PollOK(Returned(p)) /\ Becomes(p, Returned(p))
    BY <1>0, <2>1, EndsOK DEF Polling
  <2>3. polls'[p] = Returned(p) /\ \A q \in Pollers \ {p} : polls'[q] = polls[q]
    BY <2>2, OneBecomes
  <2>4. ASSUME NEW m \in 1 .. pushed, Pursues(polls[p], m) PROVE m \in Accounted'
    <3>1. m \in polls[p].unseen /\ m \in Messages
      BY <1>0, <2>1, <2>4, BoundTypes DEF Pursues, PollOK, Types, MailTypes, Messages
    <3> QED BY <2>1, <3>1 DEF Accounted
  <2>5. ASSUME NEW m, rerun PROVE rerun' \/ Pursues(Returned(p), m)
    <3>1. CASE polls[p].kind = "push"
      BY <2>5, <3>1 DEF Returned, Idle, Pursues
    <3>2. CASE polls[p].kind # "push"
      BY <2>1, <2>5, <3>2 DEF Ends
    <3> QED BY <3>1, <3>2
  <2>9. \A m \in 1 .. pushed : rerun \/ Pursues(polls[p], m) =>
          m \in Accounted' \/ failed' \/ rerun' \/ Pursues(polls'[p], m)
    BY <2>3, <2>4, <2>5, Zenon
  <2> QED BY <1>0, <2>3, <2>9, PursuedPut
<1>4. CASE Expire(p)
  \* The cursor is gone, and the listing that follows sees everything.
  <2> DEFINE r == Begun(polls[p].kind, Null)
  <2>1. Becomes(p, r) /\ rerun' = rerun
    BY <1>0, <1>4 DEF Expire, Begin, Begun, Becomes, sync
  <2>2. polls[p].kind \in {"push", "other"} /\ Null \in Null .. arrived
    BY <1>0 DEF PollSet, Null
  <2>3. PollOK(r) /\ r.kind = polls[p].kind /\ r.at = "list" /\ r.start = Null
    BY <2>2, BeginOK
  <2> HIDE DEF r
  <2>4. polls'[p] = r /\ \A q \in Pollers \ {p} : polls'[q] = polls[q]
    BY <2>1, <2>3, OneBecomes
  <2>5. ASSUME NEW m \in 1 .. pushed, Pursues(polls[p], m) PROVE Pursues(r, m)
    <3>1. m \in Nat /\ Null < m
      BY <1>0 DEF Null
    <3> QED BY <2>3, <2>5, <3>1 DEF Pursues
  <2>9. \A m \in 1 .. pushed : rerun \/ Pursues(polls[p], m) =>
          m \in Accounted' \/ failed' \/ rerun' \/ Pursues(polls'[p], m)
    BY <2>1, <2>4, <2>5, Zenon
  <2> QED BY <1>0, <2>4, <2>9, PursuedPut
<1> QED BY <1>1, <1>2, <1>3, <1>4

\* A poll of another kind, or none, pursues nothing, whatever becomes of it.
LEMMA PursuedAside ==
  ASSUME Types, Pursued, Accounted \subseteq Accounted', NEW p \in Pollers,
         Start(p) \/ Reset(p) \/ Register(p) \/ Registered(p)
  PROVE  Pursued'
<1>1. polls[p].at \in {"idle", "register", "registered"}
  BY DEF Start, Reset, Register, Registered, Free
<1>2. \A m : ~Pursues(polls[p], m)
  BY <1>1 DEF Pursues, Polling, Storing
<1>3. \A q \in Pollers \ {p} : polls'[q] = polls[q]
  BY DEF Start, Reset, Register, Registered, Begin, Types, PollTypes
<1>4. UNCHANGED <<pushed, rerun>>
  BY DEF Start, Reset, Register, Registered, sync
<1>5. failed => failed'
  BY DEF Start, Reset, Register, Registered, fault, Fault
<1>9. \A m \in 1 .. pushed : rerun \/ Pursues(polls[p], m) =>
        m \in Accounted' \/ failed' \/ rerun' \/ Pursues(polls'[p], m)
  BY <1>2, <1>4, Zenon
<1> QED BY <1>3, <1>4, <1>5, <1>9, PursuedPut

LEMMA PursuedNext ==
  ASSUME Types, Accounts, Pursued, [Next]_vars
  PROVE  Pursued'
<1>0. Accounted \subseteq Accounted'
  BY AccountedGrows
<1>1. ASSUME NEW p \in Pollers,
             \/ Find(p) \/ FindThread(p) \/ CreateThread(p) \/ Lookup(p) \/ Create(p) \/ Note(p)
      PROVE  Pursued'
  <2>1. UNCHANGED <<pushed, rerun, failed>>
    BY <1>1 DEF Find, FindThread, CreateThread, Lookup, Create, Note, sync, fault
  <2>2. polls[p].at \in Polling \ {"list"} /\ polls[p].at # "refetch"
    BY <1>1 DEF Find, FindThread, CreateThread, Lookup, Create, Note, Polling, Storing
  <2>3. /\ \A q \in Pollers \ {p} : polls'[q] = polls[q]
        /\ polls'[p].kind = polls[p].kind /\ polls'[p].at \in Polling \ {"list"}
        /\ polls'[p].unseen = polls[p].unseen
        /\ polls[p].todo \subseteq polls'[p].todo \cup Accounted'
    BY <1>1, HandlingDropsNone
  <2>4. \A m : Pursues(polls[p], m) => m \in Accounted' \/ Pursues(polls'[p], m)
    BY <2>2, <2>3 DEF Pursues
  <2> QED BY <1>0, <2>1, <2>3, <2>4, PursuedPut
<1>2. ASSUME NEW p \in Pollers, List(p) \/ Profile(p) \/ SetCursor(p) \/ Expire(p)
      PROVE  Pursued'
  BY <1>0, <1>2, PursuedFrame
<1>3. ASSUME NEW p \in Pollers, Start(p) \/ Reset(p) \/ Register(p) \/ Registered(p)
      PROVE  Pursued'
  BY <1>0, <1>3, PursuedAside
<1>4. ASSUME NEW p \in Pollers, Push(p) \/ Refetch(p)
      PROVE  Pursued'
  <2>1. Begin(p, "push", cursor) /\ UNCHANGED arrived /\ pushed' \in {pushed, arrived}
    BY <1>4 DEF Push, Refetch
  <2>2. pushed' \in 0 .. arrived
    BY <2>1, BoundTypes DEF Types, MailTypes
  <2> QED BY <1>0, <2>1, <2>2, PursuedAnew
<1>5. CASE Coalesce \/ Stop \/ \E p \in Pollers : Fail(p)
  BY <1>5 DEF Coalesce, Stop, Fail, Fault, Pursued
<1>6. CASE Arrive \/ UNCHANGED vars
  <2>1. UNCHANGED <<polls, pushed, rerun, failed>>
    BY <1>6 DEF Arrive, vars, sync, fault
  <2> QED BY <1>0, <2>1 DEF Pursued
<1> QED BY <1>1, <1>2, <1>3, <1>4, <1>5, <1>6 DEF Next, Step

\* What a push has announced is never forgotten while polls succeed: each such message is stored,
\* listed by a thread or noted as passed over, or a rerun has been asked of a sync that goes on,
\* or a sync of a push will still come to it, even if its push came while a sync was running
\* (syncConnectionCoalesced and runConnectionSync).
THEOREM PushIsNeverForgotten ==
  Spec => [](\A m \in 1 .. pushed :
               \/ copies[m] > 0 \/ m \in threaded \cup gaps
               \/ failed
               \/ rerun /\ \E p \in Pollers : polls[p].kind = "push" /\ polls[p].at \in Polling
               \/ \E p \in Pollers : Pursues(polls[p], m))
<1>1. Init => Types /\ Accounts /\ Pursued
  <2>1. Init => Pursued
    <3> SUFFICES ASSUME Init PROVE Pursued
      OBVIOUS
    <3>1. pushed = 0 /\ 1 .. 0 = {}
      BY DEF Init
    <3> QED BY <3>1 DEF Pursued
  <2> QED BY <2>1, TypesInit, AccountsInit
<1>2. Types /\ Accounts /\ Pursued /\ [Next]_vars => (Types /\ Accounts /\ Pursued)'
  BY TypesNext, AccountsNext, PursuedNext
<1>3. Types /\ Pursued =>
        \A m \in 1 .. pushed :
          \/ copies[m] > 0 \/ m \in threaded \cup gaps
          \/ failed
          \/ rerun /\ \E p \in Pollers : polls[p].kind = "push" /\ polls[p].at \in Polling
          \/ \E p \in Pollers : Pursues(polls[p], m)
  BY DEF Types, FlightTypes, Pursued, Accounted
<1> QED BY <1>1, <1>2, <1>3, PTL DEF Spec
=============================================================================
