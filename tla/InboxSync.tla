----------------------------- MODULE InboxSync ------------------------------
(***************************************************************************)
(* Importing one Gmail mailbox, server/lib/inbox/inbox-poller.ts.  The     *)
(* mailbox is a growing sequence of messages, and lastHistoryId a cursor   *)
(* into it.  Polls are started by the timer or an admin, by a push of      *)
(* Gmail (coalesced while one runs) and by the renewal of the watch that   *)
(* Gmail's pushes depend on; nothing keeps polls of different kinds apart. *)
(* A message is stored by inbox-message-import.ts as a thread that lists   *)
(* its messages, and a document of its own.                                *)
(***************************************************************************)
EXTENDS Integers, FiniteSetsExt

CONSTANTS
  Pollers,      \* the polls that may go on at the same time, numbered
  Window,       \* how many messages a listing returns
  PageSize,     \* how many messages a page of the history returns
  MaxMessages,  \* bound: the messages that arrive
  MaxFaults     \* bound: the polls that fail, the stops, and the cursors taken back

ASSUME InboxAssumption ==
  /\ Pollers \subseteq Nat /\ IsFiniteSet(Pollers)
  /\ {Window, PageSize, MaxMessages} \subseteq Nat \ {0} /\ MaxFaults \in Nat

VARIABLES
  watch,        \* syncMode is WATCH
  arrived,      \* the newest message of the mailbox
  cursor,       \* lastHistoryId: the messages up to it have been seen; Null without one
  threaded,     \* the messages in messageIds of a thread
  copies,       \* how often each message has been stored
  polls,        \* the polls: from where, to where, what is left to do and what was not listed
  inFlight,     \* connectionSyncInFlight has the mailbox
  rerun,        \* connectionSyncRerunRequested has the mailbox
  pushed,       \* history: the newest message a push has been received for
  gaps,         \* history: the messages the cursor was moved past without a look at them
  contended,    \* history: the messages stored by one poll while another was about to
  failed,       \* history: a poll has failed, or the process stopped
  faults        \* the faults that the bound applies to

store == <<threaded, copies, contended>>
sync == <<inFlight, rerun, pushed>>
fault == <<failed, faults>>
vars == <<watch, arrived, cursor, store, polls, sync, gaps, fault>>

Messages == 1 .. MaxMessages
Null == -1
Idle == [kind |-> "other", at |-> "idle", start |-> 0, todo |-> {}, unseen |-> {}, upto |-> 0]
Storing == {"thread", "newThread", "lookup", "create", "note"}
Polling == {"list", "find", "profile", "cursor"} \cup Storing

TypeOK ==
  /\ watch \in BOOLEAN /\ inFlight \in BOOLEAN /\ rerun \in BOOLEAN
  /\ arrived \in 0 .. MaxMessages /\ cursor \in Null .. arrived /\ pushed \in 0 .. arrived
  /\ threaded \subseteq 1 .. arrived /\ gaps \subseteq 1 .. arrived /\ contended \subseteq 1 .. arrived
  /\ copies \in [Messages -> Nat]
  /\ polls \in [Pollers -> [kind : {"push", "other"}, start : Null .. arrived,
       at : Polling \cup {"idle", "register", "registered", "refetch"},
       todo : SUBSET (1 .. arrived), unseen : SUBSET (1 .. arrived), upto : 0 .. arrived]]
  /\ failed \in BOOLEAN /\ faults \in 0 .. MaxFaults
  /\ rerun => inFlight
  /\ inFlight => \E p \in Pollers : polls[p].kind = "push" /\ polls[p].at \in Polling

\* Something goes wrong, within the bound.
Fault(fails) == faults < MaxFaults /\ faults' = faults + 1 /\ failed' = (failed \/ fails)

-----------------------------------------------------------------------------
(***************************************************************************)
(* The mailbox, and what starts a poll                                     *)
(***************************************************************************)

Arrive ==
  /\ arrived < MaxMessages
  /\ arrived' = arrived + 1
  /\ UNCHANGED <<watch, cursor, store, polls, sync, gaps, fault>>

\* The poll to begin, of those that do not go on.
Free(p) == polls[p].at = "idle" /\ \A q \in Pollers : q < p => polls[q].at # "idle"

\* pollConnection, with the connection as it was read.
Begin(p, kind, start) ==
  polls' = [polls EXCEPT ![p] = [Idle EXCEPT !.kind = kind, !.at = "list", !.start = start]]

\* Of the polls that are not a sync: pollAllAliases on its timer, and the renewal of the watch,
\* every day and after a reconnection.  With a watch, an admin's poll is taken for a renewal
\* that comes to register nothing.
Start(p) ==
  /\ Free(p)
  /\ Begin(p, "other", cursor)
  /\ UNCHANGED <<watch, arrived, cursor, store, sync, gaps, fault>>

\* An admin has all messages imported, or rescanned.
Reset(p) ==
  /\ Free(p) /\ Fault(FALSE)
  /\ cursor' = Null /\ Begin(p, "other", Null)
  /\ UNCHANGED <<watch, arrived, store, sync, gaps>>

\* Mutant: a push that finds a sync running is dropped.
CoalesceIntoNothing ==
  /\ watch /\ inFlight
  /\ pushed' = arrived
  /\ UNCHANGED <<watch, arrived, cursor, store, polls, inFlight, rerun, gaps, fault>>

\* syncConnectionCoalesced, of a push while a sync runs.
Coalesce ==
  /\ watch /\ inFlight
  /\ rerun' = TRUE /\ pushed' = arrived
  /\ UNCHANGED <<watch, arrived, cursor, store, polls, inFlight, gaps, fault>>

\* syncConnectionCoalesced, of a push while none does.
Push(p) ==
  /\ watch /\ ~inFlight /\ Free(p)
  /\ inFlight' = TRUE /\ pushed' = arrived
  /\ Begin(p, "push", cursor)
  /\ UNCHANGED <<watch, arrived, cursor, store, rerun, gaps, fault>>

-----------------------------------------------------------------------------
(***************************************************************************)
(* One poll                                                                *)
(***************************************************************************)

\* The poll goes on at the given stage.
Goes(p, at) == polls' = [polls EXCEPT ![p].at = at]

\* The poll goes on with these messages, or beyond its last one.
Remaining(poll, ids) ==
  [poll EXCEPT !.todo = ids, !.at = IF ids # {} THEN "find"
                                    ELSE IF poll.start = Null THEN "profile" ELSE "cursor"]

First(S, n) == {m \in S : Cardinality({k \in S : k < m}) < n}
Newest(S, n) == {m \in S : Cardinality({k \in S : k > m}) < n}

\* pollViaListing asks for the newest messages.  pollViaHistoryDelta asks for what came after
\* the cursor: the page it reads may end before the history does, whose end it notes.
List(p) ==
  LET poll == polls[p]
      listing == poll.start = Null
      after == {m \in 1 .. arrived : m > poll.start}
      ids == IF listing THEN Newest(after, Window) ELSE First(after, PageSize)
  IN /\ poll.at = "list"
     /\ polls' = [polls EXCEPT ![p] =
          Remaining([poll EXCEPT !.start = IF listing THEN Null ELSE 0, !.unseen = after \ ids,
                                 !.upto = arrived], ids)]
     /\ UNCHANGED <<watch, arrived, cursor, store, sync, gaps, fault>>

\* Gmail does not know the cursor, or a message of the history (which the code takes for the
\* same): the cursor is taken back and the poll begins again as a listing.
Expire(p) ==
  /\ polls[p].at \in {"list", "find"} /\ polls[p].start # Null /\ Fault(FALSE)
  /\ cursor' = Null /\ Begin(p, polls[p].kind, Null)
  /\ UNCHANGED <<watch, arrived, store, sync, gaps>>

\* processGmailMessageIds takes the messages one by one.
Current(p) == Min(polls[p].todo)

\* A message that a thread lists needs nothing more.
Find(p) ==
  LET poll == polls[p] IN
  /\ poll.at = "find"
  /\ polls' = [polls EXCEPT ![p] =
       IF Current(p) \in threaded THEN Remaining(poll, poll.todo \ {Current(p)})
       ELSE [poll EXCEPT !.at = "thread"]]
  /\ UNCHANGED <<watch, arrived, cursor, store, sync, gaps, fault>>

\* findExistingThread: the thread of the conversation, which is found again if the message is
\* in it.
FindThread(p) ==
  LET m == Current(p) IN
  /\ polls[p].at = "thread"
  /\ \/ Goes(p, "lookup")
     \/ copies[m] = 0 /\ m \notin threaded /\ Goes(p, "newThread")
  /\ UNCHANGED <<watch, arrived, cursor, store, sync, gaps, fault>>

\* createThread: a thread that lists the message, which is not stored yet.
CreateThread(p) ==
  /\ polls[p].at = "newThread"
  /\ threaded' = threaded \cup {Current(p)}
  /\ Goes(p, "lookup")
  /\ UNCHANGED <<watch, arrived, cursor, copies, contended, sync, gaps, fault>>

\* Mutant: whether the message is stored already is not looked up.
LookupNothing(p) ==
  /\ polls[p].at = "lookup"
  /\ Goes(p, "create")
  /\ UNCHANGED <<watch, arrived, cursor, store, sync, gaps, fault>>

\* Whether the message is stored in that thread: what another poll has stored meanwhile may
\* be in another one.
Lookup(p) ==
  LET m == Current(p) IN
  /\ polls[p].at = "lookup"
  /\ \/ copies[m] > 0 /\ Goes(p, "note")
     \/ (copies[m] = 0 \/ m \in contended) /\ Goes(p, "create")
  /\ UNCHANGED <<watch, arrived, cursor, store, sync, gaps, fault>>

\* inboxMessageModel.create.
Create(p) ==
  LET m == Current(p) IN
  /\ polls[p].at = "create"
  /\ copies' = [copies EXCEPT ![m] = @ + 1]
  /\ contended' = contended \cup
       {k \in {m} : \E q \in Pollers \ {p} :
          polls[q].at \in Storing \ {"thread", "note"} /\ Current(q) = k}
  /\ Goes(p, "note")
  /\ UNCHANGED <<watch, arrived, cursor, threaded, sync, gaps, fault>>

\* The thread lists the message.
Note(p) ==
  /\ polls[p].at = "note"
  /\ threaded' = threaded \cup {Current(p)}
  /\ polls' = [polls EXCEPT ![p] = Remaining(polls[p], polls[p].todo \ {Current(p)})]
  /\ UNCHANGED <<watch, arrived, cursor, copies, contended, sync, gaps, fault>>

\* After a listing, mailboxHistoryId.
Profile(p) ==
  /\ polls[p].at = "profile"
  /\ polls' = [polls EXCEPT ![p].at = "cursor", ![p].upto = arrived,
                            ![p].unseen = @ \cup {m \in 1 .. arrived : m > polls[p].upto}]
  /\ UNCHANGED <<watch, arrived, cursor, store, sync, gaps, fault>>

\* pollConnection has returned: a sync with a rerun to do, or a renewal, goes on.
Returned(p) ==
  IF polls[p].kind = "push" /\ rerun THEN [Idle EXCEPT !.kind = "push", !.at = "refetch"]
  ELSE IF polls[p].kind = "other" /\ watch THEN [Idle EXCEPT !.at = "register"]
  ELSE Idle

\* Mutant: a sync that fails stays in flight.
EndsUnlessFailed(p) ==
  LET ends == polls[p].kind = "push" /\ polls[p].at = "cursor" IN
  /\ inFlight' = (~ends /\ inFlight) /\ rerun' = (~ends /\ rerun)
  /\ polls' = [polls EXCEPT ![p] = Returned(p)]

\* The end of a poll, also of one that failed: a sync takes back its flag and the rerun.
Ends(p) ==
  LET push == polls[p].kind = "push" IN
  /\ inFlight' = (~push /\ inFlight) /\ rerun' = (~push /\ rerun)
  /\ polls' = [polls EXCEPT ![p] = Returned(p)]

SetCursor(p) ==
  LET poll == polls[p] IN
  /\ poll.at = "cursor"
  /\ cursor' = poll.upto
  /\ gaps' = gaps \cup poll.unseen
  /\ Ends(p)
  /\ UNCHANGED <<watch, arrived, store, pushed, fault>>

\* Mutant: what a poll has not stored is left behind the cursor when it fails.
FailForward(p) ==
  /\ polls[p].at \in Polling /\ Fault(TRUE)
  /\ cursor' = IF polls[p].upto > 0 THEN polls[p].upto ELSE cursor
  /\ gaps' = gaps \cup polls[p].unseen
  /\ Ends(p)
  /\ UNCHANGED <<watch, arrived, store, pushed>>

\* A call to Gmail or the database is rejected: pollConnection notes the error and returns.
Fail(p) ==
  /\ polls[p].at \in Polling /\ Fault(TRUE)
  /\ Ends(p)
  /\ UNCHANGED <<watch, arrived, cursor, store, pushed, gaps>>

\* runConnectionSync reads the mailbox for the rerun: until then no sync is in flight.
Refetch(p) ==
  /\ polls[p].at = "refetch"
  /\ inFlight' = TRUE /\ Begin(p, "push", cursor)
  /\ UNCHANGED <<watch, arrived, cursor, store, rerun, pushed, gaps, fault>>

\* registerGmailWatch returns the end of the history, or there is no watch to register.
Register(p) ==
  /\ polls[p].at = "register"
  /\ \/ polls' = [polls EXCEPT ![p].at = "registered", ![p].upto = arrived]
     \/ polls' = [polls EXCEPT ![p] = Idle]
  /\ UNCHANGED <<watch, arrived, cursor, store, sync, gaps, fault>>

\* renewWatch then moves the cursor there.
Registered(p) ==
  LET poll == polls[p] IN
  /\ poll.at = "registered"
  /\ cursor' = poll.upto /\ gaps' = gaps \cup {m \in 1 .. poll.upto : m > cursor}
  /\ polls' = [polls EXCEPT ![p] = Idle]
  /\ UNCHANGED <<watch, arrived, store, sync, fault>>

\* The process stops: the polls and the flags are gone.
Stop ==
  /\ Fault(TRUE) /\ \E p \in Pollers : polls[p] # Idle
  /\ polls' = [p \in Pollers |-> Idle] /\ inFlight' = FALSE /\ rerun' = FALSE
  /\ UNCHANGED <<watch, arrived, cursor, store, pushed, gaps>>

-----------------------------------------------------------------------------
Init ==
  /\ watch \in BOOLEAN
  /\ arrived = 0 /\ cursor = Null /\ threaded = {} /\ copies = [m \in Messages |-> 0]
  /\ polls = [p \in Pollers |-> Idle]
  /\ inFlight = FALSE /\ rerun = FALSE /\ pushed = 0
  /\ gaps = {} /\ contended = {}
  /\ failed = FALSE /\ faults = 0

Step(p) ==
  \/ List(p) \/ Profile(p) \/ SetCursor(p)
  \/ Find(p) \/ FindThread(p) \/ CreateThread(p) \/ Lookup(p) \/ Create(p) \/ Note(p)
  \/ Refetch(p) \/ Register(p) \/ Registered(p)

Next ==
  \/ Arrive \/ Coalesce \/ Stop
  \/ \E p \in Pollers : Push(p) \/ Start(p) \/ Reset(p)
                        \/ Step(p) \/ Expire(p) \/ Fail(p)

Spec == Init /\ [][Next]_vars

\* The calls of a poll are answered, or rejected, in the end; nothing makes it begin.
FairSpec == Spec /\ \A p \in Pollers : WF_vars(Step(p))

-----------------------------------------------------------------------------
(***************************************************************************)
(* Properties                                                              *)
(***************************************************************************)

\* A message that the cursor has moved past is known: stored, or listed by its thread (which
\* is what is left of it when the process stops between the two).  The exceptions are those
\* that nothing looked at: older than a listing, or come after it and before the cursor was
\* read, beyond the first page of the history, or come before a watch was registered.
MissedOnlyInGaps ==
  \A m \in 1 .. cursor : copies[m] > 0 \/ m \in threaded \/ m \in gaps

\* A message is stored once, however many polls come across it and wherever they failed,
\* unless one stored it while another was between its search for the thread and its own store.
TwiceOnlyIfContended ==
  \A m \in Messages : copies[m] <= 1 \/ m \in contended

\* What pushes announced is found, even if a push came while a sync was running that had
\* listed its messages already; unless a poll failed, which nothing repeats.
Outstanding ==
  \E m \in 1 .. pushed : copies[m] = 0 /\ m \notin threaded \cup gaps /\ ~failed
PushIsFollowed == Outstanding ~> ~Outstanding
=============================================================================
