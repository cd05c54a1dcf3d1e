-------------------------- MODULE BatchSendProofs ---------------------------
(***************************************************************************)
(* Proofs about BatchSend, for any batches, recipients and bounds: who is  *)
(* removed from the group was reached, what runs is known, and nothing is  *)
(* begun after a cancellation.                                             *)
(***************************************************************************)
EXTENDS BatchSend, FiniteSetTheorems, TLAPS

-----------------------------------------------------------------------------
(***************************************************************************)
(* The recipients, and what a job's record looks like.                     *)
(***************************************************************************)

\* The members come first, the outside recipients after them, and there are finitely many.
LEMMA RecipientFacts ==
  /\ Cardinality(Recipients) \in Nat
  /\ Recipients = 1 .. Cardinality(Recipients)
  /\ Members \cap Externals = {}
  /\ Members \subseteq Recipients /\ Externals \subseteq Recipients
<1> DEFINE M == Cardinality(Members)
           E == Cardinality(Externals)
<1>1. M \in Nat /\ E \in Nat
  BY BatchAssumption, FS_CardinalityType
<1>2. Members = 1 .. M /\ Externals = M + 1 .. M + E
  BY BatchAssumption
<1> HIDE DEF M, E
<1>3. Recipients = 1 .. M + E
  BY <1>1, <1>2 DEF Recipients
<1>4. Cardinality(Recipients) = M + E
  <2>1. Cardinality(1 .. M + E) = IF 1 > M + E THEN 0 ELSE (M + E) - 1 + 1
    BY <1>1, FS_Interval
  <2> QED BY <1>1, <1>3, <2>1
<1>5. Members \cap Externals = {}
  BY <1>1, <1>2
<1> QED BY <1>1, <1>3, <1>4, <1>5 DEF Recipients

Steps == {"prepare", "loop", "sending", "combined", "record", "act"}
Entries == [Recipients -> {"Pending", "Sent", "Failed", "Skipped"}]
Batch == [status : Over \cup {"none", "RUNNING", "lost"}, personalised : BOOLEAN,
          at : Steps \cup {"idle"}, next : 1 .. Cardinality(Recipients) + 1, entries : Entries]

\* A job runs or rests, and one that sends, sends to a recipient.
BatchOK(b) ==
  /\ b \in Batch
  /\ b.at # "idle" <=> b.status = "RUNNING"
  /\ b.at = "sending" => b.next \in Recipients

IInvTypes ==
  /\ batch = [j \in Jobs |-> batch[j]]
  /\ \A j \in Jobs : BatchOK(batch[j])
  /\ known \subseteq Jobs /\ cancelled \subseteq known /\ aged \subseteq Jobs
  /\ accepted \subseteq Jobs \X Recipients
  /\ recorded \subseteq Jobs \X Members /\ unrecorded \subseteq Jobs
  /\ acted \subseteq Jobs \X Members
  /\ faults \in 0 .. MaxFaults

LEMMA TypesImply == IInvTypes => TypeOK
<1> SUFFICES ASSUME IInvTypes PROVE TypeOK
  OBVIOUS
<1>1. batch \in [Jobs -> Batch]
  BY DEF IInvTypes, BatchOK
<1>2. \A j \in Jobs : batch[j].at # "idle" <=> batch[j].status = "RUNNING"
  BY DEF IInvTypes, BatchOK
<1> QED BY <1>1, <1>2 DEF IInvTypes, TypeOK, Batch, Steps, Entries

\* A step of one job.
Becomes(j, b) == batch' = [batch EXCEPT ![j] = b]

LEMMA UnstartedOK == BatchOK(Unstarted)
  BY RecipientFacts DEF BatchOK, Batch, Unstarted, Steps, Entries

LEMMA GoesOK ==
  ASSUME IInvTypes, NEW j \in Jobs, Running(j),
         NEW at \in {"prepare", "loop", "combined", "record", "act"}, Goes(j, at)
  PROVE  /\ Becomes(j, [batch[j] EXCEPT !.at = at]) /\ BatchOK([batch[j] EXCEPT !.at = at])
  BY DEF IInvTypes, BatchOK, Batch, Running, Goes, Becomes, Steps

LEMMA FinishesOK ==
  ASSUME IInvTypes, NEW j \in Jobs, NEW status \in Over, Finishes(j, status)
  PROVE  LET b == [batch[j] EXCEPT !.at = "idle", !.status = status]
         IN  Becomes(j, b) /\ BatchOK(b)
  BY DEF IInvTypes, BatchOK, Batch, Finishes, Becomes, Steps, Over

Settled(b, status) == [b EXCEPT !.entries[b.next] = status, !.next = @ + 1, !.at = "loop"]

LEMMA SettlesOK ==
  ASSUME IInvTypes, NEW j \in Jobs, Running(j), batch[j].next \in Recipients,
         NEW status \in {"Sent", "Failed", "Skipped"}, Settles(j, status)
  PROVE  Becomes(j, Settled(batch[j], status)) /\ BatchOK(Settled(batch[j], status))
<1>1. Becomes(j, Settled(batch[j], status))
  BY DEF Settles, Settled, Becomes, IInvTypes
<1>2. batch[j].entries \in Entries /\ batch[j] \in Batch
  BY DEF IInvTypes, BatchOK, Batch
<1>3. [batch[j].entries EXCEPT ![batch[j].next] = status] \in Entries
  BY <1>2 DEF Entries
<1>4. batch[j].next + 1 \in 1 .. Cardinality(Recipients) + 1
  BY RecipientFacts
<1>5. Settled(batch[j], status) \in Batch
  BY <1>2, <1>3, <1>4 DEF Settled, Batch, Steps
<1>6. BatchOK(Settled(batch[j], status))
  BY <1>2, <1>5 DEF Running, Settled, BatchOK, Batch
<1> QED BY <1>1, <1>6

\* What a step leaves of the part of the invariant that is about the records of the jobs.
BatchesOK == batch = [j \in Jobs |-> batch[j]] /\ \A j \in Jobs : BatchOK(batch[j])

LEMMA OneBecomes ==
  ASSUME BatchesOK, NEW j \in Jobs, NEW b, BatchOK(b), Becomes(j, b)
  PROVE  /\ BatchesOK'
         /\ batch'[j] = b /\ \A k \in Jobs \ {j} : batch'[k] = batch[k]
  BY DEF BatchesOK, Becomes, BatchOK

Histories ==
  /\ known \subseteq Jobs /\ cancelled \subseteq known /\ aged \subseteq Jobs
  /\ accepted \subseteq Jobs \X Recipients
  /\ recorded \subseteq Jobs \X Members /\ unrecorded \subseteq Jobs
  /\ acted \subseteq Jobs \X Members
  /\ faults \in 0 .. MaxFaults

LEMMA TypeParts == IInvTypes <=> BatchesOK /\ Histories
  BY DEF IInvTypes, BatchesOK, Histories

LEMMA FaultsKept ==
  ASSUME faults \in 0 .. MaxFaults, UNCHANGED faults \/ Fault
  PROVE  faults' \in 0 .. MaxFaults
<1>1. MaxFaults \in Nat
  BY BatchAssumption
<1> QED BY <1>1 DEF Fault

\* Any step of processBatch is one of its job.
LEMMA ProcessBecomes ==
  ASSUME IInvTypes, NEW j \in Jobs, Process(j)
  PROVE  \E b : BatchOK(b) /\ Becomes(j, b)
<1>1. CASE Prepare(j)
  <2>1. Running(j)
    BY <1>1 DEF Prepare, Running, IInvTypes, BatchOK
  <2> QED BY <1>1, <2>1, GoesOK, FinishesOK DEF Prepare, Over
<1>2. CASE IsCancelled(j)
  BY <1>2, FinishesOK DEF IsCancelled, Over
<1>3. CASE Take(j)
  <2>1. Running(j) /\ batch[j].next \in Recipients
    BY <1>3, RecipientFacts DEF Take, Running, IInvTypes, BatchOK, Left
  <2>2. CASE Goes(j, "sending")
    <3>1. BatchOK([batch[j] EXCEPT !.at = "sending"])
      BY <2>1 DEF Running, IInvTypes, BatchOK, Batch, Steps
    <3> QED BY <2>2, <3>1 DEF Goes, Becomes, IInvTypes
  <2> QED BY <1>3, <2>1, <2>2, SettlesOK DEF Take
<1>4. CASE Send(j)
  <2>1. Running(j) /\ batch[j].next \in Recipients
    BY <1>4 DEF Send, Running, IInvTypes, BatchOK
  <2> QED BY <1>4, <2>1, SettlesOK DEF Send
<1>6. CASE AfterLoop(j)
  <2>1. Running(j)
    BY <1>6 DEF AfterLoop, Running, IInvTypes, BatchOK
  <2>2. Goes(j, "combined") \/ Goes(j, "record")
    BY <1>6 DEF AfterLoop
  <2> QED BY <2>1, <2>2, GoesOK
<1>7. CASE Combined(j)
  <2>1. Running(j)
    BY <1>7 DEF Combined, Running, IInvTypes, BatchOK
  <2>2. PICK status \in {"Sent", "Failed"} :
          batch' = [batch EXCEPT ![j].at = "record",
            ![j].entries = [r \in Recipients |-> IF r \in Externals THEN status ELSE @[r]]]
    BY <1>7 DEF Combined
  <2> DEFINE e == [r \in Recipients |-> IF r \in Externals THEN status ELSE batch[j].entries[r]]
             b == [batch[j] EXCEPT !.at = "record", !.entries = e]
  <2>3. batch[j] \in Batch /\ batch[j].entries \in Entries
    BY DEF IInvTypes, BatchOK, Batch
  <2>4. e \in Entries
    BY <2>3 DEF Entries
  <2>5. Becomes(j, b)
    BY <2>2 DEF Becomes, IInvTypes
  <2>6. BatchOK(b)
    BY <2>1, <2>3, <2>4 DEF BatchOK, Batch, Steps, Running
  <2> QED BY <2>5, <2>6
<1>8. CASE Record(j)
  <2>1. Running(j)
    BY <1>8 DEF Record, Running, IInvTypes, BatchOK
  <2> QED BY <1>8, <2>1, GoesOK DEF Record
<1>9. CASE Act(j)
  <2>1. \E status \in Over : Finishes(j, status)
    BY <1>9 DEF Act, Over
  <2> QED BY <2>1, FinishesOK
<1> QED BY <1>1, <1>2, <1>3, <1>4, <1>6, <1>7, <1>8, <1>9 DEF Process

-----------------------------------------------------------------------------
(***************************************************************************)
(* Types.                                                                  *)
(***************************************************************************)

LEMMA HistoriesKept ==
  ASSUME IInvTypes, NEW j \in Jobs, Process(j)
  PROVE  Histories'
<1>1. Histories
  BY TypeParts
<1>2. known' = known /\ aged' = aged /\ cancelled' \subseteq cancelled
  BY DEF Process, Prepare, IsCancelled, Take, Send, AfterLoop, Combined, Record, Act
<1>3. UNCHANGED faults \/ Fault
  BY DEF Process, Prepare, IsCancelled, Take, Send, AfterLoop, Combined, Record, Act
<1>4. accepted' \subseteq Jobs \X Recipients
  <2>1. CASE Send(j)
    <3>1. batch[j].next \in Recipients
      BY <2>1 DEF Send, IInvTypes, BatchOK
    <3> QED BY <1>1, <2>1, <3>1 DEF Send, Histories
  <2>2. CASE Combined(j)
    BY <1>1, <2>2, RecipientFacts DEF Combined, Histories
  <2>3. CASE UNCHANGED accepted
    BY <1>1, <2>3 DEF Histories
  <2> QED BY <2>1, <2>2, <2>3
       DEF Process, Prepare, IsCancelled, Take, AfterLoop, Record, Act, outcome
<1>5. recorded' \subseteq Jobs \X Members
  <2>1. CASE Record(j)
    BY <1>1, <2>1 DEF Record, Histories, With
  <2>2. CASE UNCHANGED recorded
    BY <1>1, <2>2 DEF Histories
  <2> QED BY <2>1, <2>2
       DEF Process, Prepare, IsCancelled, Take, Send, AfterLoop, Combined, Act, outcome
<1>6. acted' \subseteq Jobs \X Members
  <2>1. CASE Act(j)
    BY <1>1, <2>1 DEF Act, Histories, With
  <2>2. CASE UNCHANGED acted
    BY <1>1, <2>2 DEF Histories
  <2> QED BY <2>1, <2>2
       DEF Process, Prepare, IsCancelled, Take, Send, AfterLoop, Combined, Record, outcome
<1>7. faults' \in 0 .. MaxFaults
  BY <1>1, <1>3, FaultsKept DEF Histories
<1>8. unrecorded' \subseteq Jobs
  <2>1. CASE Record(j)
    BY <1>1, <2>1 DEF Record, Histories
  <2>2. CASE UNCHANGED unrecorded
    BY <1>1, <2>2 DEF Histories
  <2> QED BY <2>1, <2>2
       DEF Process, Prepare, IsCancelled, Take, Send, AfterLoop, Combined, Act, outcome
<1> QED BY <1>1, <1>2, <1>4, <1>5, <1>6, <1>7, <1>8 DEF Histories

LEMMA StartBecomes ==
  ASSUME IInvTypes, NEW j \in Jobs, Start(j)
  PROVE  /\ BatchesOK'
         /\ \A k \in Jobs \ {j} : batch'[k] = batch[k]
         /\ batch'[j].at = "prepare" /\ batch'[j].entries = batch[j].entries
         /\ batch'[j].status = "RUNNING" /\ batch'[j].next = batch[j].next
<1>1. PICK p \in BOOLEAN :
        Becomes(j, [batch[j] EXCEPT !.status = "RUNNING", !.at = "prepare", !.personalised = p])
  BY DEF Start, Becomes, IInvTypes
<1> DEFINE b == [batch[j] EXCEPT !.status = "RUNNING", !.at = "prepare", !.personalised = p]
<1>2. batch[j] \in Batch
  BY DEF IInvTypes, BatchOK
<1>3. BatchOK(b)
  BY <1>2 DEF BatchOK, Batch, Steps
<1>4. /\ b.at = "prepare" /\ b.entries = batch[j].entries /\ b.status = "RUNNING"
      /\ b.next = batch[j].next
  BY <1>2 DEF Batch
<1> HIDE DEF b
<1> QED BY <1>1, <1>3, <1>4, OneBecomes, TypeParts DEF b

LEMMA StopBecomes ==
  ASSUME IInvTypes, Stop
  PROVE  /\ BatchesOK'
         /\ \A j \in Jobs : ~Running(j) => batch'[j] = batch[j]
         /\ \A j \in Jobs : Running(j) =>
              batch'[j].status = "lost" /\ batch'[j].at = "idle"
              /\ batch'[j].entries = batch[j].entries /\ batch'[j].next = batch[j].next
<1>1. \A j \in Jobs : batch[j] \in Batch
  BY DEF IInvTypes, BatchOK
<1>2. \A j \in Jobs : batch'[j] = IF Running(j) THEN [batch[j] EXCEPT !.status = "lost", !.at = "idle"]
                                  ELSE batch[j]
  BY DEF Stop
<1>3. ASSUME NEW j \in Jobs, Running(j)
      PROVE  /\ BatchOK([batch[j] EXCEPT !.status = "lost", !.at = "idle"])
             /\ batch'[j].status = "lost" /\ batch'[j].at = "idle"
             /\ batch'[j].entries = batch[j].entries /\ batch'[j].next = batch[j].next
  BY <1>1, <1>2, <1>3 DEF BatchOK, Batch
<1>4. \A j \in Jobs : BatchOK(batch'[j])
  BY <1>2, <1>3 DEF IInvTypes
<1>5. batch' = [j \in Jobs |-> batch'[j]]
  BY DEF Stop
<1> QED BY <1>2, <1>3, <1>4, <1>5 DEF BatchesOK

LEMMA TypesInit == Init => IInvTypes
<1> SUFFICES ASSUME Init PROVE IInvTypes
  OBVIOUS
<1>1. MaxFaults \in Nat
  BY BatchAssumption
<1> QED BY <1>1, UnstartedOK DEF Init, IInvTypes

LEMMA TypesNext == IInvTypes /\ [Next]_vars => IInvTypes'
<1> SUFFICES ASSUME IInvTypes, [Next]_vars PROVE IInvTypes'
  OBVIOUS
<1>1. BatchesOK /\ Histories
  BY TypeParts
<1>2. ASSUME NEW j \in Jobs, Process(j)
      PROVE  IInvTypes'
  <2>1. BatchesOK'
    BY <1>1, <1>2, ProcessBecomes, OneBecomes
  <2> QED BY <1>2, <2>1, HistoriesKept, TypeParts DEF IInvTypes, BatchesOK, Histories
<1>3. ASSUME NEW j \in Jobs, Start(j)
      PROVE  IInvTypes'
  <2>1. BatchesOK'
    BY <1>3, StartBecomes
  <2>2. Histories'
    BY <1>1, <1>3 DEF Start, Histories, Prune, outcome
  <2> QED BY <2>1, <2>2 DEF IInvTypes, BatchesOK, Histories
<1>4. CASE Stop
  <2>1. BatchesOK'
    BY <1>4, StopBecomes
  <2>2. faults' \in 0 .. MaxFaults
    BY <1>1, <1>4, FaultsKept DEF Stop, Histories, Fault
  <2>3. Histories'
    BY <1>1, <1>4, <2>2 DEF Stop, Histories, outcome
  <2> QED BY <2>1, <2>3 DEF IInvTypes, BatchesOK, Histories
<1>5. ASSUME NEW j \in Jobs, Cancel(j) \/ Age(j)
      PROVE  IInvTypes'
  BY <1>5 DEF Cancel, Age, IInvTypes, outcome
<1>6. CASE UNCHANGED vars
  BY <1>6 DEF vars, outcome, IInvTypes
<1> QED BY <1>2, <1>3, <1>4, <1>5, <1>6 DEF Next

\* Types, and which jobs rest, whatever fails.
THEOREM TypeCorrect == Spec => []TypeOK
<1> QED BY TypesInit, TypesNext, TypesImply, PTL DEF Spec

-----------------------------------------------------------------------------
(***************************************************************************)
(* What runs is known.                                                     *)
(***************************************************************************)

LEMMA KnownStep == IInvTypes /\ RunningIsKnown /\ [Next]_vars => RunningIsKnown'
<1> SUFFICES ASSUME IInvTypes, RunningIsKnown, [Next]_vars PROVE RunningIsKnown'
  OBVIOUS
<1>1. ASSUME NEW j \in Jobs, Process(j)
      PROVE  RunningIsKnown'
  <2>1. known' = known
    BY <1>1 DEF Process, Prepare, IsCancelled, Take, Send, AfterLoop, Combined, Record, Act
  <2>2. Running(j)
    BY <1>1 DEF Process, Prepare, IsCancelled, Take, Send, AfterLoop, Combined, Record, Act,
                IInvTypes, BatchOK, Running
  <2>3. \A k \in Jobs \ {j} : batch'[k] = batch[k]
    BY <1>1, ProcessBecomes, OneBecomes, TypeParts
  <2> QED BY <2>1, <2>2, <2>3 DEF RunningIsKnown, Running
<1>2. ASSUME NEW j \in Jobs, Start(j)
      PROVE  RunningIsKnown'
  <2>1. PICK kept \in SUBSET known : Prune(kept) /\ known' = kept \cup {j}
    BY <1>2 DEF Start
  <2>2. \A k \in Jobs : Running(k) => k \in known'
    BY <2>1 DEF RunningIsKnown, Prune
  <2>3. j \in known'
    BY <2>1
  <2> QED BY <1>2, <2>2, <2>3, StartBecomes DEF RunningIsKnown, Running
<1>3. CASE Stop
  BY <1>3, StopBecomes DEF RunningIsKnown, Running
<1>4. ASSUME NEW j \in Jobs, Cancel(j) \/ Age(j)
      PROVE  RunningIsKnown'
  BY <1>4 DEF Cancel, Age, RunningIsKnown, Running
<1>5. CASE UNCHANGED vars
  BY <1>5 DEF vars, RunningIsKnown, Running
<1> QED BY <1>1, <1>2, <1>3, <1>4, <1>5 DEF Next

\* However many batches are pruned, one that runs can be asked for and cancelled.
THEOREM RunningStaysKnown == Spec => []RunningIsKnown
<1>1. Init => RunningIsKnown
  BY DEF Init, Unstarted, RunningIsKnown, Running
<1> QED BY <1>1, TypesInit, TypesNext, KnownStep, PTL DEF Spec

-----------------------------------------------------------------------------
(***************************************************************************)
(* Who is removed was reached.                                             *)
(***************************************************************************)

\* No member of the request is left untried.
Tried(j) == \A m \in Members : batch[j].entries[m] # "Pending"

\* Of one job: what its entries call sent was accepted, and once the actions apply it is on
\* record or known not to be; the members before the next one were tried, and so were all
\* once the loop is over; the actions apply to nobody before that, and the entries stay as
\* they are after it.
Truthful(j) ==
  /\ \A m \in Members :
       /\ batch[j].entries[m] = "Sent" =>
            /\ <<j, m>> \in accepted
            /\ batch[j].at = "act" => <<j, m>> \in recorded \/ j \in unrecorded
       /\ m < batch[j].next => batch[j].entries[m] # "Pending"
       /\ <<j, m>> \in acted =>
            /\ Tried(j) /\ batch[j].status \in Over \ {"CANCELLED"}
            /\ \/ batch[j].entries[m] = "Skipped"
               \/ batch[j].entries[m] = "Sent" /\ (<<j, m>> \in recorded \/ j \in unrecorded)
  /\ batch[j].at \in {"combined", "record", "act"} => Tried(j)

LEMMA TruthfulImplies == (\A j \in Jobs : Truthful(j)) => RemovedWereReached
  BY DEF Truthful, RemovedWereReached, Tried, With

\* A step of one job says nothing of another.
LEMMA OthersTruthful ==
  ASSUME NEW k \in Jobs, Truthful(k), batch'[k] = batch[k],
         accepted \subseteq accepted', recorded \subseteq recorded',
         unrecorded \subseteq unrecorded',
         \A m \in Members : <<k, m>> \in acted' => <<k, m>> \in acted
  PROVE  Truthful(k)'
<1>1. Tried(k)' <=> Tried(k)
  BY DEF Tried
<1> QED BY <1>1 DEF Truthful

\* A job that runs has acted on nobody.
LEMMA RunningActsLast ==
  ASSUME IInvTypes, NEW j \in Jobs, Truthful(j), Running(j)
  PROVE  \A m \in Members : <<j, m>> \notin acted
  BY DEF Truthful, Running, Over

LEMMA ProcessTruthful ==
  ASSUME IInvTypes, NEW j \in Jobs, Process(j), Truthful(j)
  PROVE  Truthful(j)'
<1>1. Running(j)
  BY DEF Process, Prepare, IsCancelled, Take, Send, AfterLoop, Combined, Record, Act,
         IInvTypes, BatchOK, Running
<1>2. \A m \in Members : <<j, m>> \notin acted
  BY <1>1, RunningActsLast
<1>3. batch[j] \in Batch /\ batch[j].entries \in Entries
  BY DEF IInvTypes, BatchOK, Batch
<1>4. \A m \in Members : m \in Recipients /\ m \notin Externals
  BY RecipientFacts
<1>n. Members \subseteq Nat /\ batch[j].next \in Nat
  BY <1>3, RecipientFacts DEF Batch
\* The entry of a recipient is set, with what was accepted.
<1>s. ASSUME NEW status \in {"Sent", "Failed", "Skipped"}, Settles(j, status), UNCHANGED acted,
             accepted \subseteq accepted', batch[j].next \in Recipients,
             status = "Sent" /\ batch[j].next \in Members => <<j, batch[j].next>> \in accepted'
      PROVE  Truthful(j)'
  <2>1. /\ batch'[j].at = "loop" /\ batch'[j].next = batch[j].next + 1
        /\ batch'[j].entries = [batch[j].entries EXCEPT ![batch[j].next] = status]
    BY <1>3, <1>s DEF Settles, IInvTypes, Batch
  <2>2. \A m \in Members : batch'[j].entries[m] =
          IF m = batch[j].next THEN status ELSE batch[j].entries[m]
    BY <1>3, <1>4, <2>1 DEF Entries
  <2>3. \A m \in Members : m < batch'[j].next => m = batch[j].next \/ m < batch[j].next
    BY <1>n, <2>1
  <2>4. \A m \in Members : m < batch'[j].next => batch'[j].entries[m] # "Pending"
    BY <2>2, <2>3 DEF Truthful
  <2>5. \A m \in Members : batch'[j].entries[m] = "Sent" => <<j, m>> \in accepted'
    BY <1>s, <2>2 DEF Truthful
  <2> QED BY <1>2, <1>s, <2>1, <2>4, <2>5 DEF Truthful
\* The job goes on with the entries of its members as they are.
<1>g. ASSUME \A m \in Members : batch'[j].entries[m] = batch[j].entries[m],
             batch'[j].next = batch[j].next, UNCHANGED acted, accepted \subseteq accepted',
             batch'[j].at \in {"combined", "record", "act"} => Tried(j),
             batch'[j].at = "act" =>
               \A m \in Members : batch[j].entries[m] = "Sent" =>
                                    <<j, m>> \in recorded' \/ j \in unrecorded'
      PROVE  Truthful(j)'
  <2>1. Tried(j)' <=> Tried(j)
    BY <1>g DEF Tried
  <2> QED BY <1>2, <1>g, <2>1 DEF Truthful
<1>a. ASSUME NEW at \in Steps, Goes(j, at)
      PROVE  /\ batch'[j].at = at /\ batch'[j].next = batch[j].next
             /\ batch'[j].entries = batch[j].entries
  BY <1>3, <1>a DEF Goes, IInvTypes, Batch
\* The job ends without having acted.
<1>f. ASSUME NEW status \in Over, Finishes(j, status), UNCHANGED <<acted, accepted>>
      PROVE  Truthful(j)'
  <2>1. /\ batch'[j].at = "idle" /\ batch'[j].entries = batch[j].entries
        /\ batch'[j].next = batch[j].next
    BY <1>3, <1>f DEF Finishes, IInvTypes, Batch
  <2> QED BY <1>2, <1>f, <2>1, <1>g
<1>5. CASE Prepare(j)
  <2>1. CASE Goes(j, "loop")
    BY <1>5, <2>1, <1>a, <1>g DEF Prepare, outcome, Steps
  <2> QED BY <1>5, <2>1, <1>f DEF Prepare, outcome, Over
<1>6. CASE IsCancelled(j)
  BY <1>6, <1>f DEF IsCancelled, outcome, Over
<1>7. CASE Take(j)
  <2>1. batch[j].next \in Recipients
    BY <1>7, RecipientFacts DEF Take, Left
  <2>2. CASE Goes(j, "sending")
    BY <1>7, <2>2, <1>a, <1>g DEF Take, outcome, Steps
  <2> QED BY <1>7, <2>1, <2>2, <1>s DEF Take, outcome
<1>8. CASE Send(j)
  <2>1. batch[j].next \in Recipients
    BY <1>8 DEF Send, IInvTypes, BatchOK
  <2>2. CASE Settles(j, "Sent") /\ accepted' = accepted \cup {<<j, batch[j].next>>}
    BY <1>8, <2>1, <2>2, <1>s DEF Send
  <2>3. CASE Settles(j, "Failed")
    BY <1>8, <2>1, <2>3, <1>s DEF Send
  <2> QED BY <1>8, <2>2, <2>3 DEF Send
<1>10. CASE AfterLoop(j)
  <2>1. Goes(j, "combined") \/ Goes(j, "record")
    BY <1>10 DEF AfterLoop
  <2>2. Tried(j)
    <3>1. batch[j].next \notin Members
      BY <1>10, <1>4 DEF AfterLoop, Left
    <3>2. \A m \in Members : m < batch[j].next
      <4> DEFINE M == Cardinality(Members)
      <4>1. M \in Nat /\ Members = 1 .. M
        BY BatchAssumption, FS_CardinalityType
      <4>2. batch[j].next \in 1 .. Cardinality(Recipients) + 1
        BY <1>3 DEF Batch
      <4> HIDE DEF M
      <4> QED BY <3>1, <4>1, <4>2, RecipientFacts
    <3> QED BY <3>2 DEF Truthful, Tried
  <2>3. UNCHANGED outcome
    BY <1>10 DEF AfterLoop
  <2> QED BY <2>1, <2>2, <2>3, <1>a, <1>g DEF outcome, Steps
<1>11. CASE Combined(j)
  <2>1. PICK status \in {"Sent", "Failed"} :
          batch' = [batch EXCEPT ![j].at = "record",
            ![j].entries = [r \in Recipients |-> IF r \in Externals THEN status ELSE @[r]]]
    BY <1>11 DEF Combined
  <2>2. /\ batch'[j].at = "record" /\ batch'[j].next = batch[j].next
        /\ \A m \in Members : batch'[j].entries[m] = batch[j].entries[m]
    BY <1>3, <1>4, <2>1 DEF IInvTypes, Batch
  <2>3. accepted \subseteq accepted' /\ UNCHANGED acted /\ batch[j].at = "combined"
    BY <1>11 DEF Combined
  <2>4. Tried(j)
    BY <2>3 DEF Truthful
  <2> QED BY <2>2, <2>3, <2>4, <1>g
<1>12. CASE Record(j)
  <2>1. /\ batch'[j].at = "act" /\ batch'[j].entries = batch[j].entries
        /\ batch'[j].next = batch[j].next
    BY <1>12, <1>a DEF Record, Steps
  <2>2. UNCHANGED <<accepted, acted>> /\ Tried(j)
    BY <1>12 DEF Record, Truthful
  <2>3. \A m \in Members : batch[j].entries[m] = "Sent" => <<j, m>> \in recorded' \/ j \in unrecorded'
    <3>1. CASE recorded' = recorded \cup {j} \X With(j, {"Sent"})
      BY <3>1 DEF With
    <3>2. CASE unrecorded' = unrecorded \cup {j}
      BY <3>2
    <3> QED BY <1>12, <3>1, <3>2 DEF Record
  <2> QED BY <2>1, <2>2, <2>3, <1>g
<1>13. CASE Act(j)
  <2>1. PICK status \in Over \ {"CANCELLED"} : Finishes(j, status)
    BY <1>13 DEF Act, Over
  <2>2. /\ batch'[j].at = "idle" /\ batch'[j].entries = batch[j].entries
        /\ batch'[j].status = status /\ batch'[j].next = batch[j].next
    BY <1>3, <2>1 DEF Finishes, IInvTypes, Batch
  <2>3. UNCHANGED <<accepted, recorded, unrecorded>>
    BY <1>13 DEF Act
  <2>4. \A m \in Members : <<j, m>> \in acted' => m \in With(j, {"Sent", "Skipped"})
    BY <1>2, <1>13 DEF Act
  <2>5. \A m \in Members : batch[j].entries[m] = "Sent" =>
          <<j, m>> \in accepted /\ (<<j, m>> \in recorded \/ j \in unrecorded)
    BY <1>13 DEF Act, Truthful
  <2>6. Tried(j)'
    BY <1>13, <2>2 DEF Act, Truthful, Tried
  <2>7. \A m \in Members : m < batch'[j].next => batch'[j].entries[m] # "Pending"
    BY <2>2 DEF Truthful
  <2> QED BY <2>1, <2>2, <2>3, <2>4, <2>5, <2>6, <2>7 DEF Truthful, With
<1> QED BY <1>5, <1>6, <1>7, <1>8, <1>10, <1>11, <1>12, <1>13 DEF Process

LEMMA TruthfulStep ==
  ASSUME IInvTypes, \A j \in Jobs : Truthful(j), [Next]_vars
  PROVE  \A j \in Jobs : Truthful(j)'
<1>1. ASSUME NEW j \in Jobs, Process(j), NEW k \in Jobs
      PROVE  Truthful(k)'
  <2>1. CASE k = j
    BY <1>1, <2>1, ProcessTruthful
  <2>2. CASE k # j
    <3>1. batch'[k] = batch[k]
      BY <1>1, <2>2, ProcessBecomes, OneBecomes, TypeParts
    <3>2. /\ accepted \subseteq accepted' /\ recorded \subseteq recorded'
          /\ unrecorded \subseteq unrecorded'
      BY <1>1 DEF Process, Prepare, IsCancelled, Take, Send, AfterLoop, Combined, Record,
                  Act, outcome
    <3>3. \A m \in Members : <<k, m>> \in acted' => <<k, m>> \in acted
      <4>1. CASE Act(j)
        BY <2>2, <4>1 DEF Act
      <4>2. CASE UNCHANGED acted
        BY <4>2
      <4> QED BY <1>1, <4>1, <4>2 DEF Process, Prepare, IsCancelled, Take, Send, AfterLoop,
                                      Combined, Record, outcome
    <3> QED BY <3>1, <3>2, <3>3, OthersTruthful
  <2> QED BY <2>1, <2>2
<1>2. ASSUME NEW j \in Jobs, Start(j), NEW k \in Jobs
      PROVE  Truthful(k)'
  <2>1. UNCHANGED outcome
    BY <1>2 DEF Start
  <2>2. CASE k = j
    <3>1. \A m \in Members : <<j, m>> \notin acted
      BY <1>2 DEF Start, Truthful, Over
    <3>2. /\ batch'[j].at = "prepare" /\ batch'[j].entries = batch[j].entries
          /\ batch'[j].next = batch[j].next
      BY <1>2, StartBecomes
    <3> QED BY <2>1, <2>2, <3>1, <3>2 DEF Truthful, outcome
  <2>3. CASE k # j
    BY <1>2, <2>1, <2>3, StartBecomes, OthersTruthful DEF outcome
  <2> QED BY <2>2, <2>3
<1>3. ASSUME Stop, NEW k \in Jobs
      PROVE  Truthful(k)'
  <2>1. UNCHANGED outcome
    BY <1>3 DEF Stop
  <2>2. CASE Running(k)
    <3>1. \A m \in Members : <<k, m>> \notin acted
      BY <2>2, RunningActsLast
    <3>2. /\ batch'[k].at = "idle" /\ batch'[k].entries = batch[k].entries
          /\ batch'[k].next = batch[k].next
      BY <1>3, <2>2, StopBecomes
    <3> QED BY <2>1, <3>1, <3>2 DEF Truthful, outcome
  <2>3. CASE ~Running(k)
    BY <1>3, <2>1, <2>3, StopBecomes, OthersTruthful DEF outcome
  <2> QED BY <2>2, <2>3
<1>4. ASSUME UNCHANGED <<batch, outcome>>, NEW k \in Jobs
      PROVE  Truthful(k)'
  BY <1>4, OthersTruthful DEF outcome
<1>5. ASSUME NEW j \in Jobs, Cancel(j) \/ Age(j)
      PROVE  UNCHANGED <<batch, outcome>>
  BY <1>5 DEF Cancel, Age
<1> QED BY <1>1, <1>2, <1>3, <1>4, <1>5 DEF Next, vars

AllTruthful == \A j \in Jobs : Truthful(j)

\* Nobody is removed from the group whose email failed or was never tried, nor anybody by a
\* batch that was cancelled on the way, whatever the store does with the records of it.
THEOREM RemovedOnlyIfReached == Spec => []RemovedWereReached
<1>1. Init => AllTruthful
  BY RecipientFacts DEF Init, AllTruthful, Truthful, Unstarted
<1>2. IInvTypes /\ AllTruthful /\ [Next]_vars => AllTruthful'
  BY TruthfulStep DEF AllTruthful
<1>3. AllTruthful => RemovedWereReached
  BY TruthfulImplies DEF AllTruthful
<1> QED BY TypesInit, TypesNext, <1>1, <1>2, <1>3, PTL DEF Spec

-----------------------------------------------------------------------------
(***************************************************************************)
(* Nothing is begun after a cancellation.                                  *)
(***************************************************************************)

BegunIn(j) == batch'[j].at \in {"sending", "combined"} => batch'[j] = batch[j]

LEMMA CancelStep ==
  ASSUME IInvTypes, [Next]_vars, NEW j \in cancelled
  PROVE  BegunIn(j)
<1>0. j \in Jobs /\ batch[j] \in Batch
  BY DEF IInvTypes, BatchOK
<1>1. ASSUME NEW k \in Jobs, Process(k)
      PROVE  BegunIn(j)
  <2>1. CASE k # j
    BY <1>0, <1>1, <2>1, ProcessBecomes, OneBecomes, TypeParts DEF BegunIn
  <2>2. CASE k = j /\ (Prepare(j) \/ IsCancelled(j) \/ Record(j) \/ Act(j))
    <3>1. Goes(j, "loop") \/ Goes(j, "act") \/ \E status \in Over : Finishes(j, status)
      BY <2>2 DEF Prepare, IsCancelled, Record, Act, Over
    <3>2. batch'[j].at \in {"loop", "act", "idle"}
      BY <1>0, <3>1 DEF Goes, Finishes, IInvTypes, Batch
    <3> QED BY <3>2 DEF BegunIn
  <2>3. CASE k = j /\ (Take(j) \/ AfterLoop(j))
    <3>1. Goes(j, "record")
      BY <2>3 DEF Take, AfterLoop
    <3>2. batch'[j].at = "record"
      BY <1>0, <3>1 DEF Goes, IInvTypes, Batch
    <3> QED BY <3>2 DEF BegunIn
  <2>4. CASE k = j /\ Send(j)
    <3>1. PICK status \in {"Sent", "Failed"} : Settles(j, status)
      BY <2>4 DEF Send
    <3>2. batch'[j].at = "loop"
      BY <1>0, <3>1 DEF Settles, IInvTypes, Batch
    <3> QED BY <3>2 DEF BegunIn
  <2>5. CASE k = j /\ Combined(j)
    <3>1. PICK status \in {"Sent", "Failed"} :
            batch' = [batch EXCEPT ![j].at = "record",
              ![j].entries = [r \in Recipients |-> IF r \in Externals THEN status ELSE @[r]]]
      BY <2>5 DEF Combined
    <3>2. batch'[j].at = "record"
      BY <1>0, <3>1 DEF IInvTypes, Batch
    <3> QED BY <3>2 DEF BegunIn
  <2> QED BY <1>1, <2>1, <2>2, <2>3, <2>4, <2>5 DEF Process
<1>2. ASSUME NEW k \in Jobs, Start(k)
      PROVE  BegunIn(j)
  BY <1>0, <1>2, StartBecomes DEF BegunIn
<1>3. CASE Stop
  BY <1>0, <1>3, StopBecomes DEF BegunIn
<1>4. ASSUME NEW k \in Jobs, Cancel(k) \/ Age(k)
      PROVE  BegunIn(j)
  BY <1>4 DEF Cancel, Age, BegunIn
<1>5. CASE UNCHANGED vars
  BY <1>5 DEF vars, BegunIn
<1> QED BY <1>1, <1>2, <1>3, <1>4, <1>5 DEF Next

\* Neither the next email of the loop nor the combined one is begun once a cancellation was
\* accepted.
THEOREM CancellationHolds == Spec => NothingBegunAfterCancel
<1>1. IInvTypes /\ [Next]_vars =>
        \A j \in cancelled :
          batch'[j].at \in {"sending", "combined"} => batch'[j] = batch[j]
  BY CancelStep DEF BegunIn
<1> QED BY <1>1, TypesInit, TypesNext, PTL DEF Spec, NothingBegunAfterCancel
=============================================================================
