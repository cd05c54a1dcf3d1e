----------------------------- MODULE BatchSend ------------------------------
(***************************************************************************)
(* Sending one email to many recipients,                                   *)
(* server/lib/brevo/transactional-mail/batch-transactional-send.ts: a job  *)
(* in memory for each batch, which sends to one recipient after another,   *)
(* then to the outside recipients together unless the content names them,  *)
(* records what was sent and applies the actions that follow, which may    *)
(* remove the members from the group.  A client asks for its progress and  *)
(* may cancel it; jobs that have ended are forgotten in time.              *)
(***************************************************************************)
EXTENDS Naturals, FiniteSets

CONSTANTS
  Jobs,         \* the batches
  Members,      \* the member recipients, numbered in the order of the request
  Externals,    \* the outside recipients, numbered after the members
  MaxRetained,  \* MAX_RETAINED_JOBS
  MaxFaults     \* bound: calls other than those to Brevo that fail, and stops of the process

ASSUME BatchAssumption ==
  /\ IsFiniteSet(Members) /\ IsFiniteSet(Externals)
  /\ Members = 1 .. Cardinality(Members)
  /\ Externals = Cardinality(Members) + 1 .. Cardinality(Members) + Cardinality(Externals)
  /\ {MaxRetained, MaxFaults} \subseteq Nat

VARIABLES
  batch,        \* what each job has come to
  known,        \* the keys of jobs
  cancelled,    \* the set of that name
  aged,         \* the jobs that ended more than JOB_RETENTION_MS ago
  accepted,     \* the job and recipient of the emails that Brevo accepted
  recorded,     \* the job and member of the sends that were recorded
  unrecorded,   \* the jobs for which the store rejected some of the records
  acted,        \* the job and member of the actions that followed
  faults        \* the faults the bound applies to

outcome == <<accepted, recorded, unrecorded, acted>>
vars == <<batch, known, cancelled, aged, outcome, faults>>

Recipients == Members \cup Externals
Over == {"COMPLETED", "COMPLETED_WITH_ERRORS", "CANCELLED", "FAILED"}
Unstarted == [status |-> "none", at |-> "idle", next |-> 1, personalised |-> FALSE,
              entries |-> [r \in Recipients |-> "Pending"]]

TypeOK ==
  /\ batch \in [Jobs -> [status : Over \cup {"none", "RUNNING", "lost"}, personalised : BOOLEAN,
       at : {"idle", "prepare", "loop", "sending", "combined", "record", "act"},
       next : 1 .. Cardinality(Recipients) + 1,
       entries : [Recipients -> {"Pending", "Sent", "Failed", "Skipped"}]]]
  /\ known \subseteq Jobs /\ cancelled \subseteq known /\ aged \subseteq Jobs
  /\ accepted \subseteq Jobs \X Recipients
  /\ recorded \subseteq Jobs \X Members /\ unrecorded \subseteq Jobs /\ acted \subseteq Jobs \X Members
  /\ faults \in 0 .. MaxFaults
  /\ \A j \in Jobs : batch[j].at # "idle" <=> batch[j].status = "RUNNING"

-----------------------------------------------------------------------------
(***************************************************************************)
(* The jobs                                                                *)
(***************************************************************************)

Running(j) == batch[j].status = "RUNNING"

\* Mutant: the surplus is taken from all jobs.
PruneAny(kept) ==
  LET young == known \ {j \in aged : ~Running(j)} IN
  /\ kept \subseteq young
  /\ Cardinality(young) - Cardinality(kept) =
       IF Cardinality(young) > MaxRetained THEN Cardinality(young) - MaxRetained ELSE 0

\* pruneCompletedJobs: what has ended long ago goes, and if there are still too many jobs, as
\* many as that of those that have ended, or all of them if they are fewer.
Prune(kept) ==
  LET young == known \ {j \in aged : ~Running(j)}
      surplus == IF Cardinality(young) > MaxRetained THEN Cardinality(young) - MaxRetained ELSE 0
  IN /\ kept \subseteq young
     /\ \A j \in young \ kept : ~Running(j)
     /\ \/ Cardinality(young \ kept) = surplus
        \/ Cardinality(young \ kept) < surplus /\ \A j \in kept : Running(j)

\* Mutant: forgetJob leaves the flag of the job.
StartKeepingFlags(j) ==
  /\ batch[j].status = "none"
  /\ \E kept \in SUBSET known, p \in BOOLEAN :
       /\ Prune(kept)
       /\ known' = kept \cup {j}
       /\ batch' = [batch EXCEPT ![j] = [@ EXCEPT !.status = "RUNNING", !.at = "prepare",
                                                  !.personalised = p]]
  /\ UNCHANGED <<cancelled, aged, outcome, faults>>

\* startBatchTransactionalSend, of a request that is valid: the batch goes on by itself.
Start(j) ==
  /\ batch[j].status = "none"
  /\ \E kept \in SUBSET known, p \in BOOLEAN :
       /\ Prune(kept)
       /\ known' = kept \cup {j} /\ cancelled' = cancelled \cap kept
       /\ batch' = [batch EXCEPT ![j] = [@ EXCEPT !.status = "RUNNING", !.at = "prepare",
                                                  !.personalised = p]]
  /\ UNCHANGED <<aged, outcome, faults>>

\* cancelBatchTransactional, also of a job that has ended; one that is forgotten is not found.
Cancel(j) ==
  /\ j \in known \ cancelled
  /\ cancelled' = cancelled \cup {j}
  /\ UNCHANGED <<batch, known, aged, outcome, faults>>

Age(j) ==
  /\ batch[j].status \in Over /\ j \notin aged
  /\ aged' = aged \cup {j}
  /\ UNCHANGED <<batch, known, cancelled, outcome, faults>>

Stop ==
  /\ known # {} /\ faults < MaxFaults /\ faults' = faults + 1
  /\ batch' = [j \in Jobs |-> IF Running(j) THEN [batch[j] EXCEPT !.status = "lost", !.at = "idle"]
                              ELSE batch[j]]
  /\ known' = {} /\ cancelled' = {}
  /\ UNCHANGED <<aged, outcome>>

-----------------------------------------------------------------------------
(***************************************************************************)
(* processBatch                                                            *)
(***************************************************************************)

Goes(j, at) == batch' = [batch EXCEPT ![j].at = at]
Finishes(j, status) == batch' = [batch EXCEPT ![j].at = "idle", ![j].status = status]

\* The recipient's entry, and the loop goes on to the next.
Settles(j, status) ==
  batch' = [batch EXCEPT ![j].entries[batch[j].next] = status, ![j].next = @ + 1, ![j].at = "loop"]
Fault == faults < MaxFaults /\ faults' = faults + 1

\* workItems: the outside recipients are among them if the content is personal.
Left(j) == batch[j].next \in (IF batch[j].personalised THEN Recipients ELSE Members)

\* The configuration, the members and the sender are read; without them the job fails.
Prepare(j) ==
  /\ batch[j].at = "prepare"
  /\ Goes(j, "loop") \/ Finishes(j, "FAILED")
  /\ UNCHANGED <<known, cancelled, aged, outcome, faults>>

\* The loop has come to a recipient and finds that the job has been cancelled.
IsCancelled(j) ==
  /\ batch[j].at = "loop" /\ Left(j) /\ j \in cancelled
  /\ cancelled' = cancelled \ {j}
  /\ Finishes(j, "CANCELLED")
  /\ UNCHANGED <<known, aged, outcome, faults>>

\* A member without consent or an address is passed over, one that is gone has failed; or the
\* email is begun.
Take(j) ==
  /\ batch[j].at = "loop" /\ Left(j) /\ j \notin cancelled
  /\ \/ batch[j].next \in Members /\ \E status \in {"Skipped", "Failed"} : Settles(j, status)
     \/ Goes(j, "sending")
  /\ UNCHANGED <<known, cancelled, aged, outcome, faults>>

\* Brevo accepts the email or not; also when it does, the answer may not arrive.  What follows
\* an accepted email, its copy in the inbox and recordSendUsage, only logs its failures.
Send(j) ==
  /\ batch[j].at = "sending"
  /\ \/ accepted' = accepted \cup {<<j, batch[j].next>>} /\ Settles(j, "Sent")
     \/ accepted' \in {accepted, accepted \cup {<<j, batch[j].next>>}} /\ Settles(j, "Failed")
  /\ UNCHANGED <<known, cancelled, aged, recorded, unrecorded, acted, faults>>

\* Mutant: a late cancellation is not looked at.
AfterLoopAlways(j) ==
  /\ batch[j].at = "loop" /\ ~Left(j)
  /\ Goes(j, IF ~batch[j].personalised /\ Externals # {} THEN "combined" ELSE "record")
  /\ UNCHANGED <<known, cancelled, aged, outcome, faults>>

\* After the loop: the one email to the outside recipients, unless the job was cancelled.
AfterLoop(j) ==
  /\ batch[j].at = "loop" /\ ~Left(j)
  /\ Goes(j, IF ~batch[j].personalised /\ j \notin cancelled /\ Externals # {} THEN "combined"
             ELSE "record")
  /\ UNCHANGED <<known, cancelled, aged, outcome, faults>>

\* All outside recipients share its fate.
Combined(j) ==
  /\ batch[j].at = "combined"
  /\ \E status \in {"Sent", "Failed"} :
       /\ batch' = [batch EXCEPT ![j].at = "record",
            ![j].entries = [r \in Recipients |-> IF r \in Externals THEN status ELSE @[r]]]
       /\ accepted' \in {accepted \cup {j} \X Externals} \cup
                        (IF status = "Failed" THEN {accepted} ELSE {})
  /\ UNCHANGED <<known, cancelled, aged, recorded, unrecorded, acted, faults>>

With(j, statuses) == {m \in Members : batch[j].entries[m] \in statuses}

\* recordMemberEmailSends: an insertMany that is not ordered, so that some of the records may
\* be written and others not.  Its error is logged, and the batch goes on.
Record(j) ==
  LET sent == With(j, {"Sent"}) IN
  /\ batch[j].at = "record"
  /\ Goes(j, "act")
  /\ \/ recorded' = recorded \cup {j} \X sent /\ UNCHANGED <<unrecorded, faults>>
     \/ /\ Fault /\ sent # {} /\ unrecorded' = unrecorded \cup {j}
        /\ \E some \in SUBSET sent : recorded' = recorded \cup {j} \X some
  /\ UNCHANGED <<known, cancelled, aged, accepted, acted>>

\* Mutant: the actions apply to all members of the request.
ActOnAll(j) ==
  /\ batch[j].at = "act"
  /\ acted' = acted \cup {j} \X Members /\ Finishes(j, "COMPLETED")
  /\ UNCHANGED <<known, cancelled, aged, accepted, recorded, unrecorded, faults>>

\* applyPostSendActions, which may fail after some of the members; then the job has ended.
Act(j) ==
  LET scope == With(j, {"Sent", "Skipped"}) IN
  /\ batch[j].at = "act"
  /\ \/ /\ acted' = acted \cup {j} \X scope
        /\ Finishes(j, IF \E r \in Recipients : batch[j].entries[r] = "Failed"
                       THEN "COMPLETED_WITH_ERRORS" ELSE "COMPLETED")
        /\ UNCHANGED faults
     \/ /\ Fault /\ Finishes(j, "FAILED")
        /\ \E some \in SUBSET scope : acted' = acted \cup {j} \X some
  /\ UNCHANGED <<known, cancelled, aged, accepted, recorded, unrecorded>>

-----------------------------------------------------------------------------
Init ==
  /\ batch = [j \in Jobs |-> Unstarted]
  /\ known = {} /\ cancelled = {} /\ aged = {}
  /\ accepted = {} /\ recorded = {} /\ unrecorded = {} /\ acted = {}
  /\ faults = 0

Process(j) ==
  \/ Prepare(j) \/ IsCancelled(j) \/ Take(j) \/ Send(j)
  \/ AfterLoop(j) \/ Combined(j) \/ Record(j) \/ Act(j)

Next ==
  \/ \E j \in Jobs : Start(j) \/ Cancel(j) \/ Age(j) \/ Process(j)
  \/ Stop

Spec == Init /\ [][Next]_vars

-----------------------------------------------------------------------------
(***************************************************************************)
(* Properties                                                              *)
(***************************************************************************)

\* After a cancellation was accepted no email of the batch is begun: neither the next of the
\* loop nor the one to the outside recipients after it.
NothingBegunAfterCancel ==
  [][\A j \in cancelled :
       batch'[j].at \in {"sending", "combined"} => batch'[j] = batch[j]]_vars

\* A batch that runs can be asked for and cancelled, however many batches there are.
RunningIsKnown == \A j \in Jobs : Running(j) => j \in known

\* Who is removed from the group after a batch was passed over by it on purpose, or was sent
\* its email, which is on record unless the store rejected records of the batch: not those
\* whose email failed or was never tried.  And the batch has come to the end of its members:
\* one that is cancelled on the way removes nobody.
RemovedWereReached ==
  \A j \in Jobs, m \in Members :
    <<j, m>> \in acted =>
      /\ With(j, {"Pending"}) = {} /\ batch[j].status # "CANCELLED"
      /\ \/ batch[j].entries[m] = "Skipped"
         \/ /\ batch[j].entries[m] = "Sent" /\ <<j, m>> \in accepted
            /\ <<j, m>> \in recorded \/ j \in unrecorded
=============================================================================
