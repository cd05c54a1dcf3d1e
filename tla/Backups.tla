------------------------------ MODULE Backups -------------------------------
(***************************************************************************)
(* Backups of environments: startBackup and executeBackup of               *)
(* server/lib/backup/backup-and-restore-service.ts, whose sessions are     *)
(* documents of the database, and the scheduled task of                    *)
(* server/lib/cron/backups-job.ts, whose workers start a backup of every   *)
(* environment and poll its session until it has ended, for a limited      *)
(* time.  The slots that backups wait for are those of BackupSlots.        *)
(***************************************************************************)
EXTENDS BackupSlots

CONSTANTS
  Environments,   \* the environments with a mongo config, in the order of the list
  Workers,        \* runBackupPool starts mongoDumpConcurrency of them
  MaxRetries,     \* taskSettings.maxRetries
  Nothing,        \* the environment, or the session, of what has none
  MaxManual,      \* bound: the backups an admin starts by hand
  MaxRejects,     \* bound: the store calls that are rejected
  MaxStops        \* bound: how often the process stops

Env == {Environments[i] : i \in DOMAIN Environments}

ASSUME BackupsAssumption ==
  /\ Sessions \subseteq Nat
  /\ Nothing \notin Sessions
  /\ Environments \in Seq(Env)
  /\ Workers # {}
  /\ MaxRetries \in Nat /\ MaxManual \in Nat /\ MaxRejects \in Nat /\ MaxStops \in Nat

\* An environment is in the list once: what is saved under its name replaces it
\* (environments-config.ts).
ASSUME DistinctEnvironments ==
  \A i, k \in DOMAIN Environments : Environments[i] = Environments[k] => i = k

VARIABLES
  status,     \* the status of each session in the database, "none" before it is created
  job,        \* what executeBackup is doing for each session
  worker,     \* what each worker of the scheduled task is doing
  run,        \* the scheduled task
  down,       \* the environments whose app is scaled down to no machine
  dumped,     \* history: the sessions whose dump and upload have succeeded
  givenUp,    \* history: the environments of which a worker has stopped waiting
  flyFailed,  \* history: the environments that flyctl has failed to scale up again
  counts      \* the counters that the bounds apply to

backupVars == <<status, job, worker, run, down, dumped, givenUp, flyFailed, counts>>
vars == <<slotVars, backupVars>>

Unfinished == {"pending", "in_progress"}
Finished == {"completed", "failed"}

JobSteps == {"none", "announcing", "queued", "scaling", "dumping", "completing", "notifying", "failing",
            "ending", "releasing", "caught", "over", "lost"}
Job == [step : JobSteps, env : Env \cup {Nothing}, manual : BOOLEAN, scaleDown : BOOLEAN,
        scaled : BOOLEAN, threw : BOOLEAN]
NoJob == [step |-> "none", env |-> Nothing, manual |-> FALSE, scaleDown |-> FALSE,
          scaled |-> FALSE, threw |-> FALSE]

Worker == [step : {"idle", "next", "starting", "polling", "ended"}, env : Env \cup {Nothing},
           session : Sessions \cup {Nothing}, attempt : 0 .. MaxRetries]
IdleWorker == [step |-> "idle", env |-> Nothing, session |-> Nothing, attempt |-> 0]

Run == [step : {"idle", "going", "over", "lost"}, nextIndex : Nat, failures : SUBSET Env]

TypeOK ==
  /\ SlotsTypeOK
  /\ status \in [Sessions -> {"none"} \cup Unfinished \cup Finished]
  /\ job \in [Sessions -> Job]
  /\ worker \in [Workers -> Worker]
  /\ run \in Run
  /\ down \subseteq Env /\ dumped \subseteq Sessions
  /\ givenUp \subseteq Env /\ flyFailed \subseteq Env
  /\ counts \in [manual : 0 .. MaxManual, rejects : 0 .. MaxRejects, stops : 0 .. MaxStops]
  /\ \A s \in Sessions : (job[s].step = "none") = (status[s] = "none")
  /\ \A w \in Workers : worker[w].step = "polling" =>
       worker[w].session \in Sessions /\ status[worker[w].session] # "none"

-----------------------------------------------------------------------------
(***************************************************************************)
(* startBackup and executeBackup                                           *)
(***************************************************************************)

\* The session is created, and an email is about to say that its backup has started.
StartBackup(s, env, manual, scaleDown) ==
  /\ status[s] = "none" /\ \A r \in Sessions : r < s => status[r] # "none"
  /\ status' = [status EXCEPT ![s] = "pending"]
  /\ job' = [job EXCEPT ![s] = [NoJob EXCEPT !.step = "announcing", !.env = env,
                                            !.manual = manual, !.scaleDown = scaleDown]]
  /\ UNCHANGED slotVars

At(s, step) == job[s].step = step
Goto(s, step) == job' = [job EXCEPT ![s].step = step]
Set(s, value) == status' = [status EXCEPT ![s] = value]

\* Of a step of executeBackup: what other parts keep stays.
JobOnly == UNCHANGED <<slotVars, worker, run, givenUp, counts>>

\* The email is sent, or has failed; the backup asks for a slot and startBackup returns.
AskForSlot(s) ==
  /\ At(s, "announcing")
  /\ Acquire(s)
  /\ Goto(s, "queued")
  /\ UNCHANGED <<status, worker, run, down, dumped, givenUp, flyFailed, counts>>

Begin(s) ==
  /\ At(s, "queued") /\ slot[s] = "held"
  /\ Set(s, "in_progress")
  /\ Goto(s, IF job[s].scaleDown THEN "scaling" ELSE "dumping")
  /\ JobOnly /\ UNCHANGED <<down, dumped, flyFailed>>

\* The scale to restore is noted before flyctl is asked.
ScaleDown(s) ==
  /\ At(s, "scaling")
  /\ \/ /\ down' = down \cup {job[s].env}
        /\ job' = [job EXCEPT ![s].step = "dumping", ![s].scaled = TRUE]
     \/ /\ job' = [job EXCEPT ![s].step = "failing", ![s].scaled = TRUE]
        /\ UNCHANGED down
  /\ JobOnly /\ UNCHANGED <<status, dumped, flyFailed>>

\* mongodump, the upload and the copy of the S3 objects; a failure of the last is logged.
Dump(s) ==
  /\ At(s, "dumping")
  /\ \/ Goto(s, "completing") /\ dumped' = dumped \cup {s}
     \/ Goto(s, "failing") /\ UNCHANGED dumped
  /\ JobOnly /\ UNCHANGED <<status, down, flyFailed>>

Complete(s) ==
  /\ At(s, "completing")
  /\ Set(s, "completed")
  /\ Goto(s, "notifying")
  /\ JobOnly /\ UNCHANGED <<down, dumped, flyFailed>>

Notify(s) ==
  /\ At(s, "notifying")
  /\ Goto(s, "ending")
  /\ JobOnly /\ UNCHANGED <<status, down, dumped, flyFailed>>

\* The catch block: what it throws again reaches the caller of withBackupSlot.
Fail(s) ==
  /\ At(s, "failing")
  /\ Set(s, "failed")
  /\ job' = [job EXCEPT ![s].step = "ending", ![s].threw = TRUE]
  /\ JobOnly /\ UNCHANGED <<down, dumped, flyFailed>>

\* Mutant: the app is scaled up after a backup that succeeds, and not in finally.
RestoreScaleIfDone(s) ==
  /\ At(s, "ending")
  /\ Goto(s, "releasing")
  /\ \/ /\ job[s].scaled /\ ~job[s].threw
        /\ \/ down' = down \ {job[s].env} /\ UNCHANGED flyFailed
           \/ flyFailed' = flyFailed \cup {job[s].env} /\ UNCHANGED down
     \/ (job[s].threw \/ ~job[s].scaled) /\ UNCHANGED <<down, flyFailed>>
  /\ JobOnly /\ UNCHANGED <<status, dumped>>

\* The finally block scales the app up to what its configuration says.
RestoreScale(s) ==
  /\ At(s, "ending")
  /\ Goto(s, "releasing")
  /\ \/ /\ job[s].scaled
        /\ \/ down' = down \ {job[s].env} /\ UNCHANGED flyFailed
           \/ flyFailed' = flyFailed \cup {job[s].env} /\ UNCHANGED down
     \/ ~job[s].scaled /\ UNCHANGED <<down, flyFailed>>
  /\ JobOnly /\ UNCHANGED <<status, dumped>>

ReleaseSlot(s) ==
  /\ At(s, "releasing")
  /\ Release(s)
  /\ Goto(s, IF job[s].threw THEN "caught" ELSE "over")
  /\ UNCHANGED <<status, worker, run, down, dumped, givenUp, flyFailed, counts>>

\* Mutant: startBackup leaves the rejection of the backup to executeBackup.
CatchIgnored(s) ==
  /\ At(s, "caught")
  /\ Goto(s, "over")
  /\ JobOnly /\ UNCHANGED <<status, down, dumped, flyFailed>>

\* The catch of startBackup marks the session as failed, once more.
Catch(s) ==
  /\ At(s, "caught")
  /\ Set(s, "failed")
  /\ Goto(s, "over")
  /\ JobOnly /\ UNCHANGED <<down, dumped, flyFailed>>

\* A store call of a backup is rejected, or its directory cannot be made; a log entry that
\* flyctl has failed to scale the app up is the one that executeBackup does not catch.
JobRejected(s) ==
  /\ counts.rejects < MaxRejects
  /\ \/ /\ At(s, "queued") /\ slot[s] = "held"
        /\ Goto(s, "failing") /\ UNCHANGED flyFailed
     \/ /\ job[s].step \in {"scaling", "completing", "notifying"}
        /\ Goto(s, "failing") /\ UNCHANGED flyFailed
     \/ /\ At(s, "failing")
        /\ job' = [job EXCEPT ![s].step = "ending", ![s].threw = TRUE]
        /\ UNCHANGED flyFailed
     \/ /\ At(s, "ending") /\ job[s].scaled
        /\ job' = [job EXCEPT ![s].step = "releasing", ![s].threw = TRUE]
        /\ flyFailed' = flyFailed \cup {job[s].env}
     \/ /\ At(s, "caught")
        /\ Goto(s, "over") /\ UNCHANGED flyFailed
  /\ counts' = [counts EXCEPT !.rejects = @ + 1]
  /\ UNCHANGED <<slotVars, status, worker, run, down, dumped, givenUp>>

JobStep(s) ==
  \/ AskForSlot(s) \/ Begin(s) \/ ScaleDown(s) \/ Dump(s) \/ Complete(s) \/ Notify(s)
  \/ Fail(s) \/ RestoreScale(s) \/ ReleaseSlot(s) \/ Catch(s)

-----------------------------------------------------------------------------
(***************************************************************************)
(* The scheduled task: runBackupPool, backupEnvironment and                *)
(* waitForBackupCompletion.                                                *)
(***************************************************************************)
RunBegins ==
  /\ run.step = "idle"
  /\ run' = [run EXCEPT !.step = "going"]
  /\ worker' = [w \in Workers |-> [IdleWorker EXCEPT !.step = "next"]]
  /\ UNCHANGED <<slotVars, status, job, down, dumped, givenUp, flyFailed, counts>>

\* Of a step of a worker: what is left alone.
WorkerOnly == UNCHANGED <<slotVars, status, job, down, dumped, flyFailed>>

\* nextIndex++: no two workers get the same environment.
NextEnvironment(w) ==
  /\ worker[w].step = "next"
  /\ run' = [run EXCEPT !.nextIndex = @ + 1]
  /\ worker' = [worker EXCEPT ![w] =
       IF run.nextIndex < Len(Environments)
       THEN [step |-> "starting", env |-> Environments[run.nextIndex + 1],
             session |-> Nothing, attempt |-> 0]
       ELSE [IdleWorker EXCEPT !.step = "ended"]]
  /\ WorkerOnly /\ UNCHANGED <<givenUp, counts>>

\* Mutant: the worker polls the session of the attempt before.
WorkerStartsUnnoted(w) ==
  /\ worker[w].step = "starting"
  /\ \E s \in Sessions : StartBackup(s, worker[w].env, FALSE, FALSE)
  /\ worker' = [worker EXCEPT ![w].step = "polling"]
  /\ UNCHANGED <<run, down, dumped, givenUp, flyFailed, counts>>

\* At once, or retryDelaySeconds after the attempt before.
WorkerStarts(w) ==
  /\ worker[w].step = "starting"
  /\ \E s \in Sessions :
       /\ StartBackup(s, worker[w].env, FALSE, FALSE)
       /\ worker' = [worker EXCEPT ![w].step = "polling", ![w].session = s]
  /\ UNCHANGED <<run, down, dumped, givenUp, flyFailed, counts>>

Fails(w) == run' = [run EXCEPT !.failures = @ \cup {worker[w].env}]

\* What an error thrown in an attempt leads to.
Retry(w) ==
  IF worker[w].attempt < MaxRetries
  THEN /\ worker' = [worker EXCEPT ![w].step = "starting", ![w].session = Nothing,
                                    ![w].attempt = @ + 1]
       /\ UNCHANGED run
  ELSE /\ worker' = [worker EXCEPT ![w] = [IdleWorker EXCEPT !.step = "next"]]
       /\ Fails(w)

\* startBackup has returned the session that the worker polls.
Polls(w) == worker[w].step = "polling" /\ ~At(worker[w].session, "announcing")

\* Mutant: a failed session is tried again, as an error is.
PollEndsRetried(w) ==
  /\ Polls(w)
  /\ \/ /\ status[worker[w].session] = "completed" /\ UNCHANGED run
        /\ worker' = [worker EXCEPT ![w] = [IdleWorker EXCEPT !.step = "next"]]
     \/ status[worker[w].session] = "failed" /\ Retry(w)
  /\ WorkerOnly /\ UNCHANGED <<givenUp, counts>>

\* Mutant: only a failed session is waited for, and any other counts as completed.
PollEndsUnless(w) ==
  /\ Polls(w)
  /\ \/ status[worker[w].session] # "failed" /\ UNCHANGED run
     \/ status[worker[w].session] = "failed" /\ Fails(w)
  /\ worker' = [worker EXCEPT ![w] = [IdleWorker EXCEPT !.step = "next"]]
  /\ WorkerOnly /\ UNCHANGED <<givenUp, counts>>

\* The session is seen to have ended; a failed one is reported and not tried again.
PollEnds(w) ==
  /\ Polls(w)
  /\ \/ status[worker[w].session] = "completed" /\ UNCHANGED run
     \/ status[worker[w].session] = "failed" /\ Fails(w)
  /\ worker' = [worker EXCEPT ![w] = [IdleWorker EXCEPT !.step = "next"]]
  /\ WorkerOnly /\ UNCHANGED <<givenUp, counts>>

\* Mutant: a wait that is never given up.
DeadlineForgotten(w) ==
  /\ Polls(w)
  /\ status[worker[w].session] \in Unfinished
  /\ UNCHANGED vars

\* The session has not ended by the deadline; its backup is left to go on, or to wait.
Deadline(w) ==
  /\ Polls(w)
  /\ status[worker[w].session] \in Unfinished
  /\ Retry(w)
  /\ givenUp' = givenUp \cup {worker[w].env}
  /\ WorkerOnly /\ UNCHANGED counts

\* A store call of a worker is rejected: the creation of a session or a look at one.
WorkerRejected(w) ==
  /\ counts.rejects < MaxRejects
  /\ worker[w].step = "starting" \/ Polls(w)
  /\ Retry(w)
  /\ givenUp' = IF worker[w].step = "polling" THEN givenUp \cup {worker[w].env} ELSE givenUp
  /\ counts' = [counts EXCEPT !.rejects = @ + 1]
  /\ WorkerOnly

RunEnds ==
  /\ run.step = "going" /\ \A w \in Workers : worker[w].step = "ended"
  /\ run' = [run EXCEPT !.step = "over"]
  /\ worker' = [w \in Workers |-> IdleWorker]
  /\ WorkerOnly /\ UNCHANGED <<givenUp, counts>>

WorkerStep(w) == NextEnvironment(w) \/ WorkerStarts(w) \/ PollEnds(w) \/ Deadline(w)

-----------------------------------------------------------------------------
(***************************************************************************)
(* An admin, and restarts.                                                 *)
(***************************************************************************)
StartManually(s, env) ==
  /\ counts.manual < MaxManual
  /\ \E scaleDown \in BOOLEAN : StartBackup(s, env, TRUE, scaleDown)
  /\ counts' = [counts EXCEPT !.manual = @ + 1]
  /\ UNCHANGED <<worker, run, down, dumped, givenUp, flyFailed>>

\* Slots, backups and workers are gone; sessions stay as they are in the database.
Stop ==
  /\ counts.stops < MaxStops
  /\ Reload
  /\ job' = [s \in Sessions |->
       IF At(s, "none") THEN NoJob
       ELSE [NoJob EXCEPT !.step = "lost", !.env = job[s].env, !.manual = job[s].manual]]
  /\ worker' = [w \in Workers |-> IdleWorker]
  /\ run' = IF run.step = "going" THEN [run EXCEPT !.step = "lost"] ELSE run
  /\ counts' = [counts EXCEPT !.stops = @ + 1]
  /\ UNCHANGED <<status, down, dumped, givenUp, flyFailed>>

\* cleanupStuckSessions: an admin lists the sessions, and one that was created before
\* the process started and has not ended is marked as failed.
CleanUp(s) ==
  /\ At(s, "lost") /\ status[s] \in Unfinished
  /\ Set(s, "failed")
  /\ UNCHANGED <<slotVars, job, worker, run, down, dumped, givenUp, flyFailed, counts>>

-----------------------------------------------------------------------------
Init ==
  /\ SlotsInit
  /\ status = [s \in Sessions |-> "none"]
  /\ job = [s \in Sessions |-> NoJob]
  /\ worker = [w \in Workers |-> IdleWorker]
  /\ run = [step |-> "idle", nextIndex |-> 0, failures |-> {}]
  /\ down = {} /\ dumped = {} /\ givenUp = {} /\ flyFailed = {}
  /\ counts = [manual |-> 0, rejects |-> 0, stops |-> 0]

Next ==
  \/ \E s \in Sessions : JobStep(s) \/ JobRejected(s) \/ CleanUp(s)
  \/ \E s \in Sessions, env \in Env : StartManually(s, env)
  \/ \E w \in Workers : WorkerStep(w) \/ WorkerRejected(w)
  \/ RunBegins \/ RunEnds \/ Stop

Spec == Init /\ [][Next]_vars

\* The event loop gets round to every timer and every answer, and the mail service
\* answers, so the workers go on; but mongodump or flyctl may hang.
WorkersGoOn == \A w \in Workers : WF_vars(WorkerStep(w))
HungSpec ==
  Spec /\ WorkersGoOn /\ WF_vars(RunEnds) /\ \A s \in Sessions : WF_vars(AskForSlot(s))

\* mongodump, flyctl and the store answer, one way or the other.
FairSpec == Spec /\ \A s \in Sessions : WF_vars(JobStep(s))

-----------------------------------------------------------------------------
(***************************************************************************)
(* Properties                                                              *)
(***************************************************************************)

\* When the task has run, every environment it does not report as failed has been dumped
\* by one of its sessions: none is passed over, and neither a deadline nor a rejected
\* call, nor a retry that follows, counts as success.
RunReportsTruth ==
  run.step = "over" =>
    \A env \in Env \ run.failures : \E s \in dumped : job[s].env = env /\ ~job[s].manual

\* Two unfinished backups of one environment, both of the task, mean that a worker has
\* stopped waiting for the first: a retry never follows a failure that is still being
\* cleared up.
NoSecondBackup ==
  \A r, s \in Sessions :
    /\ r # s /\ job[r].env = job[s].env
    /\ \A t \in {r, s} : ~job[t].manual /\ job[t].step \notin {"none", "lost", "over"}
    => job[r].env \in givenUp

\* An app is scaled down only while a backup that will scale it up again is going on,
\* even if several backups of it overlap or fail, unless the process has stopped or
\* flyctl has failed.
ScaleRestored ==
  counts.stops = 0 =>
    \A env \in down \ flyFailed : \E s \in Sessions :
      /\ job[s].env = env /\ job[s].scaled
      /\ job[s].step \in {"dumping", "completing", "notifying", "failing", "ending"}

\* Every session ends, in the database too, although it may have to wait for a slot and
\* one store call is rejected, unless the process stops.
EverySessionEnds ==
  \A s \in Sessions :
    status[s] \in Unfinished ~> (status[s] \in Finished \/ job[s].step = "lost")

\* The task ends whatever becomes of the backups it has started: no slot that is never
\* released and no dump that hangs keeps it going.
TaskEnds == run.step = "going" ~> run.step # "going"
=============================================================================
