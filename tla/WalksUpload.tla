---------------------------- MODULE WalksUpload -----------------------------
(***************************************************************************)
(* Uploads of walks to Ramblers Walks Manager, server/lib/ramblers: a      *)
(* browser run in a subprocess, which either the website starts (the queue *)
(* of ramblers-upload-queue.ts and executeRamblersUploadJob) or, when one  *)
(* is configured, the integration worker (the queue of                     *)
(* integration-worker-heavy-job-queue.ts and                               *)
(* executeRamblersUploadJobOnWorker), which tells the website by callbacks.*)
(* The status that the website shows is that of download-status-manager.ts.*)
(***************************************************************************)
EXTENDS Naturals, Sequences, FiniteSetsExt

CONSTANTS
  Jobs,        \* the upload jobs, numbered in the order of their creation
  Nothing,     \* no job
  MaxLost,     \* bound: the calls between website and worker that fail
  MaxStops     \* bound: how often the website or the worker stops

ASSUME UploadAssumption ==
  /\ Jobs \subseteq Nat /\ IsFiniteSet(Jobs) /\ Nothing \notin Jobs
  /\ MaxLost \in Nat /\ MaxStops \in Nat

VARIABLES
  remote,      \* integrationWorkerConfigured(): uploads run on the worker
  phase,       \* how far each job is
  active,      \* activeItem of the queue, on the website or on the worker
  items,       \* the jobs waiting behind it
  open,        \* the jobs whose web socket is open
  sessions,    \* uploadSessions of the website
  execution,   \* remoteExecutionState of the worker, its job
  posted,      \* the results on their way to the website
  download,    \* currentStatus of the website, and the thresholds its inactivity has passed
  timers,      \* the timers of completeDownload that have not fired
  answered,    \* history: the jobs whose end has been broadcast
  unreported,  \* history: the jobs whose end the website never hears of
  counts       \* the counters that the bounds apply to

queueVars == <<phase, active, items>>
siteVars == <<open, sessions, download, timers, answered>>
vars == <<remote, queueVars, siteVars, execution, posted, unreported, counts>>

UnderWay == {"submitting", "queued", "preparing", "running", "finishing"}
Ended == {"over", "cancelled", "refused", "lost"}
NoDownload == [job |-> Nothing, status |-> "none", age |-> 0]

TypeOK ==
  /\ remote \in BOOLEAN
  /\ phase \in [Jobs -> {"new"} \cup UnderWay \cup Ended]
  /\ active \in Jobs \cup {Nothing} /\ execution \in Jobs \cup {Nothing}
  /\ items \in Seq(Jobs)
  /\ open \subseteq Jobs /\ sessions \subseteq Jobs /\ posted \subseteq Jobs
  /\ download \in [job : Jobs \cup {Nothing}, age : 0 .. 2,
                   status : {"none", "active", "hung", "finished"}]
  /\ timers \in Nat
  /\ answered \subseteq Jobs /\ unreported \subseteq Jobs
  /\ counts \in [lost : 0 .. MaxLost, stops : 0 .. MaxStops]
  /\ active # Nothing => phase[active] \in {"preparing", "running", "finishing"}
  /\ \A i, k \in DOMAIN items : items[i] = items[k] => i = k
  /\ \A j \in Jobs : phase[j] = "queued" => \E i \in DOMAIN items : items[i] = j

-----------------------------------------------------------------------------
(***************************************************************************)
(* The queues, and the status of the download                              *)
(***************************************************************************)

\* enqueue: at once if nothing is active.
Enqueue(j) ==
  \/ /\ active # Nothing
     /\ items' = Append(items, j) /\ phase' = [phase EXCEPT ![j] = "queued"]
     /\ UNCHANGED active
  \/ /\ active = Nothing
     /\ active' = j /\ phase' = [phase EXCEPT ![j] = "preparing"]
     /\ UNCHANGED items

\* The items that runNext may run: that of the website passes over the jobs whose socket has
\* closed, that of the worker looks at none.
Runnable == {i \in DOMAIN items : remote \/ items[i] \in open}

\* Mutant: a job whose socket has closed ends the chain of runNext.
RunNextOrStop(j, becomes) ==
  LET next == IF 1 \in Runnable THEN items[1] ELSE Nothing
  IN /\ active' = next
     /\ items' = IF items = <<>> THEN items ELSE Tail(items)
     /\ phase' = [k \in Jobs |->
          IF k = j THEN becomes
          ELSE IF k = next THEN "preparing"
          ELSE IF items # <<>> /\ items[1] = k THEN "cancelled"
          ELSE phase[k]]

\* The executor has returned for job j, now in the given phase: runNext.
RunNext(j, becomes) ==
  LET n == IF Runnable = {} THEN Len(items) + 1 ELSE Min(Runnable)
      next == IF Runnable = {} THEN Nothing ELSE items[n]
  IN /\ active' = next
     /\ items' = SubSeq(items, n + 1, Len(items))
     /\ phase' = [k \in Jobs |->
          IF k = j THEN becomes
          ELSE IF k = next THEN "preparing"
          ELSE IF \E i \in 1 .. n - 1 : items[i] = k THEN "cancelled"
          ELSE phase[k]]

StartDownload(j) == download' = [job |-> j, status |-> "active", age |-> 0]

\* Whatever job the status is of, and the timer will clear whatever there is by then.
CompleteDownload ==
  IF download = NoDownload THEN UNCHANGED <<download, timers>>
  ELSE download' = [download EXCEPT !.status = "finished", !.age = 0] /\ timers' = timers + 1

TimerFires ==
  /\ timers > 0
  /\ timers' = timers - 1 /\ download' = NoDownload
  /\ UNCHANGED <<remote, queueVars, open, sessions, answered, execution, posted, unreported, counts>>

\* Of an action that concerns the status alone.
StatusOnly ==
  UNCHANGED <<remote, queueVars, open, sessions, timers, answered, execution, posted, unreported, counts>>

Watched == download.status \in {"active", "hung"}

\* No activity for more than ten minutes, then for more than fifteen.
Tick ==
  /\ Watched /\ download.age < 2
  /\ download' = [download EXCEPT !.age = @ + 1]
  /\ StatusOnly

\* Mutant: only an active download is looked at again.
LookAtActive ==
  /\ download.status = "active"
  /\ \/ download.age = 2 /\ download' = NoDownload
     \/ download.age = 1 /\ download' = [download EXCEPT !.status = "hung"]
  /\ StatusOnly

\* getCurrentStatus: silent for more than ten minutes, or for more than fifteen.
Look ==
  /\ Watched
  /\ \/ download.age = 2 /\ download' = NoDownload
     \/ /\ download.age = 1 /\ download.status = "active"
        /\ download' = [download EXCEPT !.status = "hung"]
  /\ StatusOnly

\* forceCancel, and overrideDownload, which clears less: no process is known, so none is killed.
ClearStatus ==
  /\ download # NoDownload
  /\ download' = NoDownload
  /\ StatusOnly

-----------------------------------------------------------------------------
(***************************************************************************)
(* The jobs, on the website                                                *)
(***************************************************************************)

\* dispatchRamblersWalksUpload: without credentials the job is refused; otherwise it goes to
\* the queue of the website, or its submission to the worker begins.
Dispatch(j) ==
  /\ phase[j] = "new" /\ \A k \in Jobs : k < j => phase[k] # "new"
  /\ \/ /\ phase' = [phase EXCEPT ![j] = "refused"] /\ answered' = answered \cup {j}
        /\ UNCHANGED <<active, items, open, sessions, download>>
     \/ /\ open' = open \cup {j} /\ sessions' = sessions \cup {j}
        /\ IF remote
           THEN /\ phase' = [phase EXCEPT ![j] = "submitting"] /\ StartDownload(j)
                /\ UNCHANGED <<active, items>>
           ELSE Enqueue(j) /\ UNCHANGED download
        /\ UNCHANGED answered
  /\ UNCHANGED <<remote, timers, execution, posted, unreported, counts>>

\* A call that fails, within the bound.
Fails == counts.lost < MaxLost /\ counts' = [counts EXCEPT !.lost = @ + 1]

\* reportErrorAndClose or the COMPLETE of sendAudit, if the website still knows the job.
Tell(j) == answered' = answered \cup ({j} \cap sessions) /\ open' = open \ {j}

\* submitRamblersUploadJobToWorker: the job arrives, and its answer or not; or it never does.
Submitted(j) ==
  /\ phase[j] = "submitting"
  /\ \/ Enqueue(j) /\ UNCHANGED <<open, answered, counts>>
     \/ Enqueue(j) /\ Fails /\ Tell(j)
     \/ /\ Fails /\ Tell(j) /\ phase' = [phase EXCEPT ![j] = "refused"]
        /\ UNCHANGED <<active, items>>
  /\ UNCHANGED <<remote, sessions, download, timers, execution, posted, unreported>>

\* executeRamblersUploadJob: it returns when the subprocess has been spawned.
LocalPrepared(j) ==
  /\ ~remote /\ phase[j] = "preparing"
  /\ \/ RunNext(j, "over") /\ Tell(j) /\ UNCHANGED <<sessions, download>>
     \/ /\ RunNext(j, "running") /\ StartDownload(j)
        /\ sessions' = sessions \cup {j}
        /\ UNCHANGED <<open, answered>>
  /\ UNCHANGED <<remote, timers, execution, posted, unreported, counts>>

\* A subprocess of the website exits, or could not be spawned: the session stays when that
\* is so, and when its audit cannot be stored.
LocalExit(j) ==
  /\ ~remote /\ phase[j] = "running"
  /\ phase' = [phase EXCEPT ![j] = "over"]
  /\ CompleteDownload /\ Tell(j)
  /\ sessions' \in {sessions, sessions \ {j}}
  /\ UNCHANGED <<remote, active, items, execution, posted, unreported, counts>>

\* Mutant: the queue is not emptied.
CancelInPlace ==
  /\ ~remote /\ items # <<>>
  /\ phase' = [j \in Jobs |-> IF phase[j] = "queued" THEN "cancelled" ELSE phase[j]]
  /\ UNCHANGED <<remote, active, items, siteVars, execution, posted, unreported, counts>>

\* Mutant: the queue is emptied, and what was in it is not cancelled.
CancelSilently ==
  /\ ~remote /\ items # <<>>
  /\ items' = <<>>
  /\ UNCHANGED <<remote, phase, active, siteVars, execution, posted, unreported, counts>>

\* cancelAll: the signal to the subprocess that spawned last shows as its exit.
CancelAll ==
  /\ ~remote /\ items # <<>>
  /\ phase' = [j \in Jobs |-> IF phase[j] = "queued" THEN "cancelled" ELSE phase[j]]
  /\ items' = <<>>
  /\ UNCHANGED <<remote, active, siteVars, execution, posted, unreported, counts>>

SocketCloses(j) ==
  /\ j \in open
  /\ open' = open \ {j}
  /\ UNCHANGED <<remote, queueVars, sessions, download, timers, answered, execution, posted,
                 unreported, counts>>

-----------------------------------------------------------------------------
(***************************************************************************)
(* The jobs, on the worker, and its callbacks                              *)
(***************************************************************************)

\* executeRamblersUploadJobOnWorker up to the spawn: what fails before it is not reported.
WorkerPrepared(j) ==
  /\ remote /\ phase[j] = "preparing"
  /\ \/ RunNext(j, "over") /\ unreported' = unreported \cup {j} /\ UNCHANGED execution
     \/ /\ phase' = [phase EXCEPT ![j] = "running"] /\ execution' = j
        /\ UNCHANGED <<active, items, unreported>>
  /\ UNCHANGED <<remote, siteVars, posted, counts>>

\* Output of a subprocess, or a progress call of the worker for the job it believes to run:
\* activity of whatever download is active.
Progress(j) ==
  /\ phase[j] \in {"running", "finishing"}
  /\ remote => \E k \in sessions : k = execution
  /\ download.status = "active" /\ download.age > 0
  /\ download' = [download EXCEPT !.age = 0]
  /\ StatusOnly

\* Mutant: the executor of the worker does not wait for finishJob.
WorkerExitAhead(j) ==
  /\ remote /\ phase[j] = "running"
  /\ RunNext(j, "finishing") /\ posted' = posted \cup {j}
  /\ UNCHANGED <<remote, siteVars, execution, unreported, counts>>

\* The exit or the error of the subprocess: finishJob posts the result.
WorkerExit(j) ==
  /\ remote /\ phase[j] = "running"
  /\ phase' = [phase EXCEPT ![j] = "finishing"] /\ posted' = posted \cup {j}
  /\ UNCHANGED <<remote, active, items, siteVars, execution, unreported, counts>>

\* The result route of the website: it answers for a session it knows, and completes
\* whatever download there is. A result may also be lost on its way.
Result(j) ==
  /\ j \in posted /\ posted' = posted \ {j}
  /\ \/ /\ j \in sessions /\ Tell(j) /\ CompleteDownload
        /\ sessions' \in {sessions, sessions \ {j}}
        /\ UNCHANGED <<unreported, counts>>
     \/ /\ \/ j \notin sessions /\ UNCHANGED counts
           \/ Fails
        /\ unreported' = unreported \cup {j}
        /\ UNCHANGED siteVars
  /\ UNCHANGED <<remote, queueVars, execution>>

\* The result has been answered, or the call gave up: the state is cleared, the next job runs.
WorkerFinishes(j) ==
  /\ remote /\ phase[j] = "finishing"
  /\ \/ j \notin posted /\ UNCHANGED counts
     \/ Fails
  /\ execution' = Nothing
  /\ RunNext(j, "over")
  /\ UNCHANGED <<remote, siteVars, posted, unreported>>

\* What stops forgets its queue; the file of the download's status stays.
Forget(kept) ==
  /\ phase' = [j \in Jobs |-> IF phase[j] \in UnderWay \ kept THEN "lost" ELSE phase[j]]
  /\ active' = Nothing /\ items' = <<>>

Stops == counts.stops < MaxStops /\ counts' = [counts EXCEPT !.stops = @ + 1]

WebsiteStops ==
  /\ Stops
  /\ open' = {} /\ sessions' = {} /\ timers' = 0
  /\ IF remote THEN UNCHANGED queueVars ELSE Forget({})
  /\ UNCHANGED <<remote, download, answered, execution, posted, unreported>>

WorkerStops ==
  /\ remote /\ Stops
  /\ Forget({"submitting"}) /\ execution' = Nothing
  /\ UNCHANGED <<remote, siteVars, posted, unreported>>

-----------------------------------------------------------------------------
Init ==
  /\ remote \in BOOLEAN
  /\ phase = [j \in Jobs |-> "new"] /\ active = Nothing /\ items = <<>>
  /\ open = {} /\ sessions = {} /\ posted = {} /\ execution = Nothing
  /\ download = NoDownload /\ timers = 0
  /\ answered = {} /\ unreported = {}
  /\ counts = [lost |-> 0, stops |-> 0]

\* What becomes of a dispatched job without anyone's doing.
Proceeds(j) ==
  \/ Submitted(j) \/ LocalPrepared(j) \/ LocalExit(j)
  \/ WorkerPrepared(j) \/ WorkerExit(j) \/ Result(j) \/ WorkerFinishes(j)

Next ==
  \/ \E j \in Jobs : Dispatch(j) \/ Proceeds(j) \/ SocketCloses(j) \/ Progress(j)
  \/ CancelAll \/ WebsiteStops \/ WorkerStops
  \/ TimerFires \/ Tick \/ Look \/ ClearStatus

Spec == Init /\ [][Next]_vars

\* The browser and the calls end by their own time limits, the clock moves on and the timer
\* fires; and the page that shows the status asks for it again and again.
FairSpec ==
  /\ Spec
  /\ \A j \in Jobs : WF_vars(Proceeds(j))
  /\ WF_vars(TimerFires) /\ WF_vars(Tick) /\ WF_vars(Look)

-----------------------------------------------------------------------------
(***************************************************************************)
(* Properties                                                              *)
(***************************************************************************)

\* Only one upload runs at a time, which is what the queue is for.
OneUploadAtATime ==
  \A j, k \in Jobs : phase[j] = "running" /\ phase[k] = "running" => j = k

\* While a browser runs on the worker, the worker's one execution state is that of its job:
\* its output is never reported for another job, nor dropped.
WorkerKnowsItsJob ==
  \A j \in Jobs : remote /\ phase[j] = "running" => execution = j /\ active = j

\* A job that has been cancelled or passed over is never run.
CancelledStaysOut ==
  [][\A j \in Jobs : phase[j] = "cancelled" => phase'[j] = "cancelled"]_vars

\* The status of no upload stays active or hung for ever, whatever becomes of the upload and
\* of the processes.
StatusIsLetGo ==
  \A j \in Jobs : (Watched /\ download.job = j) ~> ~(Watched /\ download.job = j)

\* Every upload that was dispatched comes to an answer, unless it was cancelled, a process
\* stopped, or the worker could not report its end; no job waits for ever behind another.
EveryUploadIsAnswered ==
  \A j \in Jobs : phase[j] # "new" ~>
    j \in answered \cup unreported \/ phase[j] \in {"cancelled", "lost", "refused"}
=============================================================================
