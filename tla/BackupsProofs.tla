---------------------------- MODULE BackupsProofs ----------------------------
(***************************************************************************)
(* Proofs about Backups, for any environments, workers, sessions and       *)
(* limits: the slots keep what BackupSlotsProofs shows of them, and with   *)
(* them the limit on backups; what the scheduled task reports of its       *)
(* environments is true, and it backs none up twice at a time; an app is   *)
(* scaled up again, and a session ends.                                    *)
(***************************************************************************)
EXTENDS Backups, BackupSlotsProofs

-----------------------------------------------------------------------------
(***************************************************************************)
(* The slots.                                                              *)
(***************************************************************************)

\* Every step of a backup, of the task or of the process is one of acquire, release and
\* reload, or leaves the slots alone.
LEMMA SlotStep == [Next]_vars => [SlotsNext]_slotVars
<1> SUFFICES ASSUME [Next]_vars PROVE [SlotsNext]_slotVars
  OBVIOUS
<1>1. ASSUME NEW s \in Sessions, JobStep(s) \/ JobRejected(s) \/ CleanUp(s)
      PROVE  [SlotsNext]_slotVars
  <2>1. CASE AskForSlot(s) \/ ReleaseSlot(s)
    BY <2>1 DEF AskForSlot, ReleaseSlot, SlotsNext
  <2>2. CASE Begin(s) \/ ScaleDown(s) \/ Dump(s) \/ Complete(s) \/ Notify(s) \/ Fail(s)
    BY <2>2 DEF Begin, ScaleDown, Dump, Complete, Notify, Fail, JobOnly
  <2>3. CASE RestoreScale(s) \/ Catch(s) \/ JobRejected(s) \/ CleanUp(s)
    BY <2>3 DEF RestoreScale, Catch, JobRejected, CleanUp, JobOnly
  <2> QED BY <1>1, <2>1, <2>2, <2>3 DEF JobStep
<1>2. ASSUME NEW s \in Sessions, NEW env \in Env, StartManually(s, env)
      PROVE  [SlotsNext]_slotVars
  BY <1>2 DEF StartManually, StartBackup
<1>3. ASSUME NEW w \in Workers, WorkerStep(w) \/ WorkerRejected(w)
      PROVE  [SlotsNext]_slotVars
  <2>1. CASE WorkerStarts(w)
    BY <2>1 DEF WorkerStarts, StartBackup
  <2>2. CASE NextEnvironment(w) \/ PollEnds(w) \/ Deadline(w) \/ WorkerRejected(w)
    BY <2>2 DEF NextEnvironment, PollEnds, Deadline, WorkerRejected, WorkerOnly
  <2> QED BY <1>3, <2>1, <2>2 DEF WorkerStep
<1>4. CASE RunBegins \/ RunEnds
  BY <1>4 DEF RunBegins, RunEnds, WorkerOnly
<1>5. CASE Stop
  BY <1>5 DEF Stop, SlotsNext
<1>6. CASE UNCHANGED vars
  BY <1>6 DEF vars
<1> QED BY <1>1, <1>2, <1>3, <1>4, <1>5, <1>6 DEF Next

LEMMA SlotsInitially == Init => SlotsInit
  BY DEF Init

\* No slot of the running server leaks and no wake-up is lost, whatever fails.
THEOREM SlotsAccountedAlways == Spec => []SlotsAccounted
<1>1. SlotsInv => SlotsAccounted
  BY DEF SlotsInv
<1> QED BY SlotsInitially, SlotsInvInit, SlotStep, SlotsInvStep, <1>1, PTL DEF Spec

\* Backups are admitted in the order in which they have asked for a slot, and as soon as
\* there is one.
THEOREM BackupsServedInOrder == Spec => ServesInOrder
<1> QED BY SlotsInitially, SlotStep, SlotsInvInit, SlotsInvStep, PoolInit, PoolStep, PTL
        DEF Spec, ServesInOrder, Pool!Spec

-----------------------------------------------------------------------------
(***************************************************************************)
(* The inductive invariant of the scheduled task: until it is over, every  *)
(* environment that has been handed out is reported as failed, dumped, or  *)
(* in the hands of a worker, and the session a worker polls is the task's  *)
(* own backup of the worker's environment.                                 *)
(***************************************************************************)
JobsInv ==
  \A s \in Sessions :
    /\ job[s].step # "none" => job[s].env \in Env
    /\ job[s].step = "completing" \/ status[s] = "completed" => s \in dumped
    /\ s \in dumped => status[s] # "none"

WorkersInv ==
  \A w \in Workers :
    /\ worker[w].step \in {"starting", "polling"} => worker[w].env \in Env
    /\ worker[w].step = "polling" =>
         job[worker[w].session].env = worker[w].env /\ ~job[worker[w].session].manual
    /\ worker[w].step = "ended" => run.nextIndex >= Len(Environments)
    /\ run.step # "going" => worker[w].step = "idle"

DumpedByTask(env) == \E s \in dumped : job[s].env = env /\ ~job[s].manual
InHand(env) == \E w \in Workers :
  worker[w].step \in {"starting", "polling"} /\ worker[w].env = env

HandedOut ==
  /\ run.step = "idle" => run.nextIndex = 0
  /\ run.step = "going" =>
       \A i \in DOMAIN Environments : i <= run.nextIndex =>
         \/ Environments[i] \in run.failures
         \/ DumpedByTask(Environments[i])
         \/ InHand(Environments[i])

IInv == SlotsInv /\ TypeOK /\ JobsInv /\ WorkersInv /\ HandedOut /\ RunReportsTruth

-----------------------------------------------------------------------------
(***************************************************************************)
(* Sessions: what is kept of one once it has been created.                 *)
(***************************************************************************)
Kept(s) ==
  /\ job'[s].env = job[s].env /\ job'[s].manual = job[s].manual
  /\ status'[s] # "none"

LEMMA StartKeeps ==
  ASSUME TypeOK, NEW s \in Sessions, NEW env, NEW manual, NEW scaleDown,
         StartBackup(s, env, manual, scaleDown),
         NEW r \in Sessions, status[r] # "none"
  PROVE  r # s /\ job'[r] = job[r] /\ status'[r] = status[r]
  BY DEF StartBackup, TypeOK

LEMMA SessionsKept ==
  ASSUME TypeOK, [Next]_vars
  PROVE  /\ \A s \in Sessions : status[s] # "none" => Kept(s)
         /\ dumped \subseteq dumped'
<1> USE DEF TypeOK, Kept
<1>1. ASSUME NEW s \in Sessions, JobStep(s)
      PROVE  /\ \A r \in Sessions : status[r] # "none" => Kept(r)
             /\ dumped \subseteq dumped'
  <2>1. CASE Begin(s)
    BY <2>1 DEF Begin, Set, Goto, Job
  <2>2. CASE Complete(s) \/ Fail(s)
    BY <2>2 DEF Complete, Fail, Set, Goto, Job
  <2>3. CASE AskForSlot(s) \/ Notify(s)
    BY <2>3 DEF AskForSlot, Notify, Goto, Job
  <2>4. CASE Dump(s)
    BY <2>4 DEF Dump, Goto, Job
  <2>5. CASE ScaleDown(s)
    BY <2>5 DEF ScaleDown, Job
  <2>6. CASE RestoreScale(s)
    BY <2>6 DEF RestoreScale, Goto, Job
  <2>7. CASE ReleaseSlot(s) \/ Catch(s)
    BY <2>7 DEF ReleaseSlot, Catch, Set, Goto, Job
  <2> QED BY <1>1, <2>1, <2>2, <2>3, <2>4, <2>5, <2>6, <2>7 DEF JobStep
<1>2. ASSUME NEW s \in Sessions, JobRejected(s) \/ CleanUp(s)
      PROVE  /\ \A r \in Sessions : status[r] # "none" => Kept(r)
             /\ dumped \subseteq dumped'
  BY <1>2 DEF JobRejected, CleanUp, Set, Goto, Job
<1>3. ASSUME NEW s \in Sessions, NEW env \in Env, StartManually(s, env)
      PROVE  /\ \A r \in Sessions : status[r] # "none" => Kept(r)
             /\ dumped \subseteq dumped'
  BY <1>3, StartKeeps DEF StartManually
<1>4. ASSUME NEW w \in Workers, WorkerStep(w) \/ WorkerRejected(w)
      PROVE  /\ \A r \in Sessions : status[r] # "none" => Kept(r)
             /\ dumped \subseteq dumped'
  <2>1. CASE WorkerStarts(w)
    BY <2>1, StartKeeps DEF WorkerStarts
  <2>2. CASE NextEnvironment(w) \/ PollEnds(w) \/ Deadline(w) \/ WorkerRejected(w)
    BY <2>2 DEF NextEnvironment, PollEnds, Deadline, WorkerRejected, WorkerOnly
  <2> QED BY <1>4, <2>1, <2>2 DEF WorkerStep
<1>5. CASE RunBegins \/ RunEnds
  BY <1>5 DEF RunBegins, RunEnds, WorkerOnly
<1>6. CASE Stop
  BY <1>6 DEF Stop, At, NoJob
<1>7. CASE UNCHANGED vars
  BY <1>7 DEF vars, backupVars
<1> QED BY <1>1, <1>2, <1>3, <1>4, <1>5, <1>6, <1>7 DEF Next

\* What a backup that is still to begin brings.
LEMMA StartType ==
  ASSUME TypeOK, NEW s \in Sessions, NEW env \in Env, NEW manual \in BOOLEAN,
         NEW scaleDown \in BOOLEAN, StartBackup(s, env, manual, scaleDown)
  PROVE  /\ status' \in [Sessions -> {"none"} \cup Unfinished \cup Finished]
         /\ job' \in [Sessions -> Job]
         /\ \A r \in Sessions : (job'[r].step = "none") = (status'[r] = "none")
         /\ job'[s].env = env /\ job'[s].manual = manual /\ job'[s].step = "announcing"
         /\ status'[s] = "pending"
         /\ \A r \in Sessions \ {s} : job'[r] = job[r] /\ status'[r] = status[r]
  BY DEF StartBackup, TypeOK, Job, JobSteps, NoJob, Unfinished, Finished

-----------------------------------------------------------------------------
(***************************************************************************)
(* The parts of the invariant, one after the other.                        *)
(***************************************************************************)
LEMMA InvInit == Init => IInv
<1> SUFFICES ASSUME Init PROVE IInv
  OBVIOUS
<1> USE BackupsAssumption DEF Init
<1>1. SlotsInv
  BY SlotsInvInit
<1>2. TypeOK
  BY <1>1 DEF SlotsInv, TypeOK, NoJob, Job, JobSteps, IdleWorker, Worker, Run
<1>3. JobsInv /\ WorkersInv /\ HandedOut /\ RunReportsTruth
  BY DEF JobsInv, WorkersInv, HandedOut, RunReportsTruth, NoJob, IdleWorker
<1> QED BY <1>1, <1>2, <1>3 DEF IInv

JobTypes ==
  /\ status \in [Sessions -> {"none"} \cup Unfinished \cup Finished]
  /\ job \in [Sessions -> Job]
  /\ \A s \in Sessions : (job[s].step = "none") = (status[s] = "none")

WorkerTypes == worker \in [Workers -> Worker] /\ run \in Run

PollTypes ==
  \A w \in Workers : worker[w].step = "polling" =>
    worker[w].session \in Sessions /\ status[worker[w].session] # "none"

HistoryTypes ==
  /\ down \subseteq Env /\ dumped \subseteq Sessions
  /\ givenUp \subseteq Env /\ flyFailed \subseteq Env
  /\ counts \in [manual : 0 .. MaxManual, rejects : 0 .. MaxRejects, stops : 0 .. MaxStops]

LEMMA TypeParts ==
  TypeOK <=> SlotsTypeOK /\ JobTypes /\ WorkerTypes /\ PollTypes /\ HistoryTypes
  BY DEF TypeOK, JobTypes, WorkerTypes, PollTypes, HistoryTypes

\* A step of a backup that is there: it goes to another step and may set the status.
Marks(s) == UNCHANGED status \/ \E st \in Unfinished \cup Finished : Set(s, st)
Steps == JobSteps \ {"none"}

LEMMA JobGoes ==
  ASSUME JobTypes, NEW s \in Sessions, job[s].step # "none", Marks(s), NEW x \in Steps,
         Goto(s, x)
  PROVE  JobTypes'
<1>1. job' \in [Sessions -> Job]
  BY DEF JobTypes, Goto, Job, Steps
<1>2. \A r \in Sessions : job'[r].step = IF r = s THEN x ELSE job[r].step
  BY DEF JobTypes, Goto, Job
<1> QED BY <1>1, <1>2 DEF JobTypes, Marks, Set, Unfinished, Finished, Steps

LEMMA JobThrows ==
  ASSUME JobTypes, NEW s \in Sessions, job[s].step # "none", Marks(s), NEW x \in Steps,
         job' = [job EXCEPT ![s].step = x, ![s].threw = TRUE]
  PROVE  JobTypes'
<1>1. job' \in [Sessions -> Job]
  BY DEF JobTypes, Job, Steps
<1>2. \A r \in Sessions : job'[r].step = IF r = s THEN x ELSE job[r].step
  BY DEF JobTypes, Job
<1> QED BY <1>1, <1>2 DEF JobTypes, Marks, Set, Unfinished, Finished, Steps

LEMMA JobScales ==
  ASSUME JobTypes, NEW s \in Sessions, job[s].step # "none", UNCHANGED status,
         NEW x \in Steps, job' = [job EXCEPT ![s].step = x, ![s].scaled = TRUE]
  PROVE  JobTypes'
<1>1. job' \in [Sessions -> Job]
  BY DEF JobTypes, Job, Steps
<1>2. \A r \in Sessions : job'[r].step = IF r = s THEN x ELSE job[r].step
  BY DEF JobTypes, Job
<1> QED BY <1>1, <1>2 DEF JobTypes, Steps

LEMMA JobTypesStep ==
  ASSUME TypeOK, WorkersInv, [Next]_vars
  PROVE  JobTypes'
<1>0. JobTypes
  BY TypeParts
<1>e. /\ "queued" \in Steps /\ "dumping" \in Steps /\ "scaling" \in Steps /\ "failing" \in Steps
      /\ "completing" \in Steps /\ "notifying" \in Steps /\ "ending" \in Steps
      /\ "releasing" \in Steps /\ "caught" \in Steps /\ "over" \in Steps
  BY DEF JobSteps, Steps
<1>1. ASSUME NEW s \in Sessions, JobStep(s)
      PROVE  JobTypes'
  <2>1. CASE Begin(s)
    <3>1. job[s].step # "none" /\ Marks(s)
      BY <2>1 DEF Begin, At, Marks, Unfinished
    <3>2. Goto(s, "scaling") \/ Goto(s, "dumping")
      BY <2>1 DEF Begin
    <3> QED BY <1>0, <1>e, <3>1, <3>2, JobGoes
  <2>2. CASE ScaleDown(s)
    <3>1. job[s].step # "none" /\ UNCHANGED status
      BY <2>2 DEF ScaleDown, At
    <3>2. \/ job' = [job EXCEPT ![s].step = "dumping", ![s].scaled = TRUE]
          \/ job' = [job EXCEPT ![s].step = "failing", ![s].scaled = TRUE]
      BY <2>2 DEF ScaleDown
    <3> QED BY <1>0, <1>e, <3>1, <3>2, JobScales
  <2>3. CASE AskForSlot(s) \/ Dump(s) \/ Notify(s) \/ RestoreScale(s) \/ ReleaseSlot(s)
    <3>1. job[s].step # "none" /\ Marks(s)
      BY <2>3 DEF AskForSlot, Dump, Notify, RestoreScale, ReleaseSlot, At, Marks
    <3>2. \E x \in Steps : Goto(s, x)
      BY <1>e, <2>3 DEF AskForSlot, Dump, Notify, RestoreScale, ReleaseSlot
    <3> QED BY <1>0, <3>1, <3>2, JobGoes
  <2>4. CASE Complete(s) \/ Catch(s)
    <3>1. job[s].step # "none" /\ Marks(s)
      BY <2>4 DEF Complete, Catch, At, Marks, Finished
    <3>2. \E x \in Steps : Goto(s, x)
      BY <1>e, <2>4 DEF Complete, Catch
    <3> QED BY <1>0, <3>1, <3>2, JobGoes
  <2>5. CASE Fail(s)
    <3>1. job[s].step # "none" /\ Marks(s)
      BY <2>5 DEF Fail, At, Marks, Finished
    <3>2. job' = [job EXCEPT ![s].step = "ending", ![s].threw = TRUE]
      BY <2>5 DEF Fail
    <3> QED BY <1>0, <1>e, <3>1, <3>2, JobThrows
  <2> QED BY <1>1, <2>1, <2>2, <2>3, <2>4, <2>5 DEF JobStep
<1>2. ASSUME NEW s \in Sessions, JobRejected(s)
      PROVE  JobTypes'
  <2>1. job[s].step # "none" /\ Marks(s)
    BY <1>2 DEF JobRejected, At, Marks
  <2>2. CASE \E x \in Steps : Goto(s, x)
    BY <1>0, <2>1, <2>2, JobGoes
  <2>3. CASE \E x \in Steps : job' = [job EXCEPT ![s].step = x, ![s].threw = TRUE]
    BY <1>0, <2>1, <2>3, JobThrows
  <2> QED BY <1>e, <1>2, <2>2, <2>3 DEF JobRejected
<1>3. ASSUME NEW s \in Sessions, CleanUp(s)
      PROVE  JobTypes'
  BY <1>0, <1>3 DEF CleanUp, At, Set, JobTypes, Finished
<1>4. ASSUME NEW s \in Sessions, NEW env \in Env, StartManually(s, env)
      PROVE  JobTypes'
  BY <1>4, StartType DEF StartManually, JobTypes
<1>5. ASSUME NEW w \in Workers, WorkerStep(w) \/ WorkerRejected(w)
      PROVE  JobTypes'
  <2>1. CASE WorkerStarts(w)
    BY <2>1, StartType DEF WorkersInv, WorkerStarts, JobTypes
  <2>2. CASE NextEnvironment(w) \/ PollEnds(w) \/ Deadline(w) \/ WorkerRejected(w)
    BY <1>0, <2>2 DEF NextEnvironment, PollEnds, Deadline, WorkerRejected, WorkerOnly, JobTypes
  <2> QED BY <1>5, <2>1, <2>2 DEF WorkerStep
<1>6. CASE RunBegins \/ RunEnds
  BY <1>0, <1>6 DEF RunBegins, RunEnds, WorkerOnly, JobTypes
<1>7. CASE Stop
  <2>1. UNCHANGED status
    BY <1>7 DEF Stop
  <2>2. \A s \in Sessions :
          /\ job'[s] \in Job
          /\ job'[s].step = IF job[s].step = "none" THEN "none" ELSE "lost"
    BY <1>0, <1>7 DEF Stop, At, JobTypes, Job, JobSteps, NoJob
  <2>3. job' \in [Sessions -> Job]
    BY <1>7, <2>2 DEF Stop
  <2> QED BY <1>0, <2>1, <2>2, <2>3 DEF JobTypes
<1>8. CASE UNCHANGED vars
  BY <1>0, <1>8 DEF vars, backupVars, JobTypes
<1> QED BY <1>1, <1>2, <1>3, <1>4, <1>5, <1>6, <1>7, <1>8 DEF Next

\* The session of a backup is dumped before it is called completed, and has an environment.
LEMMA JobsStep ==
  ASSUME TypeOK, JobsInv, WorkersInv, [Next]_vars
  PROVE  JobsInv'
<1>0. JobTypes /\ JobTypes'
  BY TypeParts, JobTypesStep
<1> DEFINE Same(s) == job'[s] = job[s] /\ status'[s] = status[s]
           OK(s) == /\ job'[s].step # "none" => job'[s].env \in Env
                    /\ job'[s].step = "completing" \/ status'[s] = "completed" => s \in dumped'
                    /\ s \in dumped' => status'[s] # "none"
<1>a. \A s \in Sessions : status[s] # "none" => job'[s].env \in Env
  BY <1>0, SessionsKept DEF Kept, JobTypes, JobsInv
<1>b. \A s \in Sessions : Same(s) /\ (s \in dumped' => s \in dumped) => OK(s)
  BY SessionsKept DEF JobsInv
<1>c. \A s \in Sessions : status[s] # "none" => status'[s] # "none"
  BY SessionsKept DEF Kept
<1>1. ASSUME NEW s \in Sessions, JobStep(s) \/ JobRejected(s) \/ CleanUp(s)
      PROVE  JobsInv'
  <2>1. /\ status[s] # "none"
        /\ \A r \in Sessions \ {s} : Same(r) /\ (r \in dumped' => r \in dumped)
    <3>1. CASE Begin(s) \/ Complete(s) \/ Fail(s) \/ Catch(s)
      BY <1>0, <3>1 DEF Begin, Complete, Fail, Catch, At, Set, Goto, JobTypes, JobOnly
    <3>2. CASE Dump(s) \/ ScaleDown(s) \/ Notify(s) \/ RestoreScale(s) \/ ReleaseSlot(s)
      BY <1>0, <3>2 DEF Dump, ScaleDown, Notify, RestoreScale, ReleaseSlot, At, Goto, JobTypes
    <3>3. CASE AskForSlot(s) \/ JobRejected(s) \/ CleanUp(s)
      BY <1>0, <3>3 DEF AskForSlot, JobRejected, CleanUp, At, Set, Goto, JobTypes, Unfinished
    <3> QED BY <1>1, <3>1, <3>2, <3>3 DEF JobStep
  <2>2. job'[s].step = "completing" \/ status'[s] = "completed" => s \in dumped'
    <3>1. CASE Begin(s)
      BY <1>0, <3>1 DEF Begin, Set, Goto, JobTypes, Job
    <3>2. CASE Complete(s)
      BY <1>0, <3>2 DEF Complete, At, Set, Goto, JobTypes, Job, JobsInv
    <3>3. CASE Fail(s) \/ Catch(s)
      BY <1>0, <3>3 DEF Fail, Catch, Set, Goto, JobTypes, Job
    <3>4. CASE Dump(s)
      BY <1>0, <3>4 DEF Dump, Goto, JobTypes, Job, JobsInv
    <3>5. CASE ScaleDown(s) \/ Notify(s) \/ RestoreScale(s)
      BY <1>0, <3>5 DEF ScaleDown, Notify, RestoreScale, Goto, JobTypes, Job, JobsInv
    <3>6. CASE AskForSlot(s) \/ ReleaseSlot(s) \/ JobRejected(s)
      BY <1>0, <3>6 DEF AskForSlot, ReleaseSlot, JobRejected, Goto, JobTypes, Job, JobsInv
    <3>7. CASE CleanUp(s)
      BY <1>0, <3>7 DEF CleanUp, At, Set, JobTypes
    <3> QED BY <1>1, <3>1, <3>2, <3>3, <3>4, <3>5, <3>6, <3>7 DEF JobStep
  <2> QED BY <1>a, <1>b, <1>c, <2>1, <2>2 DEF JobsInv
<1>2. ASSUME NEW s \in Sessions, NEW env \in Env, NEW manual \in BOOLEAN,
             NEW scaleDown \in BOOLEAN, StartBackup(s, env, manual, scaleDown),
             UNCHANGED dumped
      PROVE  JobsInv'
  BY <1>b, <1>2, StartType DEF JobsInv
<1>3. ASSUME NEW s \in Sessions, NEW env \in Env, StartManually(s, env)
      PROVE  JobsInv'
  BY <1>2, <1>3 DEF StartManually
<1>4. ASSUME NEW w \in Workers, WorkerStep(w) \/ WorkerRejected(w)
      PROVE  JobsInv'
  <2>1. CASE WorkerStarts(w)
    BY <1>2, <2>1 DEF WorkersInv, WorkerStarts
  <2>2. CASE NextEnvironment(w) \/ PollEnds(w) \/ Deadline(w) \/ WorkerRejected(w)
    BY <2>2 DEF NextEnvironment, PollEnds, Deadline, WorkerRejected, WorkerOnly, JobsInv
  <2> QED BY <1>4, <2>1, <2>2 DEF WorkerStep
<1>5. CASE RunBegins \/ RunEnds
  BY <1>5 DEF RunBegins, RunEnds, WorkerOnly, JobsInv
<1>6. CASE Stop
  <2>1. ASSUME NEW s \in Sessions
        PROVE  OK(s)
    <3>1. CASE job[s].step = "none"
      BY <1>0, <1>6, <3>1 DEF Stop, At, NoJob, JobTypes, JobsInv
    <3>2. CASE job[s].step # "none"
      BY <1>6, <3>2 DEF Stop, At, NoJob, JobsInv
    <3> QED BY <3>1, <3>2
  <2> QED BY <2>1 DEF JobsInv
<1>7. CASE UNCHANGED vars
  BY <1>7 DEF vars, backupVars, JobsInv
<1> QED BY <1>1, <1>3, <1>4, <1>5, <1>6, <1>7 DEF Next

-----------------------------------------------------------------------------
(***************************************************************************)
(* The workers: a step of one keeps the environment in hand or settles it. *)
(***************************************************************************)
Settled(env) == env \in run.failures \/ DumpedByTask(env)

LEMMA DumpedStays ==
  ASSUME TypeOK, JobsInv, [Next]_vars, NEW env, DumpedByTask(env)
  PROVE  DumpedByTask(env)'
  BY SessionsKept DEF DumpedByTask, Kept, TypeOK, JobsInv

\* The other workers stay as they are, and no failure that was reported is forgotten.
OneWorker(w) ==
  /\ worker' \in [Workers -> Worker] /\ run' \in Run
  /\ \A v \in Workers \ {w} : worker'[v] = worker[v]
  /\ run'.step = run.step /\ run.failures \subseteq run'.failures

LEMMA NextEnvironmentFacts ==
  ASSUME WorkerTypes, NEW w \in Workers, NextEnvironment(w)
  PROVE  /\ OneWorker(w) /\ run'.nextIndex = run.nextIndex + 1
         /\ worker[w].step = "next"
         /\ IF run.nextIndex < Len(Environments)
            THEN /\ worker'[w].step = "starting"
                 /\ worker'[w].env = Environments[run.nextIndex + 1] /\ worker'[w].env \in Env
            ELSE worker'[w].step = "ended"
<1> USE BackupsAssumption
<1>1. run.nextIndex \in Nat /\ Len(Environments) \in Nat
      /\ DOMAIN Environments = 1 .. Len(Environments)
  BY DEF WorkerTypes, Run
<1>2. run' = [run EXCEPT !.nextIndex = @ + 1] /\ worker[w].step = "next"
  BY DEF NextEnvironment
<1>3. /\ run' \in Run /\ run'.step = run.step /\ run'.failures = run.failures
      /\ run'.nextIndex = run.nextIndex + 1
  BY <1>2 DEF WorkerTypes, Run
<1>4. CASE run.nextIndex < Len(Environments)
  <2>1. Environments[run.nextIndex + 1] \in Env
    BY <1>1, <1>4 DEF Env
  <2> DEFINE e == Environments[run.nextIndex + 1]
             r == [step |-> "starting", env |-> e, session |-> Nothing, attempt |-> 0]
  <2>2. worker' = [worker EXCEPT ![w] = r]
    BY <1>4 DEF NextEnvironment
  <2>4. r \in Worker /\ r.step = "starting" /\ r.env = e
    BY <2>1 DEF Worker
  <2>3. /\ worker' \in [Workers -> Worker]
        /\ worker'[w].step = "starting" /\ worker'[w].env = e
    <3> HIDE DEF e, r
    <3> QED BY <2>2, <2>4 DEF WorkerTypes
  <2> QED BY <1>2, <1>3, <1>4, <2>1, <2>2, <2>3 DEF OneWorker, WorkerTypes
<1>5. CASE ~(run.nextIndex < Len(Environments))
  <2>1. worker' = [worker EXCEPT ![w] = [IdleWorker EXCEPT !.step = "ended"]]
    BY <1>5 DEF NextEnvironment
  <2>2. worker' \in [Workers -> Worker] /\ worker'[w].step = "ended"
    BY <2>1 DEF WorkerTypes, Worker, IdleWorker
  <2> QED BY <1>2, <1>3, <1>5, <2>1, <2>2 DEF OneWorker, WorkerTypes
<1> QED BY <1>4, <1>5

LEMMA WorkerStartsFacts ==
  ASSUME TypeOK, WorkersInv, NEW w \in Workers, WorkerStarts(w)
  PROVE  /\ OneWorker(w) /\ UNCHANGED run
         /\ worker[w].step = "starting" /\ worker'[w].step = "polling"
         /\ worker'[w].env = worker[w].env
         /\ worker'[w].session \in Sessions /\ status'[worker'[w].session] # "none"
         /\ job'[worker'[w].session].env = worker'[w].env
         /\ ~job'[worker'[w].session].manual
<1>1. PICK s \in Sessions :
        /\ StartBackup(s, worker[w].env, FALSE, FALSE)
        /\ worker' = [worker EXCEPT ![w].step = "polling", ![w].session = s]
  BY DEF WorkerStarts
<1>2. worker[w].step = "starting" /\ worker[w].env \in Env /\ UNCHANGED run
  BY DEF WorkerStarts, WorkersInv
<1>3. /\ worker' \in [Workers -> Worker]
      /\ worker'[w].step = "polling" /\ worker'[w].env = worker[w].env
      /\ worker'[w].session = s
      /\ \A v \in Workers \ {w} : worker'[v] = worker[v]
  BY <1>1 DEF TypeOK, Worker
<1>4. job'[s].env = worker[w].env /\ ~job'[s].manual /\ status'[s] # "none"
  BY <1>1, <1>2, StartType
<1> QED BY <1>2, <1>3, <1>4 DEF OneWorker, TypeOK

\* What an error thrown in an attempt leads to: another attempt, or a report.
LEMMA RetryFacts ==
  ASSUME WorkerTypes, WorkersInv, NEW w \in Workers,
         worker[w].step \in {"starting", "polling"}, Retry(w)
  PROVE  /\ OneWorker(w) /\ run'.nextIndex = run.nextIndex
         /\ \/ worker'[w].step = "starting" /\ worker'[w].env = worker[w].env
            \/ worker'[w].step = "next" /\ worker[w].env \in run'.failures
<1> USE BackupsAssumption
<1>1. worker[w].env \in Env
  BY DEF WorkersInv
<1>2. CASE worker[w].attempt < MaxRetries
  <2>1. /\ UNCHANGED run
        /\ worker' = [worker EXCEPT ![w].step = "starting", ![w].session = Nothing,
                                     ![w].attempt = @ + 1]
    BY <1>2 DEF Retry
  <2>2. /\ worker' \in [Workers -> Worker]
        /\ worker'[w].step = "starting" /\ worker'[w].env = worker[w].env
    BY <1>2, <2>1 DEF WorkerTypes, Worker
  <2> QED BY <2>1, <2>2 DEF OneWorker, WorkerTypes
<1>3. CASE ~(worker[w].attempt < MaxRetries)
  <2>1. /\ run' = [run EXCEPT !.failures = @ \cup {worker[w].env}]
        /\ worker' = [worker EXCEPT ![w] = [IdleWorker EXCEPT !.step = "next"]]
    BY <1>3 DEF Retry, Fails
  <2>2. /\ run' \in Run /\ run'.step = run.step /\ run'.nextIndex = run.nextIndex
        /\ run'.failures = run.failures \cup {worker[w].env}
    BY <1>1, <2>1 DEF WorkerTypes, Run
  <2>3. worker' \in [Workers -> Worker] /\ worker'[w].step = "next"
    BY <2>1 DEF WorkerTypes, Worker, IdleWorker
  <2> QED BY <2>1, <2>2, <2>3 DEF OneWorker, WorkerTypes
<1> QED BY <1>2, <1>3

\* A session that has ended settles the environment of its worker.
LEMMA PollEndsFacts ==
  ASSUME TypeOK, JobsInv, WorkersInv, NEW w \in Workers, PollEnds(w)
  PROVE  /\ OneWorker(w) /\ run'.nextIndex = run.nextIndex
         /\ worker[w].step = "polling" /\ worker'[w].step = "next"
         /\ DumpedByTask(worker[w].env) \/ worker[w].env \in run'.failures
<1> USE BackupsAssumption
<1>1. /\ worker[w].step = "polling" /\ worker[w].env \in Env
      /\ worker[w].session \in Sessions
      /\ job[worker[w].session].env = worker[w].env /\ ~job[worker[w].session].manual
  BY DEF PollEnds, Polls, WorkersInv, TypeOK
<1>2. worker' = [worker EXCEPT ![w] = [IdleWorker EXCEPT !.step = "next"]]
  BY DEF PollEnds
<1>3. /\ worker' \in [Workers -> Worker] /\ worker'[w].step = "next"
      /\ \A v \in Workers \ {w} : worker'[v] = worker[v]
  BY <1>2 DEF TypeOK, Worker, IdleWorker
<1>4. CASE status[worker[w].session] = "completed" /\ UNCHANGED run
  BY <1>1, <1>3, <1>4 DEF OneWorker, TypeOK, JobsInv, DumpedByTask
<1>5. CASE Fails(w)
  <2>1. run' = [run EXCEPT !.failures = @ \cup {worker[w].env}]
    BY <1>5 DEF Fails
  <2>2. /\ run' \in Run /\ run'.step = run.step /\ run'.nextIndex = run.nextIndex
        /\ run'.failures = run.failures \cup {worker[w].env}
    BY <1>1, <2>1 DEF TypeOK, Run
  <2> QED BY <1>1, <1>3, <2>2 DEF OneWorker
<1> QED BY <1>4, <1>5 DEF PollEnds

\* Every step is one of a worker, of the task as a whole, or leaves both alone.
TaskSteps ==
  \/ \E w \in Workers : WorkerStep(w) \/ WorkerRejected(w)
  \/ RunBegins \/ RunEnds \/ Stop

LEMMA OtherSteps ==
  ASSUME [Next]_vars, ~TaskSteps
  PROVE  UNCHANGED <<worker, run>>
<1>1. ASSUME NEW s \in Sessions, JobStep(s) \/ JobRejected(s) \/ CleanUp(s)
      PROVE  UNCHANGED <<worker, run>>
  <2>1. CASE Begin(s) \/ ScaleDown(s) \/ Dump(s) \/ Complete(s) \/ Notify(s) \/ Fail(s)
    BY <2>1 DEF Begin, ScaleDown, Dump, Complete, Notify, Fail, JobOnly
  <2>2. CASE \/ AskForSlot(s) \/ RestoreScale(s) \/ ReleaseSlot(s) \/ Catch(s)
              \/ JobRejected(s) \/ CleanUp(s)
    BY <2>2 DEF AskForSlot, RestoreScale, ReleaseSlot, Catch, JobRejected, CleanUp, JobOnly
  <2> QED BY <1>1, <2>1, <2>2 DEF JobStep
<1>2. ASSUME NEW s \in Sessions, NEW env \in Env, StartManually(s, env)
      PROVE  UNCHANGED <<worker, run>>
  BY <1>2 DEF StartManually
<1>3. CASE UNCHANGED vars
  BY <1>3 DEF vars, backupVars
<1> QED BY <1>1, <1>2, <1>3 DEF Next, TaskSteps

LEMMA WorkersStep ==
  ASSUME TypeOK, JobsInv, WorkersInv, [Next]_vars
  PROVE  WorkerTypes' /\ PollTypes' /\ WorkersInv'
<1> USE BackupsAssumption
<1>0. WorkerTypes /\ PollTypes
  BY TypeParts
<1> DEFINE Fine(w) ==
      /\ worker'[w].step = "polling" =>
           /\ worker'[w].session \in Sessions /\ status'[worker'[w].session] # "none"
           /\ job'[worker'[w].session].env = worker'[w].env
           /\ ~job'[worker'[w].session].manual
      /\ worker'[w].step \in {"starting", "polling"} => worker'[w].env \in Env
      /\ worker'[w].step = "ended" => run'.nextIndex >= Len(Environments)
      /\ run'.step # "going" => worker'[w].step = "idle"
<1>a. ASSUME \A w \in Workers : Fine(w)
      PROVE  PollTypes' /\ WorkersInv'
  BY <1>a DEF PollTypes, WorkersInv
<1>b. ASSUME NEW v \in Workers, worker'[v] = worker[v], run' \in Run, run'.step = run.step,
             run'.nextIndex >= run.nextIndex
      PROVE  Fine(v)
  <2>1. worker[v].step = "polling" => status[worker[v].session] # "none"
    BY <1>0 DEF PollTypes
  <2>2. /\ run'.nextIndex >= run.nextIndex /\ run'.nextIndex \in Nat
        /\ run.nextIndex \in Nat /\ Len(Environments) \in Nat
    BY <1>0, <1>b DEF WorkerTypes, Run
  <2>3. worker[v].step = "ended" => run.nextIndex >= Len(Environments)
    BY DEF WorkersInv
  <2>4. worker[v].step = "polling" => worker[v].session \in Sessions
    BY <1>0 DEF PollTypes
  <2>5. worker'[v].step = "ended" => run'.nextIndex >= Len(Environments)
    <3> SUFFICES ASSUME worker'[v].step = "ended" PROVE run'.nextIndex >= Len(Environments)
      OBVIOUS
    <3>1. run.nextIndex >= Len(Environments)
      BY <1>b, <2>3
    <3> QED BY <2>2, <3>1
  <2>6. worker[v].step = "polling" =>
          /\ status'[worker[v].session] # "none"
          /\ job'[worker[v].session].env = worker[v].env
          /\ ~job'[worker[v].session].manual
    BY <2>1, <2>4, SessionsKept DEF WorkersInv, Kept
  <2> QED BY <1>b, <2>4, <2>5, <2>6 DEF WorkersInv
<1>1. CASE ~TaskSteps
  <2>1. UNCHANGED <<worker, run>>
    BY <1>1, OtherSteps
  <2>2. run.nextIndex >= run.nextIndex
    BY <1>0 DEF WorkerTypes, Run
  <2> QED BY <1>0, <1>a, <1>b, <2>1, <2>2 DEF WorkerTypes
<1>c. ASSUME NEW w \in Workers, OneWorker(w), Fine(w), run'.nextIndex >= run.nextIndex
      PROVE  WorkerTypes' /\ PollTypes' /\ WorkersInv'
  <2>1. \A v \in Workers : Fine(v)
    BY <1>b, <1>c DEF OneWorker
  <2> QED BY <1>a, <1>c, <2>1 DEF OneWorker, WorkerTypes
<1>d. run.nextIndex \in Nat /\ Len(Environments) \in Nat
  BY <1>0 DEF WorkerTypes, Run
<1>e. \A w \in Workers : worker[w].step # "idle" => run.step = "going"
  BY DEF WorkersInv
<1>2. ASSUME NEW w \in Workers, NextEnvironment(w)
      PROVE  WorkerTypes' /\ PollTypes' /\ WorkersInv'
  <2>1. OneWorker(w) /\ run'.nextIndex = run.nextIndex + 1 /\ worker[w].step = "next"
    BY <1>0, <1>2, NextEnvironmentFacts
  <2>2. run'.step = "going"
    BY <1>e, <2>1 DEF OneWorker
  <2>3. CASE run.nextIndex < Len(Environments)
    BY <1>0, <1>2, <1>c, <1>d, <2>1, <2>2, <2>3, NextEnvironmentFacts
  <2>4. CASE ~(run.nextIndex < Len(Environments))
    <3>1. worker'[w].step = "ended"
      BY <1>0, <1>2, <2>4, NextEnvironmentFacts
    <3>2. run'.nextIndex >= Len(Environments) /\ run'.nextIndex >= run.nextIndex
      BY <1>d, <2>1, <2>4
    <3> QED BY <1>c, <2>1, <2>2, <3>1, <3>2
  <2> QED BY <2>3, <2>4
<1>3. ASSUME NEW w \in Workers, WorkerStarts(w)
      PROVE  WorkerTypes' /\ PollTypes' /\ WorkersInv'
  <2>1. run'.step = "going" /\ run'.nextIndex >= run.nextIndex
    BY <1>3, <1>d, <1>e, WorkerStartsFacts
  <2>2. worker'[w].env \in Env
    BY <1>3, WorkerStartsFacts DEF WorkersInv
  <2> QED BY <1>3, <1>c, <2>1, <2>2, WorkerStartsFacts
<1>4. ASSUME NEW w \in Workers, worker[w].step \in {"starting", "polling"}, Retry(w)
      PROVE  WorkerTypes' /\ PollTypes' /\ WorkersInv'
  <2>1. OneWorker(w) /\ run'.nextIndex >= run.nextIndex
    BY <1>0, <1>4, <1>d, RetryFacts
  <2>2. run'.step = "going"
    BY <1>4, <1>e, <2>1 DEF OneWorker
  <2>3. worker[w].env \in Env
    BY <1>4 DEF WorkersInv
  <2>4. CASE worker'[w].step = "starting" /\ worker'[w].env = worker[w].env
    BY <1>c, <2>1, <2>2, <2>3, <2>4
  <2>5. CASE worker'[w].step = "next"
    BY <1>c, <2>1, <2>2, <2>5
  <2> QED BY <1>0, <1>4, <2>4, <2>5, RetryFacts
<1>5. ASSUME NEW w \in Workers, PollEnds(w)
      PROVE  WorkerTypes' /\ PollTypes' /\ WorkersInv'
  <2>1. OneWorker(w) /\ run'.nextIndex >= run.nextIndex /\ worker'[w].step = "next"
    BY <1>5, <1>d, PollEndsFacts
  <2>2. run'.step = "going"
    BY <1>5, <1>e, <2>1, PollEndsFacts DEF OneWorker
  <2> QED BY <1>c, <2>1, <2>2
<1>6. CASE RunBegins \/ RunEnds \/ Stop
  <2>1. run' \in Run /\ run'.step \in {"going", "over", "idle", "lost"}
    BY <1>0, <1>6 DEF RunBegins, RunEnds, Stop, WorkerTypes, Run
  <2> DEFINE ready == [IdleWorker EXCEPT !.step = "next"]
  <2>i. /\ IdleWorker \in Worker /\ IdleWorker.step = "idle"
        /\ ready \in Worker /\ ready.step = "next"
    BY DEF IdleWorker, Worker
  <2>j. \/ RunBegins /\ worker' = [w \in Workers |-> ready]
        \/ (RunEnds \/ Stop) /\ worker' = [w \in Workers |-> IdleWorker]
    BY <1>6 DEF RunBegins, RunEnds, Stop
  <2> HIDE DEF ready
  <2>2. \A w \in Workers : worker'[w] \in Worker /\ worker'[w].step \in {"idle", "next"}
    BY <2>i, <2>j
  <2>3. worker' \in [Workers -> Worker]
    BY <2>i, <2>j
  <2>4. \A w \in Workers : run'.step # "going" => worker'[w].step = "idle"
    <3>1. CASE RunBegins
      BY <1>0, <3>1 DEF RunBegins, WorkerTypes, Run
    <3> QED BY <2>i, <2>j, <3>1
  <2> QED BY <1>a, <2>1, <2>2, <2>3, <2>4 DEF WorkerTypes
<1> QED BY <1>1, <1>2, <1>3, <1>4, <1>5, <1>6
        DEF TaskSteps, WorkerStep, Deadline, WorkerRejected, Polls

LEMMA HistoryStep ==
  ASSUME TypeOK, JobsInv, WorkersInv, [Next]_vars
  PROVE  HistoryTypes'
<1> USE BackupsAssumption
<1>0. HistoryTypes /\ JobTypes
  BY TypeParts
<1>a. \A s \in Sessions : job[s].step # "none" => job[s].env \in Env
  BY DEF JobsInv
<1>b. \A w \in Workers : worker[w].step \in {"starting", "polling"} => worker[w].env \in Env
  BY DEF WorkersInv
<1>1. ASSUME NEW s \in Sessions, JobStep(s)
      PROVE  HistoryTypes'
  <2>1. CASE \/ AskForSlot(s) \/ Begin(s) \/ Complete(s) \/ Notify(s) \/ Fail(s)
              \/ ReleaseSlot(s) \/ Catch(s)
    BY <1>0, <2>1 DEF AskForSlot, Begin, Complete, Notify, Fail, ReleaseSlot, Catch, JobOnly, HistoryTypes
  <2>2. CASE ScaleDown(s) \/ RestoreScale(s)
    BY <1>0, <1>a, <2>2 DEF ScaleDown, RestoreScale, At, JobOnly, HistoryTypes
  <2>3. CASE Dump(s)
    BY <1>0, <2>3 DEF Dump, JobOnly, HistoryTypes
  <2> QED BY <1>1, <2>1, <2>2, <2>3 DEF JobStep
<1>c. ASSUME counts.rejects < MaxRejects, counts' = [counts EXCEPT !.rejects = @ + 1]
      PROVE  counts' \in [manual : 0 .. MaxManual, rejects : 0 .. MaxRejects, stops : 0 .. MaxStops]
  BY <1>0, <1>c DEF HistoryTypes
<1>2. ASSUME NEW s \in Sessions, JobRejected(s)
      PROVE  HistoryTypes'
  <2>1. flyFailed' \subseteq Env
    BY <1>0, <1>2, <1>a DEF JobRejected, At, HistoryTypes
  <2> QED BY <1>0, <1>2, <1>c, <2>1 DEF JobRejected, HistoryTypes
<1>3. ASSUME NEW s \in Sessions, CleanUp(s)
      PROVE  HistoryTypes'
  BY <1>0, <1>3 DEF CleanUp, HistoryTypes
<1>4. ASSUME NEW s \in Sessions, NEW env \in Env, StartManually(s, env)
      PROVE  HistoryTypes'
  BY <1>0, <1>4 DEF StartManually, HistoryTypes
<1>5. ASSUME NEW w \in Workers, WorkerStep(w)
      PROVE  HistoryTypes'
  <2>1. CASE NextEnvironment(w) \/ WorkerStarts(w) \/ PollEnds(w)
    BY <1>0, <2>1 DEF NextEnvironment, WorkerStarts, PollEnds, WorkerOnly, HistoryTypes
  <2>2. CASE Deadline(w)
    BY <1>0, <1>b, <2>2 DEF Deadline, Polls, WorkerOnly, HistoryTypes
  <2> QED BY <1>5, <2>1, <2>2 DEF WorkerStep
<1>6. ASSUME NEW w \in Workers, WorkerRejected(w)
      PROVE  HistoryTypes'
  <2>1. givenUp' \subseteq Env
    BY <1>0, <1>b, <1>6 DEF WorkerRejected, Polls, HistoryTypes
  <2> QED BY <1>0, <1>6, <1>c, <2>1 DEF WorkerRejected, WorkerOnly, HistoryTypes
<1>7. CASE RunBegins \/ RunEnds
  BY <1>0, <1>7 DEF RunBegins, RunEnds, WorkerOnly, HistoryTypes
<1>8. CASE Stop
  <2>1. /\ counts.stops < MaxStops /\ counts' = [counts EXCEPT !.stops = @ + 1]
        /\ UNCHANGED <<down, dumped, givenUp, flyFailed>>
    BY <1>8 DEF Stop
  <2> QED BY <1>0, <2>1 DEF HistoryTypes
<1>9. CASE UNCHANGED vars
  BY <1>0, <1>9 DEF vars, backupVars, HistoryTypes
<1> QED BY <1>1, <1>2, <1>3, <1>4, <1>5, <1>6, <1>7, <1>8, <1>9 DEF Next

-----------------------------------------------------------------------------
(***************************************************************************)
(* What has been handed out is settled or in hand.                         *)
(***************************************************************************)
Cared(i) == Settled(Environments[i]) \/ InHand(Environments[i])

LEMMA HandedOutAgain ==
  HandedOut <=>
    /\ run.step = "idle" => run.nextIndex = 0
    /\ run.step = "going" =>
         \A i \in DOMAIN Environments : i <= run.nextIndex => Cared(i)
  BY DEF HandedOut, Cared, Settled

\* A step of one worker cares for what the others and the worker itself have cared for.
LEMMA WorkerCares ==
  ASSUME TypeOK, JobsInv, WorkersInv, HandedOut, NEW w \in Workers, [Next]_vars,
         WorkerStep(w) \/ WorkerRejected(w)
  PROVE  HandedOut'
<1> USE BackupsAssumption
<1>0. WorkerTypes /\ run.nextIndex \in Nat /\ DOMAIN Environments \subseteq Nat
  BY TypeParts DEF WorkerTypes, Run
<1>1. ASSUME OneWorker(w), NEW env, Settled(env) \/ InHand(env),
             worker[w].step \in {"starting", "polling"} /\ worker[w].env = env =>
               \/ worker'[w].step \in {"starting", "polling"} /\ worker'[w].env = env
               \/ env \in run'.failures \/ DumpedByTask(env)
      PROVE  Settled(env)' \/ InHand(env)'
  <2>1. DumpedByTask(env) => DumpedByTask(env)'
    BY DumpedStays
  <2>2. CASE Settled(env)
    BY <1>1, <2>1, <2>2 DEF Settled, OneWorker
  <2>3. CASE InHand(env)
    BY <1>1, <2>1, <2>3 DEF Settled, OneWorker, InHand
  <2> QED BY <1>1, <2>2, <2>3
<1>2. ASSUME OneWorker(w), run'.nextIndex = run.nextIndex,
             worker[w].step \in {"starting", "polling"},
             \/ worker'[w].step \in {"starting", "polling"} /\ worker'[w].env = worker[w].env
             \/ worker[w].env \in run'.failures \/ DumpedByTask(worker[w].env)
      PROVE  HandedOut'
  <2>1. run'.step = run.step
    BY <1>2 DEF OneWorker
  <2>2. ASSUME run.step = "going", NEW i \in DOMAIN Environments, i <= run.nextIndex
        PROVE  Cared(i)'
    <3>1. Cared(i)
      BY <2>2, HandedOutAgain
    <3>2. Settled(Environments[i])' \/ InHand(Environments[i])'
      BY <1>1, <1>2, <3>1 DEF Cared
    <3> QED BY <3>2 DEF Cared, Settled, InHand, DumpedByTask
  <2> QED BY <1>2, <2>1, <2>2 DEF HandedOut, Cared, Settled
<1>3. CASE NextEnvironment(w)
  <2>1. /\ OneWorker(w) /\ run'.nextIndex = run.nextIndex + 1 /\ worker[w].step = "next"
        /\ run'.step = run.step /\ run.step = "going"
    BY <1>0, <1>3, NextEnvironmentFacts DEF OneWorker, WorkersInv
  <2>2. ASSUME NEW i \in DOMAIN Environments, i <= run'.nextIndex
        PROVE  Cared(i)'
    <3>1. CASE i <= run.nextIndex
      <4>1. Settled(Environments[i]) \/ InHand(Environments[i])
        BY <2>1, <3>1, HandedOutAgain DEF Cared
      <4>2. Settled(Environments[i])' \/ InHand(Environments[i])'
        BY <1>1, <2>1, <4>1
      <4> QED BY <4>2 DEF Cared, Settled, InHand, DumpedByTask
    <3>2. CASE ~(i <= run.nextIndex)
      <4>1. i = run.nextIndex + 1 /\ i <= Len(Environments)
        BY <1>0, <2>1, <2>2, <3>2
      <4>2. worker'[w].step = "starting" /\ worker'[w].env = Environments[i]
        BY <1>0, <1>3, <4>1, NextEnvironmentFacts
      <4> QED BY <4>2 DEF Cared, InHand
    <3> QED BY <3>1, <3>2
  <2> QED BY <2>1, <2>2 DEF HandedOut, Cared, Settled
<1>4. CASE WorkerStarts(w)
  BY <1>2, <1>4, WorkerStartsFacts
<1>5. CASE PollEnds(w)
  BY <1>2, <1>5, PollEndsFacts
<1>6. CASE worker[w].step \in {"starting", "polling"} /\ Retry(w)
  BY <1>0, <1>2, <1>6, RetryFacts
<1> QED BY <1>3, <1>4, <1>5, <1>6 DEF WorkerStep, Deadline, WorkerRejected, Polls

LEMMA HandedOutStep ==
  ASSUME TypeOK, JobsInv, WorkersInv, HandedOut, [Next]_vars
  PROVE  HandedOut'
<1> USE BackupsAssumption
<1>1. CASE ~TaskSteps
  <2>1. UNCHANGED <<worker, run>>
    BY <1>1, OtherSteps
  <2>2. \A env : DumpedByTask(env) => DumpedByTask(env)'
    BY DumpedStays
  <2>3. \A env : InHand(env) => InHand(env)'
    BY <2>1 DEF InHand
  <2> QED BY <2>1, <2>2, <2>3 DEF HandedOut, DumpedByTask, InHand
<1>2. ASSUME NEW w \in Workers, WorkerStep(w) \/ WorkerRejected(w)
      PROVE  HandedOut'
  BY <1>2, WorkerCares
<1>3. CASE RunBegins
  <2>1. run'.step = "going" /\ run'.nextIndex = 0
    BY <1>3, TypeParts DEF RunBegins, WorkerTypes, Run, HandedOut
  <2>2. DOMAIN Environments = 1 .. Len(Environments)
    OBVIOUS
  <2>3. \A i \in DOMAIN Environments : ~(i <= run'.nextIndex)
    BY <2>1, <2>2
  <2> QED BY <2>1, <2>3 DEF HandedOut
<1>4. CASE RunEnds
  <2>1. run'.step = "over"
    BY <1>4, TypeParts DEF RunEnds, WorkerTypes, Run
  <2> QED BY <2>1 DEF HandedOut
<1>5. CASE Stop
  <2>1. \/ run.step = "going" /\ run'.step = "lost"
        \/ run.step # "going" /\ run' = run
    BY <1>5, TypeParts DEF Stop, WorkerTypes, Run
  <2> QED BY <2>1 DEF HandedOut
<1> QED BY <1>1, <1>2, <1>3, <1>4, <1>5 DEF TaskSteps

\* When the last worker has ended every environment has been handed out, and none is in
\* hand: what is left is settled.
LEMMA ReportStep ==
  ASSUME TypeOK, JobsInv, WorkersInv, HandedOut, RunReportsTruth, [Next]_vars
  PROVE  RunReportsTruth'
<1> USE BackupsAssumption
<1> DEFINE Truth == \A env \in Env : env \in run.failures \/ DumpedByTask(env)
<1>0. WorkerTypes
  BY TypeParts
<1>1. RunReportsTruth <=> (run.step = "over" => Truth)
  BY DEF RunReportsTruth, DumpedByTask
<1>2. ASSUME Truth, run.failures \subseteq run'.failures
      PROVE  RunReportsTruth'
  <2>1. \A env \in Env : env \in run'.failures \/ DumpedByTask(env)'
    BY <1>2, DumpedStays
  <2> QED BY <2>1 DEF RunReportsTruth, DumpedByTask
<1>3. CASE ~TaskSteps
  <2>1. run' = run
    BY <1>3, OtherSteps
  <2>2. CASE run.step = "over"
    BY <1>1, <1>2, <2>1, <2>2
  <2> QED BY <2>1, <2>2 DEF RunReportsTruth
<1>4. ASSUME NEW w \in Workers, WorkerStep(w) \/ WorkerRejected(w)
      PROVE  RunReportsTruth'
  <2>1. worker[w].step \in {"next", "starting", "polling"}
    BY <1>4 DEF WorkerStep, NextEnvironment, WorkerStarts, PollEnds, Deadline, WorkerRejected, Polls
  <2>2. run.step = "going"
    BY <2>1 DEF WorkersInv
  <2>3. OneWorker(w)
    BY <1>0, <1>4, NextEnvironmentFacts, WorkerStartsFacts, PollEndsFacts, RetryFacts
    DEF WorkerStep, Deadline, WorkerRejected, Polls
  <2>4. run'.step = "going"
    BY <2>2, <2>3 DEF OneWorker
  <2> QED BY <2>4 DEF RunReportsTruth
<1>5. CASE RunBegins
  <2>1. run'.step = "going"
    BY <1>0, <1>5 DEF RunBegins, WorkerTypes, Run
  <2> QED BY <2>1 DEF RunReportsTruth
<1>6. CASE RunEnds
  <2>1. run.step = "going" /\ \A w \in Workers : worker[w].step = "ended"
    BY <1>6 DEF RunEnds
  <2>2. PICK w \in Workers : worker[w].step = "ended"
    BY <2>1
  <2>3. run.nextIndex >= Len(Environments) /\ run.nextIndex \in Nat
    BY <1>0, <2>2 DEF WorkersInv, WorkerTypes, Run
  <2>4. /\ Len(Environments) \in Nat
        /\ DOMAIN Environments = 1 .. Len(Environments)
    OBVIOUS
  <2>5. \A i \in DOMAIN Environments : i <= run.nextIndex
    BY <2>3, <2>4
  <2>6. Truth
    <3>1. \A i \in DOMAIN Environments : Cared(i)
      BY <2>1, <2>5, HandedOutAgain
    <3>2. \A env : ~InHand(env)
      BY <2>1 DEF InHand
    <3> QED BY <3>1, <3>2 DEF Env, Cared, Settled
  <2>7. run'.failures = run.failures
    BY <1>0, <1>6 DEF RunEnds, WorkerTypes, Run
  <2> QED BY <1>2, <2>6, <2>7
<1>7. CASE Stop
  <2>1. \/ run'.step = "lost"
        \/ run.step # "going" /\ run' = run
    BY <1>0, <1>7 DEF Stop, WorkerTypes, Run
  <2>2. CASE run' = run /\ run.step = "over"
    BY <1>1, <1>2, <2>2
  <2> QED BY <2>1, <2>2 DEF RunReportsTruth
<1> QED BY <1>3, <1>4, <1>5, <1>6, <1>7 DEF TaskSteps

-----------------------------------------------------------------------------
LEMMA InvStep == IInv /\ [Next]_vars => IInv'
<1> SUFFICES ASSUME IInv, [Next]_vars PROVE IInv'
  OBVIOUS
<1>1. SlotsInv'
  BY SlotStep, SlotsInvStep DEF IInv
<1>2. TypeOK'
  <2>1. JobTypes' /\ WorkerTypes' /\ PollTypes' /\ HistoryTypes'
    BY JobTypesStep, WorkersStep, HistoryStep DEF IInv
  <2>2. SlotsTypeOK'
    BY <1>1 DEF SlotsInv
  <2> QED BY <2>1, <2>2 DEF TypeOK, JobTypes, WorkerTypes, PollTypes, HistoryTypes
<1>3. JobsInv' /\ WorkersInv' /\ HandedOut' /\ RunReportsTruth'
  BY JobsStep, WorkersStep, HandedOutStep, ReportStep DEF IInv
<1> QED BY <1>1, <1>2, <1>3 DEF IInv

\* A worker that polls always has a session, one that is in the database, and a backup
\* is going on for none that has not been created.
THEOREM TypeCorrect == Spec => []TypeOK
<1>1. IInv => TypeOK
  BY DEF IInv
<1> QED BY InvInit, InvStep, <1>1, PTL DEF Spec

\* For any environments and workers, whatever is rejected, hangs, is retried or is
\* interrupted, and whatever an admin starts meanwhile: an environment that the task
\* does not report as failed has been dumped by the task.
THEOREM ReportIsTrue == Spec => []RunReportsTruth
<1>1. IInv => RunReportsTruth
  BY DEF IInv
<1> QED BY InvInit, InvStep, <1>1, PTL DEF Spec

-----------------------------------------------------------------------------
(***************************************************************************)
(* No second backup of an environment: the worker that has been handed it  *)
(* is the only one to start a backup of it, and comes back to it only when *)
(* it has stopped waiting for the one before.                              *)
(***************************************************************************)
TaskBackup(s) == ~job[s].manual /\ job[s].step \notin {"none", "lost", "over"}
Working(w) == worker[w].step \in {"starting", "polling"}
HandedBy(env, n) == \E i \in DOMAIN Environments : i <= n /\ Environments[i] = env

OneEach ==
  /\ \A v, w \in Workers : Working(v) /\ Working(w) /\ worker[v].env = worker[w].env => v = w
  /\ \A w \in Workers : Working(w) => HandedBy(worker[w].env, run.nextIndex)
  /\ \A s \in Sessions : TaskBackup(s) => HandedBy(job[s].env, run.nextIndex)
  /\ \A s \in Sessions, w \in Workers :
       TaskBackup(s) /\ worker[w].step = "starting" /\ job[s].env = worker[w].env
         => job[s].env \in givenUp
  /\ NoSecondBackup

LEMMA OneEachInit == Init => OneEach
  BY DEF Init, OneEach, TaskBackup, Working, NoSecondBackup, NoJob, IdleWorker

\* A backup that is over does not begin again, and a manual one is none of the task.
LEMMA OverStays ==
  ASSUME TypeOK, [Next]_vars, NEW s \in Sessions, job[s].step \in {"lost", "over"}
  PROVE  job'[s].step \in {"lost", "over"}
<1>0. JobTypes
  BY TypeParts
<1>s. status[s] # "none"
  BY <1>0 DEF JobTypes
<1>1. ASSUME NEW r \in Sessions, JobStep(r) \/ JobRejected(r) \/ CleanUp(r)
      PROVE  job'[s] = job[s]
  <2>1. CASE CleanUp(r)
    BY <2>1 DEF CleanUp
  <2>2. CASE r # s
    <3>1. CASE AskForSlot(r) \/ Begin(r) \/ ScaleDown(r) \/ Dump(r) \/ Complete(r) \/ Notify(r)
      BY <1>0, <2>2, <3>1 DEF AskForSlot, Begin, ScaleDown, Dump, Complete, Notify, Goto, JobTypes
    <3>2. CASE Fail(r) \/ RestoreScale(r) \/ ReleaseSlot(r) \/ Catch(r) \/ JobRejected(r)
      BY <1>0, <2>2, <3>2 DEF Fail, RestoreScale, ReleaseSlot, Catch, JobRejected, Goto, JobTypes
    <3> QED BY <1>1, <2>1, <3>1, <3>2 DEF JobStep
  <2>3. CASE r = s /\ ~CleanUp(r)
    BY <1>1, <2>3 DEF JobStep, AskForSlot, Begin, ScaleDown, Dump, Complete, Notify, Fail, RestoreScale,
           ReleaseSlot, Catch, JobRejected, At
  <2> QED BY <2>1, <2>2, <2>3
<1>2. ASSUME NEW r \in Sessions, NEW env \in Env, StartManually(r, env)
      PROVE  job'[s] = job[s]
  BY <1>s, <1>2, StartKeeps DEF StartManually
<1>3. ASSUME NEW w \in Workers, WorkerStep(w) \/ WorkerRejected(w)
      PROVE  job'[s] = job[s]
  <2>1. CASE WorkerStarts(w)
    BY <1>s, <2>1, StartKeeps DEF WorkerStarts
  <2>2. CASE NextEnvironment(w) \/ PollEnds(w) \/ Deadline(w) \/ WorkerRejected(w)
    BY <2>2 DEF NextEnvironment, PollEnds, Deadline, WorkerRejected, WorkerOnly
  <2> QED BY <1>3, <2>1, <2>2 DEF WorkerStep
<1>4. CASE RunBegins \/ RunEnds \/ UNCHANGED vars
  BY <1>4 DEF RunBegins, RunEnds, WorkerOnly, vars, backupVars
<1>5. CASE Stop
  BY <1>5 DEF Stop, At, NoJob
<1> QED BY <1>1, <1>2, <1>3, <1>4, <1>5 DEF Next

\* The backups of the task stay those of their environments, except for the one that a worker
\* starts.
Stays(s) == TaskBackup(s) /\ job'[s].env = job[s].env
Started(w, s) == WorkerStarts(w) /\ worker'[w].session = s

LEMMA TaskBackups ==
  ASSUME TypeOK, WorkersInv, [Next]_vars
  PROVE  \/ \A s \in Sessions : TaskBackup(s)' => Stays(s)
         \/ \E w \in Workers, x \in Sessions :
              Started(w, x) /\ \A s \in Sessions \ {x} : TaskBackup(s)' => Stays(s)
<1>0. JobTypes /\ JobTypes'
  BY TypeParts, JobTypesStep
<1>1. ASSUME NEW s \in Sessions, status[s] # "none", TaskBackup(s)' PROVE Stays(s)
  <2>1. job'[s].env = job[s].env /\ job'[s].manual = job[s].manual
    BY <1>1, SessionsKept DEF Kept
  <2>2. job[s].step # "none"
    BY <1>0, <1>1 DEF JobTypes
  <2>3. job[s].step \notin {"lost", "over"}
    BY <1>1, OverStays DEF TaskBackup
  <2> QED BY <1>1, <2>1, <2>2, <2>3 DEF TaskBackup, Stays
<1>2. CASE \E w \in Workers : WorkerStarts(w)
  <2>1. PICK w \in Workers, x \in Sessions :
          /\ WorkerStarts(w) /\ StartBackup(x, worker[w].env, FALSE, FALSE)
          /\ worker' = [worker EXCEPT ![w].step = "polling", ![w].session = x]
    BY <1>2 DEF WorkerStarts
  <2>2. worker'[w].session = x
    BY <2>1 DEF TypeOK, Worker
  <2>3. worker[w].env \in Env
    BY <2>1 DEF WorkerStarts, WorkersInv
  <2>4. \A s \in Sessions \ {x} : job'[s] = job[s] /\ status'[s] = status[s]
    BY <2>1, <2>3, StartType
  <2>5. \A s \in Sessions \ {x} : TaskBackup(s)' => Stays(s)
    BY <2>4 DEF TaskBackup, Stays
  <2> QED BY <2>1, <2>2, <2>5 DEF Started
<1>3. CASE ~\E w \in Workers : WorkerStarts(w)
  <2> SUFFICES ASSUME NEW s \in Sessions, status[s] = "none", TaskBackup(s)' PROVE FALSE
    BY <1>1
  <2>1. job[s].step = "none"
    BY <1>0 DEF JobTypes
  <2>2. ASSUME NEW r \in Sessions, NEW env \in Env, StartManually(r, env) PROVE FALSE
    <3>1. PICK scaleDown \in BOOLEAN : StartBackup(r, env, TRUE, scaleDown)
      BY <2>2 DEF StartManually
    <3>2. r = s
      BY <2>1, <3>1, StartType DEF TaskBackup
    <3>3. job'[r].manual
      BY <3>1, StartType
    <3> QED BY <3>2, <3>3 DEF TaskBackup
  <2>3. job'[s].step = "none"
    <3>1. CASE \E r \in Sessions : JobStep(r) \/ JobRejected(r) \/ CleanUp(r)
      <4>1. PICK r \in Sessions : JobStep(r) \/ JobRejected(r) \/ CleanUp(r)
        BY <3>1
      <4>2. CASE CleanUp(r)
        BY <2>1, <4>2 DEF CleanUp
      <4>3. CASE ~CleanUp(r) /\ r # s
        <5>1. CASE AskForSlot(r) \/ Begin(r) \/ ScaleDown(r) \/ Dump(r) \/ Complete(r) \/ Notify(r)
          BY <1>0, <2>1, <4>3, <5>1
             DEF AskForSlot, Begin, ScaleDown, Dump, Complete, Notify, Goto, JobTypes
        <5>2. CASE Fail(r) \/ RestoreScale(r) \/ ReleaseSlot(r) \/ Catch(r) \/ JobRejected(r)
          BY <1>0, <2>1, <4>3, <5>2
             DEF Fail, RestoreScale, ReleaseSlot, Catch, JobRejected, Goto, JobTypes
        <5> QED BY <4>1, <4>3, <5>1, <5>2 DEF JobStep
      <4>4. CASE ~CleanUp(r) /\ r = s
        BY <2>1, <4>1, <4>4 DEF JobStep, AskForSlot, Begin, ScaleDown, Dump, Complete, Notify, Fail,
               RestoreScale, ReleaseSlot, Catch, JobRejected, At
      <4> QED BY <4>2, <4>3, <4>4
    <3>2. CASE \E w \in Workers : WorkerStep(w) \/ WorkerRejected(w)
      BY <1>3, <2>1, <3>2 DEF WorkerStep, NextEnvironment, PollEnds, Deadline, WorkerRejected, WorkerOnly
    <3>3. CASE RunBegins \/ RunEnds \/ UNCHANGED vars
      BY <2>1, <3>3 DEF RunBegins, RunEnds, WorkerOnly, vars, backupVars
    <3>4. CASE Stop
      BY <2>1, <3>4 DEF Stop, At, NoJob
    <3> QED BY <2>2, <3>1, <3>2, <3>3, <3>4 DEF Next
  <2> QED BY <2>3 DEF TaskBackup
<1> QED BY <1>2, <1>3

\* What has been handed out stays so, and what has been given up too.
LEMMA HandedStays ==
  ASSUME TypeOK, JobsInv, WorkersInv, [Next]_vars, run.step = "idle" => run.nextIndex = 0
  PROVE  /\ \A env : HandedBy(env, run.nextIndex) => HandedBy(env, run'.nextIndex)
         /\ givenUp \subseteq givenUp'
<1> USE BackupsAssumption
<1>0. WorkerTypes /\ run.nextIndex \in Nat /\ DOMAIN Environments \subseteq Nat
  BY TypeParts DEF WorkerTypes, Run
<1>1. run'.nextIndex \in Nat /\ run'.nextIndex >= run.nextIndex
  <2>1. CASE ~TaskSteps
    BY <1>0, <2>1, OtherSteps
  <2>2. ASSUME NEW w \in Workers, WorkerStep(w) \/ WorkerRejected(w)
        PROVE  run'.nextIndex \in Nat /\ run'.nextIndex >= run.nextIndex
    <3>1. run'.nextIndex \in {run.nextIndex, run.nextIndex + 1}
      BY <1>0, <2>2, NextEnvironmentFacts, WorkerStartsFacts, PollEndsFacts, RetryFacts
         DEF WorkerStep, Deadline, WorkerRejected, Polls
    <3> QED BY <1>0, <3>1
  <2>3. CASE RunBegins \/ RunEnds \/ Stop
    <3>1. run'.nextIndex = run.nextIndex
      BY <1>0, <2>3 DEF RunBegins, RunEnds, Stop, WorkerTypes, Run
    <3> QED BY <1>0, <3>1
  <2> QED BY <2>1, <2>2, <2>3 DEF TaskSteps
<1>2. ASSUME NEW env, HandedBy(env, run.nextIndex) PROVE HandedBy(env, run'.nextIndex)
  <2>1. PICK i \in DOMAIN Environments : i <= run.nextIndex /\ Environments[i] = env
    BY <1>2 DEF HandedBy
  <2>2. i <= run'.nextIndex
    BY <1>0, <1>1, <2>1
  <2> QED BY <2>1, <2>2 DEF HandedBy
<1>3. givenUp \subseteq givenUp'
  <2>1. CASE \E s \in Sessions : JobStep(s) \/ JobRejected(s) \/ CleanUp(s)
    BY <2>1 DEF JobStep, AskForSlot, Begin, ScaleDown, Dump, Complete, Notify, Fail, RestoreScale,
           ReleaseSlot, Catch, JobRejected, CleanUp, JobOnly
  <2>2. CASE \E w \in Workers : WorkerStep(w) \/ WorkerRejected(w)
    BY <2>2 DEF WorkerStep, NextEnvironment, WorkerStarts, PollEnds, Deadline, WorkerRejected
  <2>3. CASE \/ RunBegins \/ RunEnds \/ Stop \/ UNCHANGED vars
              \/ \E s \in Sessions, env \in Env : StartManually(s, env)
    BY <2>3 DEF RunBegins, RunEnds, Stop, StartManually, vars, backupVars
  <2> QED BY <2>1, <2>2, <2>3 DEF Next
<1> QED BY <1>2, <1>3

\* A worker that works has kept its environment, and starts again only after it has given it
\* up; or it has been handed the next one.
KeepsWork(w) ==
  /\ Working(w) /\ worker'[w].env = worker[w].env
  /\ worker'[w].step = "starting" => worker[w].step = "starting" \/ worker[w].env \in givenUp'
IsHanded(w) ==
  /\ OneWorker(w) /\ run.nextIndex + 1 \in DOMAIN Environments /\ run'.nextIndex = run.nextIndex + 1
  /\ worker'[w].env = Environments[run.nextIndex + 1]

LEMMA WorkGoesOn ==
  ASSUME TypeOK, JobsInv, WorkersInv, [Next]_vars, NEW w \in Workers, Working(w)'
  PROVE  KeepsWork(w) \/ IsHanded(w)
<1> USE BackupsAssumption
<1>0. WorkerTypes /\ run.nextIndex \in Nat
  BY TypeParts DEF WorkerTypes, Run
<1>1. ASSUME worker'[w] = worker[w] PROVE KeepsWork(w)
  BY <1>1 DEF Working, KeepsWork
<1>2. CASE ~TaskSteps
  BY <1>1, <1>2, OtherSteps
<1>3. ASSUME NEW v \in Workers, WorkerStep(v) \/ WorkerRejected(v)
      PROVE  KeepsWork(w) \/ IsHanded(w)
  <2>1. OneWorker(v)
    BY <1>0, <1>3, NextEnvironmentFacts, WorkerStartsFacts, PollEndsFacts, RetryFacts
    DEF WorkerStep, Deadline, WorkerRejected, Polls
  <2>2. CASE v # w
    BY <1>1, <2>1, <2>2 DEF OneWorker
  <2>3. CASE v = w /\ NextEnvironment(v)
    <3>1. run.nextIndex < Len(Environments)
      BY <1>0, <2>3, NextEnvironmentFacts DEF Working
    <3>2. run.nextIndex + 1 \in DOMAIN Environments
      <4>1. DOMAIN Environments = 1 .. Len(Environments) /\ Len(Environments) \in Nat
        OBVIOUS
      <4> QED BY <1>0, <3>1, <4>1
    <3> QED BY <1>0, <2>1, <2>3, <3>1, <3>2, NextEnvironmentFacts DEF IsHanded
  <2>4. CASE v = w /\ WorkerStarts(v)
    BY <2>4, WorkerStartsFacts DEF KeepsWork, Working
  <2>5. CASE v = w /\ PollEnds(v)
    BY <2>5, PollEndsFacts DEF Working
  <2>6. CASE v = w /\ (Deadline(v) \/ WorkerRejected(v))
    <3>1. worker[v].step \in {"starting", "polling"} /\ Retry(v)
      BY <2>6 DEF Deadline, WorkerRejected, Polls
    <3>2. worker'[v].step = "starting" /\ worker'[v].env = worker[v].env
      BY <1>0, <2>6, <3>1, RetryFacts DEF Working
    <3>3. worker[v].step = "starting" \/ worker[v].env \in givenUp'
      BY <2>6 DEF Deadline, WorkerRejected, Polls
    <3> QED BY <2>6, <3>1, <3>2, <3>3 DEF KeepsWork, Working
  <2> QED BY <1>3, <2>2, <2>3, <2>4, <2>5, <2>6 DEF WorkerStep
<1>4. CASE RunBegins \/ RunEnds \/ Stop
  <2>1. CASE RunBegins
    <3>1. worker'[w] = [IdleWorker EXCEPT !.step = "next"]
      BY <2>1 DEF RunBegins
    <3>2. worker'[w].step = "next"
      BY <3>1 DEF IdleWorker
    <3> QED BY <3>2 DEF Working
  <2>2. CASE RunEnds \/ Stop
    <3>1. worker'[w] = IdleWorker
      BY <2>2 DEF RunEnds, Stop
    <3> QED BY <3>1 DEF Working, IdleWorker
  <2> QED BY <1>4, <2>1, <2>2
<1> QED BY <1>2, <1>3, <1>4 DEF TaskSteps

LEMMA OneEachStep ==
  ASSUME TypeOK, JobsInv, WorkersInv, HandedOut, OneEach, [Next]_vars
  PROVE  OneEach'
<1> USE BackupsAssumption
<1>0. /\ \A env : HandedBy(env, run.nextIndex) => HandedBy(env, run'.nextIndex)
      /\ givenUp \subseteq givenUp'
  BY HandedStays DEF HandedOut
<1>n. run.nextIndex \in Nat /\ DOMAIN Environments \subseteq Nat
  BY TypeParts DEF WorkerTypes, Run
\* The environment handed out next is none that has been handed out.
<1>f. ASSUME NEW w \in Workers, IsHanded(w) PROVE ~HandedBy(worker'[w].env, run.nextIndex)
  <2> SUFFICES ASSUME NEW i \in DOMAIN Environments, i <= run.nextIndex,
                      Environments[i] = Environments[run.nextIndex + 1]
               PROVE  FALSE
    BY <1>f DEF IsHanded, HandedBy
  <2>1. i = run.nextIndex + 1
    BY <1>f, DistinctEnvironments DEF IsHanded
  <2> QED BY <1>n, <2>1
<1>1. ASSUME NEW w \in Workers, Working(w)' PROVE HandedBy(worker'[w].env, run'.nextIndex)
  <2>1. CASE KeepsWork(w)
    BY <1>0, <2>1 DEF KeepsWork, OneEach
  <2>2. CASE IsHanded(w)
    <3>1. run.nextIndex + 1 <= run'.nextIndex
      BY <1>n, <2>2 DEF IsHanded
    <3> QED BY <2>2, <3>1 DEF IsHanded, HandedBy
  <2> QED BY <1>1, <2>1, <2>2, WorkGoesOn
<1>2. ASSUME NEW v \in Workers, NEW w \in Workers, Working(v)', Working(w)',
             worker'[v].env = worker'[w].env
      PROVE  v = w
  <2>1. CASE KeepsWork(v) /\ KeepsWork(w)
    BY <1>2, <2>1 DEF KeepsWork, OneEach
  <2>2. CASE IsHanded(v) /\ KeepsWork(w)
    BY <1>2, <1>f, <2>2 DEF KeepsWork, OneEach
  <2>3. CASE IsHanded(w) /\ KeepsWork(v)
    BY <1>2, <1>f, <2>3 DEF KeepsWork, OneEach
  <2>4. CASE IsHanded(v) /\ IsHanded(w) /\ v # w
    <3>1. worker'[v] = worker[v]
      BY <2>4 DEF IsHanded, OneWorker
    <3>2. HandedBy(worker[v].env, run.nextIndex)
      BY <1>2, <3>1 DEF Working, OneEach
    <3> QED BY <1>f, <2>4, <3>1, <3>2
  <2> QED BY <1>2, <2>1, <2>2, <2>3, <2>4, WorkGoesOn
\* Of a backup that was there already.
<1>3. ASSUME NEW s \in Sessions, Stays(s) PROVE HandedBy(job'[s].env, run'.nextIndex)
  BY <1>0, <1>3 DEF Stays, OneEach
<1>4. ASSUME NEW s \in Sessions, Stays(s), NEW w \in Workers, worker'[w].step = "starting",
             job'[s].env = worker'[w].env
      PROVE  job'[s].env \in givenUp'
  <2>1. CASE KeepsWork(w)
    BY <1>0, <1>4, <2>1 DEF Stays, KeepsWork, OneEach
  <2>2. CASE IsHanded(w)
    BY <1>4, <1>f, <2>2 DEF Stays, OneEach
  <2> QED BY <1>4, <2>1, <2>2, WorkGoesOn DEF Working
<1>5. ASSUME NEW r \in Sessions, NEW s \in Sessions, r # s, Stays(r), Stays(s), job'[r].env = job'[s].env
      PROVE  job'[r].env \in givenUp'
  <2>1. job[r].env = job[s].env /\ TaskBackup(r) /\ TaskBackup(s)
    BY <1>5 DEF Stays
  <2>2. job[r].env \in givenUp
    BY <1>5, <2>1 DEF OneEach, NoSecondBackup, TaskBackup
  <2> QED BY <1>0, <1>5, <2>2 DEF Stays
<1>6. NoSecondBackup' <=>
        \A r, s \in Sessions : r # s /\ job'[r].env = job'[s].env /\ TaskBackup(r)' /\ TaskBackup(s)'
          => job'[r].env \in givenUp'
  BY DEF NoSecondBackup, TaskBackup
<1>7. CASE \A s \in Sessions : TaskBackup(s)' => Stays(s)
  <2>1. NoSecondBackup'
    BY <1>5, <1>6, <1>7
  <2>2. \A s \in Sessions : TaskBackup(s)' => HandedBy(job'[s].env, run'.nextIndex)
    BY <1>3, <1>7
  <2>3. \A s \in Sessions, w \in Workers :
          TaskBackup(s)' /\ worker'[w].step = "starting" /\ job'[s].env = worker'[w].env
            => job'[s].env \in givenUp'
    BY <1>4, <1>7
  <2> QED BY <1>1, <1>2, <2>1, <2>2, <2>3 DEF OneEach
<1>8. ASSUME NEW x \in Workers, NEW new \in Sessions, Started(x, new),
             \A s \in Sessions \ {new} : TaskBackup(s)' => Stays(s)
      PROVE  OneEach'
  <2>1. /\ OneWorker(x) /\ worker[x].step = "starting" /\ worker'[x].step = "polling"
        /\ worker'[x].env = worker[x].env /\ job'[new].env = worker[x].env
    BY <1>8, WorkerStartsFacts DEF Started
  \* A backup that goes on of the environment was given up before this one began.
  <2>2. ASSUME NEW s \in Sessions \ {new}, TaskBackup(s)', job'[s].env = job'[new].env
        PROVE  job'[s].env \in givenUp'
    <3>1. TaskBackup(s) /\ job'[s].env = job[s].env /\ job[s].env = worker[x].env
      BY <1>8, <2>1, <2>2 DEF Stays
    <3>2. job[s].env \in givenUp
      BY <2>1, <3>1 DEF OneEach
    <3> QED BY <1>0, <3>1, <3>2
  <2>3. NoSecondBackup'
    BY <1>5, <1>6, <1>8, <2>2
  <2>4. HandedBy(job'[new].env, run'.nextIndex)
    BY <1>0, <2>1 DEF OneEach, Working
  <2>5. \A s \in Sessions : TaskBackup(s)' => HandedBy(job'[s].env, run'.nextIndex)
    BY <1>3, <1>8, <2>4
  <2>6. ASSUME NEW w \in Workers, worker'[w].step = "starting", job'[new].env = worker'[w].env
        PROVE  FALSE
    <3>1. w = x
      BY <1>2, <2>1, <2>6 DEF Working
    <3> QED BY <2>1, <2>6, <3>1
  <2>7. \A s \in Sessions, w \in Workers :
          TaskBackup(s)' /\ worker'[w].step = "starting" /\ job'[s].env = worker'[w].env
            => job'[s].env \in givenUp'
    BY <1>4, <1>8, <2>6
  <2> QED BY <1>1, <1>2, <2>3, <2>5, <2>7 DEF OneEach
<1> QED BY <1>7, <1>8, TaskBackups

\* For any environments, each in the list once, and any workers: the task never has two backups
\* of one environment going on unless a worker has stopped waiting for the first, which a
\* deadline or a failed look at the session brings about (backupEnvironment).
THEOREM NeverTwoBackups == Spec => []NoSecondBackup
<1>1. Init => IInv /\ OneEach
  BY InvInit, OneEachInit
<1>2. IInv /\ OneEach /\ [Next]_vars => (IInv /\ OneEach)'
  BY InvStep, OneEachStep DEF IInv
<1>3. OneEach => NoSecondBackup
  BY DEF OneEach
<1> QED BY <1>1, <1>2, <1>3, PTL DEF Spec
-----------------------------------------------------------------------------
(***************************************************************************)
(* The scale of an app: the backup that scales it down keeps going until   *)
(* its finally block has asked for it to be scaled up.                     *)
(***************************************************************************)
Keeping(s) ==
  job[s].scaled /\ job[s].step \in {"dumping", "completing", "notifying", "failing", "ending"}

\* Of a step of a backup: the environment that it scales down, or up, is its own.
ScaledBy(s) ==
  /\ job'[s].env = job[s].env
  /\ \A r \in Sessions \ {s} : job'[r] = job[r]
  /\ flyFailed \subseteq flyFailed'
  /\ \A env \in down' \ down : env = job[s].env /\ Keeping(s)'
  /\ Keeping(s) => Keeping(s)' \/ job[s].env \notin down' \/ job[s].env \in flyFailed'

LEMMA ScaleMoves ==
  ASSUME TypeOK, NEW s \in Sessions, JobStep(s) \/ JobRejected(s)
  PROVE  ScaledBy(s) /\ counts'.stops = counts.stops
<1>0. JobTypes /\ HistoryTypes
  BY TypeParts
<1>1. job \in [Sessions -> Job]
  BY <1>0 DEF JobTypes
<1>2. counts'.stops = counts.stops
  <2>1. CASE JobStep(s)
    BY <2>1 DEF JobStep, AskForSlot, Begin, ScaleDown, Dump, Complete, Notify, Fail, RestoreScale,
           ReleaseSlot, Catch, JobOnly
  <2>2. CASE JobRejected(s)
    BY <1>0, <2>2 DEF JobRejected, HistoryTypes
  <2> QED BY <2>1, <2>2
<1>3. CASE AskForSlot(s) \/ Begin(s) \/ ReleaseSlot(s) \/ Catch(s)
  BY <1>1, <1>2, <1>3 DEF AskForSlot, Begin, ReleaseSlot, Catch, Goto, At, JobOnly, Job, ScaledBy, Keeping
<1>4. CASE ScaleDown(s)
  BY <1>1, <1>2, <1>4 DEF ScaleDown, At, JobOnly, Job, ScaledBy, Keeping
<1>5. CASE Dump(s) \/ Complete(s) \/ Notify(s) \/ Fail(s)
  BY <1>1, <1>2, <1>5 DEF Dump, Complete, Notify, Fail, Goto, At, JobOnly, Job, ScaledBy, Keeping
<1>6. CASE RestoreScale(s)
  BY <1>1, <1>2, <1>6 DEF RestoreScale, Goto, At, JobOnly, Job, ScaledBy, Keeping
<1>7. CASE JobRejected(s)
  BY <1>1, <1>2, <1>7 DEF JobRejected, Goto, At, Job, ScaledBy, Keeping
<1> QED BY <1>3, <1>4, <1>5, <1>6, <1>7 DEF JobStep

LEMMA ScaleRestoredStep ==
  ASSUME TypeOK, WorkersInv, ScaleRestored, [Next]_vars
  PROVE  ScaleRestored'
<1>0. JobTypes /\ HistoryTypes
  BY TypeParts
\* What is asked of an environment, in terms of Keeping.
<1>a. ASSUME counts.stops = 0, NEW env \in down \ flyFailed
      PROVE  \E k \in Sessions : job[k].env = env /\ Keeping(k)
  BY <1>a DEF ScaleRestored, Keeping
<1>b. SUFFICES ASSUME counts'.stops = 0, NEW env \in down' \ flyFailed'
               PROVE  \E k \in Sessions : job'[k].env = env /\ Keeping(k)'
  BY DEF ScaleRestored, Keeping
<1>1. ASSUME NEW s \in Sessions, JobStep(s) \/ JobRejected(s)
      PROVE  \E k \in Sessions : job'[k].env = env /\ Keeping(k)'
  <2>1. ScaledBy(s) /\ counts.stops = 0
    BY <1>1, <1>b, ScaleMoves
  <2>2. CASE env \notin down
    BY <1>b, <2>1, <2>2 DEF ScaledBy
  <2>3. CASE env \in down
    <3>1. env \in down \ flyFailed
      BY <1>b, <2>1, <2>3 DEF ScaledBy
    <3>2. PICK k \in Sessions : job[k].env = env /\ Keeping(k)
      BY <1>a, <2>1, <3>1
    <3>3. CASE k = s
      BY <1>b, <2>1, <3>2, <3>3 DEF ScaledBy
    <3>4. CASE k # s
      BY <2>1, <3>2, <3>4 DEF ScaledBy, Keeping
    <3> QED BY <3>3, <3>4
  <2> QED BY <2>2, <2>3
\* What is not a step of a backup leaves those that have begun, or stops the process.
<1>2. ASSUME \A k \in Sessions : status[k] # "none" => job'[k] = job[k],
             down' = down, flyFailed' = flyFailed, counts'.stops = counts.stops
      PROVE  \E k \in Sessions : job'[k].env = env /\ Keeping(k)'
  <2>1. PICK k \in Sessions : job[k].env = env /\ Keeping(k)
    BY <1>a, <1>b, <1>2
  <2>2. status[k] # "none"
    BY <1>0, <2>1 DEF JobTypes, Keeping
  <2> QED BY <1>2, <2>1, <2>2 DEF Keeping
<1>3. ASSUME NEW s \in Sessions, CleanUp(s)
      PROVE  \E k \in Sessions : job'[k].env = env /\ Keeping(k)'
  BY <1>2, <1>3 DEF CleanUp
<1>4. ASSUME NEW s \in Sessions, NEW to \in Env, StartManually(s, to)
      PROVE  \E k \in Sessions : job'[k].env = env /\ Keeping(k)'
  <2>1. \A k \in Sessions : status[k] # "none" => job'[k] = job[k]
    BY <1>4, StartKeeps DEF StartManually
  <2>2. down' = down /\ flyFailed' = flyFailed /\ counts'.stops = counts.stops
    BY <1>0, <1>4 DEF StartManually, HistoryTypes
  <2> QED BY <1>2, <2>1, <2>2
<1>5. ASSUME NEW w \in Workers, WorkerStep(w) \/ WorkerRejected(w)
      PROVE  \E k \in Sessions : job'[k].env = env /\ Keeping(k)'
  <2>1. CASE WorkerStarts(w)
    <3>1. \A k \in Sessions : status[k] # "none" => job'[k] = job[k]
      BY <2>1, StartKeeps DEF WorkerStarts
    <3> QED BY <1>2, <2>1, <3>1 DEF WorkerStarts
  <2>2. CASE NextEnvironment(w) \/ PollEnds(w) \/ Deadline(w)
    BY <1>2, <2>2 DEF NextEnvironment, PollEnds, Deadline, WorkerOnly
  <2>3. CASE WorkerRejected(w)
    BY <1>0, <1>2, <2>3 DEF WorkerRejected, WorkerOnly, HistoryTypes
  <2> QED BY <1>5, <2>1, <2>2, <2>3 DEF WorkerStep
<1>6. CASE RunBegins \/ RunEnds \/ UNCHANGED vars
  BY <1>2, <1>6 DEF RunBegins, RunEnds, WorkerOnly, vars, backupVars
<1>7. CASE Stop
  <2>1. counts.stops \in Nat
    BY <1>0, BackupsAssumption DEF HistoryTypes
  <2>2. counts'.stops = counts.stops + 1
    BY <1>0, <1>7 DEF Stop, HistoryTypes
  <2> QED BY <1>b, <2>1, <2>2
<1> QED BY <1>1, <1>3, <1>4, <1>5, <1>6, <1>7 DEF Next

\* For any environments and however many backups overlap, fail or are rejected: while the
\* process has not stopped, an app that is scaled down, and that flyctl has not failed to
\* scale up, has a backup that is still to scale it up (executeBackup's finally block).
THEOREM ScaleComesBack == Spec => []ScaleRestored
<1>1. Init => IInv /\ ScaleRestored
  BY InvInit DEF Init, ScaleRestored
<1>2. IInv /\ ScaleRestored /\ [Next]_vars => (IInv /\ ScaleRestored)'
  BY InvStep, ScaleRestoredStep DEF IInv
<1> QED BY <1>1, <1>2, PTL DEF Spec

-----------------------------------------------------------------------------
(***************************************************************************)
(* What the slots are for: a backup that is being made holds one, so that  *)
(* the limit on the slots is one on the backups.                           *)
(***************************************************************************)
Executing == {"scaling", "dumping", "completing", "notifying", "failing", "ending", "releasing"}

Tied(step, held) ==
  /\ step \in Executing => held = "held"
  /\ step = "queued" => held # "none"
  /\ held # "none" => step \in Executing \cup {"queued"}

SlotTied == \A s \in Sessions : Tied(job[s].step, slot[s])

\* A step of a backup that leaves the slots alone comes after the backup has got its own, and
\* before it gives it up, or after that.
LEMMA TiedInPlace ==
  ASSUME TypeOK, SlotTied, NEW s \in Sessions, UNCHANGED slot, NEW x,
         \/ x \in Executing /\ slot[s] = "held"
         \/ x \notin Executing \cup {"queued"} /\ slot[s] = "none",
         \A r \in Sessions : job'[r].step = IF r = s THEN x ELSE job[r].step
  PROVE  SlotTied'
  BY DEF SlotTied, Tied, Executing

LEMMA TiedStep ==
  ASSUME TypeOK, SlotsInv, WorkersInv, SlotTied, [Next]_vars
  PROVE  SlotTied'
<1>0. JobTypes /\ job \in [Sessions -> Job] /\ slot \in [Sessions -> {"none", "waiting", "held"}]
  BY TypeParts DEF JobTypes, SlotsTypeOK
<1>a. ASSUME NEW s \in Sessions, NEW x, Goto(s, x)
      PROVE  \A r \in Sessions : job'[r].step = IF r = s THEN x ELSE job[r].step
  BY <1>0, <1>a DEF Goto, Job
<1>b. ASSUME NEW s \in Sessions, NEW x, job' = [job EXCEPT ![s].step = x, ![s].threw = TRUE]
      PROVE  \A r \in Sessions : job'[r].step = IF r = s THEN x ELSE job[r].step
  BY <1>0, <1>b DEF Job
<1>c. ASSUME NEW s \in Sessions, NEW x, job' = [job EXCEPT ![s].step = x, ![s].scaled = TRUE]
      PROVE  \A r \in Sessions : job'[r].step = IF r = s THEN x ELSE job[r].step
  BY <1>0, <1>c DEF Job
<1>d. ASSUME NEW s \in Sessions, job[s].step \in Executing PROVE slot[s] = "held"
  BY <1>d DEF SlotTied, Tied
<1>1. ASSUME NEW s \in Sessions, AskForSlot(s) PROVE SlotTied'
  <2>1. /\ \A r \in Sessions : job'[r].step = IF r = s THEN "queued" ELSE job[r].step
        /\ Acquire(s)
    BY <1>1, <1>a DEF AskForSlot
  <2>2. slot'[s] # "none" /\ \A r \in Sessions \ {s} : slot'[r] = slot[r]
    BY <1>0, <2>1 DEF Acquire
  <2> QED BY <2>1, <2>2 DEF SlotTied, Tied, Executing
<1>2. ASSUME NEW s \in Sessions, ReleaseSlot(s) PROVE SlotTied'
  <2>1. PICK x \in {"caught", "over"} :
          \A r \in Sessions : job'[r].step = IF r = s THEN x ELSE job[r].step
    BY <1>2, <1>a DEF ReleaseSlot
  <2>2. Release(s)
    BY <1>2 DEF ReleaseSlot
  <2>3. slot'[s] = "none" /\ \A r \in Sessions \ {s} : slot'[r] # slot[r] =>
          slot[r] = "waiting" /\ slot'[r] = "held"
    <3>1. CASE waiters = <<>>
      BY <1>0, <2>2, <3>1 DEF Release
    <3>2. CASE waiters # <<>>
      <4>1. slot' = [slot EXCEPT ![s] = "none", ![Head(waiters)] = "held"] /\ slot[s] = "held"
        BY <2>2, <3>2 DEF Release
      <4>2. 1 \in DOMAIN waiters /\ waiters[1] = Head(waiters) /\ Head(waiters) \in Sessions
        BY <3>2 DEF SlotsInv, SlotsTypeOK
      <4>3. slot[Head(waiters)] = "waiting"
        BY <4>2 DEF SlotsInv, SlotsAccounted
      <4> QED BY <1>0, <4>1, <4>2, <4>3
    <3> QED BY <3>1, <3>2
  <2>4. Tied(x, "none")
    BY DEF Tied, Executing
  <2>5. ASSUME NEW r \in Sessions \ {s} PROVE Tied(job[r].step, slot'[r])
    BY <2>3 DEF SlotTied, Tied
  <2> QED BY <2>1, <2>3, <2>4, <2>5 DEF SlotTied
<1>3. ASSUME NEW s \in Sessions, Begin(s) PROVE SlotTied'
  <2>1. slot[s] = "held" /\ UNCHANGED slot /\ (Goto(s, "scaling") \/ Goto(s, "dumping"))
    BY <1>3 DEF Begin, JobOnly, slotVars
  <2> QED BY <1>a, <2>1, TiedInPlace DEF Executing
<1>4. ASSUME NEW s \in Sessions, ScaleDown(s) PROVE SlotTied'
  <2>1. /\ job[s].step = "scaling" /\ UNCHANGED slot
        /\ \/ job' = [job EXCEPT ![s].step = "dumping", ![s].scaled = TRUE]
           \/ job' = [job EXCEPT ![s].step = "failing", ![s].scaled = TRUE]
    BY <1>4 DEF ScaleDown, At, JobOnly, slotVars
  <2>2. \/ \A r \in Sessions : job'[r].step = IF r = s THEN "dumping" ELSE job[r].step
        \/ \A r \in Sessions : job'[r].step = IF r = s THEN "failing" ELSE job[r].step
    BY <1>c, <2>1
  <2> QED BY <1>d, <2>1, <2>2, TiedInPlace DEF Executing
<1>5. ASSUME NEW s \in Sessions, Dump(s) \/ Complete(s) \/ Notify(s) \/ RestoreScale(s)
      PROVE  SlotTied'
  <2>1. job[s].step \in Executing /\ UNCHANGED slot
    BY <1>5 DEF Dump, Complete, Notify, RestoreScale, At, JobOnly, slotVars, Executing
  <2>2. \E x \in Executing : Goto(s, x)
    BY <1>5 DEF Dump, Complete, Notify, RestoreScale, Executing
  <2> QED BY <1>a, <1>d, <2>1, <2>2, TiedInPlace
<1>6. ASSUME NEW s \in Sessions, Fail(s) PROVE SlotTied'
  <2>1. /\ job[s].step = "failing" /\ UNCHANGED slot
        /\ job' = [job EXCEPT ![s].step = "ending", ![s].threw = TRUE]
    BY <1>6 DEF Fail, At, JobOnly, slotVars
  <2>2. \A r \in Sessions : job'[r].step = IF r = s THEN "ending" ELSE job[r].step
    BY <1>0, <2>1 DEF Job
  <2> QED BY <1>d, <2>1, <2>2, TiedInPlace DEF Executing
<1>7. ASSUME NEW s \in Sessions, Catch(s) PROVE SlotTied'
  <2>1. job[s].step = "caught" /\ UNCHANGED slot /\ Goto(s, "over")
    BY <1>7 DEF Catch, At, JobOnly, slotVars
  <2>2. slot[s] = "none"
    BY <2>1 DEF SlotTied, Tied, Executing
  <2> QED BY <1>a, <2>1, <2>2, TiedInPlace DEF Executing
<1>8. ASSUME NEW s \in Sessions, JobRejected(s) PROVE SlotTied'
  <2>1. UNCHANGED slot
    BY <1>8 DEF JobRejected, slotVars
  <2>2. CASE slot[s] = "held" /\ Goto(s, "failing")
    BY <1>a, <2>1, <2>2, TiedInPlace DEF Executing
  <2>3. CASE job[s].step \in Executing /\ Goto(s, "failing")
    BY <1>a, <1>d, <2>1, <2>3, TiedInPlace DEF Executing
  <2>4. CASE job[s].step \in Executing /\ job' = [job EXCEPT ![s].step = "ending", ![s].threw = TRUE]
    <3>1. \A r \in Sessions : job'[r].step = IF r = s THEN "ending" ELSE job[r].step
      BY <1>b, <2>4
    <3> QED BY <1>d, <2>1, <2>4, <3>1, TiedInPlace DEF Executing
  <2>5. CASE job[s].step \in Executing
             /\ job' = [job EXCEPT ![s].step = "releasing", ![s].threw = TRUE]
    <3>1. \A r \in Sessions : job'[r].step = IF r = s THEN "releasing" ELSE job[r].step
      BY <1>b, <2>5
    <3> QED BY <1>d, <2>1, <2>5, <3>1, TiedInPlace DEF Executing
  <2>6. CASE job[s].step = "caught" /\ Goto(s, "over")
    <3>1. slot[s] = "none"
      BY <2>6 DEF SlotTied, Tied, Executing
    <3> QED BY <1>a, <2>1, <2>6, <3>1, TiedInPlace DEF Executing
  <2> QED BY <1>8, <2>2, <2>3, <2>4, <2>5, <2>6 DEF JobRejected, At, Executing
<1>9. ASSUME NEW s \in Sessions, NEW env \in Env, NEW manual \in BOOLEAN,
             NEW scaleDown \in BOOLEAN, StartBackup(s, env, manual, scaleDown)
      PROVE  SlotTied'
  <2>1. /\ job'[s].step = "announcing" /\ \A r \in Sessions \ {s} : job'[r] = job[r]
        /\ UNCHANGED slot
    BY <1>9, StartType DEF StartBackup, slotVars
  <2>2. job[s].step = "none"
    BY <1>0, <1>9 DEF StartBackup, JobTypes
  <2>3. slot[s] = "none"
    BY <1>0, <2>2 DEF SlotTied, Tied, Executing
  <2> QED BY <2>1, <2>3 DEF SlotTied, Tied, Executing
<1>10. ASSUME NEW w \in Workers, WorkerStep(w) \/ WorkerRejected(w) PROVE SlotTied'
  <2>1. CASE WorkerStarts(w)
    BY <1>9, <2>1 DEF WorkersInv, WorkerStarts
  <2>2. CASE NextEnvironment(w) \/ PollEnds(w) \/ Deadline(w) \/ WorkerRejected(w)
    BY <2>2 DEF NextEnvironment, PollEnds, Deadline, WorkerRejected, WorkerOnly, slotVars, SlotTied
  <2> QED BY <1>10, <2>1, <2>2 DEF WorkerStep
<1>11. CASE Stop
  <2>1. ASSUME NEW s \in Sessions
        PROVE  slot'[s] = "none" /\ job'[s].step \in {"none", "lost"}
    BY <1>11 DEF Stop, Reload, NoJob
  <2> QED BY <2>1 DEF SlotTied, Tied, Executing
<1>12. CASE RunBegins \/ RunEnds \/ UNCHANGED vars
  BY <1>12 DEF RunBegins, RunEnds, WorkerOnly, slotVars, vars, backupVars, SlotTied
<1>13. ASSUME NEW s \in Sessions, CleanUp(s) PROVE SlotTied'
  BY <1>13 DEF CleanUp, slotVars, SlotTied
<1>14. ASSUME NEW s \in Sessions, NEW env \in Env, StartManually(s, env) PROVE SlotTied'
  BY <1>9, <1>14 DEF StartManually
<1> QED BY <1>1, <1>2, <1>3, <1>4, <1>5, <1>6, <1>7, <1>8, <1>10, <1>11, <1>12, <1>13, <1>14
        DEF Next, JobStep

\* Never are more backups made at a time than backupConcurrencyLimit() allows, whoever
\* starts them and whatever fails: from the scaling of an app until its scale has been
\* restored a backup holds a slot, which no failure takes from it early.
THEOREM BackupsWithinLimit ==
  Spec => [](Cardinality({s \in Sessions : job[s].step \in Executing}) <= Limit)
<1>1. Init => IInv /\ SlotTied
  BY InvInit DEF Init, SlotsInit, SlotTied, Tied, Executing, NoJob
<1>2. IInv /\ SlotTied /\ [Next]_vars => (IInv /\ SlotTied)'
  BY InvStep, TiedStep DEF IInv
<1>3. IInv /\ SlotTied => Cardinality({s \in Sessions : job[s].step \in Executing}) <= Limit
  <2> SUFFICES ASSUME IInv, SlotTied
               PROVE  Cardinality({s \in Sessions : job[s].step \in Executing}) <= Limit
    OBVIOUS
  <2> DEFINE making == {s \in Sessions : job[s].step \in Executing}
  <2>1. making \subseteq Holders
    BY DEF SlotTied, Tied, Holders
  <2>2. IsFiniteSet(Holders) /\ Cardinality(Holders) = active /\ active <= Limit
    BY DEF IInv, SlotsInv, SlotsAccounted
  <2>3. IsFiniteSet(making) /\ Cardinality(making) <= Cardinality(Holders)
    BY <2>1, <2>2, FS_Subset
  <2>4. Cardinality(making) \in Nat /\ active \in Nat /\ Limit \in Nat
    BY <2>3, FS_CardinalityType, BackupSlotsAssumption DEF IInv, TypeOK, SlotsTypeOK
  <2>5. Cardinality(making) <= Limit
    <3> HIDE DEF making
    <3> QED BY <2>2, <2>3, <2>4
  <2> QED BY <2>5
<1> QED BY <1>1, <1>2, <1>3, PTL DEF Spec

-----------------------------------------------------------------------------
(***************************************************************************)
(* No session is left behind: what the end of one in the database rests    *)
(* on, whether or not its backup ever gets there.                          *)
(***************************************************************************)
\* A session that has not ended, while its backup is at step and rej calls were rejected.
Unended(st, step, threw, rej) ==
  st \in Unfinished =>
    /\ step # "notifying"
    /\ step \in {"ending", "releasing", "caught"} => threw /\ rej >= 1
    /\ step = "over" => rej >= 2

SessionsUnended ==
  \A s \in Sessions : Unended(status[s], job[s].step, job[s].threw, counts.rejects)

NotOrphaned(s) ==
  status[s] \in Unfinished /\ job[s].step = "over" => counts.rejects >= 2

LEMMA RejectsCounted ==
  ASSUME TypeOK
  PROVE  /\ counts.rejects \in Nat
         /\ \A s \in Sessions : JobRejected(s) => counts'.rejects = counts.rejects + 1
         /\ \A w \in Workers : WorkerRejected(w) => counts'.rejects = counts.rejects + 1
         /\ UNCHANGED counts => counts'.rejects = counts.rejects
         /\ Stop => counts'.rejects = counts.rejects
         /\ \A s \in Sessions, env \in Env : StartManually(s, env) => counts'.rejects = counts.rejects
<1>1. counts \in [manual : 0 .. MaxManual, rejects : 0 .. MaxRejects, stops : 0 .. MaxStops]
  BY DEF TypeOK
<1>2. counts.rejects \in Nat
  BY <1>1, BackupsAssumption
<1> QED BY <1>1, <1>2 DEF JobRejected, WorkerRejected, Stop, StartManually

\* A step of one backup leaves the others as they are.
LEMMA UnendedBy ==
  ASSUME TypeOK, SessionsUnended, NEW s \in Sessions,
         counts'.rejects \in {counts.rejects, counts.rejects + 1},
         \A r \in Sessions \ {s} : job'[r] = job[r] /\ status'[r] = status[r],
         Unended(status'[s], job'[s].step, job'[s].threw, counts'.rejects)
  PROVE  SessionsUnended'
<1>1. counts.rejects \in Nat
  BY RejectsCounted
<1>2. ASSUME NEW r \in Sessions \ {s}
      PROVE  Unended(status[r], job[r].step, job[r].threw, counts'.rejects)
  BY <1>1 DEF SessionsUnended, Unended
<1> QED BY <1>2 DEF SessionsUnended

LEMMA UnendedStep ==
  ASSUME TypeOK, WorkersInv, SessionsUnended, [Next]_vars
  PROVE  SessionsUnended'
<1>0. /\ JobTypes /\ job \in [Sessions -> Job]
      /\ status \in [Sessions -> {"none"} \cup Unfinished \cup Finished]
  BY TypeParts DEF JobTypes
<1>r. counts.rejects \in Nat
  BY RejectsCounted
<1>f. \A st \in Finished : st \notin Unfinished
  BY DEF Finished, Unfinished
<1> DEFINE Other(s) == \A r \in Sessions \ {s} : job'[r] = job[r] /\ status'[r] = status[r]
           Now(s) == Unended(status[s], job[s].step, job[s].threw, counts.rejects)
           Then(s) == Unended(status'[s], job'[s].step, job'[s].threw, counts'.rejects)
<1>n. \A s \in Sessions : Now(s)
  BY DEF SessionsUnended
<1>1. ASSUME NEW s \in Sessions, AskForSlot(s) \/ ScaleDown(s) \/ Dump(s) PROVE Other(s) /\ Then(s)
  <2>1. job'[s].step \notin {"notifying", "ending", "releasing", "caught", "over"}
    BY <1>0, <1>1 DEF AskForSlot, ScaleDown, Dump, Goto, Job
  <2>2. Other(s)
    BY <1>0, <1>1 DEF AskForSlot, ScaleDown, Dump, Goto
  <2> QED BY <2>1, <2>2 DEF Unended
<1>2. ASSUME NEW s \in Sessions, Begin(s) PROVE Other(s) /\ Then(s)
  <2>1. job'[s].step \in {"scaling", "dumping"}
    BY <1>0, <1>2 DEF Begin, Goto, Job
  <2>2. Other(s)
    BY <1>0, <1>2 DEF Begin, Goto, Set
  <2> QED BY <2>1, <2>2 DEF Unended
<1>3. ASSUME NEW s \in Sessions, Complete(s) \/ Fail(s) \/ Catch(s) PROVE Other(s) /\ Then(s)
  <2>1. status'[s] \in Finished
    BY <1>0, <1>3 DEF Complete, Fail, Catch, Set, Finished
  <2>2. Other(s)
    BY <1>0, <1>3 DEF Complete, Fail, Catch, Set, Goto
  <2> QED BY <1>f, <2>1, <2>2 DEF Unended
<1>4. ASSUME NEW s \in Sessions, Notify(s) PROVE Other(s) /\ Then(s)
  <2>1. job[s].step = "notifying" /\ status' = status /\ Goto(s, "ending")
    BY <1>4 DEF Notify, At
  <2>2. status[s] \notin Unfinished
    BY <1>n, <2>1 DEF Unended
  <2> QED BY <1>0, <2>1, <2>2 DEF Unended, Goto
<1>5. ASSUME NEW s \in Sessions, RestoreScale(s) PROVE Other(s) /\ Then(s)
  <2>1. /\ job[s].step = "ending" /\ status' = status /\ UNCHANGED counts
        /\ Goto(s, "releasing")
    BY <1>5 DEF RestoreScale, At, JobOnly
  <2>2. job'[s].step = "releasing" /\ job'[s].threw = job[s].threw
    BY <1>0, <2>1 DEF Goto, Job
  <2>3. Other(s)
    BY <1>0, <2>1 DEF Goto
  <2> QED BY <1>n, <2>1, <2>2, <2>3 DEF Unended
<1>6. ASSUME NEW s \in Sessions, ReleaseSlot(s) PROVE Other(s) /\ Then(s)
  <2>1. /\ job[s].step = "releasing" /\ status' = status /\ UNCHANGED counts
        /\ Goto(s, IF job[s].threw THEN "caught" ELSE "over")
    BY <1>6 DEF ReleaseSlot, At
  <2>2. /\ job'[s].step = IF job[s].threw THEN "caught" ELSE "over"
        /\ job'[s].threw = job[s].threw
    BY <1>0, <2>1 DEF Goto, Job
  <2>3. Other(s)
    BY <1>0, <2>1 DEF Goto
  <2> QED BY <1>n, <2>1, <2>2, <2>3 DEF Unended
<1>7. ASSUME NEW s \in Sessions, JobRejected(s) PROVE Other(s) /\ Then(s)
  <2>1. status' = status /\ counts'.rejects = counts.rejects + 1
    BY <1>7, RejectsCounted DEF JobRejected
  <2>2. CASE Goto(s, "failing")
    <3>1. job'[s].step = "failing" /\ Other(s)
      BY <1>0, <2>1, <2>2 DEF Goto, Job
    <3> QED BY <3>1 DEF Unended
  <2>3. CASE \E x \in {"ending", "releasing"} : job' = [job EXCEPT ![s].step = x, ![s].threw = TRUE]
    <3>1. job'[s].step \in {"ending", "releasing"} /\ job'[s].threw = TRUE
      BY <1>0, <2>3 DEF Job
    <3>2. Other(s)
      BY <1>0, <2>1, <2>3
    <3>3. counts'.rejects >= 1
      BY <1>r, <2>1
    <3> QED BY <3>1, <3>2, <3>3 DEF Unended
  <2>4. CASE job[s].step = "caught" /\ Goto(s, "over")
    <3>1. job'[s].step = "over" /\ Other(s)
      BY <1>0, <2>1, <2>4 DEF Goto, Job
    <3>2. status[s] \in Unfinished => counts'.rejects >= 2
      BY <1>n, <1>r, <2>1, <2>4 DEF Unended
    <3> QED BY <2>1, <3>1, <3>2 DEF Unended
  <2> QED BY <1>7, <2>2, <2>3, <2>4 DEF JobRejected, At
<1>8. ASSUME NEW s \in Sessions, JobStep(s) PROVE SessionsUnended'
  <2>1. UNCHANGED counts
    BY <1>8 DEF JobStep, AskForSlot, Begin, ScaleDown, Dump, Complete, Notify, Fail, RestoreScale,
           ReleaseSlot, Catch, JobOnly
  <2>2. Other(s) /\ Then(s)
    BY <1>1, <1>2, <1>3, <1>4, <1>5, <1>6, <1>8 DEF JobStep
  <2> QED BY <2>1, <2>2, UnendedBy
<1>9. ASSUME NEW s \in Sessions, JobRejected(s) PROVE SessionsUnended'
  BY <1>7, <1>9, RejectsCounted, UnendedBy
<1>10. ASSUME NEW s \in Sessions, CleanUp(s) PROVE SessionsUnended'
  <2>1. status'[s] \in Finished /\ Other(s) /\ UNCHANGED counts
    BY <1>0, <1>10 DEF CleanUp, Set, Finished
  <2>2. Then(s)
    BY <1>f, <2>1 DEF Unended
  <2> QED BY <2>1, <2>2, UnendedBy
<1>11. ASSUME NEW s \in Sessions, NEW env \in Env, NEW manual \in BOOLEAN,
              NEW scaleDown \in BOOLEAN, StartBackup(s, env, manual, scaleDown),
              counts'.rejects = counts.rejects
       PROVE  SessionsUnended'
  <2>1. job'[s].step = "announcing" /\ Other(s)
    BY <1>11, StartType
  <2>2. Then(s)
    BY <2>1 DEF Unended
  <2> QED BY <1>11, <2>1, <2>2, UnendedBy
<1>12. ASSUME NEW s \in Sessions, NEW env \in Env, StartManually(s, env) PROVE SessionsUnended'
  <2>1. counts'.rejects = counts.rejects
    BY <1>12, RejectsCounted
  <2> QED BY <1>11, <1>12, <2>1 DEF StartManually
<1>13. ASSUME NEW w \in Workers, WorkerStep(w) \/ WorkerRejected(w) PROVE SessionsUnended'
  <2>1. CASE WorkerStarts(w)
    BY <1>11, <2>1 DEF WorkersInv, WorkerStarts
  <2>2. CASE NextEnvironment(w) \/ PollEnds(w) \/ Deadline(w)
    BY <2>2 DEF NextEnvironment, PollEnds, Deadline, WorkerOnly, SessionsUnended
  <2>3. CASE WorkerRejected(w)
    <3>1. UNCHANGED <<status, job>> /\ counts'.rejects = counts.rejects + 1
      BY <2>3, RejectsCounted DEF WorkerRejected, WorkerOnly
    <3>2. \A s \in Sessions : Then(s)
      BY <1>n, <1>r, <3>1 DEF Unended
    <3> QED BY <3>2 DEF SessionsUnended
  <2> QED BY <1>13, <2>1, <2>2, <2>3 DEF WorkerStep
<1>14. CASE Stop
  <2>1. \A s \in Sessions : job'[s].step \in {"none", "lost"}
    BY <1>14 DEF Stop, NoJob
  <2> QED BY <2>1 DEF SessionsUnended, Unended
<1>15. CASE RunBegins \/ RunEnds \/ UNCHANGED vars
  BY <1>15 DEF RunBegins, RunEnds, WorkerOnly, vars, backupVars, SessionsUnended
<1> QED BY <1>8, <1>9, <1>10, <1>12, <1>13, <1>14, <1>15 DEF Next

\* As long as fewer than two store calls have been rejected, a session that has not ended in
\* the database still has its backup, or its process was stopped, so that cleanupStuckSessions
\* can mark it: the two places that mark a failure (executeBackup's catch block and the catch
\* of startBackup) make up for each other.
THEOREM NoSessionOrphaned == Spec => [](\A s \in Sessions : NotOrphaned(s))
<1>1. Init => IInv /\ SessionsUnended
  BY InvInit DEF Init, SessionsUnended, Unended, Unfinished
<1>2. IInv /\ SessionsUnended /\ [Next]_vars => (IInv /\ SessionsUnended)'
  BY InvStep, UnendedStep DEF IInv
<1>3. SessionsUnended => \A s \in Sessions : NotOrphaned(s)
  BY DEF SessionsUnended, Unended, NotOrphaned
<1> QED BY <1>1, <1>2, <1>3, PTL DEF Spec
=============================================================================
