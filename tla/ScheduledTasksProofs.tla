------------------------ MODULE ScheduledTasksProofs ------------------------
(***************************************************************************)
(* What is proved about ScheduledTasks for any schedules, any number of    *)
(* rounds of the watchdog, and any bounds: runs do not overlap and are not *)
(* blocked, the history is true and no run is made up for needlessly.      *)
(***************************************************************************)
EXTENDS ScheduledTasks, TLAPS

\* A run that goes on is in the history of the process that started it, as running: this
\* is what makes taskIsRunning see it.
AliveIsShown == \A i \in DOMAIN runs : Alive(i) => runs[i].place = "own" /\ runs[i].did = "running"

Inv == TypeOK /\ AliveIsShown /\ OneRunAtATime

\* The last slot is a time, once an interval has passed.
LEMMA SlotIsTime ==
  ASSUME now \in Nat, Interval <= now, NEW e \in Schedules
  PROVE  PreviousSlot(e) \in Nat
<1> DEFINE d == now + Interval - Phase[e]
<1>1. Interval \in Nat \ {0} /\ Phase[e] \in 0 .. Interval - 1
  BY ScheduledTasksAssumption
<1>2. d \in Nat
  BY <1>1
<1>3. d % Interval \in 0 .. Interval - 1
  BY <1>1, <1>2
<1> QED
  BY <1>1, <1>3 DEF PreviousSlot

\* A run that is started is the only one: executeTask has looked at the history.
LEMMA ExecuteKeeps ==
  ASSUME runs \in Seq(Run), now \in Nat, AliveIsShown, OneRunAtATime,
         NEW by \in {"cron", "admin", "watchdog"}, NEW slot \in Nat \cup {Nothing},
         NEW seen \in Nat, Execute(by, slot, seen)
  PROVE  runs' \in Seq(Run) /\ AliveIsShown' /\ OneRunAtATime'
<1>1. CASE UNCHANGED runs
  BY <1>1 DEF AliveIsShown, OneRunAtATime, Alive
<1>2. CASE ~TaskIsRunning /\ runs' = Append(runs, NewRun(by, slot, seen))
  <2>1. NewRun(by, slot, seen) \in Run
    BY DEF NewRun, Run, RunStatus
  <2>2. \A i \in DOMAIN runs : ~Alive(i)
    BY <1>2 DEF AliveIsShown, TaskIsRunning, History, Status
  <2>3. /\ runs' \in Seq(Run)
        /\ DOMAIN runs' = DOMAIN runs \cup {Len(runs) + 1}
        /\ \A i \in DOMAIN runs : runs'[i] = runs[i]
        /\ runs'[Len(runs) + 1] = NewRun(by, slot, seen)
    BY <1>2, <2>1
  <2>4. AliveIsShown'
    BY <2>2, <2>3 DEF AliveIsShown, Alive, NewRun
  <2>5. OneRunAtATime'
    BY <2>2, <2>3 DEF OneRunAtATime, Alive
  <2> QED
    BY <2>3, <2>4, <2>5
<1> QED
  BY <1>1, <1>2 DEF Execute

\* A step of a run starts none, and a run is over as soon as its status is set.
LEMMA StepKeeps ==
  ASSUME runs \in Seq(Run), AliveIsShown, OneRunAtATime, NEW i \in DOMAIN runs,
         NEW r \in Run, runs' = [runs EXCEPT ![i] = r],
         r.step \in {"starting", "running"} =>
           Alive(i) /\ r.place = "own" /\ r.did = "running"
  PROVE  runs' \in Seq(Run) /\ AliveIsShown' /\ OneRunAtATime'
<1>1. runs' \in Seq(Run) /\ DOMAIN runs' = DOMAIN runs
  OBVIOUS
<1>2. \A j \in DOMAIN runs : runs'[j] = IF j = i THEN r ELSE runs[j]
  OBVIOUS
<1>3. AliveIsShown'
  BY <1>1, <1>2 DEF AliveIsShown, Alive
<1>4. OneRunAtATime'
  BY <1>1, <1>2 DEF OneRunAtATime, Alive
<1> QED
  BY <1>1, <1>3, <1>4

\* A stop, a reconciliation and a load change entries of runs none of which goes on.
LEMMA NoneAliveKeeps ==
  ASSUME \A i \in DOMAIN runs' : runs'[i].step \in {"over", "lost"}
  PROVE  AliveIsShown' /\ OneRunAtATime'
BY DEF AliveIsShown, OneRunAtATime, Alive

LEMMA InitInv == Init => Inv
<1> SUFFICES ASSUME Init PROVE Inv
  OBVIOUS
<1>1. runs \in Seq(Run) /\ DOMAIN runs = {}
  BY DEF Init
<1>2. now \in Nat /\ Interval <= now
  BY ScheduledTasksAssumption DEF Init
<1>3. counts \in [manual : 0 .. MaxManual, edits : 0 .. MaxEdits, rejects : 0 .. MaxRejects,
                  stops : 0 .. MaxStops]
  BY ScheduledTasksAssumption DEF Init
<1>4. \A r \in Rounds : round[r] = IdleRound
  BY DEF Init
<1>5. round \in [Rounds -> [step : {"idle", "alerting"}, slot : Nat \cup {Nothing}, seen : Nat]]
  BY DEF Init, IdleRound
<1>6. TypeOK
  BY <1>1, <1>2, <1>3, <1>4, <1>5 DEF Init, TypeOK
<1>7. AliveIsShown /\ OneRunAtATime
  BY <1>1 DEF AliveIsShown, OneRunAtATime
<1> QED
  BY <1>6, <1>7 DEF Inv

Counts == [manual : 0 .. MaxManual, edits : 0 .. MaxEdits, rejects : 0 .. MaxRejects,
           stops : 0 .. MaxStops]

\* The counters stay within their bounds, whatever is counted.
LEMMA CountsKeep ==
  ASSUME counts \in Counts,
         \/ UNCHANGED counts
         \/ Reject
         \/ Edit
         \/ counts.manual < MaxManual /\ counts' = [counts EXCEPT !.manual = @ + 1]
         \/ counts.stops < MaxStops /\ counts' = [counts EXCEPT !.stops = @ + 1]
  PROVE  counts' \in Counts
<1>1. MaxManual \in Nat /\ MaxEdits \in Nat /\ MaxRejects \in Nat /\ MaxStops \in Nat
  BY ScheduledTasksAssumption
<1>2. CASE UNCHANGED counts
  BY <1>2
<1>3. CASE Reject
  BY <1>1, <1>3 DEF Reject, Counts
<1>4. CASE Edit
  BY <1>1, <1>4 DEF Edit, Counts
<1>5. CASE counts.manual < MaxManual /\ counts' = [counts EXCEPT !.manual = @ + 1]
  BY <1>1, <1>5 DEF Counts
<1>6. CASE counts.stops < MaxStops /\ counts' = [counts EXCEPT !.stops = @ + 1]
  BY <1>1, <1>6 DEF Counts
<1> QED
  BY <1>2, <1>3, <1>4, <1>5, <1>6

\* A step of a run, while the task is registered.
LEMMA RunStepKeeps ==
  ASSUME Inv, NEW i \in DOMAIN runs, RunStep(i)
  PROVE  Inv'
<1>1. runs \in Seq(Run) /\ runs[i] \in Run
  BY DEF Inv, TypeOK
<1>2. runs[i].step \in {"starting", "running", "completing"}
  BY DEF RunStep, PersistRunStart, RunEnds, PersistRunCompletion, Step
<1>3. server = "up"
  BY <1>2 DEF Inv, TypeOK
<1>4. Unreject /\ (UNCHANGED counts \/ Reject)
  BY DEF RunStep, PersistRunStart, RunEnds, PersistRunCompletion
<1>5. runs' \in Seq(Run) /\ AliveIsShown' /\ OneRunAtATime'
  <2>1. CASE PersistRunStart(i)
    <3>1. PICK r \in {[runs[i] EXCEPT !.step = "running", !.record = "running"],
                      [runs[i] EXCEPT !.step = "running"]} :
            runs[i].step = "starting" /\ runs' = [runs EXCEPT ![i] = r]
      BY <2>1 DEF PersistRunStart, Step
    <3>2. r \in Run /\ r.place = runs[i].place /\ r.did = runs[i].did
      BY <1>1, <3>1 DEF Run, RunStatus
    <3>3. Alive(i) /\ runs[i].place = "own" /\ runs[i].did = "running"
      BY <3>1 DEF Inv, AliveIsShown, Alive
    <3> QED
      BY <1>1, <3>1, <3>2, <3>3, StepKeeps DEF Inv
  <2>2. CASE RunEnds(i)
    <3>1. PICK status \in {"succeeded", "failed"} :
            runs' = [runs EXCEPT ![i] = [runs[i] EXCEPT !.step = "completing", !.did = status]]
      BY <2>2 DEF RunEnds, Step
    <3>2. [runs[i] EXCEPT !.step = "completing", !.did = status] \in Run
      BY <1>1 DEF Run, RunStatus
    <3> QED
      BY <1>1, <3>1, <3>2, StepKeeps DEF Inv, Run
  <2>3. CASE PersistRunCompletion(i)
    <3>1. PICK r \in {[runs[i] EXCEPT !.step = "over", !.record = runs[i].did],
                      [runs[i] EXCEPT !.step = "over"]} : runs' = [runs EXCEPT ![i] = r]
      BY <2>3 DEF PersistRunCompletion, Step
    <3>2. r \in Run /\ r.step = "over"
      BY <1>1, <3>1 DEF Run, RunStatus
    <3> QED
      BY <1>1, <3>1, <3>2, StepKeeps DEF Inv
  <2> QED
    BY <2>1, <2>2, <2>3 DEF RunStep
<1>6. counts' \in Counts
  BY <1>4, CountsKeep DEF Inv, TypeOK, Counts
<1>7. TypeOK'
  BY <1>3, <1>4, <1>5, <1>6 DEF Inv, TypeOK, Counts, Unreject
<1> QED
  BY <1>5, <1>7 DEF Inv

\* A step that starts a run, or none.
LEMMA TriggerKeeps ==
  ASSUME Inv, CronFires \/ TriggerScheduledTask
  PROVE  Inv'
<1>1. server = "up"
  BY DEF Inv, TypeOK, CronFires, TriggerScheduledTask
<1>2. runs' \in Seq(Run) /\ AliveIsShown' /\ OneRunAtATime'
  BY ExecuteKeeps DEF Inv, TypeOK, CronFires, TriggerScheduledTask
<1>3. counts' \in Counts
  BY CountsKeep DEF Inv, TypeOK, Counts, CronFires, TriggerScheduledTask
<1>4. TypeOK'
  BY <1>1, <1>2, <1>3 DEF Inv, TypeOK, Counts, CronFires, TriggerScheduledTask, Unreject
<1> QED
  BY <1>2, <1>4 DEF Inv

LEMMA WatchdogKeeps ==
  ASSUME Inv, NEW r \in Rounds, WatchdogStep(r)
  PROVE  Inv'
<1> DEFINE Rnd == [step : {"idle", "alerting"}, slot : Nat \cup {Nothing}, seen : Nat]
<1> DEFINE slot == PreviousSlot(schedule)
<1>1. server = "up"
  BY DEF Inv, TypeOK, WatchdogStep, RecoverOverdue, AlertSent, IdleRound
<1>2. Len(runs) \in Nat /\ slot \in Nat /\ slot + Interval \in Nat
  <2>1. runs \in Seq(Run) /\ now \in Nat /\ Interval <= now /\ schedule \in Schedules
    BY DEF Inv, TypeOK
  <2>2. slot \in Nat
    BY <2>1, SlotIsTime
  <2> HIDE DEF slot
  <2> QED
    BY <2>1, <2>2, ScheduledTasksAssumption
<1>3. round[r].slot \in Nat \cup {Nothing} /\ round[r].seen \in Nat
  BY DEF Inv, TypeOK
<1>4. runs' \in Seq(Run) /\ AliveIsShown' /\ OneRunAtATime'
  <2>1. CASE UNCHANGED runs
    BY <2>1 DEF Inv, TypeOK, AliveIsShown, OneRunAtATime, Alive
  <2>2. CASE Execute("watchdog", slot, Len(runs))
    BY <1>2, <2>2, ExecuteKeeps DEF Inv, TypeOK
  <2>3. CASE Execute("watchdog", round[r].slot, round[r].seen)
    BY <1>3, <2>3, ExecuteKeeps DEF Inv, TypeOK
  <2> QED
    BY <2>1, <2>2, <2>3 DEF WatchdogStep, RecoverOverdue, AlertSent
<1>5. round \in [Rounds -> Rnd] /\ alerted \in Nat \cup {Nothing}
  BY DEF Inv, TypeOK
<1>6. round' \in [Rounds -> Rnd] /\ alerted' \in Nat \cup {Nothing}
  <2>1. CASE RecoverOverdue(r)
    <3>1. [step |-> "alerting", slot |-> slot, seen |-> Len(runs)] \in Rnd
      BY <1>2
    <3> HIDE DEF Rnd
    <3> QED
      BY <1>2, <1>5, <2>1, <3>1 DEF RecoverOverdue
  <2>2. CASE AlertSent(r)
    <3>1. IdleRound \in Rnd
      BY DEF IdleRound
    <3> HIDE DEF Rnd
    <3> QED
      BY <1>5, <2>2, <3>1 DEF AlertSent
  <2> QED
    BY <2>1, <2>2 DEF WatchdogStep
<1>7. TypeOK'
  BY <1>1, <1>4, <1>6 DEF Inv, TypeOK, WatchdogStep, RecoverOverdue, AlertSent
<1> QED
  BY <1>4, <1>7 DEF Inv

LEMMA StopKeeps ==
  ASSUME Inv, Stop
  PROVE  Inv'
<1> DEFINE Lost(r) == [r EXCEPT !.place = "gone", !.step = IF r.step = "over" THEN "over" ELSE "lost"]
<1>1. runs \in Seq(Run) /\ runs' = [i \in DOMAIN runs |-> Lost(runs[i])]
  <2>1. runs \in Seq(Run)
    BY DEF Inv, TypeOK
  <2>2. runs' = [i \in DOMAIN runs |-> Lost(runs[i])]
    BY DEF Stop
  <2> QED
    BY <2>1, <2>2
<1>2. ASSUME NEW r \in Run
      PROVE  Lost(r) \in Run /\ Lost(r).step \in {"over", "lost"}
  <2> DEFINE step == IF r.step = "over" THEN "over" ELSE "lost"
  <2>1. step \in {"over", "lost"}
    OBVIOUS
  <2> HIDE DEF step
  <2>2. /\ [r EXCEPT !.place = "gone", !.step = step] \in Run
        /\ [r EXCEPT !.place = "gone", !.step = step].step = step
    BY <2>1 DEF Run
  <2> QED
    BY <2>1, <2>2 DEF step
<1> HIDE DEF Lost
<1>3. runs' \in Seq(Run)
  BY <1>1, <1>2
<1>4. \A i \in DOMAIN runs' : runs'[i].step \in {"over", "lost"}
  BY <1>1, <1>2
<1>5. counts' \in Counts
  BY CountsKeep DEF Inv, TypeOK, Counts, Stop
<1>6. /\ round' \in [Rounds -> [step : {"idle", "alerting"}, slot : Nat \cup {Nothing}, seen : Nat]]
      /\ \A r \in Rounds : round'[r] = IdleRound
  BY DEF Stop, IdleRound
<1>7. TypeOK'
  BY <1>3, <1>4, <1>5, <1>6 DEF Inv, TypeOK, Counts, Stop
<1> QED
  BY <1>4, <1>7, NoneAliveKeeps DEF Inv

LEMMA RegisterKeeps ==
  ASSUME Inv, Register
  PROVE  Inv'
<1>1. runs \in Seq(Run) /\ server # "up"
  BY DEF Inv, TypeOK, Register, Start, ReconcileIncompleteRuns, LoadHistory
<1>2. \A i \in DOMAIN runs : runs[i].step \in {"over", "lost"}
  BY <1>1 DEF Inv, TypeOK
<1>3. \A i \in DOMAIN runs : runs[i] \in Run
  BY <1>1
<1>4. runs' \in Seq(Run) /\ \A i \in DOMAIN runs' : runs'[i].step \in {"over", "lost"}
  <2>1. CASE UNCHANGED runs
    BY <1>1, <1>2, <2>1
  <2>2. CASE runs' = [i \in DOMAIN runs |-> IF runs[i].record = "running"
                                            THEN [runs[i] EXCEPT !.record = "failed"] ELSE runs[i]]
    <3>1. \A i \in DOMAIN runs :
            /\ [runs[i] EXCEPT !.record = "failed"] \in Run
            /\ [runs[i] EXCEPT !.record = "failed"].step = runs[i].step
      BY <1>3 DEF Run, RunStatus
    <3> QED
      BY <1>1, <1>2, <2>2, <3>1
  <2>3. CASE runs' = [i \in DOMAIN runs |-> IF runs[i].record # "none"
                                            THEN [runs[i] EXCEPT !.place = "loaded"] ELSE runs[i]]
    <3>1. \A i \in DOMAIN runs :
            /\ [runs[i] EXCEPT !.place = "loaded"] \in Run
            /\ [runs[i] EXCEPT !.place = "loaded"].step = runs[i].step
      BY <1>3 DEF Run
    <3> QED
      BY <1>1, <1>2, <2>3, <3>1
  <2> QED
    BY <2>1, <2>2, <2>3 DEF Register, Start, ReconcileIncompleteRuns, LoadHistory
<1>5. counts' \in Counts
  BY CountsKeep DEF Inv, TypeOK, Counts, Register, Start, ReconcileIncompleteRuns, LoadHistory
<1>6. /\ UNCHANGED <<now, schedule, enabled, due, round, alerted>>
      /\ server' \in {"reconciling", "loading", "up"}
      /\ unreconciled' \in {unreconciled, TRUE}
  BY DEF Register, Start, ReconcileIncompleteRuns, LoadHistory
<1>7. TypeOK'
  BY <1>1, <1>4, <1>5, <1>6 DEF Inv, TypeOK, Counts
<1> QED
  BY <1>4, <1>7, NoneAliveKeeps DEF Inv

\* Time and the changes of an admin leave the runs alone.
LEMMA OtherKeeps ==
  ASSUME Inv, Tick \/ SetEnabled \/ (\E e \in Schedules : SetCronExpression(e)) \/ UNCHANGED vars
  PROVE  Inv'
<1>1. UNCHANGED runs
  BY DEF Tick, SetEnabled, SetCronExpression, vars
<1>2. AliveIsShown' /\ OneRunAtATime'
  BY <1>1 DEF Inv, AliveIsShown, OneRunAtATime, Alive
<1>3. TypeOK'
  <2>1. CASE Tick
    <3>1. due' = (server = "up" /\ enabled /\ IsSlot(schedule, now + 1))
      BY <2>1 DEF Tick
    <3>2. (due' = TRUE /\ server = "up") \/ due' = FALSE
      BY <3>1, Zenon
    <3>3. now' = now + 1 /\ now' \in Nat /\ Interval <= now'
      BY <2>1, ScheduledTasksAssumption DEF Inv, TypeOK, Tick
    <3> QED
      BY <2>1, <3>2, <3>3 DEF Inv, TypeOK, Tick
  <2>2. CASE SetEnabled
    BY <2>2, CountsKeep DEF Inv, TypeOK, Counts, SetEnabled
  <2>3. CASE \E e \in Schedules : SetCronExpression(e)
    BY <2>3, CountsKeep DEF Inv, TypeOK, Counts, SetCronExpression
  <2>4. CASE UNCHANGED vars
    BY <2>4 DEF Inv, TypeOK, vars
  <2> QED
    BY <2>1, <2>2, <2>3, <2>4
<1> QED
  BY <1>2, <1>3 DEF Inv

LEMMA NextInv == Inv /\ [Next]_vars => Inv'
BY RunStepKeeps, TriggerKeeps, WatchdogKeeps, StopKeeps, RegisterKeeps, OtherKeeps DEF Next

\* Every state the model can reach has the shape that TypeOK describes: among others,
\* nothing of the task is going on while it is not registered.
THEOREM TypeCorrect == Spec => []TypeOK
<1>1. Inv => TypeOK
  BY DEF Inv
<1> QED
  BY <1>1, InitInv, NextInv, PTL DEF Spec

\* The cron job, an admin and any number of rounds of the watchdog never have the task
\* run twice at the same time, across any number of restarts: executeTask puts its run
\* in the history in the step in which it has looked there, and a run leaves the history
\* only with its process.
THEOREM RunsDoNotOverlap == Spec => []OneRunAtATime
<1>1. Inv => OneRunAtATime
  BY DEF Inv
<1> QED
  BY <1>1, InitInv, NextInv, PTL DEF Spec

-----------------------------------------------------------------------------
\* What a history shows as going on is, as long as the records of interrupted runs have
\* been reconciled before they were loaded.
Reconciled ==
  /\ \A i \in DOMAIN runs : runs[i].step \in {"starting", "running", "completing"}
       => runs[i].place = "own"
  /\ \A i \in DOMAIN runs : runs[i].place = "own" /\ runs[i].did = "running" => Alive(i)
  /\ server # "up" => \A i \in DOMAIN runs : runs[i].place # "own"
  /\ server \in {"loading", "up"} /\ ~unreconciled =>
       \A i \in DOMAIN runs : runs[i].place # "own" => runs[i].record # "running"

LEMMA ReconciledImplies == Reconciled => RunningMeansAlive
BY DEF Reconciled, RunningMeansAlive, TaskIsRunning, History, Status

\* A run that is started belongs to this process and goes on.
LEMMA ExecuteReconciled ==
  ASSUME runs \in Seq(Run), Reconciled, UNCHANGED <<server, unreconciled>>, server = "up",
         NEW by, NEW slot, NEW seen, Execute(by, slot, seen)
  PROVE  Reconciled'
<1>1. CASE UNCHANGED runs
  BY <1>1 DEF Reconciled, Alive
<1>2. CASE runs' = Append(runs, NewRun(by, slot, seen))
  <2>1. /\ DOMAIN runs' = DOMAIN runs \cup {Len(runs) + 1}
        /\ \A i \in DOMAIN runs : runs'[i] = runs[i]
        /\ runs'[Len(runs) + 1] = NewRun(by, slot, seen)
    BY <1>2
  <2>2. LET r == NewRun(by, slot, seen)
        IN  r.step = "starting" /\ r.place = "own" /\ r.did = "running"
    BY DEF NewRun
  <2> QED
    BY <2>1, <2>2 DEF Reconciled, Alive
<1> QED
  BY <1>1, <1>2 DEF Execute

\* A step of a run changes its own record only, and sets its status when it ends.
LEMMA RunStepReconciled ==
  ASSUME Inv, Reconciled, NEW i \in DOMAIN runs, RunStep(i)
  PROVE  Reconciled'
<1>1. runs \in Seq(Run) /\ runs[i] \in Run /\ UNCHANGED <<server, unreconciled>>
  BY DEF Inv, TypeOK, RunStep, PersistRunStart, RunEnds, PersistRunCompletion, Unreject
<1>2. runs[i].place = "own"
  BY DEF Reconciled, RunStep, PersistRunStart, RunEnds, PersistRunCompletion, Step
<1>3. server = "up"
  BY <1>2 DEF Reconciled
<1>4. PICK r : /\ runs' = [runs EXCEPT ![i] = r]
               /\ r.place = "own"
               /\ r.did = "running" => r.step \in {"starting", "running"}
  <2>1. CASE PersistRunStart(i)
    <3>1. PICK r \in {[runs[i] EXCEPT !.step = "running", !.record = "running"],
                      [runs[i] EXCEPT !.step = "running"]} : runs' = [runs EXCEPT ![i] = r]
      BY <2>1 DEF PersistRunStart, Step
    <3>2. r.place = "own" /\ r.step = "running"
      BY <1>1, <1>2, <3>1 DEF Run
    <3> QED
      BY <3>1, <3>2
  <2>2. CASE RunEnds(i)
    <3>1. PICK status \in {"succeeded", "failed"} :
            runs' = [runs EXCEPT ![i] = [runs[i] EXCEPT !.step = "completing", !.did = status]]
      BY <2>2 DEF RunEnds, Step
    <3> DEFINE r == [runs[i] EXCEPT !.step = "completing", !.did = status]
    <3>2. r.place = "own" /\ r.did = status
      BY <1>1, <1>2 DEF Run
    <3> QED
      BY <3>1, <3>2
  <2>3. CASE PersistRunCompletion(i)
    <3>1. PICK r \in {[runs[i] EXCEPT !.step = "over", !.record = runs[i].did],
                      [runs[i] EXCEPT !.step = "over"]} : runs' = [runs EXCEPT ![i] = r]
      BY <2>3 DEF PersistRunCompletion, Step
    <3>2. r.place = "own" /\ r.did = runs[i].did
      BY <1>1, <1>2, <3>1 DEF Run
    <3>3. runs[i].did # "running"
      BY <1>2, <2>3 DEF Reconciled, Alive, PersistRunCompletion, Step
    <3> QED
      BY <3>1, <3>2, <3>3
  <2> QED
    BY <2>1, <2>2, <2>3 DEF RunStep
<1>5. /\ DOMAIN runs' = DOMAIN runs
      /\ \A j \in DOMAIN runs : runs'[j] = IF j = i THEN r ELSE runs[j]
  BY <1>1, <1>4
<1> QED
  BY <1>1, <1>3, <1>4, <1>5 DEF Reconciled, Alive

LEMMA RegisterReconciled ==
  ASSUME Inv, Reconciled, Register
  PROVE  Reconciled'
<1>1. server # "up" /\ runs \in Seq(Run)
  BY DEF Inv, TypeOK, Register, Start, ReconcileIncompleteRuns, LoadHistory
<1>2. \A i \in DOMAIN runs :
        runs[i] \in Run /\ runs[i].step \in {"over", "lost"} /\ runs[i].place # "own"
  BY <1>1 DEF Inv, TypeOK, Reconciled
<1>3. CASE Start
  BY <1>2, <1>3 DEF Start, Reconciled
<1>4. CASE ReconcileIncompleteRuns
  <2> DEFINE Failed(r) == IF r.record = "running" THEN [r EXCEPT !.record = "failed"] ELSE r
  <2>1. \A r \in Run : /\ Failed(r).step = r.step /\ Failed(r).place = r.place
                       /\ Failed(r).record # "running"
    BY DEF Run
  <2>2. CASE runs' = [i \in DOMAIN runs |-> Failed(runs[i])]
    <3>1. server' = "loading"
      BY <1>4 DEF ReconcileIncompleteRuns
    <3> HIDE DEF Failed
    <3> QED
      BY <1>2, <2>1, <2>2, <3>1 DEF Reconciled
  <2>3. CASE UNCHANGED runs /\ unreconciled' = TRUE
    BY <1>2, <1>4, <2>3 DEF ReconcileIncompleteRuns, Reconciled
  <2> QED
    BY <1>4, <2>2, <2>3 DEF ReconcileIncompleteRuns
<1>5. CASE LoadHistory
  <2> DEFINE Loaded(r) == IF r.record # "none" THEN [r EXCEPT !.place = "loaded"] ELSE r
  <2>1. \A r \in Run : r.place # "own" =>
          Loaded(r).step = r.step /\ Loaded(r).place # "own" /\ Loaded(r).record = r.record
    BY DEF Run
  <2>2. server = "loading" /\ UNCHANGED unreconciled
    BY <1>5 DEF LoadHistory
  <2>3. CASE runs' = [i \in DOMAIN runs |-> Loaded(runs[i])]
    <3> HIDE DEF Loaded
    <3> QED
      BY <1>2, <2>1, <2>2, <2>3 DEF Reconciled
  <2>4. CASE UNCHANGED runs
    BY <1>2, <2>2, <2>4 DEF Reconciled
  <2> QED
    BY <1>5, <2>3, <2>4 DEF LoadHistory
<1> QED
  BY <1>3, <1>4, <1>5 DEF Register

\* After a stop nothing in memory is left.
LEMMA StopReconciled ==
  ASSUME Inv, Stop
  PROVE  Reconciled'
<1> DEFINE Lost(r) == [r EXCEPT !.place = "gone", !.step = IF r.step = "over" THEN "over" ELSE "lost"]
<1>1. runs' = [i \in DOMAIN runs |-> Lost(runs[i])] /\ server' = "down"
  BY DEF Stop
<1>2. \A i \in DOMAIN runs : runs[i] \in Run
  BY DEF Inv, TypeOK
<1>3. \A r \in Run : Lost(r).place = "gone" /\ Lost(r).step \in {"over", "lost"}
  BY DEF Run
<1> HIDE DEF Lost
<1> QED
  BY <1>1, <1>2, <1>3 DEF Reconciled

LEMMA NextReconciled == Inv /\ Reconciled /\ [Next]_vars => Reconciled'
<1> SUFFICES ASSUME Inv, Reconciled, [Next]_vars PROVE Reconciled'
  OBVIOUS
<1>1. ASSUME NEW i \in DOMAIN runs, RunStep(i) PROVE Reconciled'
  BY <1>1, RunStepReconciled
<1>2. ASSUME NEW r \in Rounds, WatchdogStep(r) PROVE Reconciled'
  <2>1. runs \in Seq(Run) /\ server = "up" /\ UNCHANGED <<server, unreconciled>>
    BY <1>2 DEF Inv, TypeOK, WatchdogStep, RecoverOverdue, AlertSent, IdleRound
  <2>2. CASE UNCHANGED runs
    BY <2>1, <2>2 DEF Reconciled, Alive
  <2>3. ASSUME NEW slot, NEW seen, Execute("watchdog", slot, seen) PROVE Reconciled'
    BY <2>1, <2>3, ExecuteReconciled
  <2> QED
    BY <1>2, <2>2, <2>3 DEF WatchdogStep, RecoverOverdue, AlertSent
<1>3. CASE CronFires \/ TriggerScheduledTask
  <2>1. runs \in Seq(Run) /\ server = "up" /\ UNCHANGED <<server, unreconciled>>
    BY <1>3 DEF Inv, TypeOK, CronFires, TriggerScheduledTask, Unreject
  <2>2. ASSUME NEW by, Execute(by, Nothing, 0) PROVE Reconciled'
    BY <2>1, <2>2, ExecuteReconciled
  <2> QED
    BY <1>3, <2>2 DEF CronFires, TriggerScheduledTask
<1>4. CASE Tick \/ SetEnabled \/ (\E e \in Schedules : SetCronExpression(e)) \/ UNCHANGED vars
  <2>1. UNCHANGED <<runs, server, unreconciled>>
    BY <1>4 DEF Tick, SetEnabled, SetCronExpression, vars
  <2> QED
    BY <2>1 DEF Reconciled, Alive
<1> QED
  BY <1>1, <1>2, <1>3, <1>4, StopReconciled, RegisterReconciled DEF Next

\* The record of an interrupted run never keeps the task from being started, unless the
\* update of this start of the process was rejected: reconcileIncompleteRuns comes before
\* loadHistory, and both before the task can be started.
THEOREM NeverBlocked == Spec => []RunningMeansAlive
<1>1. Init => Reconciled
  BY DEF Init, Reconciled
<1> QED
  BY <1>1, InitInv, NextInv, NextReconciled, ReconciledImplies, PTL DEF Spec

-----------------------------------------------------------------------------
\* What holds of one run r in the database and in memory, while registration has come to
\* srv, its reconciliation has failed (unrec) or not, and rej calls have been rejected.
Entry(r, srv, unrec, rej) ==
  /\ r.step = "starting" => r.record = "none"
  /\ r.step \in {"running", "completing"} => r.record \in {"none", "running"}
  /\ r.step \in {"completing", "over"} => r.did \in {"succeeded", "failed"}
  /\ r.record = "succeeded" => r.did = "succeeded"
  /\ r.step = "lost" /\ srv \in {"loading", "up"} /\ ~unrec => r.record # "running"
  /\ rej = 0 /\ r.step = "over" => r.record = r.did
  /\ rej = 0 /\ srv = "up" /\ r.place = "gone" => r.step = "lost" /\ r.record = "none"

EntriesOK == \A i \in DOMAIN runs : Entry(runs[i], server, unreconciled, counts.rejects)

LEMMA EntriesImply == Inv /\ EntriesOK => HistoryTellsTruth
BY DEF Inv, TypeOK, EntriesOK, Entry, HistoryTellsTruth

\* No call is taken back that was rejected.
LEMMA RejectsStay ==
  ASSUME Inv, [Next]_vars
  PROVE  /\ counts'.rejects = 0 => counts.rejects = 0
         /\ counts'.rejects = counts.rejects \/ Reject
<1>1. counts \in Counts /\ counts.rejects \in Nat
  BY ScheduledTasksAssumption DEF Inv, TypeOK, Counts
<1>2. CASE Reject
  BY <1>1, <1>2 DEF Reject, Counts
<1>3. CASE UNCHANGED counts
  BY <1>3
<1>4. CASE Edit
  BY <1>1, <1>4 DEF Edit, Counts
<1>5. CASE counts' = [counts EXCEPT !.manual = @ + 1]
  BY <1>1, <1>5 DEF Counts
<1>6. CASE counts' = [counts EXCEPT !.stops = @ + 1]
  BY <1>1, <1>6 DEF Counts
<1>7. \/ Reject \/ UNCHANGED counts \/ Edit
      \/ counts' = [counts EXCEPT !.manual = @ + 1]
      \/ counts' = [counts EXCEPT !.stops = @ + 1]
  <2>1. ASSUME NEW i \in DOMAIN runs, RunStep(i) PROVE UNCHANGED counts \/ Reject
    BY <2>1 DEF RunStep, PersistRunStart, RunEnds, PersistRunCompletion
  <2>2. ASSUME NEW r \in Rounds, WatchdogStep(r) PROVE UNCHANGED counts
    BY <2>2 DEF WatchdogStep, RecoverOverdue, AlertSent
  <2>3. ASSUME NEW e \in Schedules, SetCronExpression(e) PROVE Edit
    BY <2>3 DEF SetCronExpression
  <2>4. CASE Register
    BY <2>4 DEF Register, Start, ReconcileIncompleteRuns, LoadHistory
  <2>5. CASE Tick \/ CronFires
    BY <2>5 DEF Tick, CronFires
  <2>6. CASE TriggerScheduledTask
    BY <2>6 DEF TriggerScheduledTask
  <2>7. CASE SetEnabled
    BY <2>7 DEF SetEnabled
  <2>8. CASE Stop
    BY <2>8 DEF Stop
  <2>9. CASE UNCHANGED vars
    BY <2>9 DEF vars
  <2> QED
    BY <2>1, <2>2, <2>3, <2>4, <2>5, <2>6, <2>7, <2>8, <2>9 DEF Next
<1> QED
  BY <1>2, <1>3, <1>4, <1>5, <1>6, <1>7

\* A run that is started has no record yet.
LEMMA ExecuteEntries ==
  ASSUME runs \in Seq(Run), EntriesOK, UNCHANGED <<server, unreconciled>>,
         counts'.rejects = counts.rejects,
         NEW by, NEW slot, NEW seen, Execute(by, slot, seen)
  PROVE  EntriesOK'
<1>1. CASE UNCHANGED runs
  BY <1>1 DEF EntriesOK, Entry
<1>2. CASE runs' = Append(runs, NewRun(by, slot, seen))
  <2>1. /\ DOMAIN runs' = DOMAIN runs \cup {Len(runs) + 1}
        /\ \A i \in DOMAIN runs : runs'[i] = runs[i]
        /\ runs'[Len(runs) + 1] = NewRun(by, slot, seen)
    BY <1>2
  <2>2. LET r == NewRun(by, slot, seen)
        IN  r.step = "starting" /\ r.record = "none" /\ r.place = "own"
    BY DEF NewRun
  <2>3. \A i \in DOMAIN runs : Entry(runs[i], server', unreconciled', counts'.rejects)
    BY DEF EntriesOK
  <2>4. Entry(NewRun(by, slot, seen), server', unreconciled', counts'.rejects)
    BY <2>2 DEF Entry
  <2> QED
    BY <2>1, <2>3, <2>4 DEF EntriesOK
<1> QED
  BY <1>1, <1>2 DEF Execute

\* What a step of a run writes is in keeping with what the run has come to.
LEMMA RunStepEntries ==
  ASSUME Inv, Reconciled, EntriesOK, NEW i \in DOMAIN runs, RunStep(i)
  PROVE  EntriesOK'
<1>1. runs \in Seq(Run) /\ runs[i] \in Run /\ UNCHANGED <<server, unreconciled>>
  BY DEF Inv, TypeOK, RunStep, PersistRunStart, RunEnds, PersistRunCompletion, Unreject
<1>2. runs[i].place = "own"
  BY DEF Reconciled, RunStep, PersistRunStart, RunEnds, PersistRunCompletion, Step
<1>3. counts'.rejects = 0 => counts.rejects = 0
  BY RejectsStay DEF Next
<1>4. Entry(runs[i], server, unreconciled, counts.rejects)
  BY DEF EntriesOK
<1>5. ASSUME NEW r, runs' = [runs EXCEPT ![i] = r],
             Entry(r, server, unreconciled, counts'.rejects)
      PROVE  EntriesOK'
  <2>1. /\ DOMAIN runs' = DOMAIN runs
        /\ \A j \in DOMAIN runs : runs'[j] = IF j = i THEN r ELSE runs[j]
    BY <1>1, <1>5
  <2>2. \A j \in DOMAIN runs : Entry(runs[j], server, unreconciled, counts'.rejects)
    BY <1>3 DEF EntriesOK, Entry
  <2> QED
    BY <1>1, <1>5, <2>1, <2>2 DEF EntriesOK
<1>6. CASE PersistRunStart(i)
  <2> DEFINE known == [runs[i] EXCEPT !.step = "running", !.record = "running"]
  <2> DEFINE unknown == [runs[i] EXCEPT !.step = "running"]
  <2>1. /\ known.step = "running" /\ known.record = "running" /\ known.place = "own"
        /\ unknown.step = "running" /\ unknown.record = runs[i].record /\ unknown.place = "own"
    BY <1>1, <1>2 DEF Run
  <2>2. runs[i].step = "starting"
        /\ (runs' = [runs EXCEPT ![i] = known] \/ runs' = [runs EXCEPT ![i] = unknown])
    BY <1>6 DEF PersistRunStart, Step
  <2> HIDE DEF known, unknown
  <2>3. /\ Entry(known, server, unreconciled, counts'.rejects)
        /\ Entry(unknown, server, unreconciled, counts'.rejects)
    BY <1>4, <2>1, <2>2 DEF Entry
  <2> QED
    BY <1>5, <2>2, <2>3
<1>7. CASE RunEnds(i)
  <2>1. PICK status \in {"succeeded", "failed"} :
          runs' = [runs EXCEPT ![i] = [runs[i] EXCEPT !.step = "completing", !.did = status]]
    BY <1>7 DEF RunEnds, Step
  <2> DEFINE r == [runs[i] EXCEPT !.step = "completing", !.did = status]
  <2>2. r.step = "completing" /\ r.did = status /\ r.record = runs[i].record /\ r.place = "own"
    BY <1>1, <1>2 DEF Run
  <2>3. runs[i].step = "running" /\ runs' = [runs EXCEPT ![i] = r]
    BY <1>7, <2>1 DEF RunEnds, Step
  <2> HIDE DEF r
  <2>4. Entry(r, server, unreconciled, counts'.rejects)
    BY <1>4, <2>2, <2>3 DEF Entry
  <2> QED
    BY <1>5, <2>3, <2>4
<1>8. CASE PersistRunCompletion(i)
  <2> DEFINE known == [runs[i] EXCEPT !.step = "over", !.record = runs[i].did]
  <2> DEFINE unknown == [runs[i] EXCEPT !.step = "over"]
  <2>1. /\ known.step = "over" /\ known.record = runs[i].did /\ known.place = "own"
        /\ known.did = runs[i].did /\ unknown.did = runs[i].did
        /\ unknown.step = "over" /\ unknown.record = runs[i].record /\ unknown.place = "own"
    BY <1>1, <1>2 DEF Run
  <2>2. /\ runs[i].step = "completing"
        /\ \/ runs' = [runs EXCEPT ![i] = known]
           \/ runs' = [runs EXCEPT ![i] = unknown] /\ Reject
    BY <1>8 DEF PersistRunCompletion, Step
  <2> HIDE DEF known, unknown
  <2>3. Entry(known, server, unreconciled, counts'.rejects)
    BY <1>4, <2>1, <2>2 DEF Entry
  <2>4. Reject => counts'.rejects # 0
    <3>1. counts \in Counts /\ counts.rejects \in Nat
      BY ScheduledTasksAssumption DEF Inv, TypeOK, Counts
    <3> QED
      BY <3>1 DEF Reject, Counts
  <2>5. Reject => Entry(unknown, server, unreconciled, counts'.rejects)
    BY <1>4, <2>1, <2>2, <2>4 DEF Entry
  <2> QED
    BY <1>5, <2>2, <2>3, <2>5
<1> QED
  BY <1>6, <1>7, <1>8 DEF RunStep

\* Reconciling leaves what is over as it was recorded, and loading the history leaves out
\* only what has no record.
LEMMA RegisterEntries ==
  ASSUME Inv, Reconciled, EntriesOK, Register
  PROVE  EntriesOK'
<1>1. server # "up" /\ runs \in Seq(Run) /\ counts.rejects \in Nat /\ counts \in Counts
  BY ScheduledTasksAssumption
     DEF Inv, TypeOK, Counts, Register, Start, ReconcileIncompleteRuns, LoadHistory
<1>2. \A i \in DOMAIN runs :
        /\ runs[i] \in Run /\ runs[i].step \in {"over", "lost"}
        /\ Entry(runs[i], server, unreconciled, counts.rejects)
  BY <1>1 DEF Inv, TypeOK, EntriesOK
<1>3. Reject => counts'.rejects # 0
  BY <1>1 DEF Reject, Counts
<1>4. CASE Start
  <2>1. server' = "reconciling" /\ UNCHANGED <<runs, unreconciled, counts>>
    BY <1>4 DEF Start
  <2> QED
    BY <1>2, <2>1 DEF EntriesOK, Entry
<1>5. CASE ReconcileIncompleteRuns
  <2> DEFINE Failed(r) == IF r.record = "running" THEN [r EXCEPT !.record = "failed"] ELSE r
  <2>1. ASSUME NEW r \in Run
        PROVE  /\ Failed(r).step = r.step /\ Failed(r).did = r.did
               /\ Failed(r).record = IF r.record = "running" THEN "failed" ELSE r.record
    BY DEF Run
  <2> HIDE DEF Failed
  <2>2. server' = "loading"
    BY <1>5 DEF ReconcileIncompleteRuns
  <2>3. CASE runs' = [i \in DOMAIN runs |-> Failed(runs[i])] /\ UNCHANGED <<unreconciled, counts>>
    <3>1. ASSUME NEW i \in DOMAIN runs
          PROVE  Entry(Failed(runs[i]), "loading", unreconciled, counts.rejects)
      BY <1>2, <2>1 DEF Entry
    <3> QED
      BY <2>2, <2>3, <3>1 DEF EntriesOK
  <2>4. CASE UNCHANGED runs /\ unreconciled' = TRUE /\ Reject
    <3>1. counts'.rejects # 0
      BY <1>3, <2>4
    <3> QED
      BY <1>2, <2>2, <2>4, <3>1 DEF EntriesOK, Entry
  <2> QED
    BY <1>5, <2>3, <2>4 DEF ReconcileIncompleteRuns, Failed
<1>6. CASE LoadHistory
  <2> DEFINE Loaded(r) == IF r.record # "none" THEN [r EXCEPT !.place = "loaded"] ELSE r
  <2>1. ASSUME NEW r \in Run
        PROVE  /\ Loaded(r).step = r.step /\ Loaded(r).did = r.did /\ Loaded(r).record = r.record
               /\ Loaded(r).place = "gone" => r.record = "none"
    BY DEF Run
  <2> HIDE DEF Loaded
  <2>2. server = "loading" /\ server' = "up" /\ UNCHANGED unreconciled
    BY <1>6 DEF LoadHistory
  <2>3. CASE runs' = [i \in DOMAIN runs |-> Loaded(runs[i])] /\ UNCHANGED counts
    <3>1. ASSUME NEW i \in DOMAIN runs
          PROVE  Entry(Loaded(runs[i]), "up", unreconciled, counts.rejects)
      BY <1>2, <2>1, <2>2 DEF Entry
    <3> QED
      BY <2>2, <2>3, <3>1 DEF EntriesOK
  <2>4. CASE UNCHANGED runs /\ Reject
    <3>1. counts'.rejects # 0
      BY <1>3, <2>4
    <3> QED
      BY <1>2, <2>2, <2>4, <3>1 DEF EntriesOK, Entry
  <2> QED
    BY <1>6, <2>3, <2>4 DEF LoadHistory, Loaded
<1> QED
  BY <1>4, <1>5, <1>6 DEF Register

\* A stop interrupts what goes on, and leaves what the database has.
LEMMA StopEntries ==
  ASSUME Inv, EntriesOK, Stop
  PROVE  EntriesOK'
<1> DEFINE Lost(r) == [r EXCEPT !.place = "gone", !.step = IF r.step = "over" THEN "over" ELSE "lost"]
<1>1. runs' = [i \in DOMAIN runs |-> Lost(runs[i])] /\ server' = "down"
  BY DEF Stop
<1>2. \A i \in DOMAIN runs : runs[i] \in Run
  BY DEF Inv, TypeOK
<1>3. ASSUME NEW r \in Run
      PROVE  /\ Lost(r).did = r.did /\ Lost(r).record = r.record
             /\ Lost(r).step = IF r.step = "over" THEN "over" ELSE "lost"
  BY DEF Run
<1> HIDE DEF Lost
<1>4. counts'.rejects = 0 => counts.rejects = 0
  BY RejectsStay DEF Next
<1>5. ASSUME NEW i \in DOMAIN runs
      PROVE  Entry(Lost(runs[i]), "down", unreconciled', counts'.rejects)
  <2>1. Entry(runs[i], server, unreconciled, counts.rejects)
    BY DEF EntriesOK
  <2> QED
    BY <1>2, <1>3, <1>4, <2>1 DEF Entry
<1> QED
  BY <1>1, <1>5 DEF EntriesOK

LEMMA NextEntries == Inv /\ Reconciled /\ EntriesOK /\ [Next]_vars => EntriesOK'
<1> SUFFICES ASSUME Inv, Reconciled, EntriesOK, [Next]_vars PROVE EntriesOK'
  OBVIOUS
<1> USE RejectsStay
<1>1. ASSUME NEW i \in DOMAIN runs, RunStep(i) PROVE EntriesOK'
  BY <1>1, RunStepEntries
<1>2. ASSUME NEW r \in Rounds, WatchdogStep(r) PROVE EntriesOK'
  <2>1. runs \in Seq(Run) /\ UNCHANGED <<server, unreconciled, counts>>
    BY <1>2 DEF Inv, TypeOK, WatchdogStep, RecoverOverdue, AlertSent
  <2>2. CASE UNCHANGED runs
    BY <2>1, <2>2 DEF EntriesOK, Entry
  <2>3. ASSUME NEW slot, NEW seen, Execute("watchdog", slot, seen) PROVE EntriesOK'
    BY <2>1, <2>3, ExecuteEntries
  <2> QED
    BY <1>2, <2>2, <2>3 DEF WatchdogStep, RecoverOverdue, AlertSent
<1>3. CASE CronFires \/ TriggerScheduledTask
  <2>1. runs \in Seq(Run) /\ UNCHANGED <<server, unreconciled>>
    BY <1>3 DEF Inv, TypeOK, CronFires, TriggerScheduledTask, Unreject
  <2>2. counts'.rejects = counts.rejects
    BY <1>3 DEF Inv, TypeOK, CronFires, TriggerScheduledTask
  <2>3. ASSUME NEW by, Execute(by, Nothing, 0) PROVE EntriesOK'
    BY <2>1, <2>2, <2>3, ExecuteEntries
  <2> QED
    BY <1>3, <2>3 DEF CronFires, TriggerScheduledTask
<1>4. CASE Tick \/ SetEnabled \/ (\E e \in Schedules : SetCronExpression(e)) \/ UNCHANGED vars
  <2>1. UNCHANGED <<runs, server, unreconciled>>
    BY <1>4 DEF Tick, SetEnabled, SetCronExpression, vars
  <2> QED
    BY <2>1 DEF EntriesOK, Entry
<1> QED
  BY <1>1, <1>2, <1>3, <1>4, StopEntries, RegisterEntries DEF Next

\* The database never calls a run succeeded that has not; a task that is registered shows
\* none of its interrupted runs as going on, unless the update that reconciles them was
\* rejected; and as long as no call is, what is over is recorded as it ended.  A process
\* may stop between any two writes: the entry of a run names its outcome only after the
\* run has one, and reconcileIncompleteRuns touches only what is recorded as running.
THEOREM HistoryIsTrue == Spec => []HistoryTellsTruth
<1>1. Init => Reconciled /\ EntriesOK
  BY DEF Init, Reconciled, EntriesOK
<1> QED
  BY <1>1, InitInv, NextInv, NextReconciled, NextEntries, EntriesImply, PTL DEF Spec

-----------------------------------------------------------------------------
\* A slot was open when there were seen runs: of those only runs that were interrupted
\* before their start was recorded are late enough to cover it.
Decided(rs, seen, slot) ==
  /\ seen <= Len(rs)
  /\ \A i \in 1 .. seen : rs[i].start + 1 >= slot => rs[i].step = "lost" /\ rs[i].record = "none"

AllDecided(rs, rd) ==
  /\ \A j \in DOMAIN rs : rs[j].by = "watchdog" => Decided(rs, rs[j].seen, rs[j].slot)
  /\ \A r \in Rounds : rd[r].step = "alerting" => Decided(rs, rd[r].seen, rd[r].slot)

DecidedOK == counts.rejects = 0 => AllDecided(runs, round)

LEMMA DecidedImplies == Inv /\ DecidedOK => NoNeedlessRun
<1> SUFFICES ASSUME Inv, DecidedOK, counts.rejects = 0,
                    NEW i \in DOMAIN runs, NEW j \in DOMAIN runs,
                    runs[j].by = "watchdog", i <= runs[j].seen,
                    runs[i].start + 1 >= runs[j].slot
             PROVE  runs[i].step = "lost" /\ runs[i].record = "none"
  BY DEF NoNeedlessRun
<1>1. runs \in Seq(Run) /\ runs[j] \in Run
  BY DEF Inv, TypeOK
<1>2. runs[j].seen \in Nat /\ i \in Nat /\ 1 <= i
  BY <1>1 DEF Run
<1> QED
  BY <1>2 DEF DecidedOK, AllDecided, Decided

\* From rs to rt nothing is forgotten of what was decided.
Stays(rs, rt) ==
  /\ Len(rs) <= Len(rt)
  /\ \A i \in DOMAIN rs :
       /\ rt[i].by = rs[i].by /\ rt[i].start = rs[i].start
       /\ rt[i].slot = rs[i].slot /\ rt[i].seen = rs[i].seen
       /\ rs[i].step = "lost" /\ rs[i].record = "none" =>
            rt[i].step = "lost" /\ rt[i].record = "none"

LEMMA DecisionStands ==
  ASSUME NEW rs \in Seq(Run), NEW rt \in Seq(Run), Stays(rs, rt),
         NEW seen \in Nat, NEW slot, Decided(rs, seen, slot)
  PROVE  Decided(rt, seen, slot)
<1>1. Len(rs) \in Nat /\ Len(rt) \in Nat /\ DOMAIN rs = 1 .. Len(rs)
  OBVIOUS
<1>2. \A i \in 1 .. seen : i \in DOMAIN rs
  BY <1>1 DEF Decided
<1>3. seen <= Len(rt)
  BY <1>1 DEF Decided, Stays
<1>4. ASSUME NEW i \in 1 .. seen, rt[i].start + 1 >= slot
      PROVE  rt[i].step = "lost" /\ rt[i].record = "none"
  <2>1. rt[i].start = rs[i].start
    BY <1>2 DEF Stays
  <2>2. rs[i].step = "lost" /\ rs[i].record = "none"
    BY <1>4, <2>1 DEF Decided
  <2> QED
    BY <1>2, <2>2 DEF Stays
<1> QED
  BY <1>3, <1>4 DEF Decided

\* Decisions stand, and those that are new were made on the runs there are.
LEMMA DecidedKept ==
  ASSUME Inv, Inv', DecidedOK, [Next]_vars, Stays(runs, runs'),
         \A j \in DOMAIN runs' \ DOMAIN runs : counts.rejects = 0 /\ runs'[j].by = "watchdog" =>
           Decided(runs, runs'[j].seen, runs'[j].slot),
         \A r \in Rounds : counts.rejects = 0 /\ round'[r].step = "alerting" =>
           round'[r] = round[r] \/ Decided(runs, round'[r].seen, round'[r].slot)
  PROVE  DecidedOK'
<1> SUFFICES ASSUME counts'.rejects = 0
             PROVE  AllDecided(runs', round')
  BY DEF DecidedOK, AllDecided, Decided
<1>1. counts.rejects = 0
  BY RejectsStay
<1>2. runs \in Seq(Run) /\ runs' \in Seq(Run)
  BY DEF Inv, TypeOK
<1>3. ASSUME NEW j \in DOMAIN runs', runs'[j].by = "watchdog"
      PROVE  Decided(runs', runs'[j].seen, runs'[j].slot)
  <2>1. runs'[j] \in Run
    BY <1>2
  <2>2. runs'[j].seen \in Nat
    BY <2>1 DEF Run
  <2>3. Decided(runs, runs'[j].seen, runs'[j].slot)
    BY <1>1, <1>3 DEF DecidedOK, AllDecided, Stays
  <2> QED
    BY <1>2, <2>2, <2>3, DecisionStands
<1>4. ASSUME NEW r \in Rounds, round'[r].step = "alerting"
      PROVE  Decided(runs', round'[r].seen, round'[r].slot)
  <2>1. round'[r].seen \in Nat
    BY DEF Inv, TypeOK
  <2>2. Decided(runs, round'[r].seen, round'[r].slot)
    BY <1>1, <1>4 DEF DecidedOK, AllDecided
  <2> QED
    BY <1>2, <2>1, <2>2, DecisionStands
<1> QED
  BY <1>3, <1>4 DEF AllDecided

\* A slot that no history covers is open, as long as no call was rejected: what the
\* history does not show has no record.
LEMMA UncoveredIsOpen ==
  ASSUME Inv, EntriesOK, counts.rejects = 0, server = "up",
         ~TaskIsRunning, NEW slot \in Nat, ~Covered(slot)
  PROVE  Decided(runs, Len(runs), slot)
<1>1. runs \in Seq(Run) /\ Len(runs) \in Nat /\ DOMAIN runs = 1 .. Len(runs)
  BY DEF Inv, TypeOK
<1>2. ASSUME NEW i \in DOMAIN runs, runs[i].start + 1 >= slot
      PROVE  runs[i].step = "lost" /\ runs[i].record = "none"
  <2>1. runs[i].place = "gone"
    BY <1>2 DEF TaskIsRunning, Covered, History
  <2> QED
    BY <2>1 DEF EntriesOK, Entry
<1> QED
  BY <1>1, <1>2 DEF Decided

\* A run that is started comes after those there were.
LEMMA ExecuteStays ==
  ASSUME runs \in Seq(Run), NEW by, NEW slot, NEW seen, Execute(by, slot, seen)
  PROVE  /\ Stays(runs, runs')
         /\ \A j \in DOMAIN runs' \ DOMAIN runs :
              runs'[j].by = by /\ runs'[j].slot = slot /\ runs'[j].seen = seen
<1>1. CASE UNCHANGED runs
  BY <1>1 DEF Stays
<1>2. CASE runs' = Append(runs, NewRun(by, slot, seen))
  <2>1. /\ Len(runs') = Len(runs) + 1 /\ Len(runs) \in Nat
        /\ DOMAIN runs' = DOMAIN runs \cup {Len(runs) + 1}
        /\ \A i \in DOMAIN runs : runs'[i] = runs[i]
        /\ runs'[Len(runs) + 1] = NewRun(by, slot, seen)
    BY <1>2
  <2>2. LET r == NewRun(by, slot, seen)
        IN  r.by = by /\ r.slot = slot /\ r.seen = seen
    BY DEF NewRun
  <2> QED
    BY <2>1, <2>2 DEF Stays
<1> QED
  BY <1>1, <1>2 DEF Execute

\* So does what a step writes of the runs there are.
LEMMA EntryStays ==
  ASSUME runs \in Seq(Run), runs' \in Seq(Run), DOMAIN runs' = DOMAIN runs,
         \A i \in DOMAIN runs :
           /\ runs'[i].by = runs[i].by /\ runs'[i].start = runs[i].start
           /\ runs'[i].slot = runs[i].slot /\ runs'[i].seen = runs[i].seen
           /\ runs[i].step = "lost" /\ runs[i].record = "none" =>
                runs'[i].step = "lost" /\ runs'[i].record = "none"
  PROVE  Stays(runs, runs')
<1>1. Len(runs) = Len(runs')
  OBVIOUS
<1> QED
  BY <1>1 DEF Stays

LEMMA RunStepStays ==
  ASSUME Inv, Inv', NEW i \in DOMAIN runs, RunStep(i)
  PROVE  Stays(runs, runs') /\ DOMAIN runs' = DOMAIN runs
<1>1. runs \in Seq(Run) /\ runs' \in Seq(Run) /\ runs[i] \in Run
  BY DEF Inv, TypeOK
<1>2. ASSUME NEW r, runs' = [runs EXCEPT ![i] = r], runs[i].step # "lost",
             r.by = runs[i].by, r.start = runs[i].start,
             r.slot = runs[i].slot, r.seen = runs[i].seen
      PROVE  Stays(runs, runs') /\ DOMAIN runs' = DOMAIN runs
  <2>1. /\ DOMAIN runs' = DOMAIN runs
        /\ \A j \in DOMAIN runs : runs'[j] = IF j = i THEN r ELSE runs[j]
    BY <1>1, <1>2
  <2> QED
    BY <1>1, <1>2, <2>1, EntryStays
<1>3. CASE PersistRunStart(i)
  <2>1. PICK r \in {[runs[i] EXCEPT !.step = "running", !.record = "running"],
                    [runs[i] EXCEPT !.step = "running"]} :
          runs[i].step = "starting" /\ runs' = [runs EXCEPT ![i] = r]
    BY <1>3 DEF PersistRunStart, Step
  <2>2. r.by = runs[i].by /\ r.start = runs[i].start /\ r.slot = runs[i].slot /\ r.seen = runs[i].seen
    BY <1>1, <2>1 DEF Run
  <2> QED
    BY <1>2, <2>1, <2>2
<1>4. CASE RunEnds(i)
  <2>1. PICK status \in {"succeeded", "failed"} :
          /\ runs[i].step = "running"
          /\ runs' = [runs EXCEPT ![i] = [runs[i] EXCEPT !.step = "completing", !.did = status]]
    BY <1>4 DEF RunEnds, Step
  <2> DEFINE r == [runs[i] EXCEPT !.step = "completing", !.did = status]
  <2>2. r.by = runs[i].by /\ r.start = runs[i].start /\ r.slot = runs[i].slot /\ r.seen = runs[i].seen
    BY <1>1 DEF Run
  <2>3. runs' = [runs EXCEPT ![i] = r]
    BY <2>1
  <2> HIDE DEF r
  <2> QED
    BY <1>2, <2>1, <2>2, <2>3
<1>5. CASE PersistRunCompletion(i)
  <2>1. PICK r \in {[runs[i] EXCEPT !.step = "over", !.record = runs[i].did],
                    [runs[i] EXCEPT !.step = "over"]} :
          runs[i].step = "completing" /\ runs' = [runs EXCEPT ![i] = r]
    BY <1>5 DEF PersistRunCompletion, Step
  <2>2. r.by = runs[i].by /\ r.start = runs[i].start /\ r.slot = runs[i].slot /\ r.seen = runs[i].seen
    BY <1>1, <2>1 DEF Run
  <2> QED
    BY <1>2, <2>1, <2>2
<1> QED
  BY <1>3, <1>4, <1>5 DEF RunStep

\* A stop, a reconciliation and a load change no more than the step, the record and the
\* place of a run, and leave what has no record without one.
LEMMA RestartStays ==
  ASSUME Inv, Inv', Stop \/ Register
  PROVE  Stays(runs, runs') /\ DOMAIN runs' = DOMAIN runs
<1>1. runs \in Seq(Run) /\ runs' \in Seq(Run) /\ \A i \in DOMAIN runs : runs[i] \in Run
  BY DEF Inv, TypeOK
<1> DEFINE Lost(r) == [r EXCEPT !.place = "gone", !.step = IF r.step = "over" THEN "over" ELSE "lost"]
<1> DEFINE Failed(r) == IF r.record = "running" THEN [r EXCEPT !.record = "failed"] ELSE r
<1> DEFINE Loaded(r) == IF r.record # "none" THEN [r EXCEPT !.place = "loaded"] ELSE r
<1> DEFINE Same(r, t) ==
      /\ t.by = r.by /\ t.start = r.start /\ t.slot = r.slot /\ t.seen = r.seen
      /\ r.step = "lost" /\ r.record = "none" => t.step = "lost" /\ t.record = "none"
<1>2. \A r \in Run : Same(r, Lost(r))
  BY DEF Run
<1>3. \A r \in Run : Same(r, Failed(r))
  BY DEF Run
<1>4. \A r \in Run : Same(r, Loaded(r))
  BY DEF Run
<1>5. \/ runs' = [i \in DOMAIN runs |-> Lost(runs[i])]
      \/ runs' = [i \in DOMAIN runs |-> Failed(runs[i])]
      \/ runs' = [i \in DOMAIN runs |-> Loaded(runs[i])]
      \/ UNCHANGED runs
  <2>1. CASE Stop
    BY <2>1 DEF Stop
  <2>2. CASE Start
    BY <2>2 DEF Start
  <2>3. CASE ReconcileIncompleteRuns
    BY <2>3 DEF ReconcileIncompleteRuns
  <2>4. CASE LoadHistory
    BY <2>4 DEF LoadHistory
  <2> QED
    BY <2>1, <2>2, <2>3, <2>4 DEF Register
<1> HIDE DEF Lost, Failed, Loaded
<1>6. DOMAIN runs' = DOMAIN runs /\ \A i \in DOMAIN runs : Same(runs[i], runs'[i])
  BY <1>1, <1>2, <1>3, <1>4, <1>5
<1> QED
  BY <1>1, <1>6, EntryStays

LEMMA NextDecided == Inv /\ EntriesOK /\ DecidedOK /\ [Next]_vars => DecidedOK'
<1> SUFFICES ASSUME Inv, EntriesOK, DecidedOK, [Next]_vars PROVE DecidedOK'
  OBVIOUS
<1>1. Inv' /\ runs \in Seq(Run)
  BY NextInv DEF Inv, TypeOK
<1>2. ASSUME Stays(runs, runs'), DOMAIN runs' = DOMAIN runs,
             \A r \in Rounds : round'[r] \in {round[r], IdleRound}
      PROVE  DecidedOK'
  <2>1. IdleRound.step # "alerting"
    BY DEF IdleRound
  <2> QED
    BY <1>1, <1>2, <2>1, DecidedKept
<1>3. ASSUME NEW i \in DOMAIN runs, RunStep(i) PROVE DecidedOK'
  <2>1. UNCHANGED round
    BY <1>3 DEF RunStep, PersistRunStart, RunEnds, PersistRunCompletion, Unreject
  <2> QED
    BY <1>1, <1>2, <1>3, <2>1, RunStepStays
<1>4. CASE Stop \/ Register
  <2>1. \A r \in Rounds : round'[r] \in {round[r], IdleRound}
    BY <1>4 DEF Stop, Register, Start, ReconcileIncompleteRuns, LoadHistory
  <2> QED
    BY <1>1, <1>2, <1>4, <2>1, RestartStays
<1>5. CASE Tick \/ SetEnabled \/ (\E e \in Schedules : SetCronExpression(e)) \/ UNCHANGED vars
  <2>1. UNCHANGED <<runs, round>>
    BY <1>5 DEF Tick, SetEnabled, SetCronExpression, vars
  <2>2. Stays(runs, runs')
    BY <1>1, <2>1, EntryStays
  <2> QED
    BY <1>2, <2>1, <2>2
<1>6. CASE CronFires \/ TriggerScheduledTask
  <2>1. PICK by \in {"cron", "admin"} : Execute(by, Nothing, 0)
    BY <1>6 DEF CronFires, TriggerScheduledTask
  <2>2. UNCHANGED round
    BY <1>6 DEF CronFires, TriggerScheduledTask, Unreject
  <2>3. Stays(runs, runs') /\ \A j \in DOMAIN runs' \ DOMAIN runs : runs'[j].by # "watchdog"
    BY <1>1, <2>1, ExecuteStays
  <2> QED
    BY <1>1, <2>2, <2>3, DecidedKept
<1>7. ASSUME NEW r \in Rounds, AlertSent(r) PROVE DecidedOK'
  <2>1. /\ round[r].step = "alerting" /\ Execute("watchdog", round[r].slot, round[r].seen)
        /\ round' = [round EXCEPT ![r] = IdleRound]
    BY <1>7 DEF AlertSent
  <2>2. /\ Stays(runs, runs')
        /\ \A j \in DOMAIN runs' \ DOMAIN runs :
             runs'[j].slot = round[r].slot /\ runs'[j].seen = round[r].seen
    BY <1>1, <2>1, ExecuteStays
  <2>3. counts.rejects = 0 => Decided(runs, round[r].seen, round[r].slot)
    BY <2>1 DEF DecidedOK, AllDecided
  <2>4. \A s \in Rounds : round'[s] = IF s = r THEN IdleRound ELSE round[s]
    BY <2>1 DEF Inv, TypeOK
  <2>5. IdleRound.step # "alerting"
    BY DEF IdleRound
  <2> QED
    BY <1>1, <2>2, <2>3, <2>4, <2>5, DecidedKept
<1>8. ASSUME NEW r \in Rounds, RecoverOverdue(r) PROVE DecidedOK'
  <2> DEFINE slot == PreviousSlot(schedule)
  <2>1. slot \in Nat
    BY SlotIsTime DEF Inv, TypeOK
  <2>2. server = "up" /\ ~TaskIsRunning /\ ~Covered(slot)
    BY <1>8 DEF RecoverOverdue, IsOverdue
  <2>3. \/ Execute("watchdog", slot, Len(runs)) /\ UNCHANGED round
        \/ /\ UNCHANGED runs
           /\ round' = [round EXCEPT ![r] =
                          [step |-> "alerting", slot |-> slot, seen |-> Len(runs)]]
    BY <1>8 DEF RecoverOverdue
  <2> HIDE DEF slot
  <2>4. counts.rejects = 0 => Decided(runs, Len(runs), slot)
    BY <2>1, <2>2, UncoveredIsOpen
  <2>5. CASE Execute("watchdog", slot, Len(runs)) /\ UNCHANGED round
    <3>1. /\ Stays(runs, runs')
          /\ \A j \in DOMAIN runs' \ DOMAIN runs :
               runs'[j].slot = slot /\ runs'[j].seen = Len(runs)
      BY <1>1, <2>5, ExecuteStays
    <3> QED
      BY <1>1, <2>4, <2>5, <3>1, DecidedKept
  <2>6. CASE /\ UNCHANGED runs
             /\ round' = [round EXCEPT ![r] =
                            [step |-> "alerting", slot |-> slot, seen |-> Len(runs)]]
    <3>1. \A s \in Rounds : \/ round'[s] = round[s]
                            \/ round'[s].slot = slot /\ round'[s].seen = Len(runs)
      BY <2>6 DEF Inv, TypeOK
    <3>2. Stays(runs, runs') /\ DOMAIN runs' = DOMAIN runs
      BY <1>1, <2>6, EntryStays
    <3> QED
      BY <1>1, <2>4, <3>1, <3>2, DecidedKept
  <2> QED
    BY <2>3, <2>5, <2>6
<1> QED
  BY <1>3, <1>4, <1>5, <1>6, <1>7, <1>8 DEF Next, WatchdogStep

\* As long as no store call is rejected, a run that the watchdog starts makes up for a
\* slot that nothing had covered when it was decided on, but for a run that was lost
\* before its start was recorded; however long the email takes in between, and however
\* often the process has stopped before.
THEOREM NoRunIsNeedless == Spec => []NoNeedlessRun
<1>1. Init => Reconciled /\ EntriesOK /\ DecidedOK
  <2>1. Init => DOMAIN runs = {} /\ \A r \in Rounds : round[r].step = "idle"
    BY DEF Init, IdleRound
  <2> QED
    BY <2>1 DEF Init, Reconciled, EntriesOK, DecidedOK, AllDecided
<1> QED
  BY <1>1, InitInv, NextInv, NextReconciled, NextEntries, NextDecided, DecidedImplies, PTL DEF Spec
=============================================================================
