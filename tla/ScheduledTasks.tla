--------------------------- MODULE ScheduledTasks ---------------------------
(***************************************************************************)
(* One scheduled task of server/lib/cron/scheduled-task-registry.ts: the   *)
(* cron job, an admin and the watchdog start it, its runs are kept in the  *)
(* memory of the process and in the database, and a process that starts    *)
(* again reads them back.  Whether a run is overdue is decided as in       *)
(* scheduled-task-overdue.ts.  Time is counted in units of the grace.      *)
(***************************************************************************)
EXTENDS Naturals, Sequences, FiniteSets

CONSTANTS
  Schedules,   \* the cron expressions in use, of tasks that run every hour or less often
  Phase,       \* Phase[e]: when in an interval the slot of e is
  Interval,    \* expectedIntervalMs
  Rounds,      \* rounds of the watchdog that can be under way at the same time
  Nothing,     \* the slot of what has none
  MaxTime,     \* bound: when time stands still
  MaxManual,   \* bound: the runs an admin asks for
  MaxEdits,    \* bound: how often an admin changes the schedule or switches it on or off
  MaxRejects,  \* bound: the store calls that are rejected
  MaxStops     \* bound: how often the process stops

ASSUME ScheduledTasksAssumption ==
  /\ Schedules # {}
  /\ Interval \in Nat \ {0}
  /\ \A e \in Schedules : Phase[e] \in 0 .. Interval - 1
  /\ Nothing \notin Nat
  /\ \A n \in {MaxTime, MaxManual, MaxEdits, MaxRejects, MaxStops} : n \in Nat

VARIABLES
  now,          \* the time
  schedule,     \* registered.definition.cronExpression
  enabled,      \* registered.enabled
  server,       \* how far registerScheduledTask has come since the process started
  due,          \* the timer of the cron job has expired
  runs,         \* every run there has been, in the order in which they started
  round,        \* what each round of the watchdog is doing
  alerted,      \* missedAlertWindows: the next slot when an overdue run was last announced
  unreconciled, \* history: reconcileIncompleteRuns of this process has failed
  counts        \* the counters that the bounds apply to

vars == <<now, schedule, enabled, server, due, runs, round, alerted, unreconciled, counts>>

\* did: what the run came to, "running" if it never ended.  record: its status in the
\* database.  place: in the history as a run of this process, as one that was loaded,
\* or not at all.  slot: the slot a run of the watchdog makes up for; seen: the number
\* of runs there were when the watchdog decided on it.
RunStatus == {"running", "succeeded", "failed"}
Run == [by : {"cron", "admin", "watchdog"}, start : Nat, slot : Nat \cup {Nothing}, seen : Nat,
        step : {"starting", "running", "completing", "over", "lost"}, did : RunStatus,
        record : RunStatus \cup {"none"}, place : {"own", "loaded", "gone"}]

IdleRound == [step |-> "idle", slot |-> Nothing, seen |-> 0]

TypeOK ==
  /\ now \in Nat /\ Interval <= now
  /\ schedule \in Schedules /\ enabled \in BOOLEAN
  /\ server \in {"down", "reconciling", "loading", "up"}
  /\ due \in BOOLEAN /\ unreconciled \in BOOLEAN
  /\ runs \in Seq(Run)
  /\ round \in [Rounds -> [step : {"idle", "alerting"}, slot : Nat \cup {Nothing}, seen : Nat]]
  /\ alerted \in Nat \cup {Nothing}
  /\ counts \in [manual : 0 .. MaxManual, edits : 0 .. MaxEdits, rejects : 0 .. MaxRejects,
                 stops : 0 .. MaxStops]
  /\ server # "up" => /\ ~due
                      /\ \A r \in Rounds : round[r] = IdleRound
                      /\ \A i \in DOMAIN runs : runs[i].step \in {"over", "lost"}

-----------------------------------------------------------------------------
IsSlot(e, t) == t % Interval = Phase[e]

\* previousExpectedRun(cronExpression, nextRunAt): the last slot that is not in the future.
PreviousSlot(e) == now - ((now + Interval - Phase[e]) % Interval)

History == {i \in DOMAIN runs : runs[i].place # "gone"}
Status(i) == IF runs[i].place = "own" THEN runs[i].did ELSE runs[i].record
TaskIsRunning == \E i \in History : Status(i) = "running"

\* Mutant: what has failed has not covered its slot.
SucceededCovers(slot) == \E i \in History : Status(i) = "succeeded" /\ runs[i].start + 1 >= slot

\* lastCompletedCoversSlot, for a slot and the runs a history shows.
Covered(slot) == \E i \in History : Status(i) # "running" /\ runs[i].start + 1 >= slot

IsOverdue == now >= PreviousSlot(schedule) + 1 /\ ~Covered(PreviousSlot(schedule))

Unreject == UNCHANGED <<now, schedule, enabled, server, due, round, alerted, unreconciled>>

\* A store call is rejected.
Reject == counts.rejects < MaxRejects /\ counts' = [counts EXCEPT !.rejects = @ + 1]

-----------------------------------------------------------------------------
(***************************************************************************)
(* executeTask                                                             *)
(***************************************************************************)
NewRun(by, slot, seen) ==
  [by |-> by, start |-> now, slot |-> slot, seen |-> seen, step |-> "starting",
   did |-> "running", record |-> "none", place |-> "own"]

\* Mutant: a trigger does not look whether the task is running.
ExecuteAnyway(by, slot, seen) == runs' = Append(runs, NewRun(by, slot, seen))

\* A trigger that overlaps a run is skipped.
Execute(by, slot, seen) ==
  \/ TaskIsRunning /\ UNCHANGED runs
  \/ ~TaskIsRunning /\ runs' = Append(runs, NewRun(by, slot, seen))

Step(i, from, to) == runs[i].step = from /\ runs' = [runs EXCEPT ![i] = to]

PersistRunStart(i) ==
  /\ \/ /\ Step(i, "starting", [runs[i] EXCEPT !.step = "running", !.record = "running"])
        /\ UNCHANGED counts
     \/ Step(i, "starting", [runs[i] EXCEPT !.step = "running"]) /\ Reject
  /\ Unreject

RunEnds(i) ==
  /\ \E status \in {"succeeded", "failed"} :
       Step(i, "running", [runs[i] EXCEPT !.step = "completing", !.did = status])
  /\ UNCHANGED counts /\ Unreject

\* Mutant: the entry is updated with the status that the run started with.
PersistStaleStatus(i) ==
  /\ Step(i, "completing", [runs[i] EXCEPT !.step = "over", !.record = "running"])
  /\ UNCHANGED counts /\ Unreject

\* The entry of a start that was not persisted is created.
PersistRunCompletion(i) ==
  /\ \/ /\ Step(i, "completing", [runs[i] EXCEPT !.step = "over", !.record = runs[i].did])
        /\ UNCHANGED counts
     \/ Step(i, "completing", [runs[i] EXCEPT !.step = "over"]) /\ Reject
  /\ Unreject

-----------------------------------------------------------------------------
(***************************************************************************)
(* What starts a run.                                                      *)
(***************************************************************************)

\* Mutant: the cron job runs before the task is registered.
TickEarly ==
  /\ now < MaxTime
  /\ now' = now + 1
  /\ due' = (enabled /\ IsSlot(schedule, now + 1))
  /\ UNCHANGED <<schedule, enabled, server, runs, round, alerted, unreconciled, counts>>

\* A timer that the process has not got round to by the next unit is given up.
Tick ==
  /\ now < MaxTime
  /\ now' = now + 1
  /\ due' = (server = "up" /\ enabled /\ IsSlot(schedule, now + 1))
  /\ UNCHANGED <<schedule, enabled, server, runs, round, alerted, unreconciled, counts>>

CronFires ==
  /\ due
  /\ due' = FALSE
  /\ Execute("cron", Nothing, 0)
  /\ UNCHANGED <<now, schedule, enabled, server, round, alerted, unreconciled, counts>>

TriggerScheduledTask ==
  /\ server = "up" /\ counts.manual < MaxManual
  /\ Execute("admin", Nothing, 0)
  /\ counts' = [counts EXCEPT !.manual = @ + 1]
  /\ Unreject

\* Mutant: an overdue run is announced once and left to the cron job.
AnnounceOnly(r) ==
  /\ server = "up" /\ round[r] = IdleRound
  /\ enabled /\ ~TaskIsRunning /\ IsOverdue /\ alerted # PreviousSlot(schedule) + Interval
  /\ alerted' = PreviousSlot(schedule) + Interval
  /\ UNCHANGED <<now, schedule, enabled, server, due, runs, round, unreconciled, counts>>

\* recoverOverdueTask: the first round that finds a run overdue announces it and waits
\* for the email; a round that finds it announced starts the run at once.
RecoverOverdue(r) ==
  LET slot == PreviousSlot(schedule)
      next == slot + Interval
  IN
  /\ server = "up" /\ round[r] = IdleRound
  /\ enabled /\ ~TaskIsRunning /\ IsOverdue
  /\ \/ /\ alerted = next
        /\ Execute("watchdog", slot, Len(runs))
        /\ UNCHANGED <<round, alerted>>
     \/ /\ alerted # next
        /\ alerted' = next
        /\ round' = [round EXCEPT ![r] = [step |-> "alerting", slot |-> slot, seen |-> Len(runs)]]
        /\ UNCHANGED runs
  /\ UNCHANGED <<now, schedule, enabled, server, due, unreconciled, counts>>

\* The email is sent, or has failed.
AlertSent(r) ==
  /\ round[r].step = "alerting"
  /\ Execute("watchdog", round[r].slot, round[r].seen)
  /\ round' = [round EXCEPT ![r] = IdleRound]
  /\ UNCHANGED <<now, schedule, enabled, server, due, alerted, unreconciled, counts>>

-----------------------------------------------------------------------------
(***************************************************************************)
(* Changes by an admin, stops and starts.                                  *)
(***************************************************************************)
Edit == counts.edits < MaxEdits /\ counts' = [counts EXCEPT !.edits = @ + 1]

SetEnabled ==
  /\ server = "up" /\ Edit
  /\ enabled' = ~enabled
  /\ due' = FALSE
  /\ UNCHANGED <<now, schedule, server, runs, round, alerted, unreconciled>>

\* The cron job is destroyed and another one created.
SetCronExpression(e) ==
  /\ server = "up" /\ Edit
  /\ e # schedule
  /\ schedule' = e
  /\ due' = FALSE
  /\ UNCHANGED <<now, enabled, server, runs, round, alerted, unreconciled>>

\* What is in memory is gone, and so is the rest of a run.
Stop ==
  /\ server # "down" /\ counts.stops < MaxStops
  /\ server' = "down" /\ due' = FALSE
  /\ runs' = [i \in DOMAIN runs |->
       [runs[i] EXCEPT !.place = "gone", !.step = IF @ = "over" THEN "over" ELSE "lost"]]
  /\ round' = [r \in Rounds |-> IdleRound]
  /\ alerted' = Nothing /\ unreconciled' = FALSE
  /\ counts' = [counts EXCEPT !.stops = @ + 1]
  /\ UNCHANGED <<now, schedule, enabled>>

Start ==
  /\ server = "down"
  /\ server' = "reconciling"
  /\ UNCHANGED <<now, schedule, enabled, due, runs, round, alerted, unreconciled, counts>>

\* Mutant: the history is loaded as it is.
ReconcileNothing ==
  /\ server = "reconciling"
  /\ server' = "loading"
  /\ UNCHANGED <<now, schedule, enabled, due, runs, round, alerted, unreconciled, counts>>

\* A run that the database shows as running was interrupted.
ReconcileIncompleteRuns ==
  /\ server = "reconciling"
  /\ server' = "loading"
  /\ \/ /\ runs' = [i \in DOMAIN runs |-> IF runs[i].record = "running"
                                          THEN [runs[i] EXCEPT !.record = "failed"] ELSE runs[i]]
        /\ UNCHANGED <<unreconciled, counts>>
     \/ Reject /\ unreconciled' = TRUE /\ UNCHANGED runs
  /\ UNCHANGED <<now, schedule, enabled, due, round, alerted>>

\* The cron job is started if the task is enabled, and the task is registered.
LoadHistory ==
  /\ server = "loading"
  /\ server' = "up"
  /\ \/ /\ runs' = [i \in DOMAIN runs |-> IF runs[i].record # "none"
                                          THEN [runs[i] EXCEPT !.place = "loaded"] ELSE runs[i]]
        /\ UNCHANGED counts
     \/ Reject /\ UNCHANGED runs
  /\ UNCHANGED <<now, schedule, enabled, due, round, alerted, unreconciled>>

-----------------------------------------------------------------------------
Init ==
  /\ now = Interval
  /\ schedule \in Schedules /\ enabled \in BOOLEAN
  /\ server = "down" /\ due = FALSE
  /\ runs = <<>>
  /\ round = [r \in Rounds |-> IdleRound]
  /\ alerted = Nothing /\ unreconciled = FALSE
  /\ counts = [manual |-> 0, edits |-> 0, rejects |-> 0, stops |-> 0]

RunStep(i) == PersistRunStart(i) \/ RunEnds(i) \/ PersistRunCompletion(i)
WatchdogStep(r) == RecoverOverdue(r) \/ AlertSent(r)
Register == Start \/ ReconcileIncompleteRuns \/ LoadHistory

Next ==
  \/ \E i \in DOMAIN runs : RunStep(i)
  \/ \E r \in Rounds : WatchdogStep(r)
  \/ \E e \in Schedules : SetCronExpression(e)
  \/ Tick \/ CronFires \/ TriggerScheduledTask \/ SetEnabled \/ Stop \/ Register

Spec == Init /\ [][Next]_vars

\* The timer of the watchdog goes on firing and its emails are sent or fail; a run may
\* never end, and time may stand still.
FairSpec == Spec /\ \A r \in Rounds : WF_vars(WatchdogStep(r))

-----------------------------------------------------------------------------
(***************************************************************************)
(* Properties                                                              *)
(***************************************************************************)
Alive(i) == runs[i].step \in {"starting", "running"}

\* The task is never run twice at the same time, whichever of cron job, admin and
\* watchdog start it, across restarts and whatever the history that was loaded shows.
OneRunAtATime ==
  \A i, j \in DOMAIN runs : Alive(i) /\ Alive(j) => i = j

\* While the history shows a run going on, which keeps the task from being started,
\* there is one: a task is never blocked by the record of a run that was interrupted,
\* unless the update that reconciles it was rejected.
RunningMeansAlive ==
  server = "up" /\ TaskIsRunning => unreconciled \/ \E i \in DOMAIN runs : Alive(i)

\* A run that the watchdog starts makes up for a slot that no run had covered when it
\* was decided on: not one that succeeded or failed before or after a restart, only one
\* that was interrupted before its start was persisted.  And if two make up for the
\* same slot, both were decided on before either had started.
NoNeedlessRun ==
  counts.rejects = 0 =>
    \A i, j \in DOMAIN runs :
      /\ runs[j].by = "watchdog" /\ i <= runs[j].seen /\ runs[i].start + 1 >= runs[j].slot
      => runs[i].step = "lost" /\ runs[i].record = "none"

\* The database never calls a run succeeded that has not, and once the task is
\* registered again it shows no interrupted run as going on; unless a call was rejected
\* what is over is recorded as it ended.
HistoryTellsTruth ==
  \A i \in DOMAIN runs :
    /\ runs[i].record = "succeeded" => runs[i].did = "succeeded"
    /\ runs[i].step = "lost" /\ server = "up" /\ ~unreconciled => runs[i].record # "running"
    /\ runs[i].step = "over" /\ counts.rejects = 0 => runs[i].record = runs[i].did

\* A slot that was missed is made up for, as long as the task stays enabled and the
\* process stays up: whatever the slot was lost to, its run is started, unless the
\* history has a record of a run that could not be reconciled.
Missed == server = "up" /\ enabled /\ IsOverdue
MissedSlotRuns ==
  Missed ~> (~Missed \/ unreconciled \/ \E i \in DOMAIN runs : Alive(i))
=============================================================================
