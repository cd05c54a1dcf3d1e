# A TLA+ model of the NGX-Ramblers server

NGX-Ramblers is the web site of a Ramblers group: an Angular client and a Node server
(`src/server`) over a MongoDB database.  This directory holds TLA+ modules for the parts
of the server in which the order of events matters, the TLC configurations that check
them on small instances, and theorems about them that TLAPS checks for every value of the
constants.  Paths below are relative to the repository; `lib/` stands for `src/server/lib/`.

## 1. The system

One Node process serves the requests, runs the cron jobs and talks to Google, Brevo, AWS
and the Ramblers site.  Its code is single threaded: what can interleave is what happens
between two `await`s.  The state it shares is in MongoDB, where a document is written
without transactions, and in a few module-level variables.  Several processes can be
connected to one database (a second instance during a deployment, the command line, an
integration worker).

| Component | State | Operations | What makes it hard | What makes it correct |
|---|---|---|---|---|
| **Event bookings** `lib/mongo/controllers/booking.ts` | the booking documents of an event and their status | `create` (duplicates, capacity, displacement for members, insert), `cancel` (save, restoring of the waiting list), CRUD `update` and `delete` by an admin | every check is a find, every effect a later save, nothing is locked; restoring is not awaited; a failed displacement is rolled back by hand | no overbooking, one booking per address, cancellations stand, the waiting list is served in order, everybody is told what happened |
| **Database migrations** `lib/mongo/migrations/migrations-runner.ts` | the changelog, the simulated changelog, which of them is active | `migrationStatus`, `runPendingMigrations`, `runMigration`, `clearFailedMigrations`, `setMigrationSimulation`, `clearMigrationSimulation` | effect and record are two steps; a retry deletes before it writes; the active collection is read more than once; there is no lock | what is recorded has happened, nothing happens twice, nothing settled becomes unsettled, a simulation leaves the real changelog alone |
| **Scheduled tasks** `lib/cron/scheduled-task-registry.ts`, `scheduled-task-overdue.ts` | per task a cron job, its running flag and history; one configuration document for all tasks | register, enable, reschedule, trigger, run, reconcile after a restart, watchdog for missed slots | read-modify-write of one document; a run that never ends; three triggers for one task; a process that stops in a run | one run of a task at a time, every change of a setting survives, a missed slot is made up for once |
| **Ramblers upload** `lib/ramblers/ramblers-upload-queue.ts`, `ramblers-upload-walks.ts`, `integration-worker-heavy-job-queue.ts`, `integration-worker-runner.ts`, `ramblers-upload-session-registry.ts` | a queue of uploads on the website or on the worker, the running one, its subprocess, the sessions of the website, the execution state of the worker | dispatch, start, cancel, `exit` of the subprocess, progress and result calls, socket closed | the website's executor returns before its subprocess ends; results are lost or come to a website that was restarted; queued jobs whose client has gone | what is cancelled never runs, the worker reports for the job that runs, every job is answered |
| **Download status** `lib/ramblers/download-status-manager.ts` | the current download, a clean-up timer | start, progress, complete, error, override, time-based queries | the timer of one download fires in the next; only someone who looks lets go of a silent one | the status is let go of |
| **Inbox synchronisation** `lib/inbox/inbox-poller.ts`, `inbox-message-import.ts` | per mailbox a history cursor, a watch, imported messages, two coalescing sets | timer poll, push sync, watch renewal, reconnection | polls of one mailbox overlap and finish in any order; the cursor is read after the list it belongs to; delivery of pushes is lossy | no message is passed over unseen, none is stored twice; a push is never forgotten |
| **Backups** `lib/backup/backup-concurrency.ts`, `lib/backup/backup-and-restore-service.ts`, `lib/cron/backups-job.ts` | the slots of the process and those who wait for one, a session document per backup, the workers of the scheduled task, the scale of the apps | ask for a slot, release it; start and execute a backup, scale an app down and up; poll, time out, retry; clean up after a restart | a slot is handed over without being freed; a worker that gives up leaves its backup running; the catch and finally blocks have store calls of their own | the limit is kept and no slot leaks, waiters are served in order, the task ends and reports what is true, a scaled down app comes back |
| **Idle cache** `lib/shared/idle-cache.ts` | a value, a timer, the load under way | get, touch, clear | a load that is overtaken by a clear | no stale value after a clear, one load at a time |
| **Map tile limiter** `lib/os-maps/os-maps-tile-limiter.ts` | counters of two windows and an alert flag | reserve | windows that start at different times | the limits are kept, one alert per period |
| **Batch sends** `lib/brevo/transactional-mail/batch-transactional-send.ts` | a job in memory per batch, the cancelled ones; what Brevo accepted, what was recorded, who was removed from the group | start, send one by one, cancel, record, apply actions, forget | a flag that a loop looks at between awaits; pruning while jobs run; actions that depend on what was sent | nothing is sent after a cancel, a running job is known, nobody is removed who was not reached |
| **Mail limiter and campaigns** `lib/brevo/common/rate-limiting.ts`, `lib/brevo/campaigns/` | the Bottleneck limiter, a campaign queue | schedule, back off after a 429 | a library's | the rate is kept |
| Reminders, health, configuration store, CRUD controllers, web sockets, walk events, expenses, login, content, site migration, set-up, integrations, browser automation | | | see section 12 | |

How they interact: the server's start connects the database, runs the pending
migrations in the background and meanwhile registers the scheduled tasks (reminders,
backups, inbox polls and watch renewals are tasks); the admin page calls the migrations and the task registry through
routes; an upload runs on the website or, if one is configured, on an integration worker, a second
process that is called and calls back, and reports through web sockets and the download status; a
push of Gmail, a timer, an admin and the daily renewal of the watches poll the same mailboxes; health
answers report the state that the migrations keep.

The hazards this code is exposed to, with their lines and the property that is about
each, are listed in `PROJECT.json`.

## 2. The plan

| Order | Module | State |
|---|---|---|
| 1 | `Bookings`, `MCBookings`, `BookingsProofs` | written, checked, all its safety properties proved |
| 2 | `MigrationRunner`, `MCMigrationRunner`, `MigrationRunnerProofs` | written, checked, all its safety properties proved |
| 3 | `SlotPool` (abstract), `BackupSlots`, `Backups`, `MCBackups`, `BackupSlotsProofs`, `BackupsProofs` | written, checked; the slots and their refinement, the limit on backups, the truth of the report, the one backup at a time of an environment, the scale and the end of the sessions proved |
| 4 | `ScheduledTasks`, `MCScheduledTasks`, `ScheduledTasksProofs` | written, checked; one run at a time, the reconciliation, the truth of the history and the restraint of the watchdog proved |
| 5 | `WalksUpload`, `WalksUploadProofs` | written, checked: queue, sessions, subprocess, the worker with its callbacks, the status of the download; what the worker knows, the finality of a cancellation, and the safety halves of its liveness proved |
| 6 | `InboxSync`, `InboxSyncProofs` | written, checked: overlapping polls, cursor, watch, coalesced pushes; what the cursor leaves behind, what is stored twice and what becomes of a push proved |
| 7 | `BatchSend`, `MCBatchSend`, `BatchSendProofs` | written, checked: the jobs of batch sends, their cancellation, pruning and post-send actions; all its safety properties proved |

A module has an MC module where its instance needs definitions, and a `Proofs` module.  Every
safety invariant and action property that a run checks is also a theorem.  What remains of the
plan is in the second half of section 11: the liveness properties stay with TLC, and of two of
them the theorems prove the safety half.

## 3. Event bookings

`Bookings` models the handlers of `lib/mongo/controllers/booking.ts` over the bookings of
one event.  A booking document exists in the model before it is created, with the status
`"none"`: what a client would send in it (attendees, `createdAt`, whether it is a member's)
is a constant.  `req[h]` is where request `h` stands and what it holds in its local
variables; every awaited call of the store is a step, and what is done between two awaits is
part of the step before.

| Action | Code |
|---|---|
| `FindDuplicates`, `FindCapacity`, `Insert` | `create`: the duplicate check, the capacity check, `booking.create` with the confirmation |
| `FindNonMembers`, `DisplaceNext`, `DisplacedEnough` | `displaceNonMemberBooking`: the newest bookings of non-members move to the waiting list until there is room, then all are told |
| `DisplacedTooFew`, `RollBackNext`, `RolledBack` | the same when the places do not suffice: what was displaced is put back, in any order, and the request is refused |
| `FindBooking`, `SaveCancelled` | `cancel` |
| `FindWaitlisted`, `RestoreNext`, `RestoreEnds` | `restoreWaitlistedBookings`, which `cancel` starts and does not wait for |
| `AdminDelete`, `AdminReassign` | `deleteOne` and `update` of `crud-controller.ts`, as `bookings.component.ts` uses them |
| `PublicBookingOpens` | the member priority window ends |
| `Fail` | a store call is rejected or the process stops: the handler ends where it is |

A save writes the document as it was read: `Write` sets the status whatever it has
become.  It marks every other handler in flight as *overtaken*; a handler that places a
booking while overtaken sets `raced`.  The code takes no lock, so two requests that race
can overbook an event; the properties say what holds *unless* that happens, so that they
name the one gap there is and exclude every other way to the same harm.  `NoOverbooking`,
`OneBookingPerEmail`, `CancelledStaysCancelled` and `RestoredInOrder` read that way;
`HolderKnows` compares what people were last told with what the store says when nothing is
in flight, and `NobodyWaitsForNothing` the waiting list with all bookings ever made: if somebody waits
at rest, more places were booked than the event holds, although the places waited for may be free
again since (finding 1).  An admin who moves a waiting booking in is excepted, and handlers cut short.

Left out: events without a capacity (nothing can go wrong with room for all), bookings
without an event, attendee records shared by two bookings (their sets are disjoint, so that
places are counted as in the code); emails are sent in the step whose save they follow, and
one that fails is logged by the code and changes nothing.  A deletion only frees places and
does not count as overtaking.

## 4. Database migrations

`MigrationRunner` models `migrations-runner.ts`.  `log[c][n]` is the sequence of entries
about migration `n` in collection `c`, because a retry deletes one entry and inserts another
and the last one counts.  A *call* is one invocation of a runner from the start of a server,
the admin page or the command line, in any process; its local variables are in `call[h]`.

| Action | Code |
|---|---|
| `StatusBegins`, `RetireFailed`, `FindMissingRetired`, `InsertMissingRetired`, `FindStatus` | `migrationStatus` with `retireBrevoTemplateMigrationsInChangelog`, alone or as the first part of a run |
| `RunBegins`, `ResolveCollection`, `NextFile`, `RunEnds` | `runPendingMigrations` and its loop |
| `SingleBegins`, `UpMissing` | `runMigration`, for which an admin names the file |
| `DeleteEntry`, `UpReturns`, `UpThrows`, `Record`, `RecordError`, `StoreRejects` | both: the retry's `deleteOne`, `up`, the inserts of the try and of the catch block |
| `IgnoreBegins`, `IgnoreFailed` | `clearFailedMigrations` |
| `SimulationBegins`, `EmptySimulation`, `CopyChangelog`, `InsertFailures`, `SetActiveCollection` | `setMigrationSimulation` |
| `ClearBegins`, `DropSimulation`, `PurgeChangelog`, `SetActiveCollection` | `clearMigrationSimulation` |
| `Stop` | the process stops, or an access outside the try of the loop fails |

`took` counts how often `up` has returned for a migration without being skipped: what has
happened, against which the changelog is held.  `AppliedTookEffect` needs no condition.
`TakesEffectOnce` and `SettledStays` name what may make a migration take effect again (an
admin who asks for it, a call cut short between `up` and its record, a simulation that is
dropped) in `again`, and hold as long as no two changing calls have overlapped; overlapping
calls are finding 3.  `SuccessMeansSettled` is about a run that answers success, and
`SimulationIsolated` about the changelog while a simulation is active.

Left out: `.ts` and `.js` names of one migration are one name; the active collection is
read in the step in which a call begins; `find` and `insertMany` of a simulation's copy are
one step; what `up` does to the data is one step that happens or does not; the database
connection that is cached between calls.

## 5. Backups

`BackupSlots` is `backup-concurrency.ts`: the counter `active`, the array `waiters`, and for
each call of `withBackupSlot` whether its `acquire()` is pending or has resolved.  `SlotPool`
says what callers rely on, without a counter and without a hand-over: at most `Limit`
hold a slot, nobody waits while one is free, first come first served.  `ServesInOrder` is
the refinement: holders are those whose `acquire()` has resolved, the queue is `waiters`.

`Backups` composes the slots with the backups that take them and the scheduled task that
starts them.

| Action | Code |
|---|---|
| `WorkerStarts`, `StartManually`, `AskForSlot` | `startBackup`: the session, the email, `withBackupSlot` (not awaited) |
| `Begin`, `ScaleDown`, `Dump`, `Complete`, `Notify`, `Fail`, `RestoreScale` | `executeBackup`: its awaits, its catch and its finally block |
| `ReleaseSlot`, `Catch` | the finally block of `withBackupSlot`, the `.catch` of `startBackup` |
| `JobRejected`, `WorkerRejected` | a store call is rejected, wherever there is one |
| `RunBegins`, `NextEnvironment`, `RunEnds` | `backupAllEnvironments` and `runBackupPool` |
| `PollEnds`, `Deadline`, and `Retry` in them | `waitForBackupCompletion`, `backupEnvironment` and its retries |
| `Stop`, `CleanUp` | the process stops: slots, jobs and workers are gone, sessions stay; `cleanupStuckSessions` marks them when an admin lists them |

`RunReportsTruth` relates the task's report to dumps that have succeeded, across retries and
deadlines.  `NoSecondBackup` says when two backups of one environment can overlap: only
after a worker has given the first one up (a deadline leaves it going, or waiting for a
slot).  `ScaleRestored` follows an app through overlapping and failing backups: it is down
only while someone is still to scale it up.  `EverySessionEnds` and `TaskEnds` are the
liveness of both halves, the second with dumps that never end.

Left out: the text of sessions and emails; `mongodump`, the upload and the copy of S3
objects are one step that succeeds or fails, and a `flyctl` that cannot be started at all is
one that hangs; polling and retry delays are steps that may come at any time; one run of the
scheduled task; sessions are numbered in the order in which they are created.  Restoring a
backup takes no slot and is not modelled, nor is the command line, which has slots of its
own.

## 6. Scheduled tasks

`ScheduledTasks` is one task of `lib/cron/scheduled-task-registry.ts`.  `runs` has every run
there has been: how far it has come (`step`), what it came to (`did`), what the database says
of it (`record`) and whether the history in memory shows it, as a run of this process or as
one that was loaded (`place`).  Time is an action of its own; it is counted in units of the
grace, within which a run that starts early covers its slot.

| Action | Code |
|---|---|
| `CronFires`, `TriggerScheduledTask`, `AlertSent` with `Execute` in them | `executeTask` up to its first await: the look at the history and the entry for the run |
| `PersistRunStart`, `RunEnds`, `PersistRunCompletion` | the rest of `executeTask` |
| `RecoverOverdue`, `AlertSent` | `recoverOverdueTask`: the decision, the marker, the email, the run |
| `SetEnabled`, `SetCronExpression` | `setScheduledTaskEnabled`, `setScheduledTaskCronExpression` |
| `Start`, `ReconcileIncompleteRuns`, `LoadHistory` | `registerScheduledTask` after a start of the process |
| `Tick`, `Stop` | time, with the timer of node-cron; the process stops |

`OneRunAtATime` and `RunningMeansAlive` are the two halves of the running flag, which is
no flag but an entry in a history: it must be there while a run goes on, and must not be
there when none does.  `HistoryTellsTruth` relates the database to what happened, across
stops and rejected calls.  `NoNeedlessRun` relates a run of the watchdog to what had run when
it was decided on; `MissedSlotRuns` is its counterpart, that a missed slot is made up for.

Left out: the other tasks and the configuration document they share (a change by an admin is
one step, and a start finds it); tasks that are switched
off by the environment (`runtimeEnabled`) or run more often than hourly, which the
watchdog leaves alone; irregular intervals; the trimming of the history to its newest
entries; a cron job that stops by itself; a second process on the same database, whose
registration would reconcile a run that goes on elsewhere.  A run that never ends keeps its
task from running again: the code has no deadline, and no property says otherwise.

## 7. Uploads of walks

`WalksUpload` composes the upload queue of the website (`lib/ramblers/ramblers-upload-queue.ts`),
the executor of an upload (`ramblers-upload-walks.ts`), the same upload when the integration worker
runs it (`integration-worker-heavy-job-queue.ts`, `integration-worker-runner.ts`), the callbacks by
which the worker tells the website (`integration-worker-routes.ts`, `ramblers-upload-session-registry.ts`)
and the status the website shows (`download-status-manager.ts`).  Which of the two ways is taken is
configuration: `remote` is chosen in `Init` and never changes.  The queue has the same shape on
both sides, so one `active` and one `items` stand for the one in use; they differ in who is passed
over (`Runnable`) and in when an executor returns.

| Action | Code |
|---|---|
| `Dispatch`, `Submitted` | `dispatchRamblersWalksUpload`, the submission to the worker |
| `LocalPrepared`, `LocalExit` | `executeRamblersUploadJob`, which returns at the spawn, and the listeners of the subprocess |
| `WorkerPrepared`, `WorkerExit`, `WorkerFinishes` | `executeRamblersUploadJobOnWorker`, which returns after `finishJob` |
| `Progress`, `Result` | the progress and result routes of the website, and output on the website itself |
| `Enqueue`, `RunNext`, `CancelAll` | the queue: at once or behind, the next that may run, emptied by an admin |
| `StartDownload`, `CompleteDownload`, `TimerFires`, `Tick`, `Look`, `ClearStatus` | the status: its five-second timer, its two thresholds of inactivity, the admin's buttons |
| `SocketCloses`, `WebsiteStops`, `WorkerStops` | the client goes; a process stops and forgets |

`WorkerKnowsItsJob` relates the worker's one execution state to the browser that runs.
`CancelledStaysOut` follows a cancelled or passed-over job through the queue.  `StatusIsLetGo` and
`EveryUploadIsAnswered` are the liveness of both halves: the status does not stay on an upload that
has gone silent or whose process is gone, and nobody waits for ever behind another's upload; an
upload of which the website never hears (its worker failed before the spawn, or the result call
was lost) is in `unreported`.

Left out: the kinds of heavy jobs other than uploads; the canceller of a finished job, which
`CancelAll` would call for a subprocess that is gone; parsing of the browser's output; audit
records, but for the one whose failure keeps a session; the signature of the callbacks.

## 8. Inbox synchronisation

`InboxSync` is one Gmail mailbox of `lib/inbox/inbox-poller.ts` with one alias.  `cursor` is
`lastHistoryId` in a mailbox whose messages are numbered as they arrive; `polls[p]` holds what poll
`p` has in its local variables.  `copies` and `threaded` are the two places in which a message
is known: a document of its own, and the list of its thread.

| Action | Code |
|---|---|
| `Start`, `Reset`, `Push`, `Coalesce`, `Refetch` | `pollAllAliases`, the renewal of a watch, an admin's full import, `syncConnectionCoalesced` and the rerun of `runConnectionSync` |
| `List`, `Profile`, `SetCursor`, `Expire` | `pollConnection` with `pollViaListing` or `pollViaHistoryDelta` |
| `Find`, `FindThread`, `CreateThread`, `Lookup`, `Create`, `Note` | `processGmailMessageIds` and the import of a message, one step per await |
| `Register`, `Registered` | `renewWatch`: the watch, then the cursor |
| `Fail`, `Stop` | a call is rejected and the poll notes the error; the process stops |

`MissedOnlyInGaps` says which messages the cursor may leave behind: those that nothing looked at,
which `gaps` collects (older than what a listing returns, come between a listing and the cursor that
is read after it, beyond the first page of the history, come before a watch was registered).
These the code loses by its design; the property excludes every other way, such as a poll that fails
half way and moves on.  `TwiceOnlyIfContended` is its counterpart: a message is stored twice only if a poll
stored it while another one was between its search for the thread and its own store.
`PushIsFollowed` follows a push through coalescing, the rerun and the moment between
the two in which no sync is in flight.

Left out: the scan of the spam folder and `reconcileRecentSentCompositions`, which touch other
documents; several aliases of one mailbox.  Assumed: a message that is in a thread is found in
it again (`findExistingThread` looks by the ids the thread lists and by those of earlier
messages).  Once two polls have contended for a message `Lookup` may also miss it, since there may be
two threads: more than the code can do, and the property excuses it.

## 9. Batch sending of emails

`BatchSend` is `lib/brevo/transactional-mail/batch-transactional-send.ts`.  `batch[j]` is the job and
where its `processBatch` stands, `known` and `cancelled` are the map and the set in memory.

| Action | Code |
|---|---|
| `Start` with `Prune`, `Age` | `startBatchTransactionalSend` with `pruneCompletedJobs`; a job's retention ends |
| `Cancel` | `cancelBatchTransactional` |
| `Prepare`, `IsCancelled`, `Take`, `Send` | the loop of `processBatch` over the recipients |
| `AfterLoop`, `Combined` | the one email to outside recipients, if the content names none |
| `Record`, `Act` | `recordMemberEmailSends`, which logs a rejected insert and goes on; `applyPostSendActions`, which may fail half way |
| `Stop` | the process stops: jobs are gone, what Brevo has accepted is not |

`NothingBegunAfterCancel` relates the flag to both places that look at it.  `RunningIsKnown` is
about the pruning, which removes jobs while others run.  `RemovedWereReached` relates the
removal of members to what became of each of them: passed over on purpose, or sent an email that
Brevo accepted and that is on record, unless the store rejected records of the batch
(`unrecorded`); and to the loop, which must have come to its end.  It does not say that a cancellation
always prevents the actions: one accepted after the loop has looked at the flag for the last time
withholds the combined email only (section 10).

Left out: whether a member consents or has an address is a choice; the copy of a sent email in the
inbox and `recordSendUsage`, which catch and log their own failures; the text of emails.  An accepted email whose answer is lost counts as failed, as in the
code.

## 10. The runs

TLC finishes each run; the bounds are constants of the configuration files, or
constraints named in the MC modules.

| Run | Configuration | Shows | Bounds |
|---|---|---|---|
| `bookings` | `Bookings.cfg` | the properties of section 3 | two requests in flight, four bookings of two, one, two and one places by three people, two of the bookings made as a member, an event for three, one booking an admin may move in. Displacement can take one booking or two, fill the event or fall short; restoring can find a booking too large or serve two; a person can try twice: with fewer bookings one of these is lost. |
| `bookings_waitlist` | `BookingsWaitlist.cfg` | expected violation, finding 1 | one request at a time |
| `bookings_typed_email` | `BookingsTypedEmail.cfg` | expected violation, finding 2 | one request at a time |
| `migrations` | `MigrationRunner.cfg` | the properties of section 4 | one automatic, one retired and one manual file, one simulated failure, two calls in flight, four calls that change something: enough for a run, its failure, a simulation and a second run |
| `migrations_lock` | `MigrationRunnerLock.cfg` | expected violation, finding 3 | as above |
| `backups` | `Backups.cfg` | slots, overlapping backups, the scale of apps and the end of every session (section 5) | three sessions for two slots, one environment, one worker with one retry, one manual backup, one rejected store call, one stop: a third backup has to wait, a retry can overlap the first attempt and a manual backup both |
| `backups_task` | `BackupsTask.cfg` | the report, the refinement of `SlotPool`, the end of the task, with dumps that may hang | four sessions for one slot, two environments, two workers with one retry, one rejected call: each worker can time out and try again behind a backup that never ends |
| `tasks` | `ScheduledTasks.cfg` | the properties of section 6 | two schedules, each with a slot every two units of the grace and one unit apart, time for three slots of the one and two of the other; one round of the watchdog, one run by an admin, one change by an admin, one rejected call, one stop: a run can be cut short at every await, be reconciled or not, be decided on before another starts, and become overdue by a change of its schedule |
| `uploads` | `WalksUpload.cfg` | the properties of section 7 | three uploads, so that one runs and two wait, of which the first can be passed over for the second; one call that fails, one stop of the website or of the worker |
| `uploads_overlap` | `WalksUploadOverlap.cfg` | expected violation, finding 4 | two uploads, no faults |
| `inbox` | `InboxSync.cfg` | the properties of section 8 | two polls at a time, of any kind; two messages, and listings and pages of one: whatever comes second is beyond a page or a listing; one fault |
| `batch` | `BatchSend.cfg` | the properties of section 9 | two batches, two members and one outside recipient, none retained: starting the second prunes the first unless it runs; one fault. The batches are interchangeable (`mcSymmetry`), no property tells them apart and none is about liveness. |

`UntilRaced` and `UntilOverlapped` are constraints: the first state in which handlers have
raced, or changing calls have overlapped, is checked, and TLC goes no further from there.
The properties with the guard `~raced` or `~overlapped` say nothing of such states anyway;
those without it (`TypeOK`, `AppliedTookEffect`, `NobodyWaitsForNothing`) are checked up to
there and proved for all behaviours.  `CHECK_DEADLOCK
FALSE` is said where the system may come to rest: all bookings made, or the bound on
the number of calls reached.

### Fairness

`Bookings`, `MigrationRunner` and `BatchSend` are checked for safety only and assume no
fairness.

`ScheduledTasks` assumes weak fairness of each round of the watchdog, no more: its interval
timer goes on firing, and its email is sent or fails (a failure is caught by the alert code).
Nothing is assumed of the cron job, of the runs or of time.

`Backups` has two fair specifications.  `FairSpec` assumes that whatever a backup has started
(`mongodump`, `flyctl`, a store call, the hand-over of a slot) comes to an end, with success or
failure: weak fairness of each session's `JobStep`, no more, so nothing is assumed of the
task's workers.  `HungSpec` is about the task, and assumes nothing of `mongodump`, `flyctl`
or the slots: the workers' timers fire and the store answers them (weak fairness of each
worker and of the end of the pool, which the event loop gives to a timer that is due and to
a promise that is settled), and the mail service answers, since `startBackup` awaits the
email before it returns.

`WalksUpload` assumes, for each job, that what it waits for comes: the browser ends (its
steps wait 90 seconds at most), a call between website and worker is answered or fails.
Of the status it assumes that the clock moves on, that the timer of a finished
download fires, and that a page goes on asking for the status: the code lets go of a silent
download only when somebody looks, so without `WF_vars(Look)` the property would be false, and
this is the one assumption that is about people.  Nothing is assumed of what a client does with
its socket, nor of the admin.

`InboxSync` assumes weak fairness of the steps of each poll, for which Gmail and the database
answer or fail.  Nothing makes a poll begin, so that `PushIsFollowed` does not lean on the daily
renewal or the timer to clear up after a push.

### Findings

1. **The waiting list is not always served.** `restoreWaitlistedBookings` hands out the
   places of the one booking that was cancelled, in order of `createdAt`, and stops at the
   first booking that does not fit, whatever other places are free.  The email sent to a
   displaced booking says that it will be restored if a place becomes available.
2. **An address with a capital letter is not recognised.** Addresses are stored as typed
   (trimmed), the duplicate check asks the database for the lower-case form, and only what
   it returns is compared in lower case.
3. **No lock.** The README of the migrations describes a lock with a lifetime of 300 s;
   `runPendingMigrations` takes none.
4. **Uploads overlap on the website.** `executeRamblersUploadJob` resolves when it has spawned
   the subprocess and attached its listeners, so the queue starts the next upload while the
   browser of the last one still runs; the test of the queue says that the second job waits
   "until the first job finishes".  On the worker the executor waits for the exit, and
   `WorkerKnowsItsJob` is the property that needs it.

More things the models show, which no run checks.

* **Failed migrations are retried out of order.** `filesToRun` puts pending migrations before
  earlier ones that have failed, where `server/lib/mongo/migrations/README.md:18` says of the
  automatic run that it "Applies them in chronological order".
* **A displacement takes more than is missing.** It goes by the places requested
  (`booking.ts:117`, 157-168) and does not count those that are still free: of an event for three with
  two single bookings, a member who asks for two displaces both, though one would do.
* **Members can be removed without a record.** `recordMemberEmailSends` logs a rejected insert
  (`member-email-send.ts:48-52`) and the batch goes on to its actions
  (`batch-transactional-send.ts:704-714`).
* **A late cancellation does not stop the actions.** After the loop has come to its end,
  `cancelBatchTransactional` still accepts a cancellation of the batch, which then withholds at most the
  combined email: members are removed all the same.
* **A new time is a missed time.** A task that is rescheduled to a time that has passed, or switched on,
  is overdue for a slot it never had: the watchdog announces that it "did not run when expected"
  and runs it at once.

## 11. What is proved

`tlapm` checks every proof to its last leaf.  The proofs assume what the `ASSUME` of each
module says of its constants, and nothing else: TLC evaluates these assumptions on every run.

**`BookingsProofs`.**  `TypeCorrect`: `TypeOK` always.  `Capacity_Kept`: `NoOverbooking`
always.  The capacity bound is not inductive by itself: between the check and the insert it
is the handler that knows there is room.  The inductive invariant `IInv` adds, while
nothing has raced, what a handler whose reads no write has overtaken may *claim*: one about
to insert, that the active bookings and its own fit together; one that displaces, that what
it has displaced is off the list and what is queued is active; one that restores, that the
places it has yet to hand out are free; and one that rolls back, that what it puts back was
there before.  A write of one handler overtakes all the others, so each step has to preserve
the claims of one handler only.  `CancellationsStand`: `CancelledStaysCancelled`, from the
same claims.  `SerialNeverOverbooks`: with requests served one at a time nothing races
(unless an admin moves a booking in), so the event is never overbooked: the condition of
`Capacity_Kept` is met by real behaviours.  `WaitingIsDue`: `NobodyWaitsForNothing`
always, races included.  A booking that a displacement has taken is in the hands of its handler
until the displacing booking is made or it is put back (`Covered`), and that handler has found the event too
small for its own booking beside others ever made (`Sound`), which stays so as none of
them is unmade; no booking is in the hands of two creates (`Unique`), and what one handler writes
harms no other's account (`SoundOthers`).  `RestoresInOrder`:
`RestoredInOrder`; a handler that restores has the whole waiting list in its queue until it is
overtaken (`HasList`).  `OneLiveBookingPerAddress`: `OneBookingPerEmail`, inductive once each
way in which a booking becomes live has been shown to come after its look-up (`LiveStep`).
`HoldersAreTold`: `HolderKnows`, which speaks of rest only; `Informed` says what holds in
between: a booking whose holder knows of something else is active to its holder and in the
hands of a handler that has displaced it, only one handler that holds such bookings is not
overtaken (`OneFresh`), and one about to insert on reads that are overtaken will have raced
(`Doomed`).

**`MigrationRunnerProofs`.**  `TypeCorrect`: `TypeOK` always.  `AppliedMigrationsTookEffect`:
`AppliedTookEffect` always, for any number of files and of overlapping calls.  The inductive
invariant has three parts: what is in a collection as "applied" has taken effect; what a
step needs is there (a call at "up", "record" or "delete" has a file, a call that copies is
a simulation); and a call about to record "applied" has seen `up` return for that file.
`took` never decreases, so the second and third part survive the steps of other calls.
The other four hold until two changing calls overlap, and come from one invariant (`HInv`):
changing calls are alone (`Alone`); what has taken effect and nothing else may make take effect
again has done so once, and is settled in the active collection or has a call that vouches for
it, the run about to record it or the clearing about to change collections (`Once`); and a call
knows what it has read (`Knows`): its collection is the active one, nothing a run has before it
is done (`RunKnows`), and every automatic migration is settled or before the run
(`RunCovers`).  From it `TakeEffectOnce` (`TakesEffectOnce`), `SuccessIsSettled`
(`SuccessMeansSettled`), and, for what a step may do to the changelog, `SettledForGood`
(`SettledStays`) and `SimulationStaysApart` (`SimulationIsolated`).

**`BackupSlotsProofs`.**  `SlotsAlwaysAccounted`: `SlotsAccounted` in every behaviour of the
slots alone.  `SlotsInv` adds to it the types and that the array has no duplicates and holds exactly
those who wait; four lemmas say what `Acquire` and `Release` do to it with a free slot, with
none, with a waiter and without one.  `SlotsServeInOrder`: the slots implement `SlotPool`,
every step of theirs being one of the pool's or none; it needs that the counter is the
number of holders, which is why the invariant comes first.

**`BackupsProofs`.**  `SlotsAccountedAlways` and `BackupsServedInOrder` carry both results over
to `Backups`: each of its steps is a step of the slots or leaves them alone (`SlotStep`).
`TypeCorrect` and `ReportIsTrue` (`RunReportsTruth`) come from `IInv`: a session that is
completed has been dumped; a worker that polls has the session it started, of its own
environment; and an environment that a worker has taken and left is reported as
failed or has a dump of the task's own, whatever was retried in between.  They hold for
any number of sessions, slots, workers, environments and retries.  `NeverTwoBackups`
(`NoSecondBackup`) assumes that the configuration lists each environment once
(`DistinctEnvironments`): then a worker that works at an environment is the only one
(`OneEach`), and starts a second backup of it only when it has given up on the first, which
`givenUp` remembers.  `ScaleComesBack` (`ScaleRestored`): the backup that has scaled an app down keeps
going until its finally block (`Keeping`).  `BackupsWithinLimit` is what the slots are there
for: `SlotTied` ties the step of each backup to its slot, so that the backups that are being
made are among the holders, which are no more than the limit.  `NoSessionOrphaned`: a backup
that is over leaves its session unfinished only when two calls were rejected, for the two
catch blocks make up for each other (`SessionsUnended`).  The last two are
theorems only: the first follows for every backup from what the runs check of the slots, and
the runs allow one rejected call where the second speaks of two.

**`ScheduledTasksProofs`.**  `TypeCorrect`; `RunsDoNotOverlap`: `OneRunAtATime` always, for any
number of triggers, rounds and restarts.  It is not inductive by itself: a run that goes on
has to be in the history of its process as running (`AliveIsShown`), so that `Execute` sees
it.  `NeverBlocked`: `RunningMeansAlive` always, from `Reconciled`: an entry of this
process that is running goes on, there is none before the task is registered, and what is
loaded after a reconciliation is not running.  `HistoryIsTrue` (`HistoryTellsTruth`): what is
recorded of a run follows its steps (`Entry`), one condition per run, with the reconciliation
and the rejected calls as parameters.  `NoRunIsNeedless` (`NoNeedlessRun`): when the watchdog
decides on a slot, the runs it counts do not cover it, but for those interrupted before they
were recorded (`Decided`); a decision stands, as the start of a run never changes and a run
that was lost unrecorded stays so (`Stays`).

**`BatchSendProofs`**, for any finite set of recipients (`BatchAssumption`).  `TypeCorrect`;
`RunningStaysKnown`: `RunningIsKnown`, since pruning spares what runs.
`RemovedOnlyIfReached`: `RemovedWereReached`; what a job has noted of its recipients is true, the
sends it has recorded are on record unless the store rejected some of them and the
members before its place in the loop have been tried, all of them once the loop is over (`Truthful`,
`Tried`).  `CancellationHolds`:
`NothingBegunAfterCancel`.

**`InboxSyncProofs`**, for any polls, messages, and sizes of listings and pages.  `TypeCorrect`.
`CursorLeavesNothing`: `MissedOnlyInGaps`.  It needs what each poll on its way owes: up to where
it will move the cursor, every message is known, still to do, or among those it will note as
not looked at (`Tracks`); no poll's account suffers from another's steps, as what is known
stays known.  `StoredOnceUnlessContended`: `TwiceOnlyIfContended`; a poll about to store a message
has not found it stored, unless the message is contended (`OnceEach`).  `SolePollStoresOnce`: with
one poll at a time no message is stored twice at all, so failures, stops and cursors
taken back are not enough.  `PushIsNeverForgotten` is the safety half of `PushIsFollowed`:
until a poll fails, a message that a push announced is accounted for, or a sync pursues it
(`Pursues`: will read the cursor again, has it beyond the cursor it has read, or in its lists), or a sync
under way has been asked to run again.

**`WalksUploadProofs`**, for any number of jobs, failing calls and stops.  `TypeCorrect`;
`WorkerRunsItsJob`: `WorkerKnowsItsJob`, from `Uploading`: the queue holds the queued jobs, each
once (`Queueing`), and the active item is the one job that is prepared, on the worker up to the
end of its result call (`Activity`).  `CancelledForGood`: `CancelledStaysOut`.
`QueueNeverStalls`: a queued job always waits for another whose end calls `runNext`
(`Waiting`).  `EndsAreReported`: an upload that is over has been answered or, on the
worker only, its result is on its way or among those the website never hears of (`Reporting`);
it is the safety half of `EveryUploadIsAnswered`.

### What stays with TLC

- The liveness properties, which are out of the prover's reach with their fairness and the
  `ENABLED` in it: `EverySessionEnds` and `TaskEnds` of `Backups`, `MissedSlotRuns` of
  `ScheduledTasks`, `StatusIsLetGo` and `EveryUploadIsAnswered` of `WalksUpload`, `PushIsFollowed`
  of `InboxSync`.  Of the last two, `EndsAreReported`, `QueueNeverStalls` and
  `PushIsNeverForgotten` prove what a lost wake-up would break; of the first,
  `NoSessionOrphaned` proves that a session does not lose its backup while fewer than two calls
  are rejected.
- The violations that runs expect: a counterexample is all there is to show.

Induction over data and `RECURSIVE` operators are out of reach as well; no property here
needs the one, and the modules use none of the other.  Where a proof needs the least element of
a set of positions or messages, it takes it from the well-foundedness of the numbers
(`HasLeast`).

## 12. What is not modelled

- **The configuration document of the scheduled tasks.** All tasks share one document that is
  read, changed and written back whole, so that two changes at the same time can lose one, and a read
  that fails counts as an empty document.  Both are plain from the code and contradict nothing
  it says; a module would only restate them.  They are listed as a hazard.
- **Idle cache, tile limiter.** One value with a timer, and the counters of two windows that one
  synchronous step changes: small enough for unit tests to reach.  What could go wrong in the
  cache, a load that a clear has overtaken, is settled by a generation counter of a few lines.
- **Booking reminders.** A read, a send and a record per booking.  What can go wrong is that a
  stop, or a manual send, between the two sends a second reminder; as actions of `Bookings` they
  would multiply its states and share none of its properties.
- **Mail limiter and campaigns.** The limiter is the Bottleneck library with a configuration, the
  campaign queue a chain of calls to Brevo.
- **Restoring and migrating environments.** Their state is in `mongorestore`, S3 and progress
  messages; restoring takes no slot.
- **Health, configuration store, CRUD controllers.** One document read or written per
  request.  What of it matters to another component is an action there (`AdminDelete`,
  `AdminReassign`, `SetCronExpression`).
- **Web sockets.** A set of clients and a fan-out of progress messages; the socket of an upload
  is part of `WalksUpload`.
- **Walk events and expenses.** Workflows of the client over an event list that the server
  stores as it is, for one user at a time.
- **Login.** Tokens and password hashes, library calls around single documents.
- **Content, images, site migration, redirects, map routes.** Rendering, scraping and
  conversion: input and output without a protocol.  The longest files of the repository (the
  email composer, the editors of dynamic content and of images, the area map, the route
  follower, the page transformation engine) are of this kind, or components of the client
  whose state belongs to one browser tab.
- **Set-up, deployment, third-party integrations, browser automation.** Sequences of
  calls to outside services, driven by a person or by the components above.

What is out of TLC's reach here is mostly size: more than two requests that interleave with
more than four bookings, many restarts, more than two polls of a mailbox.  The proofs are for any
size.
