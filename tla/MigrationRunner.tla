--------------------------- MODULE MigrationRunner ---------------------------
(***************************************************************************)
(* The database migrations of server/lib/mongo/migrations/                 *)
(* migrations-runner.ts: what the start of a server, the admin page and    *)
(* the command line do to the changelog, and which migrations take effect. *)
(*                                                                         *)
(* A call is one invocation of a runner, in this process or in another one *)
(* on the same database.  Every awaited access to the database, and the up *)
(* function of a migration, is a step of its own.                          *)
(***************************************************************************)
EXTENDS Naturals, Sequences, FiniteSets

CONSTANTS
  Files,       \* the migration files on disk, numbered in the order of their names
  Simulated,   \* the names of the simulated failures: there is no such file
  Manual,      \* the files that only run when an admin asks for them
  Retired,     \* RETIRED_BREVO_TEMPLATE_MIGRATIONS
  Calls,       \* the calls that can be in flight at the same time
  NoFile,      \* the file of a call that is not at one
  MaxChanges   \* bound: the calls made altogether that may change the changelog

ASSUME MigrationRunnerAssumption ==
  /\ Files \subseteq Nat /\ Simulated \subseteq Nat /\ Files \cap Simulated = {}
  /\ Manual \subseteq Files
  /\ Retired \subseteq Files
  /\ NoFile \notin Files \cup Simulated
  /\ MaxChanges \in Nat

VARIABLES
  log,        \* log[c][n]: the entries of collection c about n, oldest first
  active,     \* systemConfig.activeChangelogCollection
  call,       \* what each call is doing
  took,       \* how often each migration has taken effect: up returned, not skipped
  again,      \* history: the migrations that something other than an overlap may make
              \* take effect once more
  overlapped, \* history: two calls that may change the changelog were in flight at once
  changes     \* the calls made so far that may change the changelog

vars == <<log, active, call, took, again, overlapped, changes>>

Names == Files \cup Simulated
Collections == {"changelog", "simulation"}
Outcome == {"applied", "skipped", "failed"}
Kind == {"none", "status", "run", "single", "ignore", "simulate", "clear"}
Steps == {"idle", "retire", "missing", "inserting", "resolve", "next", "delete", "up",
          "record", "recordError", "ignore", "empty", "copy", "failures", "activate",
          "drop", "purge"}

Call == [kind : Kind, step : Steps, coll : Collections, file : Names \cup {NoFile},
         pending : SUBSET Names, failed : SUBSET Names, missing : SUBSET Names,
         outcome : Outcome]

Idle == [kind |-> "none", step |-> "idle", coll |-> "changelog", file |-> NoFile,
         pending |-> {}, failed |-> {}, missing |-> {}, outcome |-> "skipped"]

TypeOK ==
  /\ log \in [Collections -> [Names -> Seq(Outcome)]]
  /\ active \in Collections
  /\ call \in [Calls -> Call]
  /\ took \in [Names -> Nat]
  /\ again \subseteq Names
  /\ overlapped \in BOOLEAN
  /\ changes \in 0 .. MaxChanges
  /\ \A h \in Calls :
       call[h].step \in {"delete", "up", "record", "recordError"} => call[h].file \in Names

-----------------------------------------------------------------------------
\* migrationStatus: the last entry of a file counts.
Status(c, n) == IF log[c][n] = <<>> THEN "pending" ELSE log[c][n][Len(log[c][n])]
Settled(c, n) == Status(c, n) \in {"applied", "skipped"}

\* What is reported as failed, and retried: of a name without a file any entry counts.
Failed(c, n) == IF n \in Files THEN Status(c, n) = "failed"
                ELSE \E i \in DOMAIN log[c][n] : log[c][n][i] = "failed"

AppendEntry(c, n, outcome) == log' = [log EXCEPT ![c][n] = Append(@, outcome)]

\* updateMany({error}, skippedReason): every failed entry about a name of B is skipped.
SkipFailed(c, B) ==
  log' = [log EXCEPT ![c] = [n \in Names |->
            IF n \in B THEN [i \in DOMAIN log[c][n] |->
                               IF log[c][n][i] = "failed" THEN "skipped" ELSE log[c][n][i]]
            ELSE log[c][n]]]

NoEntries == [n \in Names |-> <<>>]

Goto(h, r) == call' = [call EXCEPT ![h] = r]
Changing(h) == call[h].kind \notin {"none", "status"}

\* A call that may change the changelog begins.
BeginChange(h, r) ==
  /\ call[h] = Idle
  /\ changes < MaxChanges
  /\ changes' = changes + 1
  /\ overlapped' = (overlapped \/ \E k \in Calls : Changing(k))
  /\ Goto(h, r)

-----------------------------------------------------------------------------
(***************************************************************************)
(* migrationStatus, alone and as the first part of runPendingMigrations.   *)
(***************************************************************************)
StatusBegins(h) ==
  /\ call[h] = Idle
  /\ Goto(h, [Idle EXCEPT !.kind = "status", !.step = "retire", !.coll = active])
  /\ UNCHANGED <<log, active, took, again, overlapped, changes>>

RunBegins(h) ==
  /\ BeginChange(h, [Idle EXCEPT !.kind = "run", !.step = "retire", !.coll = active])
  /\ UNCHANGED <<log, active, took, again>>

RetireFailed(h) ==
  /\ call[h].step = "retire"
  /\ SkipFailed(call[h].coll, Retired)
  /\ Goto(h, [call[h] EXCEPT !.step = "missing"])
  /\ UNCHANGED <<active, took, again, overlapped, changes>>

FindMissingRetired(h) ==
  /\ call[h].step = "missing"
  /\ Goto(h, [call[h] EXCEPT !.step = "inserting",
                             !.missing = {n \in Retired : log[call[h].coll][n] = <<>>}])
  /\ UNCHANGED <<log, active, took, again, overlapped, changes>>

InsertMissingRetired(h) ==
  /\ call[h].step = "inserting"
  /\ \E n \in call[h].missing :
       /\ AppendEntry(call[h].coll, n, "skipped")
       /\ Goto(h, [call[h] EXCEPT !.missing = @ \ {n}])
  /\ UNCHANGED <<active, took, again, overlapped, changes>>

FindStatus(h) ==
  LET c == call[h].coll
      pending == {n \in Files \ Manual : Status(c, n) = "pending"}
      failed == {n \in Names \ Manual : Failed(c, n)}
  IN
  /\ call[h].step = "inserting" /\ call[h].missing = {}
  /\ Goto(h, IF call[h].kind = "status" \/ pending \cup failed = {} THEN Idle
             ELSE [call[h] EXCEPT !.step = "resolve", !.pending = pending, !.failed = failed])
  /\ UNCHANGED <<log, active, took, again, overlapped, changes>>

-----------------------------------------------------------------------------
(***************************************************************************)
(* The loop of runPendingMigrations, and runMigration.                     *)
(***************************************************************************)

\* Mutant: a run writes to the changelog whatever collection is active.
ResolveChangelog(h) ==
  /\ call[h].step = "resolve"
  /\ Goto(h, [call[h] EXCEPT !.coll = "changelog",
                             !.step = IF call[h].kind = "run" THEN "next" ELSE "recordError"])
  /\ UNCHANGED <<log, active, took, again, overlapped, changes>>

\* The active collection is asked for once more: before the loop of a run, and by a
\* single migration when it has failed.
ResolveCollection(h) ==
  /\ call[h].step = "resolve"
  /\ Goto(h, [call[h] EXCEPT !.coll = active,
                             !.step = IF call[h].kind = "run" THEN "next" ELSE "recordError"])
  /\ UNCHANGED <<log, active, took, again, overlapped, changes>>

Earliest(B) == {n \in B : \A m \in B : n <= m}

\* The pending files first, then the failed ones, each in the order of their names.
FilesToRun(h) ==
  IF call[h].pending # {} THEN Earliest(call[h].pending)
  ELSE IF call[h].failed \cap Files # {} THEN Earliest(call[h].failed \cap Files)
  ELSE call[h].failed

AtFile(r, n) ==
  IF n \in Retired THEN [r EXCEPT !.file = n, !.step = "record", !.outcome = "skipped"]
                   ELSE [r EXCEPT !.file = n, !.step = "up"]

\* Mutant: the loop forgets which migration it retries.
NextFileForgotten(h) ==
  /\ call[h].step = "next"
  /\ \E n \in FilesToRun(h) :
       LET rest == [call[h] EXCEPT !.pending = @ \ {n}, !.failed = @ \ {n}] IN
       Goto(h, IF n \in call[h].failed THEN [rest EXCEPT !.step = "delete"]
               ELSE AtFile(rest, n))
  /\ UNCHANGED <<log, active, took, again, overlapped, changes>>

NextFile(h) ==
  /\ call[h].step = "next"
  /\ \E n \in FilesToRun(h) :
       LET rest == [call[h] EXCEPT !.pending = @ \ {n}, !.failed = @ \ {n}] IN
       Goto(h, IF n \in call[h].failed THEN [rest EXCEPT !.file = n, !.step = "delete"]
               ELSE AtFile(rest, n))
  /\ UNCHANGED <<log, active, took, again, overlapped, changes>>

RunEnds(h) ==
  /\ call[h].step = "next" /\ call[h].pending \cup call[h].failed = {}
  /\ Goto(h, Idle)
  /\ UNCHANGED <<log, active, took, again, overlapped, changes>>

SingleBegins(h, n) ==
  /\ BeginChange(h, [Idle EXCEPT !.kind = "single", !.step = "delete", !.coll = active,
                                 !.file = n])
  /\ again' = again \cup {n}
  /\ UNCHANGED <<log, active, took>>

\* deleteOne takes the oldest entry, if there is one.
DeleteEntry(h) ==
  LET c == call[h].coll
      n == call[h].file
  IN
  /\ call[h].step = "delete"
  /\ log' = [log EXCEPT ![c][n] = IF @ = <<>> THEN @ ELSE Tail(@)]
  /\ Goto(h, AtFile(call[h], n))
  /\ UNCHANGED <<active, took, again, overlapped, changes>>

\* Where an error leads: the catch block of the loop, or of runMigration.
Caught(h, outcome) ==
  [call[h] EXCEPT !.outcome = outcome,
                  !.step = IF call[h].kind = "run" THEN "recordError" ELSE "resolve"]

\* The migration is imported and its up function returns.
UpReturns(h) ==
  /\ call[h].step = "up" /\ call[h].file \in Files
  /\ \E outcome \in {"applied", "skipped"} :
       /\ took' = IF outcome = "applied" THEN [took EXCEPT ![call[h].file] = @ + 1] ELSE took
       /\ Goto(h, [call[h] EXCEPT !.outcome = outcome, !.step = "record"])
  /\ UNCHANGED <<log, active, again, overlapped, changes>>

\* Mutant: after a failure of the email service the entry lacks its skippedReason.
UpThrowsUnmarked(h) ==
  /\ call[h].step = "up"
  /\ \E outcome \in (IF call[h].file \in Files THEN {"applied", "failed"} ELSE {"failed"}) :
       Goto(h, Caught(h, outcome))
  /\ UNCHANGED <<log, active, took, again, overlapped, changes>>

\* It throws, or there is no file: a failure of the email service counts as skipped.
UpThrows(h) ==
  /\ call[h].step = "up"
  /\ \E outcome \in (IF call[h].file \in Files THEN {"skipped", "failed"} ELSE {"failed"}) :
       Goto(h, Caught(h, outcome))
  /\ UNCHANGED <<log, active, took, again, overlapped, changes>>

\* A single migration that exports no up function is reported, and not recorded.
UpMissing(h) ==
  /\ call[h].step = "up" /\ call[h].kind = "single" /\ call[h].file \in Files
  /\ Goto(h, Idle)
  /\ UNCHANGED <<log, active, took, again, overlapped, changes>>

Record(h) ==
  /\ call[h].step = "record"
  /\ AppendEntry(call[h].coll, call[h].file, call[h].outcome)
  /\ Goto(h, IF call[h].kind = "run" THEN [call[h] EXCEPT !.step = "next", !.file = NoFile]
             ELSE Idle)
  /\ UNCHANGED <<active, took, again, overlapped, changes>>

\* Mutant: the loop goes on after a failed migration.
RecordErrorGoesOn(h) ==
  /\ call[h].step = "recordError"
  /\ AppendEntry(call[h].coll, call[h].file, call[h].outcome)
  /\ Goto(h, IF call[h].kind = "run"
             THEN [call[h] EXCEPT !.step = "next", !.file = NoFile] ELSE Idle)
  /\ UNCHANGED <<active, took, again, overlapped, changes>>

RecordError(h) ==
  /\ call[h].step = "recordError"
  /\ AppendEntry(call[h].coll, call[h].file, call[h].outcome)
  /\ Goto(h, IF call[h].kind = "run" /\ call[h].outcome = "skipped"
             THEN [call[h] EXCEPT !.step = "next", !.file = NoFile] ELSE Idle)
  /\ UNCHANGED <<active, took, again, overlapped, changes>>

\* The database rejects a deleteOne or an insertOne of the try block.
StoreRejects(h) ==
  /\ call[h].step \in {"delete", "record"}
  /\ Goto(h, Caught(h, IF call[h].kind = "single" /\ call[h].file \in Retired
                       THEN "skipped" ELSE "failed"))
  /\ again' = again \cup (IF call[h].step = "record" THEN {call[h].file} ELSE {})
  /\ UNCHANGED <<log, active, took, overlapped, changes>>

-----------------------------------------------------------------------------
(***************************************************************************)
(* clearFailedMigrations, setMigrationSimulation, clearMigrationSimulation *)
(***************************************************************************)
IgnoreBegins(h) ==
  /\ BeginChange(h, [Idle EXCEPT !.kind = "ignore", !.step = "ignore", !.coll = active])
  /\ UNCHANGED <<log, active, took, again>>

IgnoreFailed(h) ==
  /\ call[h].step = "ignore"
  /\ SkipFailed(call[h].coll, Names)
  /\ Goto(h, Idle)
  /\ UNCHANGED <<active, took, again, overlapped, changes>>

\* A simulation that is already active is left alone.
SimulationBegins(h) ==
  /\ active # "simulation"
  /\ BeginChange(h, [Idle EXCEPT !.kind = "simulate", !.step = "empty"])
  /\ UNCHANGED <<log, active, took, again>>

EmptySimulation(h) ==
  /\ call[h].step = "empty"
  /\ log' = [log EXCEPT !["simulation"] = NoEntries]
  /\ Goto(h, [call[h] EXCEPT !.step = "copy"])
  /\ UNCHANGED <<active, took, again, overlapped, changes>>

\* Mutant: the simulation starts from an empty changelog.
CopyNothing(h) ==
  /\ call[h].step = "copy"
  /\ \E step \in {"failures", "activate"} : Goto(h, [call[h] EXCEPT !.step = step])
  /\ UNCHANGED <<log, active, took, again, overlapped, changes>>

\* find and insertMany as one step: between them only an overlapping call matters.
CopyChangelog(h) ==
  /\ call[h].step = "copy"
  /\ log' = [log EXCEPT !["simulation"] =
               [n \in Names |-> log["simulation"][n] \o log["changelog"][n]]]
  /\ \E step \in {"failures", "activate"} : Goto(h, [call[h] EXCEPT !.step = step])
  /\ UNCHANGED <<active, took, again, overlapped, changes>>

InsertFailures(h) ==
  /\ call[h].step = "failures"
  /\ log' = [log EXCEPT !["simulation"] = [n \in Names |->
               IF n \in Simulated THEN Append(log["simulation"][n], "failed")
               ELSE log["simulation"][n]]]
  /\ Goto(h, [call[h] EXCEPT !.step = "activate"])
  /\ UNCHANGED <<active, took, again, overlapped, changes>>

SetActiveCollection(h) ==
  /\ call[h].step = "activate"
  /\ active' = IF call[h].kind = "simulate" THEN "simulation" ELSE "changelog"
  /\ Goto(h, Idle)
  /\ UNCHANGED <<log, took, again, overlapped, changes>>

ClearBegins(h) ==
  /\ BeginChange(h, [Idle EXCEPT !.kind = "clear", !.step = "drop"])
  /\ UNCHANGED <<log, active, took, again>>

\* What was applied while the simulation was active is recorded nowhere else.
DropSimulation(h) ==
  /\ call[h].step = "drop"
  /\ log' = [log EXCEPT !["simulation"] = NoEntries]
  /\ again' = again \cup {n \in Names : ~Settled("changelog", n)}
  /\ Goto(h, [call[h] EXCEPT !.step = "purge"])
  /\ UNCHANGED <<active, took, overlapped, changes>>

\* Mutant: deleteMany without its filter.
PurgeEverything(h) ==
  /\ call[h].step = "purge"
  /\ log' = [log EXCEPT !["changelog"] = NoEntries]
  /\ Goto(h, [call[h] EXCEPT !.step = "activate"])
  /\ UNCHANGED <<active, took, again, overlapped, changes>>

PurgeChangelog(h) ==
  /\ call[h].step = "purge"
  /\ log' = [log EXCEPT !["changelog"] = [n \in Names |->
               IF n \in Simulated THEN <<>> ELSE log["changelog"][n]]]
  /\ Goto(h, [call[h] EXCEPT !.step = "activate"])
  /\ UNCHANGED <<active, took, again, overlapped, changes>>

\* The process stops, or an access to the database outside the try of the loop fails:
\* what up has done stays undeclared, and a simulation half cleared stays active.
Stop(h) ==
  /\ call[h] # Idle
  /\ Goto(h, Idle)
  /\ again' = again \cup (IF call[h].step \in {"record", "recordError"} THEN {call[h].file} ELSE {})
                    \cup (IF call[h].kind = "clear" THEN Names ELSE {})
  /\ UNCHANGED <<log, active, took, overlapped, changes>>

-----------------------------------------------------------------------------
Init ==
  /\ log = [c \in Collections |-> NoEntries]
  /\ active = "changelog"
  /\ call = [h \in Calls |-> Idle]
  /\ took = [n \in Names |-> 0]
  /\ again = {}
  /\ overlapped = FALSE
  /\ changes = 0

StatusSteps(h) == \/ StatusBegins(h) \/ RunBegins(h) \/ RetireFailed(h)
                  \/ FindMissingRetired(h) \/ InsertMissingRetired(h) \/ FindStatus(h)

RunSteps(h) == \/ ResolveCollection(h) \/ NextFile(h) \/ RunEnds(h) \/ DeleteEntry(h)
               \/ UpReturns(h) \/ UpThrows(h) \/ UpMissing(h)
               \/ Record(h) \/ RecordError(h) \/ StoreRejects(h)
               \/ \E n \in Names : SingleBegins(h, n)

AdminSteps(h) == \/ IgnoreBegins(h) \/ IgnoreFailed(h)
                 \/ SimulationBegins(h) \/ EmptySimulation(h) \/ CopyChangelog(h)
                 \/ InsertFailures(h) \/ SetActiveCollection(h)
                 \/ ClearBegins(h) \/ DropSimulation(h) \/ PurgeChangelog(h)

Next == \E h \in Calls : StatusSteps(h) \/ RunSteps(h) \/ AdminSteps(h) \/ Stop(h)

Spec == Init /\ [][Next]_vars
-----------------------------------------------------------------------------
(***************************************************************************)
(* Properties                                                              *)
(***************************************************************************)

\* No collection ever says that a migration was applied which has never taken effect:
\* not after a retry, a crash, a rejected insert, a copy into the simulation or calls
\* that overlap.
AppliedTookEffect ==
  \A c \in Collections, n \in Names :
    (\E i \in DOMAIN log[c][n] : log[c][n][i] = "applied") => took[n] > 0

\* A migration takes effect once.  What can make it take effect again is: two calls
\* that overlap, an admin who runs that one again, a call that is cut short between up
\* and the record of it, a simulation that is cleared.
TakesEffectOnce ==
  ~overlapped => \A n \in Names : took[n] > 1 => n \in again

\* When runPendingMigrations answers success, every automatic migration is applied or
\* skipped and nothing is reported as failed, whatever was retried before.
SuccessMeansSettled ==
  ~overlapped =>
    \A h \in Calls :
      call[h].kind = "run" /\ call[h].step = "next" /\ call[h].pending \cup call[h].failed = {} =>
        /\ \A n \in Files \ Manual : Settled(call[h].coll, n)
        /\ \A n \in Simulated : ~Failed(call[h].coll, n)

\* What the changelog says is done stays done: retries, status reads, ignoring of
\* failures and the end of a simulation never make a migration pending or failed again,
\* unless an admin runs that one again, a call was cut short on it or calls overlap.
SettledStays ==
  [][~overlapped' => \A n \in Files \ again' :
        Settled("changelog", n) => Settled("changelog", n)']_vars

\* While a simulation is active the changelog itself is left alone, but for the retired
\* migrations that a status read puts in, unless calls overlap.
SimulationIsolated ==
  [][active = "simulation" /\ active' = "simulation" /\ ~overlapped' =>
       \A n \in Files \ Retired : log'["changelog"][n] = log["changelog"][n]]_vars

\* migrations/README.md:11: "Only one instance can run migrations at a time".
OneInstanceAtATime ==
  \A h, k \in Calls :
    call[h].kind = "run" /\ call[h].step = "up" /\ call[k].kind = "run" /\ call[k].step = "up"
      => h = k
=============================================================================
