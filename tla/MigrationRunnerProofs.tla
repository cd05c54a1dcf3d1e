------------------------ MODULE MigrationRunnerProofs ------------------------
(***************************************************************************)
(* Proofs about MigrationRunner, for any migrations, any number of calls   *)
(* in flight and any number of changes.  The first half holds however the  *)
(* calls overlap; the second, about what takes effect twice, what settled  *)
(* means and what a simulation touches, until two changing calls do.       *)
(***************************************************************************)
EXTENDS MigrationRunner, SequenceTheorems, TLAPS

AppliedIn(s) == \E i \in DOMAIN s : s[i] = "applied"

-----------------------------------------------------------------------------
(***************************************************************************)
(* What the accesses to the changelog do to the entries about one name.    *)
(***************************************************************************)

\* insertOne adds the outcome it is given and no other (Record, RecordError).
LEMMA AppendApplied ==
  ASSUME NEW s \in Seq(Outcome), NEW o \in Outcome
  PROVE  /\ Append(s, o) \in Seq(Outcome)
         /\ AppliedIn(Append(s, o)) => AppliedIn(s) \/ o = "applied"
  BY DEF AppliedIn

\* deleteOne invents no entry.
LEMMA TailApplied ==
  ASSUME NEW s \in Seq(Outcome), s # <<>>
  PROVE  Tail(s) \in Seq(Outcome) /\ (AppliedIn(Tail(s)) => AppliedIn(s))
  BY DEF AppliedIn

\* insertMany of the entries of another collection.
LEMMA ConcatApplied ==
  ASSUME NEW s \in Seq(Outcome), NEW t \in Seq(Outcome)
  PROVE  /\ s \o t \in Seq(Outcome)
         /\ AppliedIn(s \o t) => AppliedIn(s) \/ AppliedIn(t)
<1>1. s \o t \in Seq(Outcome)
  OBVIOUS
<1>2. ASSUME NEW i \in DOMAIN (s \o t), (s \o t)[i] = "applied"
      PROVE  AppliedIn(s) \/ AppliedIn(t)
  <2>1. i \in 1 .. (Len(s) + Len(t)) /\ Len(s) \in Nat /\ Len(t) \in Nat
    BY <1>2
  <2>2. CASE i <= Len(s)
    <3>1. i \in DOMAIN s /\ s[i] = "applied"
      BY <1>2, <2>1, <2>2
    <3> QED BY <3>1 DEF AppliedIn
  <2>3. CASE i > Len(s)
    <3>1. i - Len(s) \in DOMAIN t /\ t[i - Len(s)] = "applied"
      BY <1>2, <2>1, <2>3
    <3> QED BY <3>1 DEF AppliedIn
  <2> QED BY <2>1, <2>2, <2>3
<1>3. AppliedIn(s \o t) => AppliedIn(s) \/ AppliedIn(t)
  BY <1>2 DEF AppliedIn
<1> QED BY <1>1, <1>3

\* updateMany turns failures into skips: nothing becomes applied.
SkippedFailures(s) == [i \in DOMAIN s |-> IF s[i] = "failed" THEN "skipped" ELSE s[i]]

LEMMA SkipApplied ==
  ASSUME NEW s \in Seq(Outcome)
  PROVE  /\ SkippedFailures(s) \in Seq(Outcome)
         /\ AppliedIn(SkippedFailures(s)) => AppliedIn(s)
<1>1. DOMAIN s = 1 .. Len(s) /\ Len(s) \in Nat
  OBVIOUS
<1>2. SkippedFailures(s) \in [1 .. Len(s) -> Outcome]
  BY <1>1 DEF SkippedFailures, Outcome
<1>3. SkippedFailures(s) \in Seq(Outcome)
  BY <1>1, <1>2, SeqDef
<1>4. AppliedIn(SkippedFailures(s)) => AppliedIn(s)
  BY DEF AppliedIn, SkippedFailures
<1> QED BY <1>3, <1>4

-----------------------------------------------------------------------------
(***************************************************************************)
(* The inductive invariant: a call has the kind and the file that its step *)
(* needs, and one that is about to record "applied" has seen up return.    *)
(***************************************************************************)
AtFileSteps == {"delete", "up", "record", "recordError"}

CallOK(r) ==
  /\ r \in Call
  /\ r.step \in {"retire", "missing", "inserting"} => r.kind \in {"status", "run"}
  /\ r.step = "next" => r.kind = "run"
  /\ r.step \in AtFileSteps \cup {"resolve"} => r.kind \in {"run", "single"}
  /\ r.step \in AtFileSteps \/ (r.step = "resolve" /\ r.kind = "single") => r.file \in Names

OutcomeOK(r, t) ==
  /\ r.step = "record" /\ r.outcome = "applied" => t[r.file] > 0
  /\ r.step = "recordError" \/ (r.step = "resolve" /\ r.kind = "single") => r.outcome # "applied"

LogType(l) == l \in [Collections -> [Names -> Seq(Outcome)]]

LogOK(l, t) ==
  LogType(l) /\ \A c \in Collections, n \in Names : AppliedIn(l[c][n]) => t[n] > 0

OthersOK ==
  /\ active \in Collections
  /\ took \in [Names -> Nat]
  /\ again \subseteq Names
  /\ overlapped \in BOOLEAN
  /\ changes \in 0 .. MaxChanges

IInv ==
  /\ LogOK(log, took)
  /\ OthersOK
  /\ call \in [Calls -> Call]
  /\ \A h \in Calls : CallOK(call[h]) /\ OutcomeOK(call[h], took)

\* The invariant says what the two theorems are about.
LEMMA InvImplies == IInv => TypeOK /\ AppliedTookEffect
  BY DEF IInv, LogOK, LogType, OthersOK, CallOK, AtFileSteps, TypeOK, AppliedTookEffect, AppliedIn

\* A call goes to a well-formed state; no migration loses its effect.
LEMMA CallStep ==
  ASSUME IInv, NEW h \in Calls, NEW r, Goto(h, r), CallOK(r), OutcomeOK(r, took'),
         LogOK(log', took'), OthersOK',
         \A n \in Names : took[n] > 0 => took'[n] > 0
  PROVE  IInv'
<1>1. call' \in [Calls -> Call]
  BY DEF Goto, IInv, CallOK
<1>2. ASSUME NEW k \in Calls PROVE CallOK(call'[k]) /\ OutcomeOK(call'[k], took')
  <2>1. CASE k = h
    BY <2>1 DEF Goto, IInv
  <2>2. CASE k # h
    <3>1. call'[k] = call[k] /\ CallOK(call[k]) /\ OutcomeOK(call[k], took)
      BY <2>2 DEF Goto, IInv
    <3>2. call[k].step = "record" => call[k].file \in Names
      BY <3>1 DEF CallOK, AtFileSteps
    <3> QED BY <3>1, <3>2 DEF OutcomeOK
  <2> QED BY <2>1, <2>2
<1> QED BY <1>1, <1>2 DEF IInv

\* The case of a step that writes nothing but what the call itself remembers.
LEMMA QuietStep ==
  ASSUME IInv, NEW h \in Calls, NEW r, Goto(h, r), CallOK(r), OutcomeOK(r, took),
         UNCHANGED <<log, took>>, OthersOK'
  PROVE  IInv'
<1>1. LogOK(log', took') /\ OutcomeOK(r, took')
  BY DEF IInv, OutcomeOK
<1>2. \A n \in Names : took[n] > 0 => took'[n] > 0
  OBVIOUS
<1> QED BY <1>1, <1>2, CallStep

\* The case of a step that writes to the changelog.
LEMMA LogStep ==
  ASSUME IInv, NEW h \in Calls, NEW r, Goto(h, r), CallOK(r), OutcomeOK(r, took),
         UNCHANGED took, OthersOK', LogOK(log', took)
  PROVE  IInv'
<1>1. LogOK(log', took') /\ OutcomeOK(r, took')
  BY DEF OutcomeOK, LogOK
<1>2. \A n \in Names : took[n] > 0 => took'[n] > 0
  OBVIOUS
<1> QED BY <1>1, <1>2, CallStep

LEMMA IdleOK == CallOK(Idle) /\ OutcomeOK(Idle, took)
  BY DEF CallOK, OutcomeOK, Idle, Call, Kind, Steps, Collections, Outcome, AtFileSteps

-----------------------------------------------------------------------------
(***************************************************************************)
(* Writing the changelog                                                   *)
(***************************************************************************)
LEMMA AppendOK ==
  ASSUME LogOK(log, took), NEW c \in Collections, NEW n \in Names, NEW o \in Outcome,
         AppendEntry(c, n, o), o = "applied" => took[n] > 0
  PROVE  LogOK(log', took)
<1>1. log[c][n] \in Seq(Outcome)
  BY DEF LogOK, LogType
<1>2. log' = [log EXCEPT ![c] = [log[c] EXCEPT ![n] = Append(log[c][n], o)]]
  BY DEF AppendEntry, LogOK, LogType
<1>3. LogType(log')
  BY <1>1, <1>2, AppendApplied DEF LogOK, LogType
<1>4. ASSUME NEW d \in Collections, NEW m \in Names, AppliedIn(log'[d][m]) PROVE took[m] > 0
  <2>1. CASE d = c /\ m = n
    <3>1. log'[d][m] = Append(log[c][n], o)
      BY <1>2, <2>1 DEF LogOK, LogType
    <3> QED BY <1>1, <1>4, <2>1, <3>1, AppendApplied DEF LogOK
  <2>2. CASE ~(d = c /\ m = n)
    <3>1. log'[d][m] = log[d][m]
      BY <1>2, <2>2 DEF LogOK, LogType
    <3> QED BY <1>4, <3>1 DEF LogOK
  <2> QED BY <2>1, <2>2
<1> QED BY <1>3, <1>4 DEF LogOK

\* A collection whose entries about each name come from entries that were there.
LEMMA RewriteOK ==
  ASSUME LogOK(log, took), NEW c \in Collections, NEW f \in [Names -> Seq(Outcome)],
         log' = [log EXCEPT ![c] = f],
         \A n \in Names : AppliedIn(f[n]) => \E d \in Collections : AppliedIn(log[d][n])
  PROVE  LogOK(log', took)
<1>1. LogType(log')
  BY DEF LogOK, LogType
<1>2. ASSUME NEW d \in Collections, NEW n \in Names, AppliedIn(log'[d][n]) PROVE took[n] > 0
  <2>1. log'[d] = IF d = c THEN f ELSE log[d]
    BY DEF LogOK, LogType
  <2> QED BY <1>2, <2>1 DEF LogOK
<1> QED BY <1>1, <1>2 DEF LogOK

LEMMA SkipOK ==
  ASSUME LogOK(log, took), NEW c \in Collections, NEW B, SkipFailed(c, B)
  PROVE  LogOK(log', took)
<1> DEFINE f == [n \in Names |-> IF n \in B THEN SkippedFailures(log[c][n]) ELSE log[c][n]]
<1>1. \A n \in Names : log[c][n] \in Seq(Outcome)
  BY DEF LogOK, LogType
<1>2. log' = [log EXCEPT ![c] = f]
  BY DEF SkipFailed, SkippedFailures
<1>3. f \in [Names -> Seq(Outcome)]
  BY <1>1, SkipApplied
<1>4. \A n \in Names : AppliedIn(f[n]) => AppliedIn(log[c][n])
  BY <1>1, SkipApplied
<1> HIDE DEF f
<1> QED BY <1>2, <1>3, <1>4, RewriteOK

LEMMA EmptyOK ==
  /\ NoEntries \in [Names -> Seq(Outcome)]
  /\ \A n \in Names : ~AppliedIn(NoEntries[n])
  BY DEF NoEntries, AppliedIn

-----------------------------------------------------------------------------
LEMMA InvInit == Init => IInv
<1> SUFFICES ASSUME Init PROVE IInv
  OBVIOUS
<1>1. LogOK(log, took)
  BY EmptyOK DEF Init, LogOK, LogType
<1>2. OthersOK
  <2>1. active \in Collections /\ took \in [Names -> Nat] /\ changes \in 0 .. MaxChanges
    BY MigrationRunnerAssumption DEF Init, Collections
  <2>2. again \subseteq Names /\ overlapped \in BOOLEAN
    BY Zenon DEF Init
  <2> QED BY <2>1, <2>2 DEF OthersOK
<1>3. call \in [Calls -> Call] /\ \A h \in Calls : CallOK(call[h]) /\ OutcomeOK(call[h], took)
  BY IdleOK DEF Init, CallOK
<1> QED BY <1>1, <1>2, <1>3 DEF IInv
-----------------------------------------------------------------------------
(***************************************************************************)
(* Every step keeps the invariant.                                         *)
(***************************************************************************)
LEMMA CallFacts ==
  ASSUME IInv, NEW h \in Calls
  PROVE  /\ CallOK(call[h]) /\ OutcomeOK(call[h], took) /\ call[h] \in Call
         /\ LogOK(log, took) /\ OthersOK /\ active \in Collections
  BY DEF IInv, CallOK, OthersOK

LEMMA OthersKept ==
  ASSUME OthersOK, UNCHANGED <<active, took, overlapped, changes>>, again' \subseteq Names
  PROVE  OthersOK'
  BY DEF OthersOK

\* What a call needs to be sound where it begins.
LEMMA FreshOK ==
  ASSUME NEW r \in Call, r.step \in {"retire", "delete", "ignore", "empty", "drop"},
         r.step = "retire" => r.kind \in {"status", "run"},
         r.step = "delete" => r.kind = "single" /\ r.file \in Names
  PROVE  CallOK(r) /\ OutcomeOK(r, took)
  BY DEF CallOK, OutcomeOK, AtFileSteps

LEMMA BeginStep ==
  ASSUME IInv, NEW h \in Calls, NEW r, BeginChange(h, r), CallOK(r), OutcomeOK(r, took),
         UNCHANGED <<log, active, took>>, again' \subseteq Names
  PROVE  IInv'
<1>1. overlapped' \in BOOLEAN
  BY Zenon DEF BeginChange
<1>2. changes' \in 0 .. MaxChanges
  BY MigrationRunnerAssumption DEF BeginChange, IInv, OthersOK
<1>3. OthersOK'
  BY <1>1, <1>2 DEF IInv, OthersOK
<1> QED BY <1>3, QuietStep DEF BeginChange

\* The first part of a status read or of a run.
LEMMA StatusKeeps ==
  ASSUME IInv, NEW h \in Calls, StatusSteps(h)
  PROVE  IInv'
<1> USE DEF CallOK, OutcomeOK, Call, Kind, Steps, Outcome, Collections, AtFileSteps, Idle
<1>0. /\ CallOK(call[h]) /\ OutcomeOK(call[h], took) /\ call[h] \in Call
      /\ LogOK(log, took) /\ OthersOK /\ active \in Collections /\ again \subseteq Names
  BY CallFacts DEF OthersOK
<1>1. CASE StatusBegins(h)
  <2> DEFINE r == [Idle EXCEPT !.kind = "status", !.step = "retire", !.coll = active]
  <2>0. CallOK(r) /\ OutcomeOK(r, took)
    <3>1. r \in Call
      BY <1>0
    <3>2. r.kind = "status" /\ r.step = "retire"
      OBVIOUS
    <3> HIDE DEF r
    <3> QED BY <3>1, <3>2, FreshOK
  <2>1. Goto(h, r)
    BY <1>1 DEF StatusBegins
  <2>2. UNCHANGED <<log, took>> /\ OthersOK'
    BY <1>0, <1>1, OthersKept DEF StatusBegins
  <2> HIDE DEF r, CallOK, OutcomeOK
  <2> QED BY <2>0, <2>1, <2>2, QuietStep
<1>2. CASE RunBegins(h)
  <2> DEFINE r == [Idle EXCEPT !.kind = "run", !.step = "retire", !.coll = active]
  <2>0. CallOK(r) /\ OutcomeOK(r, took)
    <3>1. r \in Call
      BY <1>0
    <3>2. r.kind = "run" /\ r.step = "retire"
      OBVIOUS
    <3> HIDE DEF r
    <3> QED BY <3>1, <3>2, FreshOK
  <2>1. BeginChange(h, r)
    BY <1>2 DEF RunBegins
  <2>2. UNCHANGED <<log, active, took>> /\ again' \subseteq Names
    BY <1>0, <1>2 DEF RunBegins
  <2> HIDE DEF r, CallOK, OutcomeOK
  <2> QED BY <2>0, <2>1, <2>2, BeginStep
<1>3. CASE RetireFailed(h)
  <2> DEFINE r == [call[h] EXCEPT !.step = "missing"]
  <2>1. CallOK(r) /\ OutcomeOK(r, took) /\ Goto(h, r)
    BY <1>0, <1>3 DEF RetireFailed
  <2>2. UNCHANGED took /\ OthersOK'
    BY <1>0, <1>3, OthersKept DEF RetireFailed
  <2>3. LogOK(log', took)
    BY <1>0, <1>3, SkipOK DEF RetireFailed
  <2> HIDE DEF r, CallOK, OutcomeOK
  <2> QED BY <2>1, <2>2, <2>3, LogStep
<1>4. CASE FindMissingRetired(h)
  <2> DEFINE r == [call[h] EXCEPT !.step = "inserting",
                                  !.missing = {n \in Retired : log[call[h].coll][n] = <<>>}]
  <2>1. CallOK(r) /\ OutcomeOK(r, took) /\ Goto(h, r)
    BY <1>0, <1>4, MigrationRunnerAssumption DEF FindMissingRetired, Names
  <2>2. UNCHANGED <<log, took>> /\ OthersOK'
    BY <1>0, <1>4, OthersKept DEF FindMissingRetired
  <2> HIDE DEF r, CallOK, OutcomeOK
  <2> QED BY <2>1, <2>2, QuietStep
<1>5. CASE InsertMissingRetired(h)
  <2>1. PICK n \in call[h].missing :
          /\ AppendEntry(call[h].coll, n, "skipped")
          /\ Goto(h, [call[h] EXCEPT !.missing = @ \ {n}])
    BY <1>5 DEF InsertMissingRetired
  <2> DEFINE r == [call[h] EXCEPT !.missing = @ \ {n}]
  <2>2. CallOK(r) /\ OutcomeOK(r, took) /\ Goto(h, r)
    BY <1>0, <1>5, <2>1 DEF InsertMissingRetired
  <2>3. UNCHANGED took /\ OthersOK'
    BY <1>0, <1>5, OthersKept DEF InsertMissingRetired
  <2>4. LogOK(log', took)
    BY <1>0, <2>1, AppendOK
  <2> HIDE DEF r, CallOK, OutcomeOK
  <2> QED BY <2>2, <2>3, <2>4, LogStep
<1>6. CASE FindStatus(h)
  <2> DEFINE pending == {n \in Files \ Manual : Status(call[h].coll, n) = "pending"}
             failed == {n \in Names \ Manual : Failed(call[h].coll, n)}
             r == [call[h] EXCEPT !.step = "resolve", !.pending = pending, !.failed = failed]
  <2>1. call[h].kind # "status" => CallOK(r) /\ OutcomeOK(r, took)
    BY <1>0, <1>6 DEF FindStatus, Names
  <2>2. Goto(h, Idle) \/ (call[h].kind # "status" /\ Goto(h, r))
    BY <1>6 DEF FindStatus
  <2>3. UNCHANGED <<log, took>> /\ OthersOK'
    BY <1>0, <1>6, OthersKept DEF FindStatus
  <2> HIDE DEF r, CallOK, OutcomeOK, Idle
  <2> QED BY <2>1, <2>2, <2>3, QuietStep, IdleOK
<1> QED
  BY <1>1, <1>2, <1>3, <1>4, <1>5, <1>6 DEF StatusSteps

\* The loop of runPendingMigrations, and runMigration.
LEMMA RunKeeps ==
  ASSUME IInv, NEW h \in Calls, RunSteps(h)
  PROVE  IInv'
<1> USE DEF CallOK, OutcomeOK, Call, Kind, Steps, Outcome, Collections, AtFileSteps, Idle
<1>0. /\ CallOK(call[h]) /\ OutcomeOK(call[h], took) /\ call[h] \in Call
      /\ LogOK(log, took) /\ OthersOK /\ active \in Collections /\ again \subseteq Names
  BY CallFacts DEF OthersOK
<1>1. CASE ResolveCollection(h)
  <2> DEFINE r == [call[h] EXCEPT !.coll = active,
                    !.step = IF call[h].kind = "run" THEN "next" ELSE "recordError"]
  <2>1. CallOK(r) /\ OutcomeOK(r, took) /\ Goto(h, r)
    BY <1>0, <1>1 DEF ResolveCollection
  <2>2. UNCHANGED <<log, took>> /\ OthersOK'
    BY <1>0, <1>1, OthersKept DEF ResolveCollection
  <2> HIDE DEF r, CallOK, OutcomeOK
  <2> QED BY <2>1, <2>2, QuietStep
<1>2. CASE NextFile(h)
  <2>1. PICK n \in FilesToRun(h) :
          LET rest == [call[h] EXCEPT !.pending = @ \ {n}, !.failed = @ \ {n}] IN
          Goto(h, IF n \in call[h].failed THEN [rest EXCEPT !.file = n, !.step = "delete"]
                  ELSE AtFile(rest, n))
    BY <1>2 DEF NextFile
  <2> DEFINE rest == [call[h] EXCEPT !.pending = @ \ {n}, !.failed = @ \ {n}]
             r == IF n \in call[h].failed THEN [rest EXCEPT !.file = n, !.step = "delete"]
                  ELSE AtFile(rest, n)
  <2>2. n \in Names
    BY <1>0 DEF FilesToRun, Earliest
  <2>3. CallOK(r) /\ OutcomeOK(r, took) /\ Goto(h, r)
    BY <1>0, <1>2, <2>1, <2>2 DEF NextFile, AtFile
  <2>4. UNCHANGED <<log, took>> /\ OthersOK'
    BY <1>0, <1>2, OthersKept DEF NextFile
  <2> HIDE DEF r, CallOK, OutcomeOK
  <2> QED BY <2>3, <2>4, QuietStep
<1>3. CASE RunEnds(h)
  <2>1. UNCHANGED <<log, took>> /\ OthersOK' /\ Goto(h, Idle)
    BY <1>0, <1>3, OthersKept DEF RunEnds
  <2> QED BY <2>1, QuietStep, IdleOK
<1>4. CASE DeleteEntry(h)
  <2> DEFINE c == call[h].coll
             m == call[h].file
             r == AtFile(call[h], m)
             f == [log[c] EXCEPT ![m] = IF @ = <<>> THEN @ ELSE Tail(@)]
  <2>1. CallOK(r) /\ OutcomeOK(r, took) /\ Goto(h, r)
    BY <1>0, <1>4 DEF DeleteEntry, AtFile
  <2>2. UNCHANGED took /\ OthersOK'
    BY <1>0, <1>4, OthersKept DEF DeleteEntry
  <2>3. LogOK(log', took)
    <3>1. c \in Collections /\ m \in Names /\ log[c] \in [Names -> Seq(Outcome)]
      BY <1>0, <1>4 DEF DeleteEntry, LogOK, LogType
    <3>2. log' = [log EXCEPT ![c] = f]
      BY <1>0, <1>4, <3>1 DEF DeleteEntry, LogOK, LogType
    <3>3. f \in [Names -> Seq(Outcome)] /\ \A n \in Names : AppliedIn(f[n]) => AppliedIn(log[c][n])
      BY <3>1, TailApplied
    <3> HIDE DEF f, c, m
    <3> QED BY <1>0, <3>1, <3>2, <3>3, RewriteOK
  <2> HIDE DEF r, CallOK, OutcomeOK
  <2> QED BY <2>1, <2>2, <2>3, LogStep
<1>5. CASE UpReturns(h)
  <2>1. PICK outcome \in {"applied", "skipped"} :
          /\ took' = IF outcome = "applied" THEN [took EXCEPT ![call[h].file] = @ + 1] ELSE took
          /\ Goto(h, [call[h] EXCEPT !.outcome = outcome, !.step = "record"])
    BY <1>5 DEF UpReturns
  <2> DEFINE r == [call[h] EXCEPT !.outcome = outcome, !.step = "record"]
  <2>2. call[h].file \in Names /\ took \in [Names -> Nat]
    BY <1>0, <1>5 DEF UpReturns, OthersOK
  <2>3. /\ took' \in [Names -> Nat]
        /\ \A n \in Names : took[n] > 0 => took'[n] > 0
        /\ outcome = "applied" => took'[call[h].file] > 0
    BY <2>1, <2>2
  <2>4. CallOK(r) /\ OutcomeOK(r, took') /\ Goto(h, r)
    BY <1>0, <1>5, <2>1, <2>2, <2>3 DEF UpReturns
  <2>5. OthersOK'
    BY <1>0, <1>5, <2>3 DEF UpReturns, OthersOK
  <2>6. LogOK(log', took')
    BY <1>0, <1>5, <2>3 DEF UpReturns, LogOK, LogType
  <2> HIDE DEF r, CallOK, OutcomeOK
  <2> QED BY <2>3, <2>4, <2>5, <2>6, CallStep
<1>6. CASE UpThrows(h)
  <2>1. PICK outcome \in {"skipped", "failed"} : Goto(h, Caught(h, outcome))
    BY <1>6 DEF UpThrows
  <2> DEFINE r == Caught(h, outcome)
  <2>2. CallOK(r) /\ OutcomeOK(r, took) /\ Goto(h, r)
    BY <1>0, <1>6, <2>1 DEF UpThrows, Caught
  <2>3. UNCHANGED <<log, took>> /\ OthersOK'
    BY <1>0, <1>6, OthersKept DEF UpThrows
  <2> HIDE DEF r, CallOK, OutcomeOK
  <2> QED BY <2>2, <2>3, QuietStep
<1>7. CASE UpMissing(h)
  <2>1. UNCHANGED <<log, took>> /\ OthersOK' /\ Goto(h, Idle)
    BY <1>0, <1>7, OthersKept DEF UpMissing
  <2> QED BY <2>1, QuietStep, IdleOK
<1>8. CASE Record(h)
  <2> DEFINE r == IF call[h].kind = "run" THEN [call[h] EXCEPT !.step = "next", !.file = NoFile]
                  ELSE Idle
  <2>1. CallOK(r) /\ OutcomeOK(r, took) /\ Goto(h, r)
    BY <1>0, <1>8, IdleOK DEF Record
  <2>2. UNCHANGED took /\ OthersOK'
    BY <1>0, <1>8, OthersKept DEF Record
  <2>3. LogOK(log', took)
    BY <1>0, <1>8, AppendOK DEF Record
  <2> HIDE DEF r, CallOK, OutcomeOK
  <2> QED BY <2>1, <2>2, <2>3, LogStep
<1>9. CASE RecordError(h)
  <2> DEFINE r == IF call[h].kind = "run" /\ call[h].outcome = "skipped"
                  THEN [call[h] EXCEPT !.step = "next", !.file = NoFile] ELSE Idle
  <2>1. CallOK(r) /\ OutcomeOK(r, took) /\ Goto(h, r)
    BY <1>0, <1>9, IdleOK DEF RecordError
  <2>2. UNCHANGED took /\ OthersOK'
    BY <1>0, <1>9, OthersKept DEF RecordError
  <2>3. LogOK(log', took)
    BY <1>0, <1>9, AppendOK DEF RecordError
  <2> HIDE DEF r, CallOK, OutcomeOK
  <2> QED BY <2>1, <2>2, <2>3, LogStep
<1>10. CASE StoreRejects(h)
  <2> DEFINE outcome == IF call[h].kind = "single" /\ call[h].file \in Retired
                        THEN "skipped" ELSE "failed"
             r == Caught(h, outcome)
  <2>1. CallOK(r) /\ OutcomeOK(r, took) /\ Goto(h, r)
    BY <1>0, <1>10 DEF StoreRejects, Caught
  <2>2. call[h].file \in Names
    BY <1>0, <1>10 DEF StoreRejects
  <2>3. UNCHANGED <<log, took>> /\ OthersOK'
    BY <1>0, <1>10, <2>2, OthersKept DEF StoreRejects
  <2> HIDE DEF r, CallOK, OutcomeOK
  <2> QED BY <2>1, <2>3, QuietStep
<1>11. ASSUME NEW n \in Names, SingleBegins(h, n) PROVE IInv'
  <2> DEFINE r == [Idle EXCEPT !.kind = "single", !.step = "delete", !.coll = active,
                               !.file = n]
  <2>0. CallOK(r) /\ OutcomeOK(r, took)
    <3>1. r \in Call
      BY <1>0
    <3>2. r.kind = "single" /\ r.step = "delete" /\ r.file = n
      OBVIOUS
    <3> HIDE DEF r
    <3> QED BY <3>1, <3>2, FreshOK
  <2>1. BeginChange(h, r)
    BY <1>11 DEF SingleBegins
  <2>2. UNCHANGED <<log, active, took>> /\ again' \subseteq Names
    BY <1>0, <1>11 DEF SingleBegins
  <2> HIDE DEF r, CallOK, OutcomeOK
  <2> QED BY <2>0, <2>1, <2>2, BeginStep
<1> QED
  BY <1>1, <1>2, <1>3, <1>4, <1>5, <1>6, <1>7, <1>8, <1>9, <1>10, <1>11 DEF RunSteps

\* Ignoring failures, starting and clearing a simulation.
LEMMA AdminKeeps ==
  ASSUME IInv, NEW h \in Calls, AdminSteps(h)
  PROVE  IInv'
<1> USE DEF CallOK, OutcomeOK, Call, Kind, Steps, Outcome, Collections, AtFileSteps, Idle
<1>0. /\ CallOK(call[h]) /\ OutcomeOK(call[h], took) /\ call[h] \in Call
      /\ LogOK(log, took) /\ OthersOK /\ active \in Collections /\ again \subseteq Names
  BY CallFacts DEF OthersOK
<1>1. CASE IgnoreBegins(h)
  <2> DEFINE r == [Idle EXCEPT !.kind = "ignore", !.step = "ignore", !.coll = active]
  <2>0. CallOK(r) /\ OutcomeOK(r, took)
    <3>1. r \in Call
      BY <1>0
    <3>2. r.kind = "ignore" /\ r.step = "ignore"
      OBVIOUS
    <3> HIDE DEF r
    <3> QED BY <3>1, <3>2, FreshOK
  <2>1. BeginChange(h, r)
    BY <1>1 DEF IgnoreBegins
  <2>2. UNCHANGED <<log, active, took>> /\ again' \subseteq Names
    BY <1>0, <1>1 DEF IgnoreBegins
  <2> HIDE DEF r, CallOK, OutcomeOK
  <2> QED BY <2>0, <2>1, <2>2, BeginStep
<1>2. CASE IgnoreFailed(h)
  <2>1. UNCHANGED took /\ OthersOK' /\ Goto(h, Idle)
    BY <1>0, <1>2, OthersKept DEF IgnoreFailed
  <2>2. LogOK(log', took)
    BY <1>0, <1>2, SkipOK DEF IgnoreFailed
  <2> QED BY <2>1, <2>2, LogStep, IdleOK
<1>3. CASE SimulationBegins(h)
  <2> DEFINE r == [Idle EXCEPT !.kind = "simulate", !.step = "empty"]
  <2>0. CallOK(r) /\ OutcomeOK(r, took)
    <3>1. r \in Call
      BY <1>0
    <3>2. r.kind = "simulate" /\ r.step = "empty"
      OBVIOUS
    <3> HIDE DEF r
    <3> QED BY <3>1, <3>2, FreshOK
  <2>1. BeginChange(h, r)
    BY <1>3 DEF SimulationBegins
  <2>2. UNCHANGED <<log, active, took>> /\ again' \subseteq Names
    BY <1>0, <1>3 DEF SimulationBegins
  <2> HIDE DEF r, CallOK, OutcomeOK
  <2> QED BY <2>0, <2>1, <2>2, BeginStep
<1>4. CASE EmptySimulation(h)
  <2> DEFINE r == [call[h] EXCEPT !.step = "copy"]
  <2>1. CallOK(r) /\ OutcomeOK(r, took) /\ Goto(h, r)
    BY <1>0, <1>4 DEF EmptySimulation
  <2>2. UNCHANGED took /\ OthersOK'
    BY <1>0, <1>4, OthersKept DEF EmptySimulation
  <2>3. LogOK(log', took)
    <3> DEFINE f == NoEntries
    <3>1. log' = [log EXCEPT !["simulation"] = f]
      BY <1>0, <1>4 DEF EmptySimulation
    <3>2. /\ f \in [Names -> Seq(Outcome)]
          /\ \A n \in Names : AppliedIn(f[n]) => FALSE
      BY <1>0, EmptyOK DEF LogOK, LogType
    <3> HIDE DEF f
    <3> QED BY <1>0, <3>1, <3>2, RewriteOK
  <2> HIDE DEF r, CallOK, OutcomeOK
  <2> QED BY <2>1, <2>2, <2>3, LogStep
<1>5. CASE CopyChangelog(h)
  <2>1. PICK step \in {"failures", "activate"} : Goto(h, [call[h] EXCEPT !.step = step])
    BY <1>5 DEF CopyChangelog
  <2> DEFINE r == [call[h] EXCEPT !.step = step]
             f == [n \in Names |-> log["simulation"][n] \o log["changelog"][n]]
  <2>2. CallOK(r) /\ OutcomeOK(r, took) /\ Goto(h, r)
    BY <1>0, <2>1
  <2>3. UNCHANGED took /\ OthersOK'
    BY <1>0, <1>5, OthersKept DEF CopyChangelog
  <2>4. LogOK(log', took)
    <3>1. log' = [log EXCEPT !["simulation"] = f]
      BY <1>0, <1>5 DEF CopyChangelog
    <3>2. \A n \in Names : log["simulation"][n] \in Seq(Outcome) /\ log["changelog"][n] \in Seq(Outcome)
      BY <1>0 DEF LogOK, LogType
    <3>3. /\ f \in [Names -> Seq(Outcome)]
          /\ \A n \in Names : AppliedIn(f[n]) =>
               AppliedIn(log["simulation"][n]) \/ AppliedIn(log["changelog"][n])
      BY <3>2, ConcatApplied
    <3> HIDE DEF f
    <3> QED BY <1>0, <3>1, <3>3, RewriteOK
  <2> HIDE DEF r, CallOK, OutcomeOK
  <2> QED BY <2>2, <2>3, <2>4, LogStep
<1>6. CASE InsertFailures(h)
  <2> DEFINE r == [call[h] EXCEPT !.step = "activate"]
  <2>1. CallOK(r) /\ OutcomeOK(r, took) /\ Goto(h, r)
    BY <1>0, <1>6 DEF InsertFailures
  <2>2. UNCHANGED took /\ OthersOK'
    BY <1>0, <1>6, OthersKept DEF InsertFailures
  <2>3. LogOK(log', took)
    <3> DEFINE f == [n \in Names |-> IF n \in Simulated THEN Append(log["simulation"][n], "failed")
                                     ELSE log["simulation"][n]]
    <3>1. log' = [log EXCEPT !["simulation"] = f]
      BY <1>0, <1>6 DEF InsertFailures
    <3>2. \A n \in Names : log["simulation"][n] \in Seq(Outcome)
      BY <1>0 DEF LogOK, LogType
    <3>3. /\ f \in [Names -> Seq(Outcome)]
          /\ \A n \in Names : AppliedIn(f[n]) => AppliedIn(log["simulation"][n])
      BY <3>2, AppendApplied
    <3> HIDE DEF f
    <3> QED BY <1>0, <3>1, <3>3, RewriteOK
  <2> HIDE DEF r, CallOK, OutcomeOK
  <2> QED BY <2>1, <2>2, <2>3, LogStep
<1>7. CASE SetActiveCollection(h)
  <2>1. UNCHANGED <<log, took>> /\ OthersOK' /\ Goto(h, Idle)
    BY <1>0, <1>7 DEF SetActiveCollection, OthersOK
  <2> QED BY <2>1, QuietStep, IdleOK
<1>8. CASE ClearBegins(h)
  <2> DEFINE r == [Idle EXCEPT !.kind = "clear", !.step = "drop"]
  <2>0. CallOK(r) /\ OutcomeOK(r, took)
    <3>1. r \in Call
      BY <1>0
    <3>2. r.kind = "clear" /\ r.step = "drop"
      OBVIOUS
    <3> HIDE DEF r
    <3> QED BY <3>1, <3>2, FreshOK
  <2>1. BeginChange(h, r)
    BY <1>8 DEF ClearBegins
  <2>2. UNCHANGED <<log, active, took>> /\ again' \subseteq Names
    BY <1>0, <1>8 DEF ClearBegins
  <2> HIDE DEF r, CallOK, OutcomeOK
  <2> QED BY <2>0, <2>1, <2>2, BeginStep
<1>9. CASE DropSimulation(h)
  <2> DEFINE r == [call[h] EXCEPT !.step = "purge"]
  <2>1. CallOK(r) /\ OutcomeOK(r, took) /\ Goto(h, r)
    BY <1>0, <1>9 DEF DropSimulation
  <2>2. UNCHANGED took /\ OthersOK'
    BY <1>0, <1>9, OthersKept DEF DropSimulation
  <2>3. LogOK(log', took)
    <3> DEFINE f == NoEntries
    <3>1. log' = [log EXCEPT !["simulation"] = f]
      BY <1>0, <1>9 DEF DropSimulation
    <3>2. /\ f \in [Names -> Seq(Outcome)]
          /\ \A n \in Names : AppliedIn(f[n]) => FALSE
      BY <1>0, EmptyOK DEF LogOK, LogType
    <3> HIDE DEF f
    <3> QED BY <1>0, <3>1, <3>2, RewriteOK
  <2> HIDE DEF r, CallOK, OutcomeOK
  <2> QED BY <2>1, <2>2, <2>3, LogStep
<1>10. CASE PurgeChangelog(h)
  <2> DEFINE r == [call[h] EXCEPT !.step = "activate"]
  <2>1. CallOK(r) /\ OutcomeOK(r, took) /\ Goto(h, r)
    BY <1>0, <1>10 DEF PurgeChangelog
  <2>2. UNCHANGED took /\ OthersOK'
    BY <1>0, <1>10, OthersKept DEF PurgeChangelog
  <2>3. LogOK(log', took)
    <3> DEFINE f == [n \in Names |-> IF n \in Simulated THEN <<>> ELSE log["changelog"][n]]
    <3>1. log' = [log EXCEPT !["changelog"] = f]
      BY <1>0, <1>10 DEF PurgeChangelog
    <3>2. /\ f \in [Names -> Seq(Outcome)]
          /\ \A n \in Names : AppliedIn(f[n]) => AppliedIn(log["changelog"][n])
      BY <1>0 DEF LogOK, LogType, AppliedIn
    <3> HIDE DEF f
    <3> QED BY <1>0, <3>1, <3>2, RewriteOK
  <2> HIDE DEF r, CallOK, OutcomeOK
  <2> QED BY <2>1, <2>2, <2>3, LogStep
<1> QED
  BY <1>1, <1>2, <1>3, <1>4, <1>5, <1>6, <1>7, <1>8, <1>9, <1>10 DEF AdminSteps

LEMMA StopKeeps ==
  ASSUME IInv, NEW h \in Calls, Stop(h)
  PROVE  IInv'
<1>0. CallOK(call[h]) /\ OthersOK /\ again \subseteq Names
  BY CallFacts DEF OthersOK
<1>1. again' \subseteq Names
  BY <1>0 DEF Stop, CallOK, AtFileSteps
<1>2. UNCHANGED <<log, took>> /\ OthersOK' /\ Goto(h, Idle)
  BY <1>0, <1>1, OthersKept DEF Stop
<1> QED BY <1>2, QuietStep, IdleOK

LEMMA InvNext == IInv /\ [Next]_vars => IInv'
<1> SUFFICES ASSUME IInv, [Next]_vars PROVE IInv'
  OBVIOUS
<1>1. CASE UNCHANGED vars
  BY <1>1 DEF vars, IInv, OthersOK
<1>2. CASE Next
  BY <1>2, StatusKeeps, RunKeeps, AdminKeeps, StopKeeps DEF Next
<1> QED BY <1>1, <1>2

-----------------------------------------------------------------------------
\* Every behaviour keeps the types: in particular a call that deletes or writes an
\* entry of the changelog is always at a migration.
THEOREM TypeCorrect == Spec => []TypeOK
<1>1. Init => IInv
  BY InvInit
<1>2. IInv /\ [Next]_vars => IInv'
  BY InvNext
<1>3. IInv => TypeOK
  BY InvImplies
<1> QED BY <1>1, <1>2, <1>3, PTL DEF Spec

\* However calls overlap, are cut short or are rejected by the database, and however
\* often a simulation is started and cleared: what a changelog says was applied has
\* taken effect.
THEOREM AppliedMigrationsTookEffect == Spec => []AppliedTookEffect
<1>1. Init => IInv
  BY InvInit
<1>2. IInv /\ [Next]_vars => IInv'
  BY InvNext
<1>3. IInv => AppliedTookEffect
  BY InvImplies
<1> QED BY <1>1, <1>2, <1>3, PTL DEF Spec

-----------------------------------------------------------------------------
(***************************************************************************)
(* Until two changing calls overlap.  What counts of the entries about a   *)
(* name, and what the accesses do to it.                                   *)
(***************************************************************************)
LastOf(s) == IF s = <<>> THEN "pending" ELSE s[Len(s)]
Closed(s) == LastOf(s) \in {"applied", "skipped"}
ReportedFailed(n, s) == IF n \in Files THEN LastOf(s) = "failed"
                        ELSE \E i \in DOMAIN s : s[i] = "failed"

LEMMA LastTyped == ASSUME NEW s \in Seq(Outcome) PROVE LastOf(s) \in Outcome \cup {"pending"}
  BY DEF LastOf

LEMMA LastAppended == ASSUME NEW s \in Seq(Outcome), NEW o \in Outcome PROVE LastOf(Append(s, o)) = o
<1>1. Append(s, o) # <<>> /\ Len(Append(s, o)) = Len(s) + 1 /\ Append(s, o)[Len(s) + 1] = o
  OBVIOUS
<1> QED BY <1>1 DEF LastOf

\* deleteOne leaves the last entry where it is, unless it is the only one.
LEMMA LastOfTail ==
  ASSUME NEW s \in Seq(Outcome), s # <<>>
  PROVE  LastOf(Tail(s)) \in {LastOf(s), "pending"}
<1>1. CASE Tail(s) = <<>>
  BY <1>1 DEF LastOf
<1>2. CASE Tail(s) # <<>>
  <2>1. Tail(s) \in Seq(Outcome) /\ Len(Tail(s)) = Len(s) - 1 /\ Len(s) \in Nat
    OBVIOUS
  <2>2. Len(Tail(s)) # 0
    BY <1>2, <2>1, EmptySeq
  <2>3. Tail(s)[Len(Tail(s))] = s[Len(s)]
    BY <2>1, <2>2
  <2> QED BY <1>2, <2>3 DEF LastOf
<1> QED BY <1>1, <1>2

LEMMA LastSkipped ==
  ASSUME NEW s \in Seq(Outcome)
  PROVE  LastOf(SkippedFailures(s)) = IF LastOf(s) = "failed" THEN "skipped" ELSE LastOf(s)
<1>1. DOMAIN SkippedFailures(s) = 1 .. Len(s) /\ Len(s) \in Nat
  BY DEF SkippedFailures
<1>2. SkippedFailures(s) \in Seq(Outcome)
  BY SkipApplied
<1>3. Len(SkippedFailures(s)) = Len(s)
  BY <1>1, <1>2
<1>4. CASE s = <<>>
  BY <1>2, <1>3, <1>4 DEF LastOf
<1>5. CASE s # <<>>
  <2>1. Len(s) \in DOMAIN s /\ SkippedFailures(s) # <<>>
    BY <1>2, <1>3, <1>5
  <2>2. SkippedFailures(s)[Len(s)] = IF s[Len(s)] = "failed" THEN "skipped" ELSE s[Len(s)]
    BY <2>1 DEF SkippedFailures
  <2> QED BY <1>3, <1>5, <2>1, <2>2 DEF LastOf
<1> QED BY <1>4, <1>5

LEMMA LastOfConcat ==
  ASSUME NEW s \in Seq(Outcome), NEW t \in Seq(Outcome), Closed(t)
  PROVE  Closed(s \o t)
<1>1. t # <<>>
  BY DEF Closed, LastOf
<1>2. Len(s \o t) = Len(s) + Len(t) /\ Len(s) \in Nat /\ Len(t) \in Nat /\ Len(t) > 0
  BY <1>1
<1>3. (s \o t)[Len(s \o t)] = t[Len(t)] /\ s \o t # <<>>
  BY <1>1, <1>2
<1> QED BY <1>1, <1>3 DEF Closed, LastOf

-----------------------------------------------------------------------------
(***************************************************************************)
(* What holds until two changing calls overlap.                            *)
(***************************************************************************)

\* A step belongs to its kind, and nothing but a retired migration is missing.
KindOK(r) ==
  /\ r.step = "idle" => r = Idle
  /\ r.step = "ignore" => r.kind = "ignore"
  /\ r.step \in {"empty", "copy", "failures"} => r.kind = "simulate"
  /\ r.step \in {"drop", "purge"} => r.kind = "clear"
  /\ r.step = "activate" => r.kind \in {"simulate", "clear"}
  /\ r.missing \subseteq Retired

\* A migration that has taken effect and that nothing else may make take effect again.
Done(t, ag, n) == t[n] > 0 /\ n \notin ag

\* What a run has before it: it may make these take effect.
AtFileOf(r) == IF r.step \in AtFileSteps THEN {r.file} ELSE {}
Ahead(r) == r.pending \cup r.failed \cup (IF r.step = "record" THEN {} ELSE AtFileOf(r))

\* None of it is done, and the active collection does not say that it is.
RunKnows(r, l, t, ag) ==
  /\ \A n \in Ahead(r) :
       /\ ~Done(t, ag, n)
       /\ n \in Files => \/ n \in ag \/ n \in r.pending \cap Retired
                         \/ n \notin Retired /\ ~Closed(l[r.coll][n])
  /\ r.failed \cap Retired = {}
  /\ AtFileOf(r) \cap (r.pending \cup r.failed) = {}
  /\ r.step \in {"missing", "inserting"} => \A n \in Retired : LastOf(l[r.coll][n]) # "failed"
  /\ r.step = "record" => /\ r.file \in Files /\ r.outcome # "failed"
                          /\ ~Done(t, ag, r.file) \/ r.outcome = "applied"
  /\ r.step = "recordError" /\ r.file \in Simulated => r.outcome = "failed"

\* Every automatic migration is settled, or the run has yet to come to its entry.
RunCovers(r, l) ==
  r.step \in {"resolve", "next"} \cup AtFileSteps =>
    /\ \A n \in Files \ Manual :
         Closed(l[r.coll][n]) \/ n \in r.pending \cup r.failed \cup AtFileOf(r)
    /\ \A n \in Simulated :
         ~ReportedFailed(n, l[r.coll][n]) \/ n \in r.failed \cup AtFileOf(r)

Cleared(r) == r.kind = "clear" /\ r.step \in {"purge", "activate"}

\* What a call knows of the database: the collection it uses is the active one; what is
\* done is settled in the collection that it is about to make the active one.
Knows(r, l, a, t, ag) ==
  /\ r.kind \in {"run", "single", "ignore"} => r.coll = a
  /\ r.kind = "single" => r.file \in ag
  /\ r.kind = "run" => RunKnows(r, l, t, ag) /\ RunCovers(r, l)
  /\ Cleared(r) => \A n \in Names : Done(t, ag, n) => Closed(l["changelog"][n])
  /\ r.kind = "simulate" =>
       /\ a = "changelog"
       /\ r.step \in {"failures", "activate"} =>
            \A n \in Names : Done(t, ag, n) => Closed(l["simulation"][n])

\* Who answers for what is done while the active collection does not show it: the call
\* that is about to record it, and the one that is about to change collections.
Vouches(r, n) ==
  \/ r.kind = "run" /\ r.step = "record" /\ r.file = n /\ r.outcome = "applied"
  \/ Cleared(r)

\* What is done was done once, and shows in the active collection or has its voucher.
OnceBy(l, a, t, ag, r) ==
  \A n \in Names : Done(t, ag, n) =>
    /\ t[n] = 1 /\ n \in Files
    /\ Closed(l[a][n]) \/ Vouches(r, n)

Vouched(n) == \E h \in Calls : Vouches(call[h], n)
Once == \A n \in Names : Done(took, again, n) =>
          /\ took[n] = 1 /\ n \in Files
          /\ Closed(log[active][n]) \/ Vouched(n)

Alone == \A h, k \in Calls : Changing(h) /\ Changing(k) => h = k

Calm ==
  /\ Alone /\ Once
  /\ \A h \in Calls : Knows(call[h], log, active, took, again)

HInv ==
  /\ IInv
  /\ \A h \in Calls : KindOK(call[h])
  /\ ~overlapped => Calm

\* What a step does to the changelog itself (SettledStays, SimulationIsolated).
Stays(l, l2, ag2) == \A n \in Files \ ag2 : Closed(l["changelog"][n]) => Closed(l2["changelog"][n])
Isolates(a, l, l2) ==
  a = "simulation" => \A n \in Files \ Retired : l2["changelog"][n] = l["changelog"][n]

-----------------------------------------------------------------------------
(***************************************************************************)
(* How the parts of the invariant carry over from a step.                  *)
(***************************************************************************)
Apart(l, l2, c, n) ==
  \A d \in Collections, m \in Names : d # c \/ m # n => l2[d][m] = l[d][m]

LEMMA AppendEffect ==
  ASSUME LogType(log), NEW c \in Collections, NEW n \in Names, NEW o \in Outcome,
         AppendEntry(c, n, o)
  PROVE  LogType(log') /\ Apart(log, log', c, n) /\ LastOf(log'[c][n]) = o
<1>1. log[c][n] \in Seq(Outcome)
  BY DEF LogType
<1>2. log' = [log EXCEPT ![c] = [log[c] EXCEPT ![n] = Append(log[c][n], o)]]
  BY DEF AppendEntry, LogType
<1>3. LogType(log') /\ Apart(log, log', c, n) /\ log'[c][n] = Append(log[c][n], o)
  BY <1>1, <1>2 DEF Apart, LogType
<1> QED BY <1>1, <1>3, LastAppended

\* The updateMany of failed entries: all that changes is that failures are skipped.
LEMMA SkipEffect ==
  ASSUME LogType(log), NEW c \in Collections, NEW B, SkipFailed(c, B)
  PROVE  /\ \A d \in Collections, n \in Names : d # c \/ n \notin B => log'[d][n] = log[d][n]
         /\ \A n \in Names \cap B :
              LastOf(log'[c][n]) = IF LastOf(log[c][n]) = "failed" THEN "skipped"
                                   ELSE LastOf(log[c][n])
<1>1. \A n \in Names : log[c][n] \in Seq(Outcome)
  BY DEF LogType
<1>2. log' = [log EXCEPT ![c] = [n \in Names |-> IF n \in B THEN SkippedFailures(log[c][n])
                                                 ELSE log[c][n]]]
  BY DEF SkipFailed, SkippedFailures
<1>3. \A d \in Collections, n \in Names :
        log'[d][n] = IF d = c /\ n \in B THEN SkippedFailures(log[d][n]) ELSE log[d][n]
  BY <1>2 DEF LogType
<1> QED BY <1>1, <1>3, LastSkipped

\* A call that changes nothing has nothing to know, and answers for nothing.
LEMMA OthersKnow ==
  ASSUME NEW r, r.kind \in {"none", "status"}, NEW l, NEW a, NEW t, NEW ag
  PROVE  Knows(r, l, a, t, ag) /\ \A n \in Names : ~Vouches(r, n)
  BY DEF Knows, Vouches, Cleared

LEMMA IdleKind == Idle.kind = "none" /\ Idle.step = "idle" /\ KindOK(Idle)
  BY DEF Idle, KindOK

\* What the invariant says of the one call that changes something.
Before(h) ==
  /\ CallOK(call[h]) /\ OutcomeOK(call[h], took) /\ KindOK(call[h])
  /\ LogType(log) /\ took \in [Names -> Nat] /\ again \subseteq Names
  /\ active \in Collections
  /\ Knows(call[h], log, active, took, again)
  /\ OnceBy(log, active, took, again, call[h])
  /\ \A k \in Calls \ {h} : ~Changing(k)

After(r) ==
  /\ Knows(r, log', active', took', again')
  /\ OnceBy(log', active', took', again', r)
  /\ Stays(log, log', again')
  /\ Isolates(active, log, log')

LEMMA CalmBefore ==
  ASSUME HInv, ~overlapped, NEW h \in Calls, Changing(h) \/ \A k \in Calls : ~Changing(k)
  PROVE  Before(h)
<1>1. /\ CallOK(call[h]) /\ OutcomeOK(call[h], took) /\ KindOK(call[h]) /\ LogType(log)
      /\ took \in [Names -> Nat] /\ again \subseteq Names /\ active \in Collections
  BY DEF HInv, IInv, LogOK, OthersOK
<1>2. Knows(call[h], log, active, took, again)
  BY DEF HInv, Calm
<1>3. \A k \in Calls \ {h} : ~Changing(k)
  BY DEF HInv, Calm, Alone
<1>4. ASSUME NEW n \in Names, Vouched(n) PROVE Vouches(call[h], n)
  <2>1. PICK k \in Calls : Vouches(call[k], n)
    BY <1>4 DEF Vouched
  <2>2. Changing(k)
    BY <2>1, OthersKnow DEF Changing
  <2> QED BY <1>3, <2>1, <2>2
<1>5. OnceBy(log, active, took, again, call[h])
  BY <1>4 DEF HInv, Calm, Once, OnceBy
<1> QED BY <1>1, <1>2, <1>3, <1>5 DEF Before

LEMMA CalmAfter ==
  ASSUME call \in [Calls -> Call], NEW h \in Calls, NEW r, Goto(h, r), After(r),
         \A k \in Calls \ {h} : ~Changing(k)
  PROVE  Calm'
<1>1. call'[h] = r /\ \A k \in Calls \ {h} : call'[k] = call[k] /\ call'[k].kind \in {"none", "status"}
  BY DEF Goto, Changing
<1>2. Alone'
  BY <1>1 DEF Alone, Changing
<1>3. \A k \in Calls : Knows(call'[k], log', active', took', again')
  BY <1>1, OthersKnow DEF After
<1>4. Once'
  BY <1>1 DEF After, OnceBy, Once, Vouched
<1> QED BY <1>2, <1>3, <1>4 DEF Calm

-----------------------------------------------------------------------------
(***************************************************************************)
(* A status read, which may go on beside a changing call, only settles     *)
(* retired migrations.                                                     *)
(***************************************************************************)
RetiredOnly(l, l2) ==
  /\ \A c \in Collections, n \in Names \ Retired : l2[c][n] = l[c][n]
  /\ \A c \in Collections, n \in Retired :
       /\ Closed(l[c][n]) => Closed(l2[c][n])
       /\ LastOf(l[c][n]) # "failed" => LastOf(l2[c][n]) # "failed"

LEMMA RetiredKnows ==
  ASSUME NEW r \in Call, NEW l, NEW l2, NEW a \in Collections, NEW t, NEW ag,
         RetiredOnly(l, l2), Knows(r, l, a, t, ag)
  PROVE  Knows(r, l2, a, t, ag)
<1>0. Retired \subseteq Files /\ Files \cap Simulated = {} /\ r.coll \in Collections
      /\ "changelog" \in Collections /\ "simulation" \in Collections
      /\ Names = Files \cup Simulated
  BY MigrationRunnerAssumption DEF Call, Collections, Names
<1>1. \A c \in Collections, n \in Names : Closed(l[c][n]) => Closed(l2[c][n])
  BY <1>0 DEF RetiredOnly
<1>2. r.kind = "run" => RunKnows(r, l2, t, ag)
  <2> SUFFICES ASSUME r.kind = "run" PROVE RunKnows(r, l2, t, ag)
    OBVIOUS
  <2>1. RunKnows(r, l, t, ag)
    BY DEF Knows
  <2>2. \A n \in Files \ Retired : l2[r.coll][n] = l[r.coll][n]
    BY <1>0 DEF RetiredOnly
  <2>3. \A n \in Retired : LastOf(l[r.coll][n]) # "failed" => LastOf(l2[r.coll][n]) # "failed"
    BY <1>0 DEF RetiredOnly
  <2> QED BY <2>1, <2>2, <2>3 DEF RunKnows
<1>3. r.kind = "run" => RunCovers(r, l2)
  <2> SUFFICES ASSUME r.kind = "run" PROVE RunCovers(r, l2)
    OBVIOUS
  <2>1. RunCovers(r, l)
    BY DEF Knows
  <2>2. \A n \in Simulated : l2[r.coll][n] = l[r.coll][n]
    BY <1>0 DEF RetiredOnly
  <2> QED BY <1>0, <1>1, <2>1, <2>2 DEF RunCovers
<1> QED BY <1>0, <1>1, <1>2, <1>3 DEF Knows

LEMMA StatusStep ==
  ASSUME HInv, ~overlapped, NEW h \in Calls, NEW r, Goto(h, r),
         RetiredOnly(log, log'), UNCHANGED <<active, took, again>>,
         r.kind \in {"none", "status", call[h].kind},
         call[h].kind \in {"none", "status"} \/ r.kind \in {"none", call[h].kind},
         Knows(r, log', active, took, again),
         \A n \in Names : ~Vouches(call[h], n)
  PROVE  Calm' /\ Stays(log, log', again') /\ Isolates(active, log, log')
<1>0. /\ Retired \subseteq Files /\ Files \subseteq Names
      /\ "changelog" \in Collections /\ active \in Collections
      /\ call \in [Calls -> Call]
  BY MigrationRunnerAssumption DEF Names, Collections, HInv, IInv, OthersOK
<1>1. call'[h] = r /\ \A k \in Calls \ {h} : call'[k] = call[k]
  BY <1>0 DEF Goto
<1>2. \A c \in Collections, n \in Names : Closed(log[c][n]) => Closed(log'[c][n])
  BY DEF RetiredOnly
<1>3. Alone'
  BY <1>1 DEF HInv, Calm, Alone, Changing
<1>4. ASSUME NEW k \in Calls PROVE Knows(call'[k], log', active', took', again')
  <2>1. CASE k = h
    BY <1>1, <2>1
  <2>2. CASE k # h
    <3>1. Knows(call[k], log, active, took, again) /\ call[k] \in Call
      BY <1>0 DEF HInv, Calm
    <3>2. Knows(call[k], log', active, took, again)
      BY <1>0, <3>1, RetiredKnows
    <3> QED BY <1>1, <2>2, <3>2
  <2> QED BY <2>1, <2>2
<1>5. Once'
  <2>1. \A n \in Names : Vouched(n) => Vouched(n)'
    BY <1>1 DEF Vouched
  <2>2. Once
    BY DEF HInv, Calm
  <2> QED BY <1>0, <1>2, <2>1, <2>2 DEF Once
<1>6. Stays(log, log', again')
  BY <1>0, <1>2 DEF Stays
<1>7. Isolates(active, log, log')
  BY <1>0 DEF Isolates, RetiredOnly
<1> QED BY <1>3, <1>4, <1>5, <1>6, <1>7 DEF Calm

-----------------------------------------------------------------------------
(***************************************************************************)
(* Steps keep to their kinds, however calls overlap.                       *)
(***************************************************************************)
LEMMA KindKept ==
  ASSUME IInv, \A k \in Calls : KindOK(call[k]), [Next]_vars
  PROVE  \A k \in Calls : KindOK(call'[k])
<1>1. CASE UNCHANGED vars
  BY <1>1 DEF vars
<1>2. ASSUME NEW h \in Calls, StatusSteps(h) \/ RunSteps(h) \/ AdminSteps(h) \/ Stop(h)
      PROVE  KindOK(call'[h]) /\ \A k \in Calls \ {h} : call'[k] = call[k]
  <2> USE DEF KindOK, Idle, Goto
  <2>0. /\ call[h] \in Call /\ CallOK(call[h]) /\ KindOK(call[h]) /\ Retired \subseteq Names
        /\ call \in [Calls -> Call]
    BY CallFacts, MigrationRunnerAssumption DEF Names, IInv
  <2>1. CASE StatusBegins(h)
    BY <2>0, <2>1 DEF StatusBegins, Call
  <2>2. CASE RunBegins(h)
    BY <2>0, <2>2 DEF RunBegins, Call, BeginChange
  <2>3. CASE RetireFailed(h)
    BY <2>0, <2>3 DEF RetireFailed, Call
  <2>4. CASE FindMissingRetired(h)
    BY <2>0, <2>4 DEF FindMissingRetired, Call
  <2>5. CASE InsertMissingRetired(h)
    BY <2>0, <2>5 DEF InsertMissingRetired, Call
  <2>6. CASE FindStatus(h)
    BY <2>0, <2>6 DEF FindStatus, Call
  <2>7. CASE ResolveCollection(h)
    BY <2>0, <2>7 DEF ResolveCollection, Call
  <2>8. CASE NextFile(h)
    BY <2>0, <2>8 DEF NextFile, Call, AtFile
  <2>9. CASE RunEnds(h)
    BY <2>0, <2>9 DEF RunEnds, Call
  <2>10. CASE DeleteEntry(h)
    BY <2>0, <2>10 DEF DeleteEntry, Call, AtFile
  <2>11. CASE UpReturns(h)
    BY <2>0, <2>11 DEF UpReturns, Call
  <2>12. CASE UpThrows(h)
    BY <2>0, <2>12 DEF UpThrows, Call, Caught
  <2>13. CASE UpMissing(h)
    BY <2>0, <2>13 DEF UpMissing, Call
  <2>14. CASE Record(h)
    BY <2>0, <2>14 DEF Record, Call
  <2>15. CASE RecordError(h)
    BY <2>0, <2>15 DEF RecordError, Call
  <2>16. CASE StoreRejects(h)
    BY <2>0, <2>16 DEF StoreRejects, Call, Caught
  <2>17. CASE IgnoreBegins(h)
    BY <2>0, <2>17 DEF IgnoreBegins, Call, BeginChange
  <2>18. CASE IgnoreFailed(h)
    BY <2>0, <2>18 DEF IgnoreFailed, Call
  <2>19. CASE SimulationBegins(h)
    BY <2>0, <2>19 DEF SimulationBegins, Call, BeginChange
  <2>20. CASE EmptySimulation(h)
    BY <2>0, <2>20 DEF EmptySimulation, Call
  <2>21. CASE CopyChangelog(h)
    BY <2>0, <2>21 DEF CopyChangelog, Call
  <2>22. CASE InsertFailures(h)
    BY <2>0, <2>22 DEF InsertFailures, Call
  <2>23. CASE SetActiveCollection(h)
    BY <2>0, <2>23 DEF SetActiveCollection, Call
  <2>24. CASE ClearBegins(h)
    BY <2>0, <2>24 DEF ClearBegins, Call, BeginChange
  <2>25. CASE DropSimulation(h)
    BY <2>0, <2>25 DEF DropSimulation, Call
  <2>26. CASE PurgeChangelog(h)
    BY <2>0, <2>26 DEF PurgeChangelog, Call
  <2>27. CASE Stop(h)
    BY <2>0, <2>27 DEF Stop, Call
  <2>28. CASE \E n \in Names : SingleBegins(h, n)
    BY <2>0, <2>28 DEF SingleBegins, BeginChange, Call
  <2> QED
    BY <1>2, <2>1, <2>2, <2>3, <2>4, <2>5, <2>6, <2>7, <2>8, <2>9, <2>10, <2>11, <2>12, <2>13, <2>14, <2>15, <2>16, <2>17, <2>18, <2>19, <2>20, <2>21, <2>22, <2>23, <2>24, <2>25, <2>26, <2>27, <2>28
       DEF StatusSteps, RunSteps, AdminSteps
<1> QED BY <1>1, <1>2 DEF Next

-----------------------------------------------------------------------------
(***************************************************************************)
(* The status reads, alone and as the first part of a run.                 *)
(***************************************************************************)
Kept == Calm' /\ Stays(log, log', again') /\ Isolates(active, log, log')

LEMMA StatusCalm ==
  ASSUME HInv, ~overlapped, NEW h \in Calls,
         \/ StatusBegins(h) \/ RetireFailed(h) \/ FindMissingRetired(h)
         \/ InsertMissingRetired(h) \/ FindStatus(h)
  PROVE  Kept
<1>0. /\ CallOK(call[h]) /\ call[h] \in Call /\ KindOK(call[h]) /\ LogType(log)
      /\ Knows(call[h], log, active, took, again) /\ active \in Collections
      /\ call[h].coll \in Collections
  BY CallFacts DEF HInv, Calm, LogOK, Call
<1>00. /\ Retired \subseteq Files /\ Retired \subseteq Names /\ Names = Files \cup Simulated
       /\ Files \cap Simulated = {} /\ Manual \subseteq Files
  BY MigrationRunnerAssumption DEF Names
<1>1. CASE StatusBegins(h)
  <2> DEFINE r == [Idle EXCEPT !.kind = "status", !.step = "retire", !.coll = active]
  <2>1. Goto(h, r) /\ r.kind = "status" /\ call[h].kind = "none"
    BY <1>1, IdleKind DEF StatusBegins, Idle
  <2>2. RetiredOnly(log, log') /\ UNCHANGED <<active, took, again>>
    BY <1>1 DEF StatusBegins, RetiredOnly
  <2> HIDE DEF r
  <2>3. Knows(r, log', active, took, again) /\ \A n \in Names : ~Vouches(call[h], n)
    BY <2>1, OthersKnow
  <2> QED BY <2>1, <2>2, <2>3, StatusStep DEF Kept
<1>2. CASE RetireFailed(h)
  <2> DEFINE r == [call[h] EXCEPT !.step = "missing"]
  <2>1. /\ \A d \in Collections, n \in Names : d # call[h].coll \/ n \notin Retired => log'[d][n] = log[d][n]
        /\ \A n \in Retired : LastOf(log'[call[h].coll][n]) =
             IF LastOf(log[call[h].coll][n]) = "failed" THEN "skipped" ELSE LastOf(log[call[h].coll][n])
    BY <1>0, <1>00, <1>2, SkipEffect DEF RetireFailed
  <2>2. RetiredOnly(log, log')
    BY <1>00, <2>1 DEF RetiredOnly, Closed
  <2>3. /\ Goto(h, r) /\ r.kind = call[h].kind /\ r.coll = call[h].coll /\ r.step = "missing"
        /\ r.pending = call[h].pending /\ r.failed = call[h].failed
        /\ call[h].step = "retire" /\ call[h].kind \in {"status", "run"}
        /\ UNCHANGED <<active, took, again>>
    BY <1>0, <1>2 DEF RetireFailed, Call, CallOK
  <2>4. Knows(call[h], log', active, took, again)
    BY <1>0, <2>2, RetiredKnows
  <2> HIDE DEF r
  <2>5. \A n \in Retired : LastOf(log'[r.coll][n]) # "failed"
    BY <2>1, <2>3
  <2>6. Knows(r, log', active, took, again) /\ \A n \in Names : ~Vouches(call[h], n)
    BY <2>3, <2>4, <2>5 DEF Knows, RunKnows, RunCovers, Ahead, AtFileOf, AtFileSteps, Vouches, Cleared
  <2> QED BY <2>2, <2>3, <2>6, StatusStep DEF Kept
<1>3. CASE FindMissingRetired(h)
  <2> DEFINE r == [call[h] EXCEPT !.step = "inserting",
                                  !.missing = {n \in Retired : log[call[h].coll][n] = <<>>}]
  <2>3. /\ Goto(h, r) /\ r.kind = call[h].kind /\ r.coll = call[h].coll /\ r.step = "inserting"
        /\ r.pending = call[h].pending /\ r.failed = call[h].failed
        /\ call[h].step = "missing" /\ call[h].kind \in {"status", "run"}
        /\ UNCHANGED <<log, active, took, again>>
    BY <1>0, <1>3 DEF FindMissingRetired, Call, CallOK
  <2> HIDE DEF r
  <2>2. RetiredOnly(log, log')
    BY <2>3 DEF RetiredOnly
  <2>6. Knows(r, log', active, took, again) /\ \A n \in Names : ~Vouches(call[h], n)
    BY <1>0, <2>3 DEF Knows, RunKnows, RunCovers, Ahead, AtFileOf, AtFileSteps, Vouches, Cleared
  <2> QED BY <2>2, <2>3, <2>6, StatusStep DEF Kept
<1>4. CASE InsertMissingRetired(h)
  <2>1. PICK m \in call[h].missing :
          /\ AppendEntry(call[h].coll, m, "skipped")
          /\ Goto(h, [call[h] EXCEPT !.missing = @ \ {m}])
    BY <1>4 DEF InsertMissingRetired
  <2> DEFINE r == [call[h] EXCEPT !.missing = @ \ {m}]
  <2>2. m \in Retired /\ "skipped" \in Outcome
    BY <1>0 DEF KindOK, Outcome
  <2>3. Apart(log, log', call[h].coll, m) /\ LastOf(log'[call[h].coll][m]) = "skipped"
    BY <1>0, <1>00, <2>1, <2>2, AppendEffect
  <2>4. RetiredOnly(log, log')
    BY <1>00, <2>2, <2>3 DEF RetiredOnly, Apart, Closed
  <2>5. /\ Goto(h, r) /\ r.kind = call[h].kind /\ r.coll = call[h].coll /\ r.step = "inserting"
        /\ r.pending = call[h].pending /\ r.failed = call[h].failed
        /\ call[h].step = "inserting" /\ call[h].kind \in {"status", "run"}
        /\ UNCHANGED <<active, took, again>>
    BY <1>0, <1>4, <2>1 DEF InsertMissingRetired, Call, CallOK
  <2> HIDE DEF r
  <2>6. Knows(call[h], log', active, took, again)
    BY <1>0, <2>4, RetiredKnows
  <2>7. Knows(r, log', active, took, again) /\ \A n \in Names : ~Vouches(call[h], n)
    BY <2>5, <2>6 DEF Knows, RunKnows, RunCovers, Ahead, AtFileOf, AtFileSteps, Vouches, Cleared
  <2> QED BY <2>4, <2>5, <2>7, StatusStep DEF Kept
<1>5. CASE FindStatus(h)
  <2> DEFINE c == call[h].coll
             pending == {n \in Files \ Manual : Status(c, n) = "pending"}
             failed == {n \in Names \ Manual : Failed(c, n)}
             r == [call[h] EXCEPT !.step = "resolve", !.pending = pending, !.failed = failed]
  <2>1. /\ call[h].step = "inserting" /\ call[h].kind \in {"status", "run"}
        /\ UNCHANGED <<log, active, took, again>>
        /\ Goto(h, Idle) \/ (call[h].kind # "status" /\ Goto(h, r))
    BY <1>0, <1>5 DEF FindStatus, CallOK
  <2>2. RetiredOnly(log, log') /\ \A n \in Names : ~Vouches(call[h], n)
    BY <2>1 DEF RetiredOnly, Vouches, Cleared
  <2>3. CASE Goto(h, Idle)
    <3>1. Knows(Idle, log', active, took, again) /\ Idle.kind = "none"
      BY IdleKind, OthersKnow
    <3> QED BY <2>1, <2>2, <2>3, <3>1, StatusStep DEF Kept
  <2>4. CASE call[h].kind # "status" /\ Goto(h, r)
    <3>0. /\ r.kind = "run" /\ call[h].kind = "run" /\ r.coll = c /\ r.step = "resolve"
          /\ r.pending = pending /\ r.failed = failed
      BY <1>0, <2>1, <2>4 DEF Call
    <3>1. /\ pending = {n \in Files \ Manual : LastOf(log[c][n]) = "pending"}
          /\ failed = {n \in Names \ Manual : ReportedFailed(n, log[c][n])}
      BY DEF Status, Failed, LastOf, ReportedFailed
    <3> HIDE DEF r, pending, failed, c
    <3>2. c = active /\ \A n \in Retired : LastOf(log[c][n]) # "failed"
      BY <1>0, <2>1, <3>0 DEF Knows, RunKnows, c
    <3>3. \A n \in Names : Done(took, again, n) => n \in Files /\ Closed(log[c][n])
      <4>1. Before(h)
        BY <3>0, CalmBefore DEF Changing
      <4> QED BY <2>2, <3>2, <4>1 DEF Before, OnceBy
    <3>4. \A n \in Names : LastOf(log[c][n]) \in {"applied", "skipped", "failed", "pending"}
      BY <1>0, <3>2, LastTyped DEF LogType, Outcome
    <3>5. RunKnows(r, log, took, again)
      <4>1. AtFileOf(r) = {} /\ Ahead(r) = pending \cup failed
        BY <3>0 DEF AtFileOf, Ahead, AtFileSteps
      <4>2. \A n \in pending : LastOf(log[c][n]) = "pending" /\ n \in Files /\ ~Closed(log[c][n])
        BY <3>1 DEF Closed
      <4>3. \A n \in failed : n \in Names /\ (n \in Files => LastOf(log[c][n]) = "failed" /\ ~Closed(log[c][n]))
        BY <1>00, <3>1 DEF Closed, ReportedFailed
      <4>4. failed \cap Retired = {}
        BY <1>00, <3>2, <4>3
      <4>5. ASSUME NEW n \in pending \cup failed
            PROVE  /\ ~Done(took, again, n)
                   /\ n \in Files => \/ n \in again \/ n \in pending \cap Retired
                                     \/ n \notin Retired /\ ~Closed(log[c][n])
        BY <1>00, <3>3, <4>2, <4>3, <4>4
      <4> QED BY <3>0, <4>1, <4>4, <4>5 DEF RunKnows
    <3>6. RunCovers(r, log)
      <4>1. \A n \in Files \ Manual : Closed(log[c][n]) \/ n \in pending \cup failed
        BY <1>00, <3>1, <3>4 DEF Closed, ReportedFailed
      <4>2. \A n \in Simulated : ~ReportedFailed(n, log[c][n]) \/ n \in failed
        BY <1>00, <3>1
      <4> QED BY <3>0, <4>1, <4>2 DEF RunCovers
    <3>7. Knows(r, log', active, took, again)
      BY <2>1, <3>0, <3>2, <3>5, <3>6 DEF Knows, Cleared
    <3> QED BY <2>1, <2>2, <2>4, <3>0, <3>7, StatusStep DEF Kept
  <2> QED BY <2>1, <2>3, <2>4
<1> QED BY <1>1, <1>2, <1>3, <1>4, <1>5

-----------------------------------------------------------------------------
(***************************************************************************)
(* The loop of a run, and a single migration.                              *)
(***************************************************************************)

\* A step that writes nothing but what the call itself remembers.
LEMMA QuietAfter ==
  ASSUME NEW h \in Calls, Before(h), UNCHANGED <<log, active, took, again>>, NEW r,
         Knows(r, log, active, took, again),
         \A n \in Names : Vouches(call[h], n) => Vouches(r, n)
  PROVE  After(r)
  BY DEF Before, After, OnceBy, Stays, Isolates

LEMMA RunKnown ==
  ASSUME NEW r, NEW l, NEW a, NEW t, NEW ag, r.kind = "run", r.coll = a,
         RunKnows(r, l, t, ag), RunCovers(r, l)
  PROVE  Knows(r, l, a, t, ag)
  BY DEF Knows, Cleared

\* A migration that an admin runs by itself may take effect again from the start: nothing
\* is claimed of it.
LEMMA SingleAfter ==
  ASSUME NEW h \in Calls, Before(h), call[h].kind = "single", NEW r,
         r.kind = "none" \/ (r.kind = "single" /\ r.coll = active /\ r.file = call[h].file),
         UNCHANGED active, again \subseteq again',
         Apart(log, log', active, call[h].file),
         \A n \in Names \ {call[h].file} : took'[n] = took[n]
  PROVE  After(r)
<1>1. call[h].file \in again /\ \A n \in Names : ~Vouches(call[h], n)
  BY DEF Before, Knows, Vouches, Cleared
<1>2. \A n \in Names : Done(took', again', n) => n # call[h].file /\ Done(took, again, n)
  BY <1>1 DEF Done
<1>3. Knows(r, log', active', took', again')
  BY <1>1 DEF Knows, Cleared
<1>4. OnceBy(log', active', took', again', r)
  BY <1>1, <1>2 DEF OnceBy, Before, Apart
<1>5. Files \subseteq Names /\ "changelog" \in Collections
  BY DEF Names, Collections
<1>6. Stays(log, log', again') /\ Isolates(active, log, log')
  BY <1>1, <1>5 DEF Stays, Isolates, Apart
<1> QED BY <1>3, <1>4, <1>6 DEF After

LEMMA SingleCalm ==
  ASSUME HInv, ~overlapped, NEW h \in Calls, call[h].kind = "single",
         \/ ResolveCollection(h) \/ DeleteEntry(h) \/ UpReturns(h) \/ UpThrows(h)
         \/ UpMissing(h) \/ Record(h) \/ RecordError(h) \/ StoreRejects(h)
  PROVE  Kept
<1>0. /\ Before(h) /\ call[h] \in Call /\ call \in [Calls -> Call]
      /\ LogType(log) /\ took \in [Names -> Nat]
      /\ call[h].coll = active /\ active \in Collections
      /\ call[h].outcome \in Outcome
  <2>1. Before(h)
    BY CalmBefore DEF Changing
  <2> QED BY <2>1 DEF Before, CallOK, Call, Knows, HInv, IInv
<1>1. ASSUME NEW r, Goto(h, r), After(r) PROVE Kept
  BY <1>0, <1>1, CalmAfter DEF Before, After, Kept
<1>2. Idle.kind = "none"
  BY IdleKind
<1>3. ASSUME UNCHANGED log PROVE Apart(log, log', active, call[h].file)
  BY <1>3 DEF Apart
<1>4. CASE ResolveCollection(h)
  <2> DEFINE r == [call[h] EXCEPT !.coll = active,
                    !.step = IF call[h].kind = "run" THEN "next" ELSE "recordError"]
  <2>1. /\ Goto(h, r) /\ r.kind = "single" /\ r.coll = active /\ r.file = call[h].file
        /\ UNCHANGED <<log, active, took, again>>
    BY <1>0, <1>4 DEF ResolveCollection, Call
  <2> HIDE DEF r
  <2> QED BY <1>0, <1>1, <1>3, <2>1, SingleAfter
<1>5. CASE DeleteEntry(h)
  <2> DEFINE r == AtFile(call[h], call[h].file)
  <2>1. /\ Goto(h, r) /\ r.kind = "single" /\ r.coll = active /\ r.file = call[h].file
        /\ UNCHANGED <<active, took, again>>
    BY <1>0, <1>5 DEF DeleteEntry, AtFile, Call
  <2>2. Apart(log, log', active, call[h].file)
    BY <1>0, <1>5 DEF DeleteEntry, Apart, LogType
  <2> HIDE DEF r
  <2> QED BY <1>0, <1>1, <2>1, <2>2, SingleAfter
<1>6. CASE UpReturns(h)
  <2>1. PICK outcome \in {"applied", "skipped"} :
          /\ took' = IF outcome = "applied" THEN [took EXCEPT ![call[h].file] = @ + 1] ELSE took
          /\ Goto(h, [call[h] EXCEPT !.outcome = outcome, !.step = "record"])
    BY <1>6 DEF UpReturns
  <2> DEFINE r == [call[h] EXCEPT !.outcome = outcome, !.step = "record"]
  <2>2. /\ Goto(h, r) /\ r.kind = "single" /\ r.coll = active /\ r.file = call[h].file
        /\ UNCHANGED <<log, active, again>>
        /\ \A n \in Names \ {call[h].file} : took'[n] = took[n]
    BY <1>0, <1>6, <2>1 DEF UpReturns, Call
  <2> HIDE DEF r
  <2> QED BY <1>0, <1>1, <1>3, <2>2, SingleAfter
<1>7. CASE UpThrows(h)
  <2>1. PICK outcome \in {"skipped", "failed"} : Goto(h, Caught(h, outcome))
    BY <1>7 DEF UpThrows
  <2> DEFINE r == Caught(h, outcome)
  <2>2. /\ Goto(h, r) /\ r.kind = "single" /\ r.coll = active /\ r.file = call[h].file
        /\ UNCHANGED <<log, active, took, again>>
    BY <1>0, <1>7, <2>1 DEF UpThrows, Caught, Call
  <2> HIDE DEF r
  <2> QED BY <1>0, <1>1, <1>3, <2>2, SingleAfter
<1>8. CASE UpMissing(h)
  <2>1. Goto(h, Idle) /\ UNCHANGED <<log, active, took, again>>
    BY <1>8 DEF UpMissing
  <2> QED BY <1>0, <1>1, <1>2, <1>3, <2>1, SingleAfter
<1>9. CASE Record(h) \/ RecordError(h)
  <2>1. /\ AppendEntry(call[h].coll, call[h].file, call[h].outcome)
        /\ Goto(h, Idle) /\ UNCHANGED <<active, took, again>>
    BY <1>9 DEF Record, RecordError
  <2>2. call[h].file \in Names
    BY <1>0, <1>9 DEF Record, RecordError, Before, CallOK, AtFileSteps
  <2>3. Apart(log, log', active, call[h].file)
    BY <1>0, <2>1, <2>2, AppendEffect
  <2> QED BY <1>0, <1>1, <1>2, <2>1, <2>3, SingleAfter
<1>10. CASE StoreRejects(h)
  <2> DEFINE r == Caught(h, IF call[h].kind = "single" /\ call[h].file \in Retired
                            THEN "skipped" ELSE "failed")
  <2>1. /\ Goto(h, r) /\ r.kind = "single" /\ r.coll = active /\ r.file = call[h].file
        /\ UNCHANGED <<log, active, took>> /\ again \subseteq again'
    BY <1>0, <1>10 DEF StoreRejects, Caught, Call
  <2> HIDE DEF r
  <2> QED BY <1>0, <1>1, <1>3, <2>1, SingleAfter
<1> QED BY <1>4, <1>5, <1>6, <1>7, <1>8, <1>9, <1>10

\* The loop: what it is at is not done, what it has recorded is settled.
LEMMA RunCalm ==
  ASSUME HInv, ~overlapped, NEW h \in Calls, call[h].kind = "run",
         \/ ResolveCollection(h) \/ NextFile(h) \/ RunEnds(h) \/ DeleteEntry(h)
         \/ UpReturns(h) \/ UpThrows(h) \/ Record(h) \/ RecordError(h) \/ StoreRejects(h)
  PROVE  Kept
<1> DEFINE q == call[h]
           n0 == call[h].file
<1>0. /\ Before(h) /\ q \in Call /\ call \in [Calls -> Call] /\ CallOK(q)
      /\ LogType(log) /\ took \in [Names -> Nat] /\ active \in Collections
      /\ q.coll = active /\ RunKnows(q, log, took, again) /\ RunCovers(q, log)
      /\ OnceBy(log, active, took, again, q)
      /\ q.kind = "run" /\ q.outcome \in Outcome
      /\ q.pending \subseteq Names /\ q.failed \subseteq Names
  <2>1. Before(h)
    BY CalmBefore DEF Changing
  <2> QED BY <2>1 DEF Before, CallOK, Call, Knows, HInv, IInv
<1>00. /\ Retired \subseteq Files /\ Names = Files \cup Simulated /\ Files \cap Simulated = {}
       /\ Manual \subseteq Files /\ "changelog" \in Collections
  BY MigrationRunnerAssumption DEF Names, Collections
<1>1. ASSUME NEW r, Goto(h, r), After(r) PROVE Kept
  BY <1>0, <1>1, CalmAfter DEF Before, After, Kept
<1>2. Idle.kind = "none" /\ Knows(Idle, log', active', took', again')
  BY IdleKind, OthersKnow
<1>3. CASE ResolveCollection(h)
  <2> DEFINE r == [call[h] EXCEPT !.coll = active,
                    !.step = IF call[h].kind = "run" THEN "next" ELSE "recordError"]
  <2>1. /\ Goto(h, r) /\ r.kind = "run" /\ r.coll = active /\ r.step = "next"
        /\ q.step = "resolve" /\ r.pending = q.pending /\ r.failed = q.failed
        /\ UNCHANGED <<log, active, took, again>>
    BY <1>0, <1>3 DEF ResolveCollection, Call
  <2> HIDE DEF r, q
  <2>2. RunKnows(r, log, took, again) /\ RunCovers(r, log)
    BY <1>0, <2>1 DEF RunKnows, RunCovers, Ahead, AtFileOf, AtFileSteps
  <2>3. \A n \in Names : ~Vouches(q, n)
    BY <1>0, <2>1 DEF Vouches, Cleared
  <2> QED BY <1>0, <1>1, <2>1, <2>2, <2>3, RunKnown, QuietAfter DEF q
<1>4. CASE NextFile(h)
  <2>1. PICK n \in FilesToRun(h) :
          LET rest == [call[h] EXCEPT !.pending = @ \ {n}, !.failed = @ \ {n}] IN
          Goto(h, IF n \in call[h].failed THEN [rest EXCEPT !.file = n, !.step = "delete"]
                  ELSE AtFile(rest, n))
    BY <1>4 DEF NextFile
  <2> DEFINE rest == [call[h] EXCEPT !.pending = @ \ {n}, !.failed = @ \ {n}]
             r == IF n \in call[h].failed THEN [rest EXCEPT !.file = n, !.step = "delete"]
                  ELSE AtFile(rest, n)
  <2>2. n \in q.pending \cup q.failed
    BY DEF FilesToRun, Earliest
  <2>3. /\ Goto(h, r) /\ r.kind = "run" /\ r.coll = active /\ r.file = n
        /\ r.pending = q.pending \ {n} /\ r.failed = q.failed \ {n}
        /\ q.step = "next"
        /\ \/ r.step = "delete" /\ n \in q.failed
           \/ r.step = "record" /\ r.outcome = "skipped" /\ n \in Retired
           \/ r.step = "up" /\ n \notin Retired
        /\ UNCHANGED <<log, active, took, again>>
    BY <1>0, <1>4, <2>1 DEF NextFile, AtFile, Call
  <2> HIDE DEF r, q, rest
  <2>4. Ahead(q) = q.pending \cup q.failed /\ AtFileOf(q) = {} /\ AtFileOf(r) = {n}
    BY <2>3 DEF Ahead, AtFileOf, AtFileSteps
  <2>5. Ahead(r) \subseteq Ahead(q)
    BY <2>2, <2>3, <2>4 DEF Ahead
  <2>6. RunKnows(r, log, took, again)
    <3>1. ASSUME NEW m \in Ahead(r)
          PROVE  /\ ~Done(took, again, m)
                 /\ m \in Files => \/ m \in again \/ m \in r.pending \cap Retired
                                   \/ m \notin Retired /\ ~Closed(log[r.coll][m])
      <4>1. /\ ~Done(took, again, m)
            /\ m \in Files => \/ m \in again \/ m \in q.pending \cap Retired
                              \/ m \notin Retired /\ ~Closed(log[q.coll][m])
        BY <1>0, <2>5, <3>1 DEF RunKnows
      <4>2. CASE m # n
        BY <1>0, <2>3, <4>1, <4>2
      <4>3. CASE m = n
        <5>1. r.step # "record"
          BY <2>3, <2>4, <3>1, <4>3 DEF Ahead
        <5>2. n \notin Retired
          BY <1>0, <2>3, <5>1 DEF RunKnows
        <5> QED BY <1>0, <2>3, <4>1, <4>3, <5>2
      <4> QED BY <4>2, <4>3
    <3>2. r.failed \cap Retired = {} /\ AtFileOf(r) \cap (r.pending \cup r.failed) = {}
      BY <1>0, <2>3, <2>4 DEF RunKnows
    <3>3. ~Done(took, again, n)
      BY <1>0, <2>2, <2>4 DEF RunKnows
    <3> QED BY <1>00, <2>3, <3>1, <3>2, <3>3 DEF RunKnows
  <2>7. RunCovers(r, log)
    <3>1. /\ \A m \in Files \ Manual : Closed(log[q.coll][m]) \/ m \in q.pending \cup q.failed
          /\ \A m \in Simulated : ~ReportedFailed(m, log[q.coll][m]) \/ m \in q.failed
      BY <1>0, <2>3, <2>4 DEF RunCovers
    <3> QED BY <1>0, <2>3, <2>4, <3>1 DEF RunCovers
  <2>8. \A m \in Names : ~Vouches(q, m)
    BY <1>0, <2>3 DEF Vouches, Cleared
  <2> QED BY <1>0, <1>1, <2>3, <2>6, <2>7, <2>8, RunKnown, QuietAfter DEF q
<1>5. CASE RunEnds(h)
  <2>1. Goto(h, Idle) /\ UNCHANGED <<log, active, took, again>> /\ q.step = "next"
    BY <1>5 DEF RunEnds
  <2>2. \A m \in Names : ~Vouches(q, m)
    BY <1>0, <2>1 DEF Vouches, Cleared
  <2> HIDE DEF q
  <2> QED BY <1>0, <1>1, <1>2, <2>1, <2>2, QuietAfter DEF q
<1>6. CASE DeleteEntry(h)
  <2> DEFINE r == AtFile(call[h], n0)
  <2>1. /\ Goto(h, r) /\ r.kind = "run" /\ r.coll = active /\ r.file = n0
        /\ r.pending = q.pending /\ r.failed = q.failed
        /\ q.step = "delete" /\ q.file = n0
        /\ \/ r.step = "record" /\ r.outcome = "skipped" /\ n0 \in Retired
           \/ r.step = "up" /\ n0 \notin Retired
        /\ UNCHANGED <<active, took, again>>
    BY <1>0, <1>6 DEF DeleteEntry, AtFile, Call
  <2>2. n0 \in Names
    BY <1>0, <2>1 DEF CallOK, AtFileSteps
  <2>3. /\ Apart(log, log', active, n0)
        /\ log'[active][n0] = IF log[active][n0] = <<>> THEN log[active][n0]
                              ELSE Tail(log[active][n0])
    BY <1>0, <1>6, <2>2 DEF DeleteEntry, Apart, LogType
  <2>4. Closed(log'[active][n0]) => Closed(log[active][n0])
    <3>1. log[active][n0] \in Seq(Outcome)
      BY <1>0, <2>2 DEF LogType
    <3> QED BY <2>3, <3>1, LastOfTail DEF Closed
  <2> HIDE DEF r, q, n0
  <2>5. Ahead(q) = q.pending \cup q.failed \cup {n0} /\ AtFileOf(q) = {n0} /\ AtFileOf(r) = {n0}
    BY <2>1 DEF Ahead, AtFileOf, AtFileSteps
  <2>6. n0 \notin q.pending \cup q.failed /\ ~Done(took, again, n0)
    BY <1>0, <2>5 DEF RunKnows
  <2>7. \A m \in Names \ {n0} : log'[active][m] = log[active][m]
    BY <1>0, <2>3 DEF Apart
  <2>8. n0 \in Files => n0 \in again \/ (n0 \notin Retired /\ ~Closed(log[active][n0]))
    BY <1>0, <2>5, <2>6 DEF RunKnows
  <2>9. RunKnows(r, log', took, again)
    <3>1. ASSUME NEW m \in Ahead(r)
          PROVE  /\ ~Done(took, again, m)
                 /\ m \in Files => \/ m \in again \/ m \in r.pending \cap Retired
                                   \/ m \notin Retired /\ ~Closed(log'[r.coll][m])
      <4>1. m \in Ahead(q)
        BY <2>1, <2>5 DEF Ahead
      <4>2. /\ ~Done(took, again, m)
            /\ m \in Files => \/ m \in again \/ m \in q.pending \cap Retired
                              \/ m \notin Retired /\ ~Closed(log[q.coll][m])
        BY <1>0, <4>1 DEF RunKnows
      <4>3. CASE m # n0
        BY <1>0, <1>00, <2>1, <2>7, <4>2, <4>3
      <4>4. CASE m = n0
        BY <2>1, <2>4, <2>8, <4>2, <4>4
      <4> QED BY <4>3, <4>4
    <3>2. r.failed \cap Retired = {} /\ AtFileOf(r) \cap (r.pending \cup r.failed) = {}
      BY <1>0, <2>1, <2>5, <2>6 DEF RunKnows
    <3> QED BY <1>00, <2>1, <2>6, <3>1, <3>2 DEF RunKnows
  <2>10. RunCovers(r, log')
    <3>1. /\ \A m \in Files \ Manual : Closed(log[q.coll][m]) \/ m \in q.pending \cup q.failed \cup {n0}
          /\ \A m \in Simulated : ~ReportedFailed(m, log[q.coll][m]) \/ m \in q.failed \cup {n0}
      BY <1>0, <2>1, <2>5 DEF RunCovers, AtFileSteps
    <3> QED BY <1>0, <1>00, <2>1, <2>5, <2>7, <3>1 DEF RunCovers
  <2>11. \A m \in Names : ~Vouches(q, m)
    BY <1>0, <2>1 DEF Vouches, Cleared
  <2>12. OnceBy(log', active', took', again', r)
    BY <1>0, <2>1, <2>6, <2>7, <2>11 DEF OnceBy
  <2>13. Stays(log, log', again')
    BY <1>0, <1>00, <2>1, <2>3, <2>8 DEF Stays, Apart
  <2>14. Isolates(active, log, log')
    BY <1>00, <2>3 DEF Isolates, Apart
  <2>15. Knows(r, log', active', took', again')
    BY <2>1, <2>9, <2>10, RunKnown
  <2> QED BY <1>1, <2>1, <2>12, <2>13, <2>14, <2>15 DEF After
<1>7. CASE UpReturns(h)
  <2>1. PICK outcome \in {"applied", "skipped"} :
          /\ took' = IF outcome = "applied" THEN [took EXCEPT ![call[h].file] = @ + 1] ELSE took
          /\ Goto(h, [call[h] EXCEPT !.outcome = outcome, !.step = "record"])
    BY <1>7 DEF UpReturns
  <2> DEFINE r == [call[h] EXCEPT !.outcome = outcome, !.step = "record"]
  <2>2. /\ Goto(h, r) /\ r.kind = "run" /\ r.coll = active /\ r.file = n0 /\ r.step = "record"
        /\ r.pending = q.pending /\ r.failed = q.failed /\ r.outcome = outcome
        /\ q.step = "up" /\ q.file = n0 /\ n0 \in Files
        /\ UNCHANGED <<log, active, again>>
    BY <1>0, <1>7, <2>1 DEF UpReturns, Call
  <2>3. /\ \A m \in Names \ {n0} : took'[m] = took[m]
        /\ took'[n0] = IF outcome = "applied" THEN took[n0] + 1 ELSE took[n0]
        /\ took[n0] \in Nat
    BY <1>0, <1>00, <2>1, <2>2
  <2> HIDE DEF r, q, n0
  <2>4. Ahead(q) = q.pending \cup q.failed \cup {n0} /\ AtFileOf(q) = {n0} /\ AtFileOf(r) = {n0}
        /\ Ahead(r) = q.pending \cup q.failed
    BY <2>2 DEF Ahead, AtFileOf, AtFileSteps
  <2>5. n0 \notin q.pending \cup q.failed /\ ~Done(took, again, n0)
    BY <1>0, <2>4 DEF RunKnows
  <2>6. \A m \in Names \ {n0} : Done(took', again', m) = Done(took, again, m)
    BY <2>2, <2>3 DEF Done
  <2>7. Done(took', again', n0) => took'[n0] = 1 /\ outcome = "applied"
    BY <2>2, <2>3, <2>5 DEF Done
  <2>8. RunKnows(r, log', took', again')
    <3>1. ASSUME NEW m \in Ahead(r)
          PROVE  /\ ~Done(took', again', m)
                 /\ m \in Files => \/ m \in again' \/ m \in r.pending \cap Retired
                                   \/ m \notin Retired /\ ~Closed(log'[r.coll][m])
      <4>1. m \in Ahead(q) /\ m # n0 /\ m \in Names
        BY <1>0, <2>4, <2>5
      <4>2. /\ ~Done(took, again, m)
            /\ m \in Files => \/ m \in again \/ m \in q.pending \cap Retired
                              \/ m \notin Retired /\ ~Closed(log[q.coll][m])
        BY <1>0, <4>1 DEF RunKnows
      <4> QED BY <1>0, <2>2, <2>6, <4>1, <4>2
    <3>2. r.failed \cap Retired = {} /\ AtFileOf(r) \cap (r.pending \cup r.failed) = {}
      BY <1>0, <2>2, <2>4, <2>5 DEF RunKnows
    <3> QED BY <2>2, <2>7, <3>1, <3>2 DEF RunKnows
  <2>9. RunCovers(r, log')
    BY <1>0, <2>2, <2>4 DEF RunCovers, AtFileSteps
  <2>10. \A m \in Names : ~Vouches(q, m)
    BY <1>0, <2>2 DEF Vouches, Cleared
  <2>11. OnceBy(log', active', took', again', r)
    <3>1. Vouches(r, n0) \/ outcome # "applied"
      BY <2>2 DEF Vouches
    <3> QED BY <1>0, <2>2, <2>3, <2>6, <2>7, <2>10, <3>1 DEF OnceBy
  <2>12. Stays(log, log', again') /\ Isolates(active, log, log')
    BY <2>2 DEF Stays, Isolates
  <2>13. Knows(r, log', active', took', again')
    BY <2>2, <2>8, <2>9, RunKnown
  <2> QED BY <1>1, <2>2, <2>11, <2>12, <2>13 DEF After
<1>8. CASE UpThrows(h)
  <2>1. PICK outcome \in (IF call[h].file \in Files THEN {"skipped", "failed"} ELSE {"failed"}) :
          Goto(h, Caught(h, outcome))
    BY <1>8 DEF UpThrows
  <2> DEFINE r == Caught(h, outcome)
  <2>2. /\ Goto(h, r) /\ r.kind = "run" /\ r.coll = active /\ r.file = n0 /\ r.step = "recordError"
        /\ r.pending = q.pending /\ r.failed = q.failed /\ r.outcome = outcome
        /\ q.step = "up" /\ q.file = n0 /\ (n0 \in Files \/ outcome = "failed")
        /\ UNCHANGED <<log, active, took, again>>
    BY <1>0, <1>8, <2>1 DEF UpThrows, Caught, Call
  <2> HIDE DEF r, q, n0
  <2>3. AtFileOf(q) = {n0} /\ AtFileOf(r) = {n0} /\ Ahead(r) = Ahead(q)
    BY <2>2 DEF Ahead, AtFileOf, AtFileSteps
  <2>4. RunKnows(r, log, took, again)
    BY <1>0, <1>00, <2>2, <2>3 DEF RunKnows
  <2>5. RunCovers(r, log)
    BY <1>0, <2>2, <2>3 DEF RunCovers, AtFileSteps
  <2>6. \A m \in Names : ~Vouches(q, m)
    BY <1>0, <2>2 DEF Vouches, Cleared
  <2> QED BY <1>0, <1>1, <2>2, <2>4, <2>5, <2>6, RunKnown, QuietAfter DEF q
<1>9. CASE Record(h) \/ (RecordError(h) /\ call[h].outcome = "skipped")
  <2> DEFINE r == [call[h] EXCEPT !.step = "next", !.file = NoFile]
  <2>1. /\ Goto(h, r) /\ r.kind = "run" /\ r.coll = active /\ r.step = "next"
        /\ r.pending = q.pending /\ r.failed = q.failed
        /\ q.step \in {"record", "recordError"} /\ q.file = n0
        /\ q.step = "recordError" => q.outcome = "skipped"
        /\ AppendEntry(active, n0, q.outcome)
        /\ UNCHANGED <<active, took, again>>
    BY <1>0, <1>9 DEF Record, RecordError, Call
  <2>2. n0 \in Names
    BY <1>0, <2>1 DEF CallOK, AtFileSteps
  <2>3. Apart(log, log', active, n0) /\ LastOf(log'[active][n0]) = q.outcome
    BY <1>0, <2>1, <2>2, AppendEffect
  <2> HIDE DEF r, q, n0
  <2>4. n0 \in Files /\ q.outcome # "failed"
    BY <1>0, <1>00, <2>1, <2>2 DEF RunKnows
  <2>5. Closed(log'[active][n0])
    BY <1>0, <2>3, <2>4 DEF Closed, Outcome
  <2>6. \A m \in Names \ {n0} : log'[active][m] = log[active][m]
    BY <1>0, <2>3 DEF Apart
  <2>7. /\ AtFileOf(q) = {n0} /\ AtFileOf(r) = {} /\ Ahead(r) = q.pending \cup q.failed
        /\ Ahead(r) \subseteq Ahead(q)
    BY <2>1 DEF Ahead, AtFileOf, AtFileSteps
  <2>8. n0 \notin q.pending \cup q.failed
    BY <1>0, <2>7 DEF RunKnows
  <2>9. RunKnows(r, log', took, again)
    <3>1. ASSUME NEW m \in Ahead(r)
          PROVE  /\ ~Done(took, again, m)
                 /\ m \in Files => \/ m \in again \/ m \in r.pending \cap Retired
                                   \/ m \notin Retired /\ ~Closed(log'[r.coll][m])
      <4>1. m \in Ahead(q) /\ m # n0 /\ m \in Names
        BY <1>0, <2>7, <2>8
      <4>2. /\ ~Done(took, again, m)
            /\ m \in Files => \/ m \in again \/ m \in q.pending \cap Retired
                              \/ m \notin Retired /\ ~Closed(log[q.coll][m])
        BY <1>0, <4>1 DEF RunKnows
      <4> QED BY <1>0, <2>1, <2>6, <4>1, <4>2
    <3>2. r.failed \cap Retired = {}
      BY <1>0, <2>1 DEF RunKnows
    <3> QED BY <2>1, <2>7, <3>1, <3>2 DEF RunKnows
  <2>10. RunCovers(r, log')
    <3>1. /\ \A m \in Files \ Manual : Closed(log[q.coll][m]) \/ m \in q.pending \cup q.failed \cup {n0}
          /\ \A m \in Simulated : ~ReportedFailed(m, log[q.coll][m]) \/ m \in q.failed \cup {n0}
      BY <1>0, <2>1, <2>7 DEF RunCovers, AtFileSteps
    <3> QED BY <1>0, <1>00, <2>1, <2>4, <2>5, <2>6, <2>7, <3>1 DEF RunCovers
  <2>11. \A m \in Names \ {n0} : ~Vouches(q, m)
    BY <1>0, <2>1 DEF Vouches, Cleared
  <2>12. OnceBy(log', active', took', again', r)
    BY <1>0, <2>1, <2>5, <2>6, <2>11 DEF OnceBy
  <2>13. Stays(log, log', again') /\ Isolates(active, log, log')
    BY <1>0, <1>00, <2>3, <2>5 DEF Stays, Isolates, Apart
  <2>14. Knows(r, log', active', took', again')
    BY <2>1, <2>9, <2>10, RunKnown
  <2> QED BY <1>1, <2>1, <2>12, <2>13, <2>14 DEF After
<1>10. CASE RecordError(h) /\ call[h].outcome # "skipped"
  <2>1. /\ Goto(h, Idle) /\ q.step = "recordError" /\ q.file = n0
        /\ AppendEntry(active, n0, q.outcome)
        /\ UNCHANGED <<active, took, again>>
    BY <1>0, <1>10 DEF RecordError
  <2>2. n0 \in Names
    BY <1>0, <2>1 DEF CallOK, AtFileSteps
  <2>3. Apart(log, log', active, n0)
    BY <1>0, <2>1, <2>2, AppendEffect
  <2> HIDE DEF q, n0
  <2>4. n0 \in Ahead(q) /\ n0 \notin q.pending
    BY <1>0, <2>1 DEF Ahead, AtFileOf, AtFileSteps, RunKnows
  <2>5. ~Done(took, again, n0) /\ (n0 \in Files => n0 \in again \/ ~Closed(log[active][n0]))
    BY <1>0, <2>4 DEF RunKnows
  <2>6. \A m \in Names : ~Vouches(q, m)
    BY <1>0, <2>1 DEF Vouches, Cleared
  <2>7. OnceBy(log', active', took', again', Idle)
    BY <1>0, <2>1, <2>3, <2>5, <2>6 DEF OnceBy, Apart
  <2>8. Stays(log, log', again') /\ Isolates(active, log, log')
    BY <1>0, <1>00, <2>1, <2>3, <2>5 DEF Stays, Isolates, Apart
  <2> QED BY <1>1, <1>2, <2>1, <2>7, <2>8 DEF After
<1>11. CASE StoreRejects(h)
  <2> DEFINE r == Caught(h, IF call[h].kind = "single" /\ call[h].file \in Retired
                            THEN "skipped" ELSE "failed")
  <2>1. /\ Goto(h, r) /\ r.kind = "run" /\ r.coll = active /\ r.file = n0 /\ r.step = "recordError"
        /\ r.pending = q.pending /\ r.failed = q.failed /\ r.outcome = "failed"
        /\ q.step \in {"delete", "record"} /\ q.file = n0
        /\ again' = again \cup (IF q.step = "record" THEN {n0} ELSE {})
        /\ UNCHANGED <<log, active, took>>
    BY <1>0, <1>11 DEF StoreRejects, Caught, Call
  <2> HIDE DEF r, q, n0
  <2>2. AtFileOf(q) = {n0} /\ AtFileOf(r) = {n0} /\ Ahead(r) = q.pending \cup q.failed \cup {n0}
    BY <2>1 DEF Ahead, AtFileOf, AtFileSteps
  <2>3. Ahead(r) \subseteq Ahead(q) \/ (q.step = "record" /\ n0 \in again' /\ Ahead(r) \subseteq Ahead(q) \cup {n0})
    BY <2>1, <2>2 DEF Ahead
  <2>4. \A m \in Names \cup {n0} : Done(took', again', m) => Done(took, again, m)
    BY <2>1 DEF Done
  <2>5. RunKnows(r, log', took', again')
    <3>1. ASSUME NEW m \in Ahead(r)
          PROVE  /\ ~Done(took', again', m)
                 /\ m \in Files => \/ m \in again' \/ m \in r.pending \cap Retired
                                   \/ m \notin Retired /\ ~Closed(log'[r.coll][m])
      <4>1. CASE m \in again'
        BY <4>1 DEF Done
      <4>2. CASE m \notin again'
        <5>1. m \in Ahead(q)
          BY <2>3, <3>1, <4>2
        <5>2. /\ ~Done(took, again, m)
              /\ m \in Files => \/ m \in again \/ m \in q.pending \cap Retired
                                \/ m \notin Retired /\ ~Closed(log[q.coll][m])
          BY <1>0, <5>1 DEF RunKnows
        <5> QED BY <1>0, <2>1, <4>2, <5>2 DEF Done
      <4> QED BY <4>1, <4>2
    <3>2. r.failed \cap Retired = {} /\ AtFileOf(r) \cap (r.pending \cup r.failed) = {}
      BY <1>0, <2>1, <2>2 DEF RunKnows
    <3> QED BY <2>1, <3>1, <3>2 DEF RunKnows
  <2>6. RunCovers(r, log')
    BY <1>0, <2>1, <2>2 DEF RunCovers, AtFileSteps
  <2>7. \A m \in Names : Vouches(q, m) => m = n0 /\ q.step = "record"
    BY <1>0, <2>1 DEF Vouches, Cleared
  <2>8. OnceBy(log', active', took', again', r)
    <3>1. \A m \in Names : Done(took', again', m) => Done(took, again, m) /\ ~Vouches(q, m)
      BY <2>1, <2>4, <2>7 DEF Done
    <3> QED BY <1>0, <2>1, <3>1 DEF OnceBy
  <2>9. Stays(log, log', again') /\ Isolates(active, log, log')
    BY <2>1 DEF Stays, Isolates
  <2>10. Knows(r, log', active', took', again')
    BY <2>1, <2>5, <2>6, RunKnown
  <2> QED BY <1>1, <2>1, <2>8, <2>9, <2>10 DEF After
<1> QED BY <1>3, <1>4, <1>5, <1>6, <1>7, <1>8, <1>9, <1>10, <1>11

-----------------------------------------------------------------------------
(***************************************************************************)
(* Ignoring failures, starting and clearing a simulation.                  *)
(***************************************************************************)
LEMMA AdminCalm ==
  ASSUME HInv, ~overlapped, NEW h \in Calls, Changing(h),
         \/ IgnoreFailed(h) \/ EmptySimulation(h) \/ CopyChangelog(h) \/ InsertFailures(h)
         \/ SetActiveCollection(h) \/ DropSimulation(h) \/ PurgeChangelog(h)
  PROVE  Kept
<1> DEFINE q == call[h]
<1>0. /\ Before(h) /\ q \in Call /\ call \in [Calls -> Call] /\ CallOK(q) /\ KindOK(q)
      /\ LogType(log) /\ active \in Collections /\ again \subseteq Names
      /\ Knows(q, log, active, took, again)
      /\ OnceBy(log, active, took, again, q)
  <2>1. Before(h)
    BY CalmBefore DEF Changing
  <2> QED BY <2>1 DEF Before, CallOK, HInv, IInv
<1>00. /\ Files \subseteq Names /\ Simulated \subseteq Names /\ Files \cap Simulated = {}
       /\ Collections = {"changelog", "simulation"}
  BY MigrationRunnerAssumption DEF Names, Collections
<1>1. ASSUME NEW r, Goto(h, r), After(r) PROVE Kept
  BY <1>0, <1>1, CalmAfter DEF Before, After, Kept
<1>2. Idle.kind = "none" /\ Knows(Idle, log', active', took', again')
  BY IdleKind, OthersKnow
<1>3. CASE IgnoreFailed(h)
  <2>1. /\ Goto(h, Idle) /\ q.kind = "ignore" /\ q.coll = active /\ SkipFailed(active, Names)
        /\ UNCHANGED <<active, took, again>>
    BY <1>0, <1>3 DEF IgnoreFailed, KindOK, Knows
  <2>2. \A d \in Collections, n \in Names : d # active => log'[d][n] = log[d][n]
    BY <1>0, <2>1, SkipEffect
  <2>3. \A n \in Names : LastOf(log'[active][n]) = IF LastOf(log[active][n]) = "failed"
                                                   THEN "skipped" ELSE LastOf(log[active][n])
    BY <1>0, <2>1, SkipEffect
  <2>4. \A n \in Names : ~Vouches(q, n)
    BY <2>1 DEF Vouches, Cleared
  <2> HIDE DEF q
  <2>5. OnceBy(log', active', took', again', Idle)
    BY <1>0, <2>1, <2>3, <2>4 DEF OnceBy, Closed
  <2>6. Stays(log, log', again')
    BY <1>0, <1>00, <2>2, <2>3 DEF Stays, Closed
  <2>7. Isolates(active, log, log')
    BY <1>00, <2>2 DEF Isolates
  <2> QED BY <1>1, <1>2, <2>1, <2>5, <2>6, <2>7 DEF After
<1>4. CASE EmptySimulation(h) \/ CopyChangelog(h) \/ InsertFailures(h)
  <2>1. /\ q.kind = "simulate" /\ active = "changelog"
        /\ UNCHANGED <<active, took, again>>
    BY <1>0, <1>4 DEF EmptySimulation, CopyChangelog, InsertFailures, KindOK, Knows
  <2>2. log'["changelog"] = log["changelog"]
    BY <1>0, <1>00, <1>4 DEF EmptySimulation, CopyChangelog, InsertFailures, LogType
  <2>3. \A n \in Names : Done(took, again, n) => Closed(log["changelog"][n]) /\ n \in Files
    BY <1>0, <2>1 DEF OnceBy, Vouches, Cleared
  <2>4. Stays(log, log', again') /\ Isolates(active, log, log')
    BY <2>2 DEF Stays, Isolates
  <2>5. ASSUME NEW r, r.kind = "simulate", Goto(h, r),
               r.step \in {"failures", "activate"} =>
                 \A n \in Names : Done(took, again, n) => Closed(log'["simulation"][n])
        PROVE  Kept
    <3>1. Knows(r, log', active', took', again')
      BY <2>1, <2>5 DEF Knows, Cleared
    <3>2. OnceBy(log', active', took', again', r)
      BY <1>0, <2>1, <2>2, <2>3 DEF OnceBy
    <3> QED BY <1>1, <2>4, <2>5, <3>1, <3>2 DEF After
  <2>6. CASE EmptySimulation(h)
    <3> DEFINE r == [call[h] EXCEPT !.step = "copy"]
    <3>1. Goto(h, r) /\ r.kind = "simulate" /\ r.step = "copy"
      BY <1>0, <2>1, <2>6 DEF EmptySimulation, Call
    <3> HIDE DEF r
    <3> QED BY <2>5, <3>1
  <2>7. CASE CopyChangelog(h)
    <3>1. PICK step \in {"failures", "activate"} : Goto(h, [call[h] EXCEPT !.step = step])
      BY <2>7 DEF CopyChangelog
    <3> DEFINE r == [call[h] EXCEPT !.step = step]
    <3>2. Goto(h, r) /\ r.kind = "simulate"
      BY <1>0, <2>1, <3>1 DEF Call
    <3>3. \A n \in Names : log'["simulation"][n] = log["simulation"][n] \o log["changelog"][n]
      BY <1>0, <1>00, <2>7 DEF CopyChangelog, LogType
    <3>4. \A n \in Names : log["simulation"][n] \in Seq(Outcome) /\ log["changelog"][n] \in Seq(Outcome)
      BY <1>0, <1>00 DEF LogType
    <3>5. \A n \in Names : Done(took, again, n) => Closed(log'["simulation"][n])
      BY <2>3, <3>3, <3>4, LastOfConcat
    <3> HIDE DEF r
    <3> QED BY <2>5, <3>2, <3>5
  <2>8. CASE InsertFailures(h)
    <3> DEFINE r == [call[h] EXCEPT !.step = "activate"]
    <3>1. Goto(h, r) /\ r.kind = "simulate" /\ q.step = "failures"
      BY <1>0, <2>1, <2>8 DEF InsertFailures, Call
    <3>2. \A n \in Names \ Simulated : log'["simulation"][n] = log["simulation"][n]
      BY <1>0, <1>00, <2>8 DEF InsertFailures, LogType
    <3>3. \A n \in Names : Done(took, again, n) => Closed(log["simulation"][n])
      BY <1>0, <2>1, <3>1 DEF Knows
    <3>4. \A n \in Names : Done(took, again, n) => Closed(log'["simulation"][n])
      BY <1>00, <2>3, <3>2, <3>3
    <3> HIDE DEF r
    <3> QED BY <2>5, <3>1, <3>4
  <2> QED BY <1>4, <2>6, <2>7, <2>8
<1>5. CASE SetActiveCollection(h)
  <2>1. /\ Goto(h, Idle) /\ q.step = "activate" /\ q.kind \in {"simulate", "clear"}
        /\ active' = IF q.kind = "simulate" THEN "simulation" ELSE "changelog"
        /\ UNCHANGED <<log, took, again>>
    BY <1>0, <1>5 DEF SetActiveCollection, KindOK
  <2> HIDE DEF q
  <2>2. \A n \in Names : Done(took, again, n) => Closed(log[active'][n])
    BY <1>0, <2>1 DEF Knows, Cleared
  <2>3. OnceBy(log', active', took', again', Idle)
    BY <1>0, <2>1, <2>2 DEF OnceBy
  <2>4. Stays(log, log', again') /\ Isolates(active, log, log')
    BY <2>1 DEF Stays, Isolates
  <2> QED BY <1>1, <1>2, <2>1, <2>3, <2>4 DEF After
<1>6. CASE DropSimulation(h)
  <2> DEFINE r == [call[h] EXCEPT !.step = "purge"]
  <2>1. /\ Goto(h, r) /\ r.kind = "clear" /\ r.step = "purge"
        /\ UNCHANGED <<active, took>>
        /\ again' = again \cup {n \in Names : ~Closed(log["changelog"][n])}
        /\ log'["changelog"] = log["changelog"]
    BY <1>0, <1>00, <1>6 DEF DropSimulation, Call, KindOK, LogType, Settled, Closed, Status, LastOf
  <2> HIDE DEF r, q
  <2>2. \A n \in Names : Done(took', again', n) => Done(took, again, n) /\ Closed(log'["changelog"][n])
    BY <2>1 DEF Done
  <2>3. Knows(r, log', active', took', again')
    BY <2>1, <2>2 DEF Knows
  <2>4. OnceBy(log', active', took', again', r)
    BY <1>0, <2>1, <2>2 DEF OnceBy, Vouches, Cleared
  <2>5. Stays(log, log', again') /\ Isolates(active, log, log')
    BY <2>1 DEF Stays, Isolates
  <2> QED BY <1>1, <2>1, <2>3, <2>4, <2>5 DEF After
<1>7. CASE PurgeChangelog(h)
  <2> DEFINE r == [call[h] EXCEPT !.step = "activate"]
  <2>1. /\ Goto(h, r) /\ r.kind = "clear" /\ r.step = "activate" /\ Cleared(q)
        /\ UNCHANGED <<active, took, again>>
        /\ \A n \in Names \ Simulated : log'["changelog"][n] = log["changelog"][n]
    BY <1>0, <1>00, <1>7 DEF PurgeChangelog, Call, KindOK, LogType, Cleared
  <2> HIDE DEF r, q
  <2>2. \A n \in Names : Done(took, again, n) => Closed(log["changelog"][n]) /\ n \in Files
    BY <1>0, <2>1 DEF Knows, OnceBy
  <2>3. Knows(r, log', active', took', again')
    BY <1>00, <2>1, <2>2 DEF Knows
  <2>4. OnceBy(log', active', took', again', r)
    BY <1>0, <2>1 DEF OnceBy, Vouches, Cleared
  <2>5. Stays(log, log', again') /\ Isolates(active, log, log')
    BY <1>00, <2>1 DEF Stays, Isolates
  <2> QED BY <1>1, <2>1, <2>3, <2>4, <2>5 DEF After
<1> QED BY <1>3, <1>4, <1>5, <1>6, <1>7

\* A changing call begins: as nothing overlaps, it is the only one.
LEMMA BeginCalm ==
  ASSUME HInv, ~overlapped', NEW h \in Calls,
         \/ RunBegins(h) \/ (\E n \in Names : SingleBegins(h, n)) \/ IgnoreBegins(h)
         \/ SimulationBegins(h) \/ ClearBegins(h)
  PROVE  Kept
<1>0. /\ ~overlapped /\ \A k \in Calls : ~Changing(k)
      /\ call[h] = Idle /\ UNCHANGED <<log, active, took>> /\ again \subseteq again'
  BY DEF RunBegins, SingleBegins, IgnoreBegins, SimulationBegins, ClearBegins, BeginChange
<1>00. /\ Before(h) /\ call \in [Calls -> Call] /\ active \in Collections
       /\ OnceBy(log, active, took, again, Idle) /\ \A n \in Names : ~Vouches(Idle, n)
  BY <1>0, CalmBefore, IdleKind, OthersKnow DEF HInv, IInv, Before
<1>1. ASSUME NEW r, Goto(h, r), Knows(r, log, active, took, again') PROVE Kept
  <2>1. OnceBy(log', active', took', again', r)
    BY <1>0, <1>00 DEF OnceBy, Done
  <2>2. Stays(log, log', again') /\ Isolates(active, log, log')
    BY <1>0 DEF Stays, Isolates
  <2>3. After(r)
    BY <1>0, <1>1, <2>1, <2>2 DEF After
  <2> QED BY <1>0, <1>00, <1>1, <2>2, <2>3, CalmAfter DEF Kept
<1>2. CASE RunBegins(h)
  <2> DEFINE r == [Idle EXCEPT !.kind = "run", !.step = "retire", !.coll = active]
  <2>1. /\ Goto(h, r) /\ r.kind = "run" /\ r.step = "retire" /\ r.coll = active
        /\ r.pending = {} /\ r.failed = {}
    BY <1>2 DEF RunBegins, BeginChange, Idle
  <2> HIDE DEF r
  <2>2. AtFileOf(r) = {} /\ Ahead(r) = {}
    BY <2>1 DEF AtFileOf, Ahead, AtFileSteps
  <2>3. RunKnows(r, log, took, again') /\ RunCovers(r, log)
    BY <2>1, <2>2 DEF RunKnows, RunCovers, AtFileSteps
  <2> QED BY <1>1, <2>1, <2>3, RunKnown
<1>3. ASSUME NEW n \in Names, SingleBegins(h, n) PROVE Kept
  <2> DEFINE r == [Idle EXCEPT !.kind = "single", !.step = "delete", !.coll = active, !.file = n]
  <2>1. Goto(h, r) /\ r.kind = "single" /\ r.coll = active /\ r.file = n /\ n \in again'
    BY <1>3 DEF SingleBegins, BeginChange, Idle
  <2> HIDE DEF r
  <2> QED BY <1>1, <2>1 DEF Knows, Cleared
<1>4. CASE IgnoreBegins(h)
  <2> DEFINE r == [Idle EXCEPT !.kind = "ignore", !.step = "ignore", !.coll = active]
  <2>1. Goto(h, r) /\ r.kind = "ignore" /\ r.coll = active
    BY <1>4 DEF IgnoreBegins, BeginChange, Idle
  <2> HIDE DEF r
  <2> QED BY <1>1, <2>1 DEF Knows, Cleared
<1>5. CASE SimulationBegins(h)
  <2> DEFINE r == [Idle EXCEPT !.kind = "simulate", !.step = "empty"]
  <2>1. Goto(h, r) /\ r.kind = "simulate" /\ r.step = "empty" /\ active = "changelog"
    BY <1>00, <1>5 DEF SimulationBegins, BeginChange, Idle, Collections
  <2> HIDE DEF r
  <2> QED BY <1>1, <2>1 DEF Knows, Cleared
<1>6. CASE ClearBegins(h)
  <2> DEFINE r == [Idle EXCEPT !.kind = "clear", !.step = "drop"]
  <2>1. Goto(h, r) /\ r.kind = "clear" /\ r.step = "drop"
    BY <1>6 DEF ClearBegins, BeginChange, Idle
  <2> HIDE DEF r
  <2> QED BY <1>1, <2>1 DEF Knows, Cleared
<1> QED BY <1>2, <1>3, <1>4, <1>5, <1>6

\* A call stops: what it alone answered for may have to be made to take effect again.
LEMMA StopCalm ==
  ASSUME HInv, ~overlapped, NEW h \in Calls, Stop(h)
  PROVE  Kept
<1>0. /\ Goto(h, Idle) /\ UNCHANGED <<log, active, took>>
      /\ call[h] \in Call /\ CallOK(call[h]) /\ call \in [Calls -> Call]
  BY DEF Stop, HInv, IInv, CallOK
<1>1. Idle.kind = "none" /\ Knows(Idle, log', active', took', again')
  BY IdleKind, OthersKnow
<1>2. CASE Changing(h)
  <2>1. Before(h) /\ again \subseteq again'
    BY <1>2, CalmBefore DEF Stop
  <2>2. \A n \in Names : Vouches(call[h], n) => n \in again'
    BY DEF Stop, Vouches, Cleared
  <2>3. OnceBy(log', active', took', again', Idle)
    BY <1>0, <2>1, <2>2 DEF OnceBy, Before, Done
  <2>4. Stays(log, log', again') /\ Isolates(active, log, log')
    BY <1>0 DEF Stays, Isolates
  <2> QED BY <1>0, <1>1, <2>1, <2>3, <2>4, CalmAfter DEF After, Before, Kept
<1>3. CASE ~Changing(h)
  <2>1. call[h].kind \in {"none", "status"}
    BY <1>3 DEF Changing
  <2>2. UNCHANGED again
    BY <1>0, <2>1 DEF Stop, CallOK, AtFileSteps
  <2>3. RetiredOnly(log, log') /\ \A n \in Names : ~Vouches(call[h], n)
    BY <1>0, <2>1, OthersKnow DEF RetiredOnly
  <2> QED BY <1>0, <1>1, <2>1, <2>2, <2>3, StatusStep DEF Kept
<1> QED BY <1>2, <1>3

-----------------------------------------------------------------------------
LEMMA StepKeeps ==
  ASSUME HInv, ~overlapped', Next
  PROVE  Kept
<1>1. PICK h \in Calls : StatusSteps(h) \/ RunSteps(h) \/ AdminSteps(h) \/ Stop(h)
  BY DEF Next
<1>2. CallOK(call[h]) /\ KindOK(call[h])
  BY DEF HInv, IInv
<1>3. CASE \/ RunBegins(h) \/ (\E n \in Names : SingleBegins(h, n)) \/ IgnoreBegins(h)
           \/ SimulationBegins(h) \/ ClearBegins(h)
  BY <1>3, BeginCalm
<1>4. CASE StatusBegins(h) \/ RetireFailed(h) \/ FindMissingRetired(h)
           \/ InsertMissingRetired(h) \/ FindStatus(h)
  <2>1. ~overlapped
    BY <1>4 DEF StatusBegins, RetireFailed, FindMissingRetired, InsertMissingRetired, FindStatus
  <2> QED BY <1>4, <2>1, StatusCalm
<1>5. CASE Stop(h)
  <2>1. ~overlapped
    BY <1>5 DEF Stop
  <2> QED BY <1>5, <2>1, StopCalm
<1>6. CASE ResolveCollection(h) \/ NextFile(h) \/ RunEnds(h) \/ DeleteEntry(h) \/ UpReturns(h)
           \/ UpThrows(h) \/ UpMissing(h) \/ Record(h) \/ RecordError(h) \/ StoreRejects(h)
  <2>1. ~overlapped
    BY <1>6 DEF ResolveCollection, NextFile, RunEnds, DeleteEntry, UpReturns, UpThrows,
                UpMissing, Record, RecordError, StoreRejects
  <2>2. call[h].step \in AtFileSteps \cup {"resolve", "next"}
    BY <1>6 DEF ResolveCollection, NextFile, RunEnds, DeleteEntry, UpReturns, UpThrows,
                UpMissing, Record, RecordError, StoreRejects, AtFileSteps
  <2>3. /\ call[h].kind \in {"run", "single"}
        /\ NextFile(h) \/ RunEnds(h) => call[h].kind = "run"
        /\ UpMissing(h) => call[h].kind = "single"
    BY <1>2, <2>2 DEF CallOK, NextFile, RunEnds, UpMissing
  <2>4. CASE call[h].kind = "run"
    BY <1>6, <2>1, <2>3, <2>4, RunCalm
  <2>5. CASE call[h].kind = "single"
    BY <1>6, <2>1, <2>3, <2>5, SingleCalm
  <2> QED BY <2>3, <2>4, <2>5
<1>7. CASE IgnoreFailed(h) \/ EmptySimulation(h) \/ CopyChangelog(h) \/ InsertFailures(h)
           \/ SetActiveCollection(h) \/ DropSimulation(h) \/ PurgeChangelog(h)
  <2>1. ~overlapped
    BY <1>7 DEF IgnoreFailed, EmptySimulation, CopyChangelog, InsertFailures,
                SetActiveCollection, DropSimulation, PurgeChangelog
  <2>2. Changing(h)
    BY <1>2, <1>7 DEF IgnoreFailed, EmptySimulation, CopyChangelog, InsertFailures,
                SetActiveCollection, DropSimulation, PurgeChangelog, KindOK, Changing
  <2> QED BY <1>7, <2>1, <2>2, AdminCalm
<1> QED BY <1>1, <1>3, <1>4, <1>5, <1>6, <1>7 DEF StatusSteps, RunSteps, AdminSteps

LEMMA HInvInit == Init => HInv
<1> SUFFICES ASSUME Init PROVE HInv
  OBVIOUS
<1>1. \A h \in Calls : call[h] = Idle
  BY DEF Init
<1>2. \A h \in Calls : KindOK(call[h]) /\ Knows(call[h], log, active, took, again) /\ ~Changing(h)
  BY <1>1, IdleKind, OthersKnow DEF Changing
<1>3. Once
  BY DEF Init, Once, Done
<1> QED BY <1>2, <1>3, InvInit DEF HInv, Calm, Alone

LEMMA HInvNext == HInv /\ [Next]_vars => HInv'
<1> SUFFICES ASSUME HInv, [Next]_vars PROVE HInv'
  OBVIOUS
<1>1. IInv' /\ \A h \in Calls : KindOK(call'[h])
  BY InvNext, KindKept DEF HInv
<1>2. ~overlapped' => Calm'
  <2>1. CASE UNCHANGED vars
    BY <2>1 DEF vars, HInv, Calm, Alone, Changing, Once, Vouched
  <2>2. CASE Next
    BY <2>2, StepKeeps DEF Kept
  <2> QED BY <2>1, <2>2
<1> QED BY <1>1, <1>2 DEF HInv

LEMMA HInvAlways == Spec => []HInv
<1>1. Init => HInv
  BY HInvInit
<1>2. HInv /\ [Next]_vars => HInv'
  BY HInvNext
<1> QED BY <1>1, <1>2, PTL DEF Spec

-----------------------------------------------------------------------------
\* For any migrations and calls, retries, rejected inserts, crashes and simulations: until
\* changing calls overlap, no migration takes effect twice that no admin ran again, no call
\* was cut short on and no cleared simulation has forgotten (runPendingMigrations).
THEOREM TakeEffectOnce == Spec => []TakesEffectOnce
<1>1. HInv => TakesEffectOnce
  BY DEF HInv, IInv, OthersOK, Calm, Once, Done, TakesEffectOnce
<1> QED BY <1>1, HInvAlways, PTL

\* A run that is about to answer success has settled every automatic migration, and
\* nothing would be reported as failed, unless changing calls overlap.
THEOREM SuccessIsSettled == Spec => []SuccessMeansSettled
<1>1. HInv => SuccessMeansSettled
  <2> SUFFICES ASSUME HInv, ~overlapped, NEW h \in Calls,
                      call[h].kind = "run", call[h].step = "next",
                      call[h].pending \cup call[h].failed = {}
               PROVE  /\ \A n \in Files \ Manual : Settled(call[h].coll, n)
                      /\ \A n \in Simulated : ~Failed(call[h].coll, n)
    BY DEF SuccessMeansSettled
  <2>1. RunCovers(call[h], log)
    BY DEF HInv, Calm, Knows
  <2>2. AtFileOf(call[h]) = {} /\ Files \cap Simulated = {}
    BY MigrationRunnerAssumption DEF AtFileOf, AtFileSteps
  <2>3. /\ \A n \in Files \ Manual : Closed(log[call[h].coll][n])
        /\ \A n \in Simulated : ~ReportedFailed(n, log[call[h].coll][n])
    BY <2>1, <2>2 DEF RunCovers
  <2> QED BY <2>2, <2>3 DEF Closed, ReportedFailed, Settled, Status, Failed, LastOf
<1> QED BY <1>1, HInvAlways, PTL

\* No step makes a settled migration pending or failed again in the changelog, but one
\* that an admin has run again, or on which a call was cut short, unless calls overlap.
THEOREM SettledForGood == Spec => SettledStays
<1>1. HInv /\ [Next]_vars =>
        [~overlapped' => \A n \in Files \ again' :
           Settled("changelog", n) => Settled("changelog", n)']_vars
  <2> SUFFICES ASSUME HInv, Next, ~overlapped', NEW n \in Files \ again', Settled("changelog", n)
               PROVE  Settled("changelog", n)'
    OBVIOUS
  <2>1. Stays(log, log', again')
    BY StepKeeps DEF Kept
  <2>2. Closed(log["changelog"][n])
    BY DEF Settled, Status, Closed, LastOf
  <2>3. Closed(log'["changelog"][n])
    BY <2>1, <2>2 DEF Stays
  <2> QED BY <2>3 DEF Settled, Status, Closed, LastOf
<1> QED BY <1>1, HInvAlways, PTL DEF Spec, SettledStays

\* While a simulation is active no step touches what the changelog itself says of a
\* migration that is not retired, unless calls overlap.
THEOREM SimulationStaysApart == Spec => SimulationIsolated
<1>1. HInv /\ [Next]_vars =>
        [active = "simulation" /\ active' = "simulation" /\ ~overlapped' =>
           \A n \in Files \ Retired : log'["changelog"][n] = log["changelog"][n]]_vars
  BY StepKeeps DEF Kept, Isolates
<1> QED BY <1>1, HInvAlways, PTL DEF Spec, SimulationIsolated
=============================================================================
