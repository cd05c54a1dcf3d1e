-------------------------- MODULE WalksUploadProofs --------------------------
(***************************************************************************)
(* Proofs about WalksUpload, for any number of jobs, failing calls and     *)
(* stops: the queue and the phases of the jobs say the same, the worker    *)
(* knows the job it runs, a cancelled job stays out, no queue stands still *)
(* and no upload ends in silence.                                          *)
(***************************************************************************)
EXTENDS WalksUpload, WellFoundedInduction, TLAPS

-----------------------------------------------------------------------------
(***************************************************************************)
(* The inductive invariant.                                                *)
(***************************************************************************)

Phases == {"new", "submitting", "queued", "preparing", "running", "finishing",
           "over", "cancelled", "refused", "lost"}
DownloadSet == [job : Jobs \cup {Nothing}, age : 0 .. 2,
                status : {"none", "active", "hung", "finished"}]
CountSet == [lost : 0 .. MaxLost, stops : 0 .. MaxStops]

SiteTypes ==
  /\ open \subseteq Jobs /\ sessions \subseteq Jobs /\ posted \subseteq Jobs
  /\ download \in DownloadSet /\ timers \in Nat
  /\ answered \subseteq Jobs /\ unreported \subseteq Jobs
  /\ counts \in CountSet

\* What waits in the queue is what is queued, each job once.
Queueing ==
  /\ phase \in [Jobs -> Phases] /\ items \in Seq(Jobs)
  /\ \A i, k \in 1 .. Len(items) : items[i] = items[k] => i = k
  /\ \A i \in 1 .. Len(items) : phase[items[i]] = "queued"
  /\ \A j \in Jobs : phase[j] = "queued" => \E i \in 1 .. Len(items) : items[i] = j

\* The active item is the job that is prepared; on the worker it stays so until its result has
\* been posted, and from the spawn on the execution state is that of the job.
Activity ==
  /\ remote \in BOOLEAN
  /\ active \in Jobs \cup {Nothing} /\ execution \in Jobs \cup {Nothing}
  /\ active # Nothing =>
       phase[active] = "preparing" \/ (remote /\ phase[active] \in {"running", "finishing"})
  /\ \A j \in Jobs : phase[j] = "preparing" => active = j
  /\ \A j \in Jobs : remote /\ phase[j] \in {"running", "finishing"} => active = j /\ execution = j

Uploading == SiteTypes /\ Queueing /\ Activity

LEMMA Named == Nothing \notin Jobs /\ Jobs \subseteq Nat /\ MaxLost \in Nat /\ MaxStops \in Nat
  BY UploadAssumption

LEMMA UploadingImplies == Uploading => TypeOK /\ WorkerKnowsItsJob
<1> SUFFICES ASSUME Uploading PROVE TypeOK /\ WorkerKnowsItsJob
  OBVIOUS
<1>1. Phases = {"new"} \cup UnderWay \cup Ended
  BY DEF Phases, UnderWay, Ended
<1>2. DOMAIN items = 1 .. Len(items)
  BY DEF Uploading, Queueing
<1>3. active # Nothing => phase[active] \in {"preparing", "running", "finishing"}
  BY DEF Uploading, Activity
<1>4. TypeOK
  BY <1>1, <1>2, <1>3 DEF Uploading, SiteTypes, Queueing, Activity, TypeOK, DownloadSet, CountSet
<1>5. WorkerKnowsItsJob
  BY DEF Uploading, Activity, WorkerKnowsItsJob
<1> QED BY <1>4, <1>5

-----------------------------------------------------------------------------
(***************************************************************************)
(* The operations of the queue.  Each keeps what is cancelled cancelled.   *)
(***************************************************************************)

StayCancelled == \A j \in Jobs : phase[j] = "cancelled" => phase'[j] = "cancelled"

\* A job that is not in the queue changes its phase.
LEMMA PhaseMoves ==
  ASSUME Queueing, NEW j \in Jobs, NEW to \in Phases \ {"queued", "preparing"},
         phase[j] \notin {"queued", "cancelled"}, phase' = [phase EXCEPT ![j] = to],
         UNCHANGED <<items, active>>
  PROVE  Queueing' /\ StayCancelled /\ phase'[j] = to /\ \A k \in Jobs \ {j} : phase'[k] = phase[k]
<1>1. phase'[j] = to /\ (\A k \in Jobs \ {j} : phase'[k] = phase[k]) /\ phase' \in [Jobs -> Phases]
  BY DEF Queueing
<1>2. StayCancelled
  BY <1>1 DEF StayCancelled
<1>3. Queueing'
  BY <1>1 DEF Queueing
<1> QED BY <1>1, <1>2, <1>3

LEMMA EnqueueKeeps ==
  ASSUME Queueing, Activity, NEW j \in Jobs, phase[j] \in {"new", "submitting"}, Enqueue(j),
         UNCHANGED <<remote, execution>>
  PROVE  Queueing' /\ Activity' /\ StayCancelled
<1>0. Nothing \notin Jobs
  BY Named
<1>1. CASE active = Nothing
  <2>1. active' = j /\ items' = items /\ phase' = [phase EXCEPT ![j] = "preparing"]
    BY <1>1 DEF Enqueue
  <2>2. phase'[j] = "preparing" /\ (\A k \in Jobs \ {j} : phase'[k] = phase[k])
        /\ phase' \in [Jobs -> Phases]
    BY <2>1 DEF Queueing, Phases
  <2>3. Queueing'
    BY <2>1, <2>2 DEF Queueing
  <2>4. \A k \in Jobs : phase[k] # "preparing" /\ ~(remote /\ phase[k] \in {"running", "finishing"})
    BY <1>0, <1>1 DEF Activity
  <2>5. Activity'
    BY <1>0, <2>1, <2>2, <2>4 DEF Activity
  <2> QED BY <2>2, <2>3, <2>5 DEF StayCancelled
<1>2. CASE active # Nothing
  <2>1. active' = active /\ items' = Append(items, j) /\ phase' = [phase EXCEPT ![j] = "queued"]
    BY <1>2 DEF Enqueue
  <2>2. phase'[j] = "queued" /\ (\A k \in Jobs \ {j} : phase'[k] = phase[k])
        /\ phase' \in [Jobs -> Phases]
    BY <2>1 DEF Queueing, Phases
  <2>3. /\ items' \in Seq(Jobs) /\ Len(items') = Len(items) + 1 /\ Len(items) \in Nat
        /\ items'[Len(items) + 1] = j /\ \A i \in 1 .. Len(items) : items'[i] = items[i]
    BY <2>1 DEF Queueing
  <2>4. \A i \in 1 .. Len(items) : items[i] \in Jobs /\ items[i] # j
    BY DEF Queueing
  <2>5. \A i \in 1 .. Len(items') : i = Len(items) + 1 \/ i \in 1 .. Len(items)
    BY <2>3
  <2>6. \A i, k \in 1 .. Len(items') : items'[i] = items'[k] => i = k
    BY <2>3, <2>4, <2>5 DEF Queueing
  <2>7. \A i \in 1 .. Len(items') : phase'[items'[i]] = "queued"
    BY <2>2, <2>3, <2>4, <2>5 DEF Queueing
  <2>8. ASSUME NEW k \in Jobs, phase'[k] = "queued" PROVE \E i \in 1 .. Len(items') : items'[i] = k
    <3>1. CASE k = j
      BY <2>3, <3>1
    <3>2. CASE k # j
      <4>1. PICK i \in 1 .. Len(items) : items[i] = k
        BY <2>2, <2>8, <3>2 DEF Queueing
      <4>2. i \in 1 .. Len(items') /\ items'[i] = k
        BY <2>3, <4>1
      <4> QED BY <4>2
    <3> QED BY <3>1, <3>2
  <2>9. Queueing'
    BY <2>2, <2>3, <2>6, <2>7, <2>8 DEF Queueing
  <2>10. active # j
    BY <1>0, <1>2 DEF Activity
  <2>11. Activity'
    BY <1>0, <2>1, <2>2, <2>10 DEF Activity
  <2> QED BY <2>2, <2>9, <2>11 DEF StayCancelled
<1> QED BY <1>1, <1>2

\* A set of positions in a queue has a first one.
LEMMA HasLeast ==
  ASSUME NEW S \in SUBSET Nat, S # {}
  PROVE  Min(S) \in S
<1> DEFINE Less == {pair \in Nat \X Nat : pair[1] < pair[2]}
<1>1. IsWellFoundedOn(Less, Nat)
  BY NatLessThanWellFounded DEF OpToRel
<1>2. \E x \in S : \A y \in S : ~ (<<y, x>> \in Less)
  <2> HIDE DEF Less
  <2> QED BY <1>1, WFMin
<1>3. PICK x \in S : \A y \in S : ~ (<<y, x>> \in Less)
  BY <1>2
<1>4. \A y \in S : x <= y
  <2> SUFFICES ASSUME NEW y \in S PROVE x <= y
    OBVIOUS
  <2>1. <<y, x>> \in Nat \X Nat /\ <<y, x>>[1] = y /\ <<y, x>>[2] = x
    OBVIOUS
  <2>2. ~(y < x)
    BY <1>3, <2>1
  <2> QED BY <2>2
<1> QED BY <1>4 DEF Min

\* runNext splits the queue at a position n: what was before it is cancelled, what is there
\* runs next, and what comes after it waits on.
LEMMA RunNextSplits ==
  ASSUME Queueing, NEW j \in Jobs, NEW becomes, RunNext(j, becomes)
  PROVE  \E n \in 1 .. Len(items) + 1 :
           /\ items' = SubSeq(items, n + 1, Len(items))
           /\ n <= Len(items) => active' = items[n]
           /\ n = Len(items) + 1 => active' = Nothing
           /\ phase' = [k \in Jobs |->
                IF k = j THEN becomes
                ELSE IF k = active' THEN "preparing"
                ELSE IF \E i \in 1 .. n - 1 : items[i] = k THEN "cancelled"
                ELSE phase[k]]
<1>1. Len(items) \in Nat /\ DOMAIN items = 1 .. Len(items)
  BY DEF Queueing
<1>2. Runnable \subseteq 1 .. Len(items)
  BY <1>1 DEF Runnable
<1> DEFINE n == IF Runnable = {} THEN Len(items) + 1 ELSE Min(Runnable)
           next == IF Runnable = {} THEN Nothing ELSE items[n]
<1>3. n \in 1 .. Len(items) + 1 /\ (Runnable # {} => n <= Len(items))
  <2>1. CASE Runnable = {}
    BY <1>1, <2>1
  <2>2. CASE Runnable # {}
    <3>1. Runnable \in SUBSET Nat
      BY <1>1, <1>2
    <3>2. Min(Runnable) \in Runnable
      BY <2>2, <3>1, HasLeast
    <3>3. n \in 1 .. Len(items)
      BY <1>2, <2>2, <3>2
    <3> HIDE DEF n
    <3> QED BY <1>1, <3>3
  <2> QED BY <2>1, <2>2
<1>4. active' = next /\ items' = SubSeq(items, n + 1, Len(items))
      /\ phase' = [k \in Jobs |->
           IF k = j THEN becomes
           ELSE IF k = active' THEN "preparing"
           ELSE IF \E i \in 1 .. n - 1 : items[i] = k THEN "cancelled"
           ELSE phase[k]]
  BY DEF RunNext
<1>5. (n <= Len(items) => active' = items[n]) /\ (n = Len(items) + 1 => active' = Nothing)
  BY <1>1, <1>3, <1>4
<1> HIDE DEF n, next
<1> QED BY <1>3, <1>4, <1>5

LEMMA RunNextKeeps ==
  ASSUME Queueing, Activity, NEW j \in Jobs, NEW becomes \in {"over", "running"}, RunNext(j, becomes),
         phase[j] \in {"preparing", "finishing"}, active = j,
         remote => becomes = "over", remote' = remote, execution' \in Jobs \cup {Nothing}
  PROVE  Queueing' /\ Activity' /\ StayCancelled
<1>0. Nothing \notin Jobs
  BY Named
<1>1. PICK n \in 1 .. Len(items) + 1 :
        /\ items' = SubSeq(items, n + 1, Len(items))
        /\ n <= Len(items) => active' = items[n]
        /\ n = Len(items) + 1 => active' = Nothing
        /\ phase' = [k \in Jobs |->
             IF k = j THEN becomes
             ELSE IF k = active' THEN "preparing"
             ELSE IF \E i \in 1 .. n - 1 : items[i] = k THEN "cancelled"
             ELSE phase[k]]
  BY RunNextSplits
<1>2. Len(items) \in Nat /\ n \in Nat /\ \A i \in 1 .. Len(items) : items[i] \in Jobs /\ items[i] # j
  BY DEF Queueing
<1>3. active' \in Jobs \cup {Nothing} /\ active' # j
  BY <1>0, <1>1, <1>2
<1>4. phase' \in [Jobs -> Phases]
  BY <1>1 DEF Queueing, Phases
<1>5. /\ items' \in Seq(Jobs)
      /\ n <= Len(items) => Len(items') = Len(items) - n
      /\ n = Len(items) + 1 => Len(items') = 0
      /\ \A i \in 1 .. Len(items') : items'[i] = items[n + i]
  <2>1. items \in Seq(Jobs)
    BY DEF Queueing
  <2> QED BY <1>1, <1>2, <2>1
<1>6. \A i \in 1 .. Len(items') : n + i \in 1 .. Len(items)
  BY <1>2, <1>5
\* The jobs that wait are those after the split.
<1>7. \A i, k \in 1 .. Len(items') : items'[i] = items'[k] => i = k
  <2> SUFFICES ASSUME NEW i \in 1 .. Len(items'), NEW k \in 1 .. Len(items'), items'[i] = items'[k]
               PROVE  i = k
    OBVIOUS
  <2>1. items[n + i] = items[n + k] /\ n + i \in 1 .. Len(items) /\ n + k \in 1 .. Len(items)
    BY <1>5, <1>6
  <2>2. n + i = n + k
    BY <2>1 DEF Queueing
  <2> QED BY <1>2, <1>5, <2>2
<1>8. \A i \in 1 .. Len(items') : phase'[items'[i]] = "queued"
  <2> SUFFICES ASSUME NEW i \in 1 .. Len(items') PROVE phase'[items[n + i]] = "queued"
    BY <1>5
  <2>1. n + i \in 1 .. Len(items) /\ n < n + i /\ n <= Len(items)
    BY <1>2, <1>5, <1>6
  <2>2. items[n + i] \in Jobs /\ items[n + i] # j /\ phase[items[n + i]] = "queued"
    BY <1>2, <2>1 DEF Queueing
  <2>3. items[n + i] # active'
    <3>1. active' = items[n] /\ n \in 1 .. Len(items) /\ n # n + i
      BY <1>1, <1>2, <2>1
    <3> QED BY <2>1, <3>1 DEF Queueing
  <2>4. ~\E k \in 1 .. n - 1 : items[k] = items[n + i]
    <3> SUFFICES ASSUME NEW k \in 1 .. n - 1 PROVE items[k] # items[n + i]
      OBVIOUS
    <3>1. k \in 1 .. Len(items) /\ k # n + i
      BY <1>2, <2>1
    <3> QED BY <2>1, <3>1 DEF Queueing
  <2> QED BY <1>1, <2>2, <2>3, <2>4
<1>9. ASSUME NEW k \in Jobs, phase'[k] = "queued" PROVE \E i \in 1 .. Len(items') : items'[i] = k
  <2>1. k # j /\ k # active' /\ ~(\E i \in 1 .. n - 1 : items[i] = k) /\ phase[k] = "queued"
    BY <1>1, <1>9
  <2>2. PICK m \in 1 .. Len(items) : items[m] = k
    BY <2>1 DEF Queueing
  <2>3. m \notin 1 .. n - 1 /\ m # n
    BY <1>1, <1>2, <2>1, <2>2
  <2>4. m - n \in 1 .. Len(items') /\ n + (m - n) = m
    BY <1>2, <1>5, <2>3
  <2> QED BY <1>5, <2>2, <2>4
<1>10. Queueing'
  BY <1>4, <1>5, <1>7, <1>8, <1>9 DEF Queueing
\* Only the next job is prepared, and the worker runs nothing.
<1>11. \A k \in Jobs \ {j} : phase[k] # "preparing" /\ ~(remote /\ phase[k] \in {"running", "finishing"})
  BY DEF Activity
<1>12. active' # Nothing => phase'[active'] = "preparing"
  BY <1>1, <1>3
<1>13. \A k \in Jobs : phase'[k] = "preparing" => active' = k
  BY <1>1, <1>11
<1>14. \A k \in Jobs : ~(remote' /\ phase'[k] \in {"running", "finishing"})
  BY <1>1, <1>11
<1>15. Activity'
  BY <1>3, <1>12, <1>13, <1>14 DEF Activity
<1>16. StayCancelled
  <2> SUFFICES ASSUME NEW k \in Jobs, phase[k] = "cancelled" PROVE phase'[k] = "cancelled"
    BY DEF StayCancelled
  <2>1. k # j /\ k # active'
    BY <1>0, <1>1, <1>2 DEF Queueing
  <2> QED BY <1>1, <2>1
<1> QED BY <1>10, <1>15, <1>16

\* The queue is emptied and its jobs become something else; the active job goes on or not.
LEMMA EmptiedKeeps ==
  ASSUME Queueing, Activity, NEW gone \in {"cancelled", "lost"}, items' = <<>>,
         remote' = remote, execution' \in Jobs \cup {Nothing},
         \/ UNCHANGED <<active, execution>> /\ phase' =
              [k \in Jobs |-> IF phase[k] = "queued" THEN gone ELSE phase[k]]
         \/ \E kept \in {{}, {"submitting"}} : Forget(kept) /\ gone = "lost"
  PROVE  Queueing' /\ Activity' /\ StayCancelled
<1>0. Nothing \notin Jobs
  BY Named
<1>1. \A k \in Jobs : phase'[k] = phase[k] \/ phase'[k] \in {"cancelled", "lost"}
  BY DEF Forget
<1>2. phase' \in [Jobs -> Phases] /\ \A k \in Jobs : phase'[k] # "queued"
  BY DEF Forget, Queueing, Phases, UnderWay
<1>3. Len(items') = 0 /\ items' \in Seq(Jobs) /\ 1 .. Len(items') = {}
  OBVIOUS
<1>4. Queueing'
  BY <1>2, <1>3 DEF Queueing
<1>5. StayCancelled
  BY DEF StayCancelled, Forget, UnderWay
<1>6. Activity'
  <2>1. CASE UNCHANGED <<active, execution>> /\ phase' =
              [k \in Jobs |-> IF phase[k] = "queued" THEN gone ELSE phase[k]]
    <3>1. active # Nothing => phase'[active] = phase[active]
      BY <2>1 DEF Activity
    <3> QED BY <1>1, <2>1, <3>1 DEF Activity
  <2>2. CASE \E kept \in {{}, {"submitting"}} : Forget(kept)
    <3>1. active' = Nothing /\ \A k \in Jobs : phase'[k] \notin {"preparing", "running", "finishing"}
      BY <2>2 DEF Forget, UnderWay
    <3> QED BY <1>0, <3>1 DEF Activity
  <2> QED BY <2>1, <2>2
<1> QED BY <1>4, <1>5, <1>6

-----------------------------------------------------------------------------
(***************************************************************************)
(* The website's own state.                                                *)
(***************************************************************************)

LEMMA CountsTypes ==
  ASSUME SiteTypes, \/ UNCHANGED counts
                    \/ Fails
                    \/ Stops
  PROVE  counts' \in CountSet
<1>1. counts \in CountSet /\ counts.lost \in 0 .. MaxLost /\ counts.stops \in 0 .. MaxStops
      /\ MaxLost \in Nat /\ MaxStops \in Nat
  BY Named DEF SiteTypes, CountSet
<1>2. CASE Fails
  <2> DEFINE more == counts.lost + 1
  <2>1. more \in 0 .. MaxLost /\ counts' = [counts EXCEPT !.lost = more]
    BY <1>1, <1>2 DEF Fails
  <2> HIDE DEF more
  <2> QED BY <1>1, <2>1 DEF CountSet
<1>3. CASE Stops
  <2> DEFINE more == counts.stops + 1
  <2>1. more \in 0 .. MaxStops /\ counts' = [counts EXCEPT !.stops = more]
    BY <1>1, <1>3 DEF Stops
  <2> HIDE DEF more
  <2> QED BY <1>1, <2>1 DEF CountSet
<1> QED BY <1>1, <1>2, <1>3

LEMMA CompleteTypes ==
  ASSUME SiteTypes, CompleteDownload
  PROVE  download' \in DownloadSet /\ timers' \in Nat
<1>1. download \in DownloadSet /\ timers \in Nat
  BY DEF SiteTypes
<1>2. CASE download = NoDownload
  BY <1>1, <1>2 DEF CompleteDownload
<1>3. CASE download # NoDownload
  <2>1. download' = [download EXCEPT !.status = "finished", !.age = 0] /\ timers' = timers + 1
    BY <1>3 DEF CompleteDownload
  <2> DEFINE done == [download EXCEPT !.status = "finished"]
  <2>4. done \in DownloadSet
    BY <1>1 DEF DownloadSet
  <2>5. [download EXCEPT !.status = "finished", !.age = 0] = [done EXCEPT !.age = 0]
    OBVIOUS
  <2> HIDE DEF done
  <2>2. [done EXCEPT !.age = 0] \in DownloadSet
    BY <2>4 DEF DownloadSet
  <2>3. timers + 1 \in Nat
    BY <1>1
  <2> QED BY <2>1, <2>2, <2>3, <2>5
<1> QED BY <1>2, <1>3

LEMMA StartTypes ==
  ASSUME NEW j \in Jobs, StartDownload(j)
  PROVE  download' \in DownloadSet
  BY DEF StartDownload, DownloadSet

LEMMA NoDownloadType == NoDownload \in DownloadSet
  BY DEF NoDownload, DownloadSet

\* The answer to a job concerns no other.
LEMMA TellTypes ==
  ASSUME SiteTypes, NEW j \in Jobs, Tell(j)
  PROVE  answered' \subseteq Jobs /\ open' \subseteq Jobs
  BY DEF SiteTypes, Tell

\* Every step of the site leaves what the queue is about alone.
LEMMA StatusTypes ==
  ASSUME Uploading, TimerFires \/ Tick \/ Look \/ ClearStatus \/ \E j \in Jobs : Progress(j)
  PROVE  Uploading' /\ StayCancelled
<1>1. /\ UNCHANGED <<remote, phase, active, items, execution>>
      /\ UNCHANGED <<open, sessions, answered, posted, unreported, counts>>
  BY DEF TimerFires, Tick, Look, ClearStatus, Progress, StatusOnly, queueVars
<1>2. Queueing' /\ Activity' /\ StayCancelled
  BY <1>1 DEF Uploading, Queueing, Activity, StayCancelled
<1>3. download \in DownloadSet /\ timers \in Nat
  BY DEF Uploading, SiteTypes
<1>4. download' \in DownloadSet
  <2>1. CASE download' = NoDownload
    BY <2>1, NoDownloadType
  <2>2. CASE download' = [download EXCEPT !.status = "hung"]
    BY <1>3, <2>2 DEF DownloadSet
  <2>3. CASE download.age < 2 /\ download' = [download EXCEPT !.age = @ + 1]
    <3> DEFINE age == download.age + 1
    <3>1. age \in 0 .. 2
      BY <1>3, <2>3 DEF DownloadSet
    <3>2. download' = [download EXCEPT !.age = age]
      BY <2>3
    <3> HIDE DEF age
    <3> QED BY <1>3, <3>1, <3>2 DEF DownloadSet
  <2>4. CASE download' = [download EXCEPT !.age = 0]
    BY <1>3, <2>4 DEF DownloadSet
  <2> QED BY <2>1, <2>2, <2>3, <2>4 DEF TimerFires, Tick, Look, ClearStatus, Progress
<1>5. timers' \in Nat
  <2>1. CASE TimerFires
    BY <1>3, <2>1 DEF TimerFires
  <2>2. CASE UNCHANGED timers
    BY <1>3, <2>2
  <2> QED BY <2>1, <2>2 DEF Tick, Look, ClearStatus, Progress, StatusOnly
<1>6. SiteTypes'
  BY <1>1, <1>4, <1>5 DEF Uploading, SiteTypes
<1> QED BY <1>2, <1>6 DEF Uploading

-----------------------------------------------------------------------------
(***************************************************************************)
(* The jobs.                                                               *)
(***************************************************************************)

\* A phase changes where no job is prepared or runs on the worker by it.
LEMMA ActivityAside ==
  ASSUME Queueing, Activity, NEW j \in Jobs, NEW to \in {"submitting", "refused", "over"},
         phase' = [phase EXCEPT ![j] = to], active # j, UNCHANGED <<remote, active, execution>>
  PROVE  Activity'
<1>1. phase'[j] = to /\ \A k \in Jobs \ {j} : phase'[k] = phase[k]
  BY DEF Queueing
<1>2. active # Nothing => phase'[active] = phase[active]
  BY <1>1 DEF Activity
<1> QED BY <1>1, <1>2 DEF Activity

LEMMA DispatchKeeps ==
  ASSUME Uploading, NEW j \in Jobs, Dispatch(j)
  PROVE  Uploading' /\ StayCancelled
<1>0. /\ Nothing \notin Jobs /\ phase[j] = "new" /\ active # j
      /\ UNCHANGED <<remote, timers, execution, posted, unreported, counts>>
  BY Named DEF Dispatch, Uploading, Activity
<1>t. UNCHANGED <<remote, execution>> /\ {"refused", "submitting"} \subseteq Phases
  BY <1>0 DEF Phases
<1>1. Queueing' /\ Activity' /\ StayCancelled
  <2>1. CASE Enqueue(j)
    BY <1>0, <1>t, <2>1, EnqueueKeeps DEF Uploading
  <2>2. ASSUME NEW to \in {"refused", "submitting"}, phase' = [phase EXCEPT ![j] = to],
               UNCHANGED <<active, items>>
        PROVE  Queueing' /\ Activity' /\ StayCancelled
    <3>1. Queueing' /\ StayCancelled
      BY <1>0, <1>t, <2>2, PhaseMoves DEF Uploading
    <3>2. Activity'
      BY <1>0, <2>2, ActivityAside DEF Uploading
    <3> QED BY <3>1, <3>2
  <2> QED BY <2>1, <2>2 DEF Dispatch
<1>2. answered' \subseteq Jobs /\ open' \subseteq Jobs /\ sessions' \subseteq Jobs
  BY DEF Dispatch, Uploading, SiteTypes
<1>3. download' \in DownloadSet
  BY StartTypes DEF Dispatch, Uploading, SiteTypes
<1> QED BY <1>0, <1>1, <1>2, <1>3 DEF Uploading, SiteTypes

LEMMA SubmittedKeeps ==
  ASSUME Uploading, NEW j \in Jobs, Submitted(j)
  PROVE  Uploading' /\ StayCancelled
<1>0. /\ Nothing \notin Jobs /\ phase[j] = "submitting" /\ active # j
      /\ UNCHANGED <<remote, sessions, download, timers, execution, posted, unreported>>
  BY Named DEF Submitted, Uploading, Activity
<1>t. UNCHANGED <<remote, execution>> /\ "refused" \in Phases
  BY <1>0 DEF Phases
<1>1. Queueing' /\ Activity' /\ StayCancelled
  <2>1. CASE Enqueue(j)
    BY <1>0, <1>t, <2>1, EnqueueKeeps DEF Uploading
  <2>2. CASE phase' = [phase EXCEPT ![j] = "refused"] /\ UNCHANGED <<active, items>>
    <3>1. Queueing' /\ StayCancelled
      BY <1>0, <1>t, <2>2, PhaseMoves DEF Uploading
    <3>2. Activity'
      BY <1>0, <2>2, ActivityAside DEF Uploading
    <3> QED BY <3>1, <3>2
  <2> QED BY <2>1, <2>2 DEF Submitted
<1>2. answered' \subseteq Jobs /\ open' \subseteq Jobs
  BY TellTypes DEF Submitted, Uploading, SiteTypes
<1>3. counts' \in CountSet
  BY CountsTypes DEF Submitted, Uploading
<1> QED BY <1>0, <1>1, <1>2, <1>3 DEF Uploading, SiteTypes

LEMMA LocalKeeps ==
  ASSUME Uploading, NEW j \in Jobs, LocalPrepared(j) \/ LocalExit(j)
  PROVE  Uploading' /\ StayCancelled
<1>0. Nothing \notin Jobs /\ execution \in Jobs \cup {Nothing} /\ "over" \in Phases
  BY Named DEF Uploading, Activity, Phases
<1>1. CASE LocalPrepared(j)
  <2>1. /\ ~remote /\ phase[j] = "preparing" /\ active = j
        /\ UNCHANGED <<remote, timers, execution, posted, unreported, counts>>
    BY <1>1 DEF LocalPrepared, Uploading, Activity
  <2>2. Queueing' /\ Activity' /\ StayCancelled
    BY <1>0, <1>1, <2>1, RunNextKeeps DEF LocalPrepared, Uploading
  <2>3. answered' \subseteq Jobs /\ open' \subseteq Jobs /\ sessions' \subseteq Jobs
    BY <1>1, TellTypes DEF LocalPrepared, Uploading, SiteTypes
  <2>4. download' \in DownloadSet
    BY <1>1, StartTypes DEF LocalPrepared, Uploading, SiteTypes
  <2> QED BY <2>1, <2>2, <2>3, <2>4 DEF Uploading, SiteTypes
<1>2. CASE LocalExit(j)
  \* On the website the active job is never one that runs.
  <2>1. /\ ~remote /\ phase[j] = "running" /\ active # j
        /\ phase' = [phase EXCEPT ![j] = "over"]
        /\ UNCHANGED <<remote, active, items, execution, posted, unreported, counts>>
    BY <1>0, <1>2 DEF LocalExit, Uploading, Activity
  <2>2. Queueing' /\ StayCancelled
    BY <1>0, <2>1, PhaseMoves DEF Uploading
  <2>3. Activity'
    BY <2>1, ActivityAside DEF Uploading
  <2>4. answered' \subseteq Jobs /\ open' \subseteq Jobs /\ sessions' \subseteq Jobs
    BY <1>2, TellTypes DEF LocalExit, Uploading, SiteTypes
  <2>5. download' \in DownloadSet /\ timers' \in Nat
    BY <1>2, CompleteTypes DEF LocalExit, Uploading
  <2> QED BY <2>1, <2>2, <2>3, <2>4, <2>5 DEF Uploading, SiteTypes
<1> QED BY <1>1, <1>2

LEMMA WorkerKeeps ==
  ASSUME Uploading, NEW j \in Jobs, WorkerPrepared(j) \/ WorkerExit(j) \/ WorkerFinishes(j)
  PROVE  Uploading' /\ StayCancelled
<1>0. Nothing \notin Jobs /\ execution \in Jobs \cup {Nothing} /\ {"running", "finishing"} \subseteq Phases
  BY Named DEF Uploading, Activity, Phases
<1>1. remote /\ remote' = remote /\ active = j
  BY DEF WorkerPrepared, WorkerExit, WorkerFinishes, Uploading, Activity
<1>a. \A k \in Jobs \ {j} : phase[k] \notin {"preparing", "running", "finishing"}
  BY <1>1 DEF Uploading, Activity
<1>2. UNCHANGED <<open, sessions, download, timers, answered>>
  BY DEF WorkerPrepared, WorkerExit, WorkerFinishes, siteVars
<1>3. posted' \subseteq Jobs /\ unreported' \subseteq Jobs
  BY DEF WorkerPrepared, WorkerExit, WorkerFinishes, Uploading, SiteTypes
<1>4. counts' \in CountSet
  BY CountsTypes DEF WorkerPrepared, WorkerExit, WorkerFinishes, Uploading
<1>5. SiteTypes'
  BY <1>2, <1>3, <1>4 DEF Uploading, SiteTypes
\* The job goes on, as the active one.
<1>g. ASSUME NEW to \in {"running", "finishing"}, phase' = [phase EXCEPT ![j] = to],
             phase[j] \in {"preparing", "running"}, execution' = j, UNCHANGED <<active, items>>
      PROVE  Queueing' /\ Activity' /\ StayCancelled
  <2>1. Queueing' /\ StayCancelled /\ phase'[j] = to /\ \A k \in Jobs \ {j} : phase'[k] = phase[k]
    BY <1>0, <1>g, PhaseMoves DEF Uploading
  <2>2. Activity'
    BY <1>0, <1>1, <1>a, <1>g, <2>1 DEF Uploading, Activity
  <2> QED BY <2>1, <2>2
<1>6. Queueing' /\ Activity' /\ StayCancelled
  <2>1. CASE WorkerPrepared(j) /\ RunNext(j, "over")
    <3>1. phase[j] = "preparing" /\ execution' \in Jobs \cup {Nothing}
      BY <1>0, <2>1 DEF WorkerPrepared
    <3> QED BY <1>1, <2>1, <3>1, RunNextKeeps DEF Uploading
  <2>2. CASE WorkerPrepared(j) /\ ~RunNext(j, "over")
    BY <1>g, <2>2 DEF WorkerPrepared
  <2>3. CASE WorkerExit(j)
    <3>1. execution' = j
      BY <1>1, <2>3 DEF WorkerExit, Uploading, Activity
    <3> QED BY <1>g, <2>3, <3>1 DEF WorkerExit
  <2>4. CASE WorkerFinishes(j)
    <3>1. phase[j] = "finishing" /\ execution' \in Jobs \cup {Nothing} /\ RunNext(j, "over")
      BY <2>4 DEF WorkerFinishes
    <3> QED BY <1>1, <3>1, RunNextKeeps DEF Uploading
  <2> QED BY <2>1, <2>2, <2>3, <2>4
<1> QED BY <1>5, <1>6 DEF Uploading

LEMMA ResultKeeps ==
  ASSUME Uploading, NEW j \in Jobs, Result(j) \/ SocketCloses(j)
  PROVE  Uploading' /\ StayCancelled
<1>1. UNCHANGED <<remote, phase, active, items, execution>>
  BY DEF Result, SocketCloses, queueVars
<1>2. Queueing' /\ Activity' /\ StayCancelled
  BY <1>1 DEF Uploading, Queueing, Activity, StayCancelled
<1>3. counts' \in CountSet
  BY CountsTypes DEF Result, SocketCloses, Uploading
<1>4. posted' \subseteq Jobs /\ unreported' \subseteq Jobs /\ sessions' \subseteq Jobs
  BY DEF Result, SocketCloses, siteVars, Uploading, SiteTypes
<1>5. answered' \subseteq Jobs /\ open' \subseteq Jobs
  BY TellTypes DEF Result, SocketCloses, siteVars, Uploading, SiteTypes
<1>6. download' \in DownloadSet /\ timers' \in Nat
  BY CompleteTypes DEF Result, SocketCloses, siteVars, Uploading, SiteTypes
<1> QED BY <1>2, <1>3, <1>4, <1>5, <1>6 DEF Uploading, SiteTypes

\* Cancelling, and the stop of the website or of the worker.
LEMMA SweepKeeps ==
  ASSUME Uploading, CancelAll \/ WebsiteStops \/ WorkerStops
  PROVE  Uploading' /\ StayCancelled
<1>0. Nothing \in Jobs \cup {Nothing} /\ execution \in Jobs \cup {Nothing}
  BY DEF Uploading, Activity
<1>1. Queueing' /\ Activity' /\ StayCancelled
  <2>1. CASE CancelAll
    <3>1. /\ items' = <<>> /\ UNCHANGED <<active, execution>> /\ remote' = remote
          /\ phase' = [k \in Jobs |-> IF phase[k] = "queued" THEN "cancelled" ELSE phase[k]]
      BY <2>1 DEF CancelAll
    <3>2. execution' \in Jobs \cup {Nothing}
      BY <1>0, <3>1
    <3> QED BY <3>1, <3>2, EmptiedKeeps DEF Uploading
  <2>2. ASSUME NEW kept \in {{}, {"submitting"}}, Forget(kept), remote' = remote,
               execution' \in Jobs \cup {Nothing}
        PROVE  Queueing' /\ Activity' /\ StayCancelled
    <3>1. items' = <<>>
      BY <2>2 DEF Forget
    <3>2. \E k \in {{}, {"submitting"}} : Forget(k) /\ "lost" = "lost"
      BY <2>2
    <3> QED BY <2>2, <3>1, <3>2, EmptiedKeeps DEF Uploading
  <2>3. CASE WebsiteStops
    <3>1. CASE remote
      BY <2>3, <3>1 DEF WebsiteStops, queueVars, Uploading, Queueing, Activity, StayCancelled
    <3>2. CASE ~remote
      BY <1>0, <2>2, <2>3, <3>2 DEF WebsiteStops
    <3> QED BY <3>1, <3>2
  <2>4. CASE WorkerStops
    BY <1>0, <2>2, <2>4 DEF WorkerStops
  <2> QED BY <2>1, <2>3, <2>4
<1>2. counts' \in CountSet
  BY CountsTypes DEF CancelAll, WebsiteStops, WorkerStops, Uploading
<1>3. SiteTypes'
  BY <1>2 DEF CancelAll, WebsiteStops, WorkerStops, siteVars, Uploading, SiteTypes
<1> QED BY <1>1, <1>3 DEF Uploading

LEMMA UploadingInit == Init => Uploading
<1> SUFFICES ASSUME Init PROVE Uploading
  OBVIOUS
<1>1. SiteTypes
  <2>1. counts \in CountSet
    BY Named DEF Init, CountSet
  <2> QED BY <2>1, NoDownloadType DEF Init, SiteTypes
<1>2. Queueing
  <2>1. items = <<>> /\ Len(items) = 0 /\ items \in Seq(Jobs) /\ 1 .. Len(items) = {}
    BY DEF Init
  <2>2. \A j \in Jobs : phase[j] = "new"
    BY DEF Init
  <2>3. phase \in [Jobs -> Phases]
    BY DEF Init, Phases
  <2> QED BY <2>1, <2>2, <2>3 DEF Queueing
<1>3. Activity
  BY DEF Init, Activity
<1> QED BY <1>1, <1>2, <1>3 DEF Uploading

LEMMA UploadingNext == Uploading /\ [Next]_vars => Uploading' /\ StayCancelled
<1> SUFFICES ASSUME Uploading, [Next]_vars PROVE Uploading' /\ StayCancelled
  OBVIOUS
<1>1. CASE UNCHANGED vars
  BY <1>1 DEF vars, queueVars, siteVars, Uploading, SiteTypes, Queueing, Activity, StayCancelled
<1>2. ASSUME NEW j \in Jobs, Dispatch(j) \/ Proceeds(j) \/ SocketCloses(j) \/ Progress(j)
      PROVE  Uploading' /\ StayCancelled
  BY <1>2, DispatchKeeps, SubmittedKeeps, LocalKeeps, WorkerKeeps, ResultKeeps, StatusTypes DEF Proceeds
<1>3. CASE CancelAll \/ WebsiteStops \/ WorkerStops
  BY <1>3, SweepKeeps
<1>4. CASE TimerFires \/ Tick \/ Look \/ ClearStatus
  BY <1>4, StatusTypes
<1> QED BY <1>1, <1>2, <1>3, <1>4 DEF Next

LEMMA UploadingAlways == Spec => []Uploading
  BY UploadingInit, UploadingNext, PTL DEF Spec

\* Everything has its type; the active item is a job under way, and the queue holds each queued
\* job exactly once, wherever a process stopped (ramblers-upload-queue.ts and
\* integration-worker-heavy-job-queue.ts).
THEOREM TypeCorrect == Spec => []TypeOK
  BY UploadingAlways, UploadingImplies, PTL

\* While a browser runs on the worker, remoteExecutionState and activeItem are its own job's.
THEOREM WorkerRunsItsJob == Spec => []WorkerKnowsItsJob
  BY UploadingAlways, UploadingImplies, PTL

\* cancelAll and the skip of runNext are final: no step lets a cancelled job leave that phase.
THEOREM CancelledForGood == Spec => CancelledStaysOut
<1>1. Uploading /\ [Next]_vars
        => [\A j \in Jobs : phase[j] = "cancelled" => phase'[j] = "cancelled"]_vars
  BY UploadingNext DEF StayCancelled
<1> QED BY <1>1, UploadingAlways, PTL DEF Spec, CancelledStaysOut

-----------------------------------------------------------------------------
(***************************************************************************)
(* No queue stands still: behind an empty place nothing waits.             *)
(***************************************************************************)

Waiting == items # <<>> => active # Nothing

\* After runNext the other jobs are where they were, or have left the queue.
LEMMA RunNextMoves ==
  ASSUME Queueing, NEW j \in Jobs, NEW becomes, RunNext(j, becomes)
  PROVE  /\ phase'[j] = becomes /\ Waiting'
         /\ \A k \in Jobs \ {j} :
              phase'[k] = phase[k] \/ (phase[k] = "queued" /\ phase'[k] \in {"preparing", "cancelled"})
<1>0. Nothing \notin Jobs
  BY Named
<1>1. PICK n \in 1 .. Len(items) + 1 :
        /\ items' = SubSeq(items, n + 1, Len(items))
        /\ n <= Len(items) => active' = items[n]
        /\ n = Len(items) + 1 => active' = Nothing
        /\ phase' = [k \in Jobs |->
             IF k = j THEN becomes
             ELSE IF k = active' THEN "preparing"
             ELSE IF \E i \in 1 .. n - 1 : items[i] = k THEN "cancelled"
             ELSE phase[k]]
  BY RunNextSplits
<1>2. /\ Len(items) \in Nat /\ n \in Nat /\ items \in Seq(Jobs)
      /\ \A i \in 1 .. Len(items) : items[i] \in Jobs /\ phase[items[i]] = "queued"
  BY DEF Queueing
<1>3. Waiting'
  <2>1. CASE n <= Len(items)
    <3>1. active' = items[n] /\ items[n] \in Jobs
      BY <1>1, <1>2, <2>1
    <3> QED BY <1>0, <3>1 DEF Waiting
  <2>2. CASE n = Len(items) + 1
    <3>1. items' \in Seq(Jobs) /\ Len(items') = 0
      BY <1>1, <1>2, <2>2
    <3>2. items' = <<>>
      BY <3>1
    <3> QED BY <3>2 DEF Waiting
  <2> QED BY <1>1, <1>2, <2>1, <2>2
<1>4. ASSUME NEW k \in Jobs \ {j}
      PROVE  phase'[k] = phase[k] \/ (phase[k] = "queued" /\ phase'[k] \in {"preparing", "cancelled"})
  <2>1. CASE k = active'
    <3>1. n <= Len(items) /\ k = items[n]
      BY <1>0, <1>1, <1>2, <2>1
    <3> QED BY <1>1, <1>2, <2>1, <3>1
  <2>2. CASE k # active' /\ \E i \in 1 .. n - 1 : items[i] = k
    <3>1. PICK i \in 1 .. n - 1 : items[i] = k
      BY <2>2
    <3>2. i \in 1 .. Len(items)
      BY <1>1, <1>2
    <3> QED BY <1>1, <1>2, <2>2, <3>1, <3>2
  <2>3. CASE k # active' /\ ~\E i \in 1 .. n - 1 : items[i] = k
    BY <1>1, <2>3
  <2> QED BY <2>1, <2>2, <2>3
<1>5. phase'[j] = becomes
  BY <1>1
<1> QED BY <1>3, <1>4, <1>5

LEMMA WaitingNext ==
  ASSUME Uploading, Waiting, [Next]_vars
  PROVE  Waiting'
<1>0. Nothing \notin Jobs /\ Queueing
  BY Named DEF Uploading
<1>1. ASSUME NEW j \in Jobs, Enqueue(j)
      PROVE  Waiting'
  BY <1>0, <1>1 DEF Enqueue, Waiting
<1>2. ASSUME NEW j \in Jobs, RunNext(j, "over") \/ RunNext(j, "running")
      PROVE  Waiting'
  BY <1>0, <1>2, RunNextMoves
<1>3. ASSUME UNCHANGED <<active, items>>
      PROVE  Waiting'
  BY <1>3 DEF Waiting
<1>4. ASSUME items' = <<>>
      PROVE  Waiting'
  BY <1>4 DEF Waiting
<1>5. ASSUME NEW j \in Jobs, Dispatch(j) \/ Submitted(j)
      PROVE  Waiting'
  <2>1. Enqueue(j) \/ UNCHANGED <<active, items>>
    BY <1>5 DEF Dispatch, Submitted
  <2> QED BY <1>1, <1>3, <2>1
<1>6. ASSUME NEW j \in Jobs, LocalPrepared(j) \/ WorkerPrepared(j) \/ WorkerFinishes(j)
      PROVE  Waiting'
  <2>1. RunNext(j, "over") \/ RunNext(j, "running") \/ UNCHANGED <<active, items>>
    BY <1>6 DEF LocalPrepared, WorkerPrepared, WorkerFinishes
  <2> QED BY <1>2, <1>3, <2>1
<1>7. ASSUME NEW j \in Jobs,
             LocalExit(j) \/ WorkerExit(j) \/ Result(j) \/ SocketCloses(j) \/ Progress(j)
      PROVE  Waiting'
  <2>1. UNCHANGED <<active, items>>
    BY <1>7 DEF LocalExit, WorkerExit, Result, SocketCloses, Progress, StatusOnly, queueVars
  <2> QED BY <1>3, <2>1
<1>8. CASE CancelAll \/ WebsiteStops \/ WorkerStops
  <2>1. items' = <<>> \/ UNCHANGED <<active, items>>
    BY <1>8 DEF CancelAll, WebsiteStops, WorkerStops, Forget, queueVars
  <2> QED BY <1>3, <1>4, <2>1
<1>9. CASE UNCHANGED vars \/ TimerFires \/ Tick \/ Look \/ ClearStatus
  <2>1. UNCHANGED <<active, items>>
    BY <1>9 DEF TimerFires, Tick, Look, ClearStatus, StatusOnly, queueVars, vars
  <2> QED BY <1>3, <2>1
<1> QED BY <1>5, <1>6, <1>7, <1>8, <1>9 DEF Next, Proceeds

LEMMA WaitingAlways == Spec => [](Uploading /\ Waiting)
<1>1. Init => Waiting
  BY DEF Init, Waiting
<1>2. Uploading /\ Waiting /\ [Next]_vars => Waiting'
  BY WaitingNext
<1> QED BY <1>1, <1>2, UploadingAlways, PTL DEF Spec

\* Whatever was cancelled, passed over, refused or lost with a process, a job in a queue waits
\* for one that is under way and whose end calls runNext: on the website one being prepared,
\* on the worker one up to its finishJob (ramblers-upload-queue.ts:24-45 and
\* integration-worker-heavy-job-queue.ts).
THEOREM QueueNeverStalls ==
  Spec => [](\A j \in Jobs : phase[j] = "queued" =>
               /\ active \in Jobs \ {j}
               /\ \/ phase[active] = "preparing"
                  \/ remote /\ phase[active] \in {"running", "finishing"})
<1>1. Uploading /\ Waiting =>
        \A j \in Jobs : phase[j] = "queued" =>
          /\ active \in Jobs \ {j}
          /\ \/ phase[active] = "preparing"
             \/ remote /\ phase[active] \in {"running", "finishing"}
  <2> SUFFICES ASSUME Uploading, Waiting, NEW j \in Jobs, phase[j] = "queued"
               PROVE  /\ active \in Jobs \ {j}
                      /\ \/ phase[active] = "preparing"
                         \/ remote /\ phase[active] \in {"running", "finishing"}
    OBVIOUS
  <2>1. PICK i \in 1 .. Len(items) : items[i] = j
    BY DEF Uploading, Queueing
  <2>2. items # <<>>
    BY <2>1
  <2>3. active # Nothing
    BY <2>2 DEF Waiting
  <2> QED BY <2>3 DEF Uploading, Activity
<1> QED BY <1>1, WaitingAlways, PTL

-----------------------------------------------------------------------------
(***************************************************************************)
(* No upload ends in silence.                                              *)
(***************************************************************************)

\* An upload of the website has a session until it ends, so its end finds whom to tell; an
\* upload of the worker that ends has posted its result, or the website will not hear of it.
Reporting ==
  /\ ~remote => posted \cup unreported = {} /\ \A j \in Jobs : phase[j] # "submitting"
  /\ \A j \in Jobs : ~remote /\ phase[j] \in {"queued", "preparing", "running"} => j \in sessions
  /\ \A j \in Jobs : phase[j] \in {"finishing", "over"} => j \in answered \cup unreported \cup posted

LEMMA EnqueueMoves ==
  ASSUME Queueing, NEW j \in Jobs, Enqueue(j)
  PROVE  phase'[j] \in {"queued", "preparing"} /\ \A k \in Jobs \ {j} : phase'[k] = phase[k]
  BY DEF Enqueue, Queueing

LEMMA ReportingLocal ==
  ASSUME Uploading, Reporting, NEW j \in Jobs, Dispatch(j) \/ LocalPrepared(j) \/ LocalExit(j)
  PROVE  Reporting'
<1>0. Queueing
  BY DEF Uploading
<1>1. CASE Dispatch(j)
  <2>1. UNCHANGED <<remote, posted, unreported>> /\ sessions \subseteq sessions' /\ answered \subseteq answered'
    BY <1>1 DEF Dispatch
  <2>2. \A k \in Jobs \ {j} : phase'[k] = phase[k]
    BY <1>0, <1>1, EnqueueMoves DEF Dispatch, Queueing
  <2>3. \/ phase'[j] = "refused" \/ (remote /\ phase'[j] = "submitting")
        \/ phase'[j] \in {"queued", "preparing"} /\ j \in sessions'
    BY <1>0, <1>1, EnqueueMoves DEF Dispatch, Queueing
  <2> QED BY <2>1, <2>2, <2>3 DEF Reporting
<1>2. CASE LocalPrepared(j)
  <2>1. ~remote /\ phase[j] = "preparing" /\ j \in sessions /\ UNCHANGED <<remote, posted, unreported>>
    BY <1>2 DEF LocalPrepared, Reporting
  <2>2. \/ RunNext(j, "over") /\ answered' = answered \cup {j} /\ sessions' = sessions
        \/ RunNext(j, "running") /\ answered' = answered /\ sessions' = sessions
    BY <1>2, <2>1 DEF LocalPrepared, Tell
  <2>3. \A k \in Jobs \ {j} :
          phase'[k] = phase[k] \/ (phase[k] = "queued" /\ phase'[k] \in {"preparing", "cancelled"})
    BY <1>0, <2>2, RunNextMoves
  <2>4. \/ phase'[j] = "over" /\ j \in answered'
        \/ phase'[j] = "running" /\ j \in sessions'
    BY <1>0, <2>1, <2>2, RunNextMoves
  <2> QED BY <2>1, <2>2, <2>3, <2>4 DEF Reporting
<1>3. CASE LocalExit(j)
  <2>1. /\ ~remote /\ phase[j] = "running" /\ j \in sessions /\ UNCHANGED <<remote, posted, unreported>>
        /\ phase' = [phase EXCEPT ![j] = "over"]
        /\ answered' = answered \cup {j} /\ sessions \ {j} \subseteq sessions'
    BY <1>3 DEF LocalExit, Reporting, Tell
  <2>2. phase'[j] = "over" /\ \A k \in Jobs \ {j} : phase'[k] = phase[k]
    BY <1>0, <2>1 DEF Queueing
  <2> QED BY <2>1, <2>2 DEF Reporting
<1> QED BY <1>1, <1>2, <1>3

LEMMA ReportingWorker ==
  ASSUME Uploading, Reporting, NEW j \in Jobs,
         \/ WorkerPrepared(j) \/ WorkerExit(j) \/ WorkerFinishes(j)
         \/ Submitted(j) \/ Result(j)
  PROVE  Reporting'
<1>0. Queueing
  BY DEF Uploading
<1>1. CASE WorkerPrepared(j)
  <2>1. remote /\ UNCHANGED <<remote, posted, answered>> /\ unreported \subseteq unreported'
    BY <1>1 DEF WorkerPrepared, siteVars
  <2>2. \A k \in Jobs \ {j} : phase'[k] = phase[k] \/ phase'[k] \in {"preparing", "cancelled"}
    BY <1>0, <1>1, RunNextMoves DEF WorkerPrepared, Queueing
  <2>3. phase'[j] = "running" \/ (phase'[j] = "over" /\ j \in unreported')
    BY <1>0, <1>1, RunNextMoves DEF WorkerPrepared, Queueing
  <2> QED BY <2>1, <2>2, <2>3 DEF Reporting
<1>2. CASE WorkerExit(j)
  <2>1. /\ remote /\ UNCHANGED <<remote, answered, unreported>> /\ posted' = posted \cup {j}
        /\ phase' = [phase EXCEPT ![j] = "finishing"]
    BY <1>2 DEF WorkerExit, siteVars
  <2>2. phase'[j] = "finishing" /\ \A k \in Jobs \ {j} : phase'[k] = phase[k]
    BY <1>0, <2>1 DEF Queueing
  <2> QED BY <2>1, <2>2 DEF Reporting
<1>3. CASE WorkerFinishes(j)
  <2>1. /\ remote /\ UNCHANGED <<remote, answered, unreported, posted>> /\ phase[j] = "finishing"
        /\ RunNext(j, "over")
    BY <1>3 DEF WorkerFinishes, siteVars
  <2>2. \A k \in Jobs \ {j} : phase'[k] = phase[k] \/ phase'[k] \in {"preparing", "cancelled"}
    BY <1>0, <2>1, RunNextMoves
  <2> QED BY <2>1, <2>2 DEF Reporting
<1>4. CASE Submitted(j)
  <2>1. UNCHANGED <<remote, sessions, posted, unreported>> /\ answered \subseteq answered'
    BY <1>4 DEF Submitted, Tell
  <2>2. phase[j] = "submitting" /\ \A k \in Jobs \ {j} : phase'[k] = phase[k]
    BY <1>0, <1>4, EnqueueMoves DEF Submitted, Queueing
  <2>3. phase'[j] \in {"refused", "queued", "preparing"}
    BY <1>0, <1>4, EnqueueMoves DEF Submitted, Queueing
  <2>4. remote
    BY <2>2 DEF Reporting
  <2> QED BY <2>1, <2>2, <2>3, <2>4 DEF Reporting
<1>5. CASE Result(j)
  <2>1. j \in posted /\ UNCHANGED <<remote, phase>> /\ posted' = posted \ {j}
    BY <1>5 DEF Result, queueVars
  <2>2. remote
    BY <2>1 DEF Reporting
  <2>3. /\ answered \subseteq answered' /\ unreported \subseteq unreported'
        /\ j \in answered' \cup unreported'
    BY <1>5 DEF Result, Tell, siteVars
  <2> QED BY <2>1, <2>2, <2>3 DEF Reporting
<1> QED BY <1>1, <1>2, <1>3, <1>4, <1>5

LEMMA ReportingRest ==
  ASSUME Uploading, Reporting,
         \/ CancelAll \/ WebsiteStops \/ WorkerStops \/ UNCHANGED vars
         \/ TimerFires \/ Tick \/ Look \/ ClearStatus
         \/ \E j \in Jobs : SocketCloses(j) \/ Progress(j)
  PROVE  Reporting'
<1>1. UNCHANGED <<remote, answered, unreported, posted>>
  BY DEF CancelAll, WebsiteStops, WorkerStops, TimerFires, Tick, Look, ClearStatus, SocketCloses,
         Progress, StatusOnly, siteVars, vars
<1>2. CASE CancelAll
  <2>1. /\ sessions' = sessions /\ phase' \in [Jobs -> Phases]
        /\ \A k \in Jobs : phase'[k] = phase[k] \/ phase'[k] = "cancelled"
    BY <1>2 DEF CancelAll, siteVars, Uploading, Queueing, Phases
  <2> QED BY <1>1, <2>1 DEF Reporting
<1>3. CASE WebsiteStops \/ WorkerStops
  <2>1. CASE Forget({}) \/ (remote /\ Forget({"submitting"}))
    <3>1. \A k \in Jobs : phase'[k] = "lost" \/ (phase'[k] = phase[k] /\ phase[k] \notin UnderWay)
                           \/ (remote /\ phase'[k] = phase[k])
      BY <2>1 DEF Forget
    <3> QED BY <1>1, <3>1 DEF Reporting, UnderWay
  <2>2. CASE remote /\ UNCHANGED phase
    BY <1>1, <2>2 DEF Reporting
  <2> QED BY <1>3, <2>1, <2>2 DEF WebsiteStops, WorkerStops, queueVars
<1>4. CASE UNCHANGED <<phase, sessions>>
  BY <1>1, <1>4 DEF Reporting
<1> QED
  BY <1>2, <1>3, <1>4 DEF TimerFires, Tick, Look, ClearStatus, SocketCloses, Progress, StatusOnly,
                         queueVars, siteVars, vars

LEMMA ReportingAlways == Spec => []Reporting
<1>1. Init => Reporting
  BY DEF Init, Reporting
<1>2. Uploading /\ Reporting /\ [Next]_vars => Reporting'
  BY ReportingLocal, ReportingWorker, ReportingRest DEF Next, Proceeds
<1> QED BY <1>1, <1>2, UploadingAlways, PTL DEF Spec

\* An upload that has come to its end has been answered to its browser, or its result is on its
\* way to the website, or it is one of those the website never hears of: a job the worker could
\* not prepare, or a result for a session the website has lost. On the website there is no such
\* exception (executeRamblersUploadJob, finishJob and the result route).
THEOREM EndsAreReported ==
  Spec => [](\A j \in Jobs : phase[j] = "over" =>
               j \in answered \/ (remote /\ j \in unreported \cup posted))
<1>1. Reporting => \A j \in Jobs : phase[j] = "over" =>
                     j \in answered \/ (remote /\ j \in unreported \cup posted)
  BY DEF Reporting
<1> QED BY <1>1, ReportingAlways, PTL
=============================================================================
