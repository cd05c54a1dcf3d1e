----------------------------- MODULE BackupSlots ----------------------------
(***************************************************************************)
(* The slots of server/lib/backup/backup-concurrency.ts: a counter and an  *)
(* array of waiting resolvers, both of one process.                        *)
(***************************************************************************)
EXTENDS Naturals, Sequences, FiniteSets

CONSTANTS
  Sessions,   \* the calls of withBackupSlot, one for each backup session
  Limit       \* backupConcurrencyLimit()

ASSUME BackupSlotsAssumption == Limit \in Nat \ {0}

VARIABLES
  active,    \* slots taken, as the code counts them
  waiters,   \* the resolvers that acquire has pushed
  slot       \* where each call stands: its acquire() is pending, or has resolved

slotVars == <<active, waiters, slot>>

SlotsTypeOK ==
  /\ active \in Nat
  /\ waiters \in Seq(Sessions)
  /\ slot \in [Sessions -> {"none", "waiting", "held"}]

SlotsInit ==
  /\ active = 0
  /\ waiters = <<>>
  /\ slot = [s \in Sessions |-> "none"]

Acquire(s) ==
  /\ slot[s] = "none"
  /\ \/ /\ active < Limit
        /\ active' = active + 1
        /\ slot' = [slot EXCEPT ![s] = "held"]
        /\ UNCHANGED waiters
     \/ /\ active >= Limit
        /\ waiters' = Append(waiters, s)
        /\ slot' = [slot EXCEPT ![s] = "waiting"]
        /\ UNCHANGED active

\* Mutant: the slot that is handed over is counted as free as well.
ReleaseCounted(s) ==
  /\ slot[s] = "held"
  /\ active' = active - 1
  /\ IF waiters # <<>>
     THEN /\ waiters' = Tail(waiters)
          /\ slot' = [slot EXCEPT ![s] = "none", ![Head(waiters)] = "held"]
     ELSE /\ slot' = [slot EXCEPT ![s] = "none"]
          /\ UNCHANGED waiters

\* Mutant: the resolver that was pushed last is popped.
ReleaseLast(s) ==
  /\ slot[s] = "held"
  /\ \/ LET last == Len(waiters) IN
        /\ waiters # <<>>
        /\ waiters' = SubSeq(waiters, 1, last - 1)
        /\ slot' = [slot EXCEPT ![s] = "none", ![waiters[last]] = "held"]
        /\ UNCHANGED active
     \/ /\ waiters = <<>>
        /\ active' = active - 1
        /\ slot' = [slot EXCEPT ![s] = "none"]
        /\ UNCHANGED waiters

\* A slot goes to the first waiter without being freed in between.
Release(s) ==
  /\ slot[s] = "held"
  /\ \/ /\ waiters # <<>>
        /\ waiters' = Tail(waiters)
        /\ slot' = [slot EXCEPT ![s] = "none", ![Head(waiters)] = "held"]
        /\ UNCHANGED active
     \/ /\ waiters = <<>>
        /\ active' = IF active = 0 THEN 0 ELSE active - 1
        /\ slot' = [slot EXCEPT ![s] = "none"]
        /\ UNCHANGED waiters

\* The process stops: the module is loaded afresh.
Reload ==
  /\ active' = 0
  /\ waiters' = <<>>
  /\ slot' = [s \in Sessions |-> "none"]

SlotsNext == Reload \/ \E s \in Sessions : Acquire(s) \/ Release(s)

SlotsSpec == SlotsInit /\ [][SlotsNext]_slotVars

-----------------------------------------------------------------------------
Holders == {s \in Sessions : slot[s] = "held"}

\* The counter is the number of calls that hold a slot, it keeps to the limit, a call
\* that waits is in the array once and only while every slot is taken: no slot leaks
\* and no wake-up is lost, however acquire and release alternate.
SlotsAccounted ==
  /\ active = Cardinality(Holders)
  /\ active <= Limit
  /\ waiters # <<>> => active = Limit
  /\ \A s \in Sessions :
       slot[s] = "waiting" <=> \E i \in DOMAIN waiters : waiters[i] = s
  /\ \A i, j \in DOMAIN waiters : waiters[i] = waiters[j] => i = j

Pool == INSTANCE SlotPool WITH Clients <- Sessions, holders <- Holders, queue <- waiters

\* The counter and the hand-over are a first-come-first-served pool of Limit slots.
ServesInOrder == Pool!Spec
=============================================================================
