------------------------------ MODULE SlotPool ------------------------------
(***************************************************************************)
(* What withBackupSlot promises its callers: at most Limit of them hold a  *)
(* slot, nobody waits while a slot is free, and those who wait are         *)
(* admitted in the order in which they came.  How slots are counted and    *)
(* handed over is left open; BackupSlots is the code's way.                *)
(***************************************************************************)
EXTENDS Naturals, Sequences, FiniteSets

CONSTANTS Clients, Limit

VARIABLES
  holders,   \* the clients that hold a slot
  queue      \* the clients that wait, in the order of arrival

vars == <<holders, queue>>

Init == holders = {} /\ queue = <<>>

\* As many of Q as there are slots left beside H are admitted, from the front.
Admit(H, Q) ==
  LET free == Limit - Cardinality(H)
      admitted == IF Len(Q) <= free THEN Len(Q) ELSE free
  IN
  /\ holders' = H \cup {Q[i] : i \in 1 .. admitted}
  /\ queue' = SubSeq(Q, admitted + 1, Len(Q))

Arrive(c) ==
  /\ c \notin holders /\ \A i \in DOMAIN queue : queue[i] # c
  /\ Admit(holders, Append(queue, c))

Leave(c) == c \in holders /\ Admit(holders \ {c}, queue)

\* The process stops: holders and queue are its own.
Stop == holders' = {} /\ queue' = <<>>

Next == Stop \/ \E c \in Clients : Arrive(c) \/ Leave(c)

Spec == Init /\ [][Next]_vars
=============================================================================
