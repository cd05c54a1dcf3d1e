----------------------------- MODULE MCBookings -----------------------------
(***************************************************************************)
(* Instances of Bookings for TLC.                                          *)
(***************************************************************************)
EXTENDS Bookings, TLC

CONSTANTS h1, h2

\* Four requests, numbered by createdAt: Bob for two, Ann for herself, a member for two,
\* and Ann again for herself, now as a member.
mcBookings == 1..4
mcAttendees == [b \in mcBookings |-> {b} \X (1 .. <<2, 1, 2, 1>>[b])]
mcCreatedAt == [b \in mcBookings |-> b]
mcMembers == {3, 4}

\* Every address typed in lower case, and Ann's first one with a capital letter.
mcEmails == <<{"bob"}, {"ann"}, {"carol"}, {"ann"}>>
mcTypedEmails == [mcEmails EXCEPT ![2] = {"Ann"}]
mcLowerCase == [e \in {"ann", "Ann", "bob", "carol", "dan"} |-> IF e = "Ann" THEN "ann" ELSE e]

\* For the waiting list: the two requests for one place are members', nobody shares an
\* address.
mcSingleMembers == {2, 4}
mcOwnEmails == [mcEmails EXCEPT ![4] = {"dan"}]

\* The state in which handlers have raced is still checked, but not what follows it.
UntilRaced == ~raced

mcSymmetry == Permutations({h1, h2})
=============================================================================
