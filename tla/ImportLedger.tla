---------------------------- MODULE ImportLedger ----------------------------
(***************************************************************************)
(* What the synchronisation of one controller promises, without tasks,     *)
(* locks, pages or sessions: a ledger of imported AWX jobs and a cursor    *)
(* that moves forward over jobs that are settled or were hidden from the   *)
(* listing, so that each job is imported once, from above the cursor, and  *)
(* none that was shown is passed over.                                     *)
(***************************************************************************)
EXTENDS Integers

CONSTANT MaxJob

VARIABLES
  cursor,   \* no job at or below it is looked at again
  settled,  \* jobs that need no import (any more)
  hidden,   \* others that the listing has gone past without showing them
  stored,   \* jobs with a run
  deleted   \* the controller is gone

ledger == <<cursor, settled, hidden, stored, deleted>>

UpTo(S, c) == {j \in S : j <= c}

Init ==
  /\ cursor = 0 /\ stored = {} /\ deleted = FALSE
  /\ settled = {} /\ hidden = {}

Import ==
  /\ ~deleted
  /\ \E j \in 1..MaxJob : /\ j > cursor /\ j \notin stored
                          /\ stored' = stored \cup {j}
                          /\ settled' = settled \cup {j}
                          /\ hidden' = hidden \ {j}
  /\ UNCHANGED <<cursor, deleted>>

(* The server drops a job, or ends one that the database will refuse.      *)
Vanish ==
  /\ \E j \in 1..MaxJob : /\ settled' = settled \cup {j}
                          /\ hidden' = hidden \ {j}
  /\ UNCHANGED <<cursor, stored, deleted>>

(* A page is read, or a sync is over and the next one lists again: what is *)
(* hidden above the cursor changes, at and below it nothing is forgotten.  *)
List ==
  /\ hidden' \subseteq 1..MaxJob \ settled
  /\ UpTo(hidden', cursor) = UpTo(hidden, cursor)
  /\ UNCHANGED <<cursor, settled, stored, deleted>>

Advance ==
  /\ ~deleted
  /\ cursor' \in (cursor + 1)..MaxJob
  /\ (cursor + 1)..cursor' \subseteq settled \cup hidden
  /\ UNCHANGED <<settled, hidden, stored, deleted>>

(* Retention.                                                              *)
Remove ==
  /\ \E S \in SUBSET stored : stored' = stored \ S
  /\ UNCHANGED <<cursor, settled, hidden, deleted>>

Delete ==
  /\ ~deleted /\ deleted' = TRUE
  /\ stored' = {}
  /\ UNCHANGED <<cursor, settled, hidden>>

Next == Import \/ Vanish \/ List \/ Advance \/ Remove \/ Delete

Spec == Init /\ [][Next]_ledger
=============================================================================
