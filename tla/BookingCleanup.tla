----------------------------- MODULE BookingCleanup -----------------------------
(***************************************************************************)
(* BookingCleanupService, started by the scheduler every minute whether or  *)
(* not its previous run has ended.  It reads the list of expired holds      *)
(* once and then works through it, one booking after the other.             *)
(***************************************************************************)
EXTENDS Handlers

(* A run that finds nothing changes nothing and is not a step. *)
CleanupFind(h) ==
    /\ Starts(h, "cleanup", {bookings[b].seat : b \in ExpiredLocked})
    /\ ExpiredLocked # {}
    /\ todo' = [todo EXCEPT ![h] = ExpiredLocked]
    /\ job' = [job EXCEPT ![h] = [NoJob EXCEPT !.pc = "clean_next", !.kind = "cleanup"]]
    /\ UNCHANGED <<locks, store, waitlist>>

(* The next booking of the list, in the order the query happened to give. *)
(* Its status is written as it was found, not as it is now.               *)
CleanupStatus(h) ==
    /\ At(h, "clean_next")
    /\ \E b \in todo[h] :
         /\ UpdateStatus(b, "EXPIRED")
         /\ todo' = [todo EXCEPT ![h] = @ \ {b}]
         /\ job' = [job EXCEPT ![h].pc = "clean_seat", ![h].booking = b,
                               ![h].flight = bookings[b].flight,
                               ![h].seat = bookings[b].seat]
    /\ UNCHANGED <<locks, seats, waitlist>>

(* The status write of an item is rejected: the item is logged and skipped. *)
CleanupSkip(h, b) ==
    /\ At(h, "clean_next")
    /\ todo' = [todo EXCEPT ![h] = @ \ {b}]
    /\ job' = [job EXCEPT ![h] = IF todo[h] = {b} THEN NoJob ELSE @]
    /\ UNCHANGED <<locks, store, waitlist>>

(* The cleanup that expires the booking and keeps the seat. *)
MutCleanupSeatKept(h) ==
    /\ At(h, "clean_seat")
    /\ Goto(h, "assign_top")
    /\ UNCHANGED <<locks, store, waitlist, todo>>
(* The Redis key is not deleted here: it is taken to have run out. *)
CleanupSeat(h) ==
    /\ At(h, "clean_seat")
    /\ UpdateSeat(job[h].seat, "AVAILABLE")
    /\ Goto(h, "assign_top")
    /\ UNCHANGED <<locks, bookings, waitlist, todo>>

CleanupStep(h) == CleanupStatus(h) \/ CleanupSeat(h)
===============================================================================
