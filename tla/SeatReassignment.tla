---------------------------- MODULE SeatReassignment ----------------------------
(***************************************************************************)
(* SeatReassignmentService.assignSeat: offer a freed seat to the first      *)
(* passenger of the flight's waitlist.  It runs at the end of a             *)
(* cancellation and of every item of the cleanup, inside that handler.      *)
(***************************************************************************)
EXTENDS Handlers

(* ZREVRANGE picks the passenger; an empty set ends the attempt. *)
AssignTop(h) ==
    /\ At(h, "assign_top")
    /\ \/ /\ zset[job[h].flight] = {}
          /\ Finish(h)
       \/ \E u \in User :
            /\ Top(job[h].flight, u)
            /\ job' = [job EXCEPT ![h].pc = "assign_entry", ![h].user = u]
    /\ UNCHANGED <<locks, store, waitlist, todo>>

(* The passenger's row is looked up in PostgreSQL.  Without one only the *)
(* member is removed: the seat is not offered to the next passenger.     *)
AssignEntry(h) ==
    /\ At(h, "assign_entry")
    /\ \/ \E e \in EntryId :
            /\ IsRowOf(e, job[h].user, job[h].flight)
            /\ job' = [job EXCEPT ![h].pc = "assign_confirmed", ![h].entry = e]
       \/ /\ ~ Listed(job[h].user, job[h].flight)
          /\ Goto(h, "assign_member")
    /\ UNCHANGED <<locks, store, waitlist, todo>>

(* A promotion that takes any booking the passenger ever had for a seat. *)
MutAssignAnyBooking(h) ==
    /\ At(h, "assign_confirmed")
    /\ Goto(h, IF \E b \in BookingId : /\ bookings[b].user = job[h].user
                                       /\ bookings[b].flight = job[h].flight
               THEN "assign_row" ELSE "assign_acquire")
    /\ UNCHANGED <<locks, store, waitlist, todo>>
(* A passenger who already flies is only taken off the waitlist. *)
AssignConfirmed(h) ==
    /\ At(h, "assign_confirmed")
    /\ Goto(h, IF ConfirmedOn(job[h].user, job[h].flight) THEN "assign_row"
                                                          ELSE "assign_acquire")
    /\ UNCHANGED <<locks, store, waitlist, todo>>

(* A promotion that takes the place before it has the seat. *)
MutAssignPlaceTaken(h) ==
    /\ At(h, "assign_acquire")
    /\ \/ /\ FreeKey(job[h].flight, job[h].seat)
          /\ SetLock(job[h].flight, job[h].seat, job[h].user)
          /\ Goto(h, "assign_create")
       \/ /\ ~ FreeKey(job[h].flight, job[h].seat)
          /\ Goto(h, "assign_row")
          /\ UNCHANGED lock
    /\ UNCHANGED <<store, waitlist, todo>>
(* A seat locked by somebody meanwhile ends the attempt. *)
AssignAcquire(h) ==
    /\ At(h, "assign_acquire")
    /\ \/ /\ FreeKey(job[h].flight, job[h].seat)
          /\ SetLock(job[h].flight, job[h].seat, job[h].user)
          /\ Goto(h, "assign_create")
       \/ /\ ~ FreeKey(job[h].flight, job[h].seat)
          /\ Finish(h)
          /\ UNCHANGED lock
    /\ UNCHANGED <<store, waitlist, todo>>

AssignCreate(h) ==
    /\ At(h, "assign_create")
    /\ \/ \E b \in BookingId :
            /\ NextBookingId(b)
            /\ InsertBooking(b, job[h].user, job[h].flight, job[h].seat)
            /\ job' = [job EXCEPT ![h].pc = "assign_seat", ![h].booking = b]
       \/ /\ BookingsFull
          /\ Finish(h)
          /\ UNCHANGED bookings
    /\ UNCHANGED <<locks, seats, waitlist, todo>>

AssignSeat(h) ==
    /\ At(h, "assign_seat")
    /\ UpdateSeat(job[h].seat, "LOCKED")
    /\ Goto(h, "assign_row")
    /\ UNCHANGED <<locks, bookings, waitlist, todo>>

(* delete throws when the row has gone meanwhile; the member then stays. *)
AssignRow(h) ==
    /\ At(h, "assign_row")
    /\ \/ /\ rows[job[h].entry] # NoRow
          /\ DeleteRow(job[h].entry)
          /\ Goto(h, "assign_member")
       \/ /\ rows[job[h].entry] = NoRow
          /\ Finish(h)
          /\ UNCHANGED rows
    /\ UNCHANGED <<locks, store, issued, zset, todo>>

(* The promotion that keeps the promoted passenger in the sorted set. *)
MutAssignMemberKept(h) ==
    /\ At(h, "assign_member")
    /\ Finish(h)
    /\ UNCHANGED <<locks, store, waitlist, todo>>
AssignMember(h) ==
    /\ At(h, "assign_member")
    /\ RemoveMember(job[h].flight, job[h].user)
    /\ Finish(h)
    /\ UNCHANGED <<locks, store, rows, issued, todo>>

AssignStep(h) ==
    \/ AssignTop(h)
    \/ AssignEntry(h)
    \/ AssignConfirmed(h)
    \/ AssignAcquire(h)
    \/ AssignCreate(h)
    \/ AssignSeat(h)
    \/ AssignRow(h)
    \/ AssignMember(h)
===============================================================================
