----------------------------- MODULE BookingService -----------------------------
(***************************************************************************)
(* BookingService: hold a seat, confirm the hold, cancel a booking, and the *)
(* administrator's write of a seat's status.  The first action of each      *)
(* handler is its validation; a request that fails it changes nothing and   *)
(* is not modelled as a step.                                               *)
(***************************************************************************)
EXTENDS Handlers

(* "Seat not belong to this flight" forgotten. *)
MutSeatOpenOnAnyFlight(f, s) == seats[s] = "AVAILABLE"
(* The two checks of lockSeat on the seat it read. *)
SeatOpen(f, s) == FlightOf[s] = f /\ seats[s] = "AVAILABLE"

LockCheck(h, u, f, s) ==
    /\ Starts(h, "lock", {s})
    /\ SeatOpen(f, s)
    /\ job' = [job EXCEPT ![h] = [NoJob EXCEPT !.pc = "lock_acquire", !.kind = "lock",
                                  !.user = u, !.flight = f, !.seat = s]]
    /\ UNCHANGED <<locks, store, waitlist, todo>>

LockAcquire(h) ==
    /\ At(h, "lock_acquire")
    /\ \/ /\ FreeKey(job[h].flight, job[h].seat)
          /\ SetLock(job[h].flight, job[h].seat, job[h].user)
          /\ Goto(h, "lock_create")
       \/ /\ ~ FreeKey(job[h].flight, job[h].seat)
          /\ Finish(h)
          /\ UNCHANGED lock
    /\ UNCHANGED <<store, waitlist, todo>>

LockCreate(h) ==
    /\ At(h, "lock_create")
    /\ \/ \E b \in BookingId :
            /\ NextBookingId(b)
            /\ InsertBooking(b, job[h].user, job[h].flight, job[h].seat)
            /\ job' = [job EXCEPT ![h].pc = "lock_seat", ![h].booking = b]
       \/ /\ BookingsFull
          /\ Finish(h)
          /\ UNCHANGED bookings
    /\ UNCHANGED <<locks, seats, waitlist, todo>>

(* The hold that leaves the seat on sale. *)
MutLockSeatLeftOpen(h) ==
    /\ At(h, "lock_seat")
    /\ Finish(h)
    /\ UNCHANGED <<locks, store, waitlist, todo>>
LockSeat(h) ==
    /\ At(h, "lock_seat")
    /\ UpdateSeat(job[h].seat, "LOCKED")
    /\ Finish(h)
    /\ UNCHANGED <<locks, bookings, waitlist, todo>>

-------------------------------------------------------------------------------
(* The handler keeps the booking it read: id, flight and seat. *)
OnBooking(h, b, kind, pc) ==
    job' = [job EXCEPT ![h] = [NoJob EXCEPT !.pc = pc, !.kind = kind, !.booking = b,
                               !.flight = bookings[b].flight, !.seat = bookings[b].seat]]

(* The status check of confirmBooking forgotten. *)
MutConfirmableAnyStatus(b) == bookings[b].status # "NONE"
(* Only a LOCKED booking may be confirmed. *)
Confirmable(b) == bookings[b].status = "LOCKED"

(* Only the owner may ask; who asked plays no part afterwards. *)
ConfirmCheck(h, u, b) ==
    /\ Starts(h, "confirm", {bookings[b].seat})
    /\ bookings[b].user = u
    /\ Confirmable(b)
    /\ OnBooking(h, b, "confirm", "confirm_lock")
    /\ UNCHANGED <<locks, store, waitlist, todo>>

(* The lock check of confirmBooking forgotten. *)
MutConfirmLockUnchecked(h) ==
    /\ At(h, "confirm_lock")
    /\ Goto(h, "confirm_status")
    /\ UNCHANGED <<locks, store, waitlist, todo>>
ConfirmLock(h) ==
    /\ At(h, "confirm_lock")
    /\ \/ HasLock(job[h].flight, job[h].seat) /\ Goto(h, "confirm_status")
       \/ ~ HasLock(job[h].flight, job[h].seat) /\ Finish(h)
    /\ UNCHANGED <<locks, store, waitlist, todo>>

ConfirmStatus(h) ==
    /\ At(h, "confirm_status")
    /\ UpdateStatus(job[h].booking, "CONFIRMED")
    /\ Goto(h, "confirm_seat")
    /\ UNCHANGED <<locks, seats, waitlist, todo>>

(* The confirmation that leaves the seat as the hold marked it. *)
MutConfirmSeatLeftLocked(h) ==
    /\ At(h, "confirm_seat")
    /\ Finish(h)
    /\ UNCHANGED <<locks, store, waitlist, todo>>
ConfirmSeat(h) ==
    /\ At(h, "confirm_seat")
    /\ UpdateSeat(job[h].seat, "BOOKED")
    /\ Finish(h)
    /\ UNCHANGED <<locks, bookings, waitlist, todo>>

-------------------------------------------------------------------------------
(* A booking is cancelled once, and an expired one never. *)
Cancellable(b) == bookings[b].status \notin {"NONE", "CANCELLED", "EXPIRED"}

(* cancelBooking is for the owner, *)
CancelCheck(h, u, b) ==
    /\ Starts(h, "cancel", {bookings[b].seat})
    /\ bookings[b].user = u
    /\ Cancellable(b)
    /\ OnBooking(h, b, "cancel", "cancel_status")
    /\ UNCHANGED <<locks, store, waitlist, todo>>

(* adminCancelBooking for an administrator, whoever owns the booking.  From *)
(* here on both do the same.                                               *)
AdminCancelCheck(h, b) ==
    /\ Starts(h, "cancel", {bookings[b].seat})
    /\ Cancellable(b)
    /\ OnBooking(h, b, "cancel", "cancel_status")
    /\ UNCHANGED <<locks, store, waitlist, todo>>

CancelStatus(h) ==
    /\ At(h, "cancel_status")
    /\ UpdateStatus(job[h].booking, "CANCELLED")
    /\ Goto(h, "cancel_seat")
    /\ UNCHANGED <<locks, seats, waitlist, todo>>

(* The cancellation that forgets to put the seat back on sale. *)
MutCancelSeatKept(h) ==
    /\ At(h, "cancel_seat")
    /\ Goto(h, "cancel_release")
    /\ UNCHANGED <<locks, store, waitlist, todo>>
CancelSeat(h) ==
    /\ At(h, "cancel_seat")
    /\ UpdateSeat(job[h].seat, "AVAILABLE")
    /\ Goto(h, "cancel_release")
    /\ UNCHANGED <<locks, bookings, waitlist, todo>>

(* Then the waitlist gets its chance, in the same handler. *)
CancelRelease(h) ==
    /\ At(h, "cancel_release")
    /\ ReleaseLock(job[h].flight, job[h].seat)
    /\ Goto(h, "assign_top")
    /\ UNCHANGED <<store, waitlist, todo>>

-------------------------------------------------------------------------------
(* PATCH /seats/:seatId writes any status, whatever bookings the seat has. *)
SetSeat(s, status) ==
    /\ "setseat" \in Ops
    /\ Admits("setseat", {s})
    /\ UpdateSeat(s, status)
    /\ UNCHANGED <<locks, bookings, waitlist, job, todo>>

BookingRequest(h) ==
    \/ \E u \in User, f \in Flight, s \in Seat : LockCheck(h, u, f, s)
    \/ \E u \in User, b \in BookingId : ConfirmCheck(h, u, b) \/ CancelCheck(h, u, b)
    \/ \E b \in BookingId : AdminCancelCheck(h, b)

(* The statements after the checks; adminCancelBooking has those of *)
(* cancelBooking, in the same order.                                *)
BookingStep(h) ==
    \/ LockAcquire(h)
    \/ LockCreate(h)
    \/ LockSeat(h)
    \/ ConfirmLock(h)
    \/ ConfirmStatus(h)
    \/ ConfirmSeat(h)
    \/ CancelStatus(h)
    \/ CancelSeat(h)
    \/ CancelRelease(h)
===============================================================================
