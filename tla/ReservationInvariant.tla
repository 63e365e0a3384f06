-------------------------- MODULE ReservationInvariant --------------------------
(***************************************************************************)
(* The inductive invariant behind the safety of Reservations, for traffic   *)
(* that keeps to the premises.  In words: whoever has acquired a seat's     *)
(* lock and not yet marked the seat holds a token; a live lock separates    *)
(* token from token and hides the seat from everybody who read it as free.  *)
(* CoreInv says so of tables that may have lost bookings to a deletion      *)
(* (module Removals); IInv adds that in Reservations they lose none.        *)
(***************************************************************************)
EXTENDS Reservations

SeatKinds == {"lock", "confirm", "cancel", "cleanup"}

(* A cancellation overlaps nothing on its seat, the cleanup neither a    *)
(* confirmation nor another cleanup; nobody writes seat statuses by hand *)
(* and no lock lapses under a handler that is taking its seat.           *)
Premises ==
    /\ \A k \in SeatKinds : {"cancel", k} \in Exclusive
    /\ {"cleanup", "confirm"} \in Exclusive
    /\ {"cleanup"} \in Exclusive
    /\ "setseat" \notin Ops
    /\ Prompt

SeekPc   == {"lock_acquire", "assign_top", "assign_entry", "assign_confirmed", "assign_acquire"}
CreatePc == {"lock_create", "assign_create"}
MarkPc   == {"lock_seat", "assign_seat"}
TokenPc  == CreatePc \cup MarkPc
SeatPc   == LockPc \cup ConfirmPc \cup CancelPc \cup {"clean_seat"} \cup AssignPc

On(h, P, s) == job[h].pc \in P /\ job[h].seat = s

Live(s) == HasLock(FlightOf[s], s)

Free(s) == \A b \in BookingId : ~ ActiveOn(b, s)

(* The booking was on the seat when it was deleted. *)
Lost(b, s) == bookings[b].seat = s /\ bookings[b].status = "NONE"

(* Where deletions are, a handler's own booking is in force or lost. *)
ActiveOrLost(b, s) == ActiveOn(b, s) \/ Lost(b, s)

-------------------------------------------------------------------------------
(* A handler's memory fits the point it has reached. *)
Shape(h) ==
    /\ job[h].pc \in SeatPc => job[h].seat \in Seat /\ job[h].flight = FlightOf[job[h].seat]
    /\ job[h].pc \notin SeatPc => job[h].seat = Nil
    /\ job[h].pc \in LockPc => job[h].kind = "lock"
    /\ job[h].pc \in ConfirmPc => job[h].kind = "confirm"
    /\ job[h].pc \in CancelPc => job[h].kind = "cancel"
    /\ job[h].pc \in CleanPc => job[h].kind = "cleanup"
    /\ job[h].pc \in AssignPc => job[h].kind \in {"cancel", "cleanup"}
    /\ todo[h] # {} => job[h].kind = "cleanup"
    /\ job[h].pc = "idle" => todo[h] = {}

JobShape == \A h \in Handler : Shape(h)

(* A booking is of the flight of its seat, and keeps it. *)
BookingShape ==
    \A b \in BookingId : bookings[b].status # "NONE" =>
        bookings[b].seat \in Seat /\ bookings[b].flight = FlightOf[bookings[b].seat]

(* Admission keeps exclusive kinds apart for as long as they work. *)
Separation ==
    \A g, h \in Handler, s \in Seat :
        g # h /\ WorksOn(g, s) /\ WorksOn(h, s) => {job[g].kind, job[h].kind} \notin Exclusive

(* A token stands for the seat's live lock, and there is one at a time. *)
TokenLive ==
    \A h \in Handler, s \in Seat :
        On(h, TokenPc, s) => Live(s) /\ lock[<<FlightOf[s], s>>].holder = job[h].user

TokenUnique ==
    \A g, h \in Handler, s \in Seat : On(g, TokenPc, s) /\ On(h, TokenPc, s) => g = h

(* Before its insert the token's seat has no passenger, after it it has one. *)
CreateFree == \A h \in Handler, s \in Seat : On(h, CreatePc, s) => Free(s)
MarkActive ==
    \A h \in Handler, s \in Seat :
        On(h, MarkPc, s) => job[h].booking \in BookingId /\ ActiveOrLost(job[h].booking, s)

(* A taken seat looks free only while a token is about to mark it. *)
OpenTaken ==
    \A b \in BookingId, s \in Seat :
        ActiveOn(b, s) /\ seats[s] = "AVAILABLE" => \E h \in Handler : On(h, MarkPc, s)

(* A seat without a passenger is withheld only while it is being put back, *)
(* or because its passenger was lost to a deletion.                        *)
ClosedFree ==
    \A s \in Seat : Free(s) /\ seats[s] # "AVAILABLE" =>
        \/ \E h \in Handler : On(h, {"cancel_seat", "clean_seat"}, s)
        \/ \E b \in BookingId : Lost(b, s)

(* Who still seeks a seat that has been taken meanwhile finds it locked. *)
SeekBlocked ==
    \A h \in Handler, b \in BookingId, s \in Seat :
        On(h, SeekPc, s) /\ ActiveOn(b, s) => Live(s)

(* A hold under a live lock is its owner's, and younger than the lock. *)
HoldLock ==
    \A b \in BookingId, s \in Seat :
        ActiveOn(b, s) /\ bookings[b].status = "LOCKED" /\ Live(s) =>
            /\ bookings[b].age + lock[<<FlightOf[s], s>>].ttl <= TTL
            /\ lock[<<FlightOf[s], s>>].holder = bookings[b].user

(* A confirmation works on a booking that is still its passenger's. *)
ConfirmActive ==
    \A h \in Handler, s \in Seat : On(h, ConfirmPc, s) =>
        /\ job[h].booking \in BookingId
        /\ ActiveOrLost(job[h].booking, s)
        /\ job[h].pc = "confirm_seat" =>
               bookings[job[h].booking].status \in {"CONFIRMED", "NONE"}

(* A cancellation finds its booking active and leaves the seat without one. *)
CancelFree ==
    \A h \in Handler, s \in Seat :
        /\ On(h, {"cancel_status"}, s) =>
               job[h].booking \in BookingId /\ ActiveOrLost(job[h].booking, s)
        /\ On(h, {"cancel_seat", "cancel_release"}, s) => Free(s)
        /\ On(h, {"cancel_release"}, s) => seats[s] = "AVAILABLE"

(* So does the cleanup, which finds no token and nobody seeking. *)
CleanFree ==
    \A h \in Handler, s \in Seat : On(h, {"clean_seat"}, s) =>
        /\ Free(s)
        /\ seats[s] # "AVAILABLE"
        /\ \A g \in Handler : ~ On(g, SeekPc \cup TokenPc, s)

(* Whoever is about to put a seat back remembers the booking it ended there. *)
EndedThere ==
    \A h \in Handler, s \in Seat : On(h, {"cancel_seat", "clean_seat"}, s) =>
        job[h].booking \in BookingId /\ bookings[job[h].booking].seat = s

(* What is on the cleanup's list is still an expired hold, unless deleted. *)
TodoExpired ==
    \A h \in Handler, b \in BookingId : b \in todo[h] =>
        b \in ExpiredLocked \/ (bookings[b].status = "NONE" /\ bookings[b] # NoBooking)

CoreInv ==
    /\ TypeOK
    /\ JobShape
    /\ BookingShape
    /\ Separation
    /\ TokenLive
    /\ TokenUnique
    /\ CreateFree
    /\ MarkActive
    /\ OneActive
    /\ OpenTaken
    /\ ClosedFree
    /\ SeekBlocked
    /\ HoldLock
    /\ ConfirmActive
    /\ CancelFree
    /\ CleanFree
    /\ EndedThere
    /\ TodoExpired

(* Nothing is ever deleted: what has no status has never been a booking. *)
NoneDeleted == \A b \in BookingId : bookings[b].status = "NONE" => bookings[b] = NoBooking

IInv == CoreInv /\ NoneDeleted
===============================================================================
