------------------------------ MODULE BookingStore ------------------------------
(***************************************************************************)
(* The bookings and seats tables in PostgreSQL, seen through                *)
(* BookingRepository and SeatRepository.  Every operator is one statement,  *)
(* hence atomic; no two of them ever share a transaction.  The writes are   *)
(* unconditional: no repository method compares the status it overwrites.   *)
(***************************************************************************)
EXTENDS Domain

CONSTANT MaxBookings    \* rows of the table; an insert beyond it throws

ASSUME MaxBookingsAssumption == MaxBookings \in Nat

VARIABLES
    bookings,   \* booking id -> row
    seats       \* seat -> SeatStatus

BookingId == 1 .. MaxBookings

(* createdAt is kept as the row's age, which matters only up to TTL + 1.   *)
(* A deleted row has status NONE again, which hides it from every query;   *)
(* its other fields stay for those who read it before, and its id is used. *)
Booking == [user: User \cup {Nil}, flight: Flight \cup {Nil}, seat: Seat \cup {Nil},
            status: BookingStatus, age: 0 .. TTL + 1]

NoBooking == [user |-> Nil, flight |-> Nil, seat |-> Nil, status |-> "NONE", age |-> 0]

StoreType ==
    /\ bookings \in [BookingId -> Booking]
    /\ seats \in [Seat -> SeatStatus]

StoreInit ==
    /\ bookings = [b \in BookingId |-> NoBooking]
    /\ seats = [s \in Seat |-> "AVAILABLE"]

-------------------------------------------------------------------------------
(* A booking that still entitles its passenger to the seat. *)
Active(b) == bookings[b].status \in {"LOCKED", "CONFIRMED"}

ActiveOn(b, s) == Active(b) /\ bookings[b].seat = s

(* autoincrement: the smallest id not yet used; the id of a deleted row is. *)
NextBookingId(b) ==
    /\ bookings[b] = NoBooking
    /\ \A c \in BookingId : bookings[c] = NoBooking => b <= c

BookingsFull == \A b \in BookingId : bookings[b] # NoBooking

(* create *)
InsertBooking(b, u, f, s) ==
    bookings' = [bookings EXCEPT ![b] =
        [user |-> u, flight |-> f, seat |-> s, status |-> "LOCKED", age |-> 0]]

(* updateStatus *)
UpdateStatus(b, status) == bookings' = [bookings EXCEPT ![b].status = status]

(* The cutoff forgotten: every hold counts as expired. *)
MutExpiredIgnoresAge == {b \in BookingId : bookings[b].status = "LOCKED"}
(* The status forgotten: a paid booking is collected too. *)
MutExpiredIgnoresStatus == {b \in BookingId : bookings[b].age > TTL}
(* gt in place of lt: fresh holds are collected and old ones are not. *)
MutExpiredReversed ==
    {b \in BookingId : bookings[b].status = "LOCKED" /\ bookings[b].age < TTL}
(* findExpiredLockedBookings: createdAt < now - 5 min is strict. *)
ExpiredLocked ==
    {b \in BookingId : bookings[b].status = "LOCKED" /\ bookings[b].age > TTL}

(* findConfirmedBooking *)
ConfirmedOn(u, f) ==
    \E b \in BookingId : /\ bookings[b].user = u
                         /\ bookings[b].flight = f
                         /\ bookings[b].status = "CONFIRMED"

(* The booking clock: every row grows one tick older. *)
BookingsAge ==
    bookings' = [b \in BookingId |->
        IF bookings[b].status # "NONE" /\ bookings[b].age <= TTL
        THEN [bookings[b] EXCEPT !.age = @ + 1]
        ELSE bookings[b]]

(* A deletion that cascades over the rows B. *)
DeleteBookings(B) ==
    bookings' = [b \in BookingId |->
        IF b \in B THEN [bookings[b] EXCEPT !.status = "NONE"] ELSE bookings[b]]

(* updateSeatStatus *)
UpdateSeat(s, status) == seats' = [seats EXCEPT ![s] = status]
===============================================================================
