-------------------------------- MODULE Domain --------------------------------
(***************************************************************************)
(* What every part of AeroLock shares: the accounts, flights and seats that *)
(* exist, which flight a seat belongs to, and how long a hold lasts.        *)
(* They are fixed here: creating and deleting them is another component.    *)
(***************************************************************************)
EXTENDS Naturals

CONSTANTS
    User,       \* accounts
    Flight,     \* flights of the catalogue
    Seat,       \* seats of all flights
    FlightOf,   \* the flightId column of each seat
    TTL,        \* lifetime of a hold, in ticks of the clock (300 s in the code)
    Nil         \* null

ASSUME DomainAssumption ==
    /\ FlightOf \in [Seat -> Flight]
    /\ TTL \in Nat \ {0}
    /\ Nil \notin User \cup Flight \cup Seat

SeatStatus == {"AVAILABLE", "LOCKED", "BOOKED"}

(* "NONE" marks a row that is not in the table. *)
BookingStatus == {"NONE", "LOCKED", "CONFIRMED", "CANCELLED", "EXPIRED"}
===============================================================================
