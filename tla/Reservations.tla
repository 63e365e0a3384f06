------------------------------ MODULE Reservations ------------------------------
(***************************************************************************)
(* The reservation core of AeroLock: requests, the cleanup job and the      *)
(* clock working on the same PostgreSQL tables and Redis keys.              *)
(***************************************************************************)
EXTENDS BookingService, BookingCleanup, SeatReassignment, WaitlistService

Init ==
    /\ LocksInit
    /\ StoreInit
    /\ WaitlistInit
    /\ HandlersInit

(* The clock advances: keys lose life and bookings age together.  Prompt *)
(* keeps a key from lapsing under a handler that is taking its seat.     *)
Tick ==
    /\ Prompt => \A s \in Seat, h \in Handler :
                    lock[<<FlightOf[s], s>>].ttl = 1 => ~ Takes(h, s)
    /\ LocksElapse
    /\ BookingsAge
    /\ UNCHANGED <<seats, waitlist, job, todo>>

(* The next statement of a handler in flight. *)
Step(h) == BookingStep(h) \/ CleanupStep(h) \/ AssignStep(h) \/ WaitlistStep(h)

Next ==
    \/ Tick
    \/ \E h \in Proc : BookingRequest(h) \/ WaitlistRequest(h)
    \/ \E h \in Cron : CleanupFind(h)
    \/ \E h \in Handler : Step(h)
    \/ \E s \in Seat, status \in SeatStatus : SetSeat(s, status)

Spec == Init /\ [][Next]_vars

(* Time passes, a handler in flight gets its next statement served, and the *)
(* scheduler runs the cleanup again and again.  No request is ever owed.    *)
Fairness ==
    /\ SF_vars(Tick)
    /\ \A h \in Handler : WF_vars(Step(h))
    /\ \A h \in Cron : SF_vars(CleanupFind(h))

FairSpec == Spec /\ Fairness

(* Traffic that leaves every seat alone again and again. *)
CalmSpec == FairSpec /\ \A s \in Seat : []<>Quiet(s)

-------------------------------------------------------------------------------
TypeOK == LocksType /\ StoreType /\ WaitlistType /\ HandlersType

(* No double booking: at most one booking entitles to a seat. *)
OneActive ==
    \A s \in Seat, b, c \in BookingId : ActiveOn(b, s) /\ ActiveOn(c, s) => b = c

(* README.md:3 and :11: the same seat is never confirmed for two bookings. *)
OneConfirmed ==
    \A s \in Seat, b, c \in BookingId :
        /\ ActiveOn(b, s) /\ bookings[b].status = "CONFIRMED"
        /\ ActiveOn(c, s) /\ bookings[c].status = "CONFIRMED"
        => b = c

(* The handler has read the booking and still has to write its status. *)
StillWrites(h, b) ==
    \/ b \in todo[h]
    \/ /\ job[h].pc \in {"confirm_lock", "confirm_status", "cancel_status"}
       /\ job[h].booking = b

(* The booking has ended and whoever had read it before is through with it, *)
Ended(b) ==
    /\ bookings[b].status \in {"CANCELLED", "EXPIRED"}
    /\ \A h \in Handler : ~ StillWrites(h, b)

(* or it is paid for and on the list of no cleanup. *)
Paid(b) ==
    /\ bookings[b].status = "CONFIRMED"
    /\ \A h \in Handler : b \notin todo[h]

(* What overtaking handlers can do to a booking ends with them.  Its status *)
(* is written over by those alone that had read it before it moved on; once *)
(* they are through, an ended booking stays as it ended, and a paid one is  *)
(* not expired and never gets onto the list of a cleanup again.             *)
StatusLifecycle ==
    [][\A b \in BookingId :
         /\ Ended(b) => Ended(b)' /\ bookings'[b].status = bookings[b].status
         /\ Paid(b) => /\ bookings'[b].status \in {"CONFIRMED", "CANCELLED"}
                        /\ \A h \in Handler : b \notin todo'[h]]_vars

(* Once no handler is working on a seat it is on sale if and only if no *)
(* booking entitles to it.                                              *)
SaleAgrees ==
    \A s \in Seat : Quiet(s) =>
        (seats[s] = "AVAILABLE" <=> \A b \in BookingId : ~ ActiveOn(b, s))

(* The lock that lets a confirmation pass is its own passenger's, although  *)
(* only its existence is asked for.  It may lapse before the hold is then   *)
(* confirmed, but nobody else has taken it in the meantime.                 *)
ConfirmedUnderOwnLock ==
    [][\A b \in BookingId : bookings[b].status = "LOCKED" =>
         LET Own == lock[<<bookings[b].flight, bookings[b].seat>>].holder = bookings[b].user
         IN  /\ \A h \in Handler :
                    At(h, "confirm_lock") /\ job[h].booking = b /\ job'[h].pc = "confirm_status"
                        => HasLock(bookings[b].flight, bookings[b].seat) /\ Own
             /\ bookings'[b].status = "CONFIRMED" =>
                    (HasLock(bookings[b].flight, bookings[b].seat) => Own)]_vars

(* A hold is expired only when the lock that protected it has lapsed: the   *)
(* two clocks, key life and row age, never disagree in the other direction. *)
ExpiredOnlyUnlocked ==
    [][\A b \in BookingId :
         bookings[b].status = "LOCKED" /\ bookings'[b].status = "EXPIRED" =>
             ~ HasLock(bookings[b].flight, bookings[b].seat)]_vars

(* Refinement of the abstract inventory: a booking row is a ticket. *)
TicketState == [NONE |-> "none", LOCKED |-> "held", CONFIRMED |-> "sold",
                CANCELLED |-> "cancelled", EXPIRED |-> "expired"]

TicketOf == [b \in BookingId |-> [state |-> TicketState[bookings[b].status],
                                  seat |-> bookings[b].seat]]

Inventory == INSTANCE SeatInventory WITH Ticket <- BookingId, ticket <- TicketOf

ImplementsInventory == Inventory!Spec
-------------------------------------------------------------------------------
(* Once no handler is working on a seat its status names the booking that *)
(* has it: LOCKED for a hold, BOOKED for a confirmed booking.             *)
SeatStatusExact ==
    \A s \in Seat : Quiet(s) =>
        /\ seats[s] = "LOCKED" <=>
               \E b \in BookingId : bookings[b].seat = s /\ bookings[b].status = "LOCKED"
        /\ seats[s] = "BOOKED" <=>
               \E b \in BookingId : bookings[b].seat = s /\ bookings[b].status = "CONFIRMED"

(* A seat is never withheld for good by a passenger who does not confirm. *)
SeatReturns == \A s \in Seat : seats[s] = "LOCKED" ~> seats[s] # "LOCKED"

(* Every hold ends, whatever the traffic does. *)
HoldResolves ==
    \A b \in BookingId : bookings[b].status = "LOCKED" ~> bookings[b].status # "LOCKED"

-------------------------------------------------------------------------------
(* The two copies of a flight's waitlist agree when nobody works on it. *)
WaitlistInSync ==
    \A f \in Flight : (\A s \in SeatsOf(f) : Quiet(s)) =>
        zset[f] = {u \in User : Listed(u, f)}

(* A passenger has at most one row per flight. *)
OneRowEach ==
    \A e, d \in EntryId : rows[e] # NoRow /\ rows[e] = rows[d] => e = d

(* The handler h promotes its passenger in this step. *)
Promotes(h) == job[h].pc = "assign_create" /\ job'[h].pc = "assign_seat"

(* A promotion never passes over a more valuable passenger of the flight's *)
(* waitlist table, although it was decided on the Redis copy of it.        *)
PromotedOutranks ==
    [][\A h \in Handler : Promotes(h) =>
         \A v \in User : Listed(v, job[h].flight) => Clv[job[h].user] >= Clv[v]]_vars

(* The handler h decides in this step to take its passenger off the table. *)
GivesUp(h) == ~ At(h, "assign_row") /\ job'[h].pc = "assign_row"

(* The handler has a hold on its seat for its passenger, in force. *)
HasSeated(h) ==
    /\ ActiveOn(job[h].booking, job[h].seat)
    /\ bookings[job[h].booking].user = job[h].user

(* Nobody loses a place on the waitlist but by leaving or for a seat: a       *)
(* promotion gives up a place only for the hold on the freed seat that it     *)
(* has just made for the passenger, still in force, or for a seat of the      *)
(* flight that the passenger has confirmed; and rows go one at a time, by the *)
(* handler that gave up, or whose passenger leaves, this very place.          *)
PlaceKept ==
    [][/\ \A h \in Handler : GivesUp(h) =>
              HasSeated(h) \/ ConfirmedOn(job[h].user, job[h].flight)
       /\ \A e \in EntryId : rows[e] # NoRow /\ rows'[e] = NoRow =>
              \E h \in Handler :
                  /\ At(h, "leave_row") \/ At(h, "assign_row")
                  /\ job[h].entry = e /\ IsRowOf(e, job[h].user, job[h].flight)
                  /\ job'[h] # job[h]]_vars

-------------------------------------------------------------------------------
(* README.md:149: the passenger is popped, hence promoted once per place. *)
PromotedOnce ==
    [][\A h \in Handler : Promotes(h) => rows[job[h].entry] # NoRow
         /\ \A g \in Handler \ {h} :
               ~ (job[g].pc \in {"assign_seat", "assign_row"} /\ job[g].entry = job[h].entry)]_vars

(* README.md:14: among equals the passenger who came first is promoted. *)
EqualsInOrderOfArrival ==
    [][\A h \in Handler : Promotes(h) =>
         \A e \in EntryId :
             /\ rows[e].flight = job[h].flight
             /\ e < job[h].entry
             => Clv[rows[e].user] < Clv[job[h].user]]_vars

===============================================================================
