-------------------------------- MODULE Removals --------------------------------
(***************************************************************************)
(* Reservations when an administrator deletes accounts and flights under    *)
(* the handlers in flight.  The foreign keys of the schema cascade: the     *)
(* bookings and the waitlist rows of a deleted account or flight go in the  *)
(* same statement.  What is not in PostgreSQL stays (keys, members), and so *)
(* does the status of the seats a deleted account had.  A handler finds out *)
(* at its next statement that needs the row, which is then rejected.        *)
(***************************************************************************)
EXTENDS Reservations, Functions

VARIABLES
    accounts,   \* ids in the users table
    flights     \* ids in the flights table; the seats of a flight go with it

removalVars == <<vars, accounts, flights>>
tables == <<accounts, flights>>

RemovalType == TypeOK /\ accounts \in SUBSET User /\ flights \in SUBSET Flight

Exists(b) == bookings[b].status # "NONE"
SeatExists(s) == FlightOf[s] \in flights

-------------------------------------------------------------------------------
(* seed.ts: some passengers, one to a seat, have a confirmed booking, and    *)
(* each of the others one row of the waitlist table.  Nothing is in Redis.  *)
(* A booking takes users[(flight.id - 1) * 10 + i]: who has one depends on  *)
(* how often the script has run, and nobody has one after the second time.  *)
SeededBookings ==
    \E n \in 0 .. MaxBookings :
        \E user \in Injection(1 .. n, User), seat \in Injection(1 .. n, Seat) :
            /\ bookings = [b \in BookingId |->
                   IF b > n THEN NoBooking
                   ELSE [user |-> user[b], flight |-> FlightOf[seat[b]], seat |-> seat[b],
                         status |-> "CONFIRMED", age |-> 0]]
            /\ seats = [s \in Seat |->
                   IF \E b \in 1 .. n : seat[b] = s THEN "BOOKED" ELSE "AVAILABLE"]

SeededWaitlist ==
    LET Left == {u \in User : \A b \in BookingId : bookings[b].user # u}
    IN  /\ issued \in 0 .. MaxEntries
        /\ \E user \in Bijection(1 .. issued, Left), flight \in [1 .. issued -> Flight] :
               rows = [e \in EntryId |->
                   IF e > issued THEN NoRow ELSE [user |-> user[e], flight |-> flight[e]]]
        /\ zset = [f \in Flight |-> {}]

(* A database that is still empty but for the catalogue, or a seeded one. *)
RemovalInit ==
    /\ LocksInit
    /\ HandlersInit
    /\ \/ StoreInit /\ WaitlistInit
       \/ SeededBookings /\ SeededWaitlist
    /\ accounts = User
    /\ flights = Flight

-------------------------------------------------------------------------------
(* The waitlist rows of the deleted account forgotten. *)
MutDeleteUserKeepsRows(u) ==
    /\ u \in accounts
    /\ accounts' = accounts \ {u}
    /\ DeleteBookings({b \in BookingId : bookings[b].user = u})
    /\ UNCHANGED <<locks, seats, waitlist, job, todo, flights>>
(* A deletion that frees the seats of all bookings of the account. *)
MutDeleteUserFreesSeats(u) ==
    /\ u \in accounts
    /\ accounts' = accounts \ {u}
    /\ DeleteBookings({b \in BookingId : bookings[b].user = u})
    /\ DeleteRows({e \in EntryId : rows[e].user = u})
    /\ seats' = [s \in Seat |-> IF \E b \in BookingId : /\ bookings[b].user = u
                                                       /\ bookings[b].seat = s
                               THEN "AVAILABLE" ELSE seats[s]]
    /\ UNCHANGED <<locks, issued, zset, job, todo, flights>>
(* DELETE /users/:id *)
DeleteUser(u) ==
    /\ u \in accounts
    /\ accounts' = accounts \ {u}
    /\ DeleteBookings({b \in BookingId : bookings[b].user = u})
    /\ DeleteRows({e \in EntryId : rows[e].user = u})
    /\ UNCHANGED <<locks, seats, issued, zset, job, todo, flights>>

(* DELETE /flights/:id *)
DeleteFlight(f) ==
    /\ f \in flights
    /\ flights' = flights \ {f}
    /\ DeleteBookings({b \in BookingId : bookings[b].flight = f})
    /\ DeleteRows({e \in EntryId : rows[e].flight = f})
    /\ UNCHANGED <<locks, seats, issued, zset, job, todo, accounts>>

(* Some row that the statement refers to is no longer there: *)
NeedsOwner(h) == job[h].pc \in {"lock_create", "assign_create", "join_create"}
NeedsSeat(h) == job[h].pc \in {"lock_create", "lock_seat", "confirm_seat", "cancel_seat",
                               "clean_seat", "assign_create", "assign_seat"}
NeedsBooking(h) == job[h].pc \in {"confirm_status", "cancel_status"}

(* updateStatus as an upsert. *)
MutMisses(h) ==
    \/ NeedsOwner(h) /\ ~ (job[h].user \in accounts /\ job[h].flight \in flights)
    \/ NeedsSeat(h) /\ ~ SeatExists(job[h].seat)
(* a foreign key of an insert, or the record of an update. *)
Misses(h) ==
    \/ NeedsOwner(h) /\ ~ (job[h].user \in accounts /\ job[h].flight \in flights)
    \/ NeedsSeat(h) /\ ~ SeatExists(job[h].seat)
    \/ NeedsBooking(h) /\ ~ Exists(job[h].booking)

(* findById of the passenger comes between the lookups of the row and of the *)
(* booking; it finds nobody only if the account has gone since the first.    *)
(* The member is removed, and removing the row as well is then rejected.     *)
AssignUserGone(h) ==
    /\ At(h, "assign_confirmed")
    /\ job[h].user \notin accounts
    /\ Goto(h, "assign_member")
    /\ UNCHANGED <<locks, store, waitlist, todo>>

(* An item of the cleanup whose booking has gone is skipped. *)
CleanupItem(h) ==
    \/ CleanupStatus(h) /\ Exists(job'[h].booking)
    \/ \E b \in todo[h] : ~ Exists(b) /\ CleanupSkip(h, b)

(* The statements of Reservations, on tables that may have lost rows. *)
Statement(h) ==
    \/ Misses(h) /\ Rejected(h)
    \/ ~ Misses(h) /\ ~ At(h, "clean_next") /\ Step(h)

(* What a request looks up before it begins. *)
Request(h) ==
    \/ \E u \in accounts, f \in flights, s \in Seat : LockCheck(h, u, f, s)
    \/ \E u \in accounts, f \in flights : JoinCheck(h, u, f)
    \/ \E u \in User, b \in BookingId : ConfirmCheck(h, u, b) \/ CancelCheck(h, u, b)
    \/ \E b \in BookingId : AdminCancelCheck(h, b)
    \/ \E e \in EntryId : LeaveCheck(h, e)

Work(h) == Statement(h) \/ CleanupItem(h) \/ AssignUserGone(h)

RemovalNext ==
    \/ Tick /\ UNCHANGED tables
    \/ \E h \in Proc : Request(h) /\ UNCHANGED tables
    \/ \E h \in Cron : CleanupFind(h) /\ UNCHANGED tables
    \/ \E h \in Handler : Work(h) /\ UNCHANGED tables
    \/ \E u \in User : DeleteUser(u)
    \/ \E f \in Flight : DeleteFlight(f)

RemovalSpec == RemovalInit /\ [][RemovalNext]_removalVars

-------------------------------------------------------------------------------
(* No handler in flight at a deletion brings anything back: every booking and *)
(* every waitlist row belongs to an account and to a flight that exist.       *)
NoOrphans ==
    /\ \A b \in BookingId : Exists(b) =>
           /\ bookings[b].user \in accounts
           /\ bookings[b].flight \in flights
           /\ SeatExists(bookings[b].seat)
    /\ \A e \in EntryId : rows[e] # NoRow =>
           rows[e].user \in accounts /\ rows[e].flight \in flights

(* A handler that read a booking before it was deleted does not revive it. *)
NeverRevived ==
    [][\A b \in BookingId : bookings[b] # NoBooking /\ ~ Exists(b) =>
         bookings'[b].status = "NONE"]_removalVars

(* A deletion never puts a taken seat on sale, and a seat nobody works on is *)
(* withheld without a booking only where a deleted booking had taken it.     *)
WithheldByDeletion ==
    \A s \in Seat : Quiet(s) /\ SeatExists(s) =>
        LET Taken == \E b \in BookingId : ActiveOn(b, s)
        IN  /\ seats[s] = "AVAILABLE" => ~ Taken
            /\ seats[s] # "AVAILABLE" => Taken \/
                   \E b \in BookingId : bookings[b].seat = s /\ ~ Exists(b)

(* Once nobody works on a flight, the sorted set holds nobody without a row *)
(* but deleted accounts: what they cost is one attempt to reassign each.    *)
GhostsAreDeleted ==
    \A f \in flights : (\A s \in SeatsOf(f) : Quiet(s)) =>
        \A u \in zset[f] : Listed(u, f) \/ u \notin accounts
===============================================================================
