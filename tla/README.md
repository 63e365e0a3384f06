# AeroLock: formal models of the reservation core

AeroLock (`src/`, NestJS with PostgreSQL through Prisma and Redis through ioredis) sells the
seats of flights. A passenger holds a seat for five minutes, confirms the hold or lets it
lapse; cancelled and lapsed seats go to the passenger of highest customer lifetime value
(CLV) on the flight's waitlist. Administrators keep the catalogue and the accounts. This
directory holds TLA+ models of all of that, the TLC configurations that check them on small
instances, and proofs of the safety properties for instances of every size.

Paths below are relative to the application's source directory (`src/src/`) unless they
start with `src/`.

## 1. Inventory

| Part | State | Operations | Model |
| --- | --- | --- | --- |
| Seat locks, `bookings/service/seat-lock.service.ts` | Redis keys `seat:{flight}:{seat}` with a TTL of 300 s | `lockSeat` (SET NX EX), `hasLock` (EXISTS), `releaseLock` (DEL) | `SeatLocks` |
| Bookings, `bookings/service/bookings.service.ts` | none of its own | `lockSeat`, `confirmBooking`, `cancelBooking`, `adminCancelBooking`, queries | `BookingService` |
| Cleanup, `bookings/service/booking-cleanup.service.ts` | the list a run is working through | `cleanupExpiredBookings`, started every minute | `BookingCleanup` |
| Reassignment, `waitlist/service/seat-reassignment.service.ts` | none | `assignSeat`, called at the end of a cancellation and of a cleanup item | `SeatReassignment` |
| Waitlist, `waitlist/service/waitlist.service.ts`, `waitlist-redis.service.ts` | a sorted set per flight in Redis, score = CLV | `joinWaitlist`, `leaveWaitlist`, `getFlightWaitlist` | `WaitlistService`, `WaitlistStore` |
| Tables (`src/prisma/schema.prisma`, the repositories) | `bookings`, `seats`, `waitlist` | one statement per method, never a transaction, writes without a condition | `BookingStore`, `WaitlistStore` |
| Seats service, `flights/service/seats.service.ts` | none | `updateSeatStatus` (administrator), queries | `SetSeat` in `BookingService` |
| Infrastructure failing | | rejected statements, lost answers, commands sent twice, restarts, a Redis that comes back empty | `ReservationFaults` |
| Flight catalogue, `flights/service/flights.service.ts` | `flights`, creation of `seats` | create, update, cascading delete, queries | `Catalogue`, and `Removals` for the cascade |
| Authentication, `auth/` | signed tokens, in the clients' hands | register, login, the guards, profile | `Sessions`, `Accounts` |
| Users, `users/` | `users` | update, cascading delete, queries | `Accounts`, and `Removals` for the cascade |
| Admin bootstrap, `auth/service/admin-bootstrap.service.ts` | none | creates the administrator at start-up | `Accounts` |
| Seed script, `src/prisma/seed.ts` | none | fills an empty database | initial states of `Removals` |
| Admin statistics, notifications, health, exception filter, wiring | none that outlives a call | reads, console output, framework wiring | no |

**How the parts interact.** Controllers call the services with the account id of the token.
`BookingService` and `BookingCleanupService` share the `bookings` and `seats` tables, the
Redis keys, and `SeatReassignmentService`, which both call last, in the same handler.
`SeatReassignmentService` reads the sorted set, then the waitlist table, then the bookings,
and writes a lock, a booking, a seat, a row and a member. `WaitlistService` writes the row
and then the member. `UsersService` and `FlightsService` delete a row, and the foreign keys of
the schema take its bookings, waitlist rows and seats with it in the same statement; Redis
and the seats of other flights are not touched. The guards believe a token and never look at
the account. Nothing else ties the parts together: no transaction, no message, no
compensation, no event.

**What is hard.** Node.js runs one statement of one handler at a time, but each `await`
hands control to any other handler, so two requests, or a request and the cron job,
interleave between any two statements. Every status is written over what was read one or
more awaits earlier. The only mutual exclusion is the NX of the seat key, and that key has
no owner as far as the code is concerned: `hasLock` and `releaseLock` never look at its
value. Time enters twice, as the TTL of a key and as the age of a booking. PostgreSQL and
Redis are written one after the other, so that a failure between two statements leaves them
disagreeing, and nothing is replayed after a restart.

**What makes each part correct.**

* locks: at most one handler between SET and the write of the seat; a key never outlives the
  hold it protects in the sense that matters (a hold is expired only after its key has
  gone);
* bookings: at most one LOCKED or CONFIRMED booking per seat; an ended booking stays as it
  ended once the handlers that had read it are through; a confirmation passes under its own
  passenger's lock; the seat's status agrees with its bookings once nobody works on it;
* cleanup: every hold ends; no seat stays LOCKED for good; a booking that has ended, or was
  paid for before a run listed it, is left alone;
* reassignment: the promoted passenger outranks the others; one promotion per place; a
  promotion gives up a place only for a hold it has made for the passenger, or for a seat
  the passenger has confirmed;
* waitlist: one row per passenger and flight; both copies agree;
* deletions: nothing of a deleted account or flight comes back through a handler in flight;
  what stays behind in Redis and in the seats' statuses is known and bounded;
* back office: addresses and flight numbers stay unique although they are looked up and
  written in different statements; a token never tells a lie about a role and dies after its
  account; a flight comes with its whole cabin; an id lives once, which is what the
  reservation core relies on.

The hazards behind these, each at its line, are listed in `PROJECT.json`.

## 2. Modules

```
Domain                 accounts, flights, seats, TTL, the enums of the schema
 ├─ SeatLocks          the Redis keys                     lock
 ├─ BookingStore       the two tables                     bookings, seats
 └─ WaitlistStore      table and sorted sets              rows, issued, zset
      └─ Handlers      what is in flight in the server    job, todo
           ├─ BookingService     ├─ BookingCleanup
           ├─ SeatReassignment   └─ WaitlistService
                └─ Reservations            Init, Next, Spec, fairness, all properties
                     │   SeatInventory     abstract specification (INSTANCE ... WITH)
                     ├─ ReservationInvariant   premises and the inductive invariant
                     │    ├─ WaitlistInvariant      the same of the waitlist
                     │    │    └─ MCReservations    instances for TLC
                     │    └─ ReservationTypes
                     │         ├─ ReservationProofs ── StatusProofs
                     │         ├─ WaitlistProofs
                     │         │    └─ WaitlistSyncProofs   with ReservationProofs, WaitlistInvariant
                     │         │         └─ RemovalProofs   with RemovalInvariant
                     │         └─ FaultProofs       with ReservationFaults
                     ├─ ReservationFaults ── MCFaults
                     └─ Removals               accounts, flights
                          └─ RemovalInvariant       with WaitlistInvariant
                               └─ MCRemovals        instances for TLC

Sessions               the server process, requests, tokens   server, call, tokens
 ├─ Accounts           the users table                    users, registered
 └─ Catalogue          flights and their seats            schedule, launched, cabin
      └─ Administration    Init, Next, Spec, properties
           │   Registry        abstract specification (INSTANCE ... WITH, twice)
           └─ AdministrationProofs
```

The two halves meet in the ids of accounts and flights. `Registry` is what one half promises
(an id is handed out once and does not return) and the other relies on: `Removals` has
accounts and flights that can only go.

**State and code.** `bookings[b]` is the row with id `b` (status `NONE` until it has been
inserted; `createdAt` is kept as an age). `seats[s]` is the status column. `lock[<<f, s>>]`
is the key `seat:f:s` and the ticks left to it. `rows[e]` is a waitlist row and `zset[f]`
the members of the flight's sorted set; the score of a member is `Clv[u]`, which no endpoint
changes once an account exists. A booking row that a deletion takes is `NONE` again: it is
hidden from every query, its other fields stay for the handlers that read it before, and its
id is not handed out again. `job[h]` is a handler in flight: the point reached and what
it keeps from earlier reads; `todo[h]` is the rest of a cleanup run's list.

**Actions and code.** One action is one awaited statement together with the synchronous code
up to the next one. The reads with which a handler validates its input are one action
(`LockCheck`, `ConfirmCheck`, `CancelCheck`, `AdminCancelCheck`, `JoinCheck`, `LeaveCheck`);
of several such reads only the last looks at something that changes here (a deletion between
two of them shows as one right after the last), and a request that fails validation changes
nothing and is no step. From then on the names follow the code:
hold = `LockAcquire`, `LockCreate`, `LockSeat`; confirm = `ConfirmLock`, `ConfirmStatus`,
`ConfirmSeat`; cancel = `CancelStatus`, `CancelSeat`, `CancelRelease` and then the eight
`Assign...` actions; cleanup = `CleanupFind`, `CleanupStatus`, `CleanupSeat` and then
`Assign...` for each item; join = `JoinConfirmed`, `JoinCreate`, `JoinMember`; leave =
`LeaveRow`, `LeaveMember`. `Tick` is the passing of time. `Finish` is the return or throw of
a handler: a request goes idle, a cleanup run goes on with its list, because the `try` is
inside its loop. `Rejected` is a statement that throws.

In `Removals`, `DeleteUser` and `DeleteFlight` are the two cascading statements; every other
step is one of `Reservations`, unless it refers to a row that has gone (`Misses`: a foreign
key of an insert, the record of an update), in which case it is rejected. `AssignUserGone` is
the branch of `assignSeat` for a passenger who has been deleted
(`waitlist/service/seat-reassignment.service.ts:49-61`). The administrator's write of a seat's status
is left out here. Initially the database is empty but for the catalogue, or it is what the
seed script leaves.

In `Administration` a request is its checks and its write (`RegisterCheck`,
`RegisterCreate`; `UpdateUserCheck`, `UpdateUser`; and so on), with everything between the
two to others; a write that a unique column or a missing record forbids answers with an
error. `Login` reads the row and `SignToken` signs what was read. `BootCheck` and
`BootCreate` run before the server listens, so no request is in flight (the hook is
`onModuleInit`). A role in the body of an update does not reach the service, because the
validation pipe admits listed fields only (`main.ts:14-20`).

Worth knowing when reading them: `joinWaitlist` does not look at the seats, so one can join
the waitlist of a flight that is not full, although `src/README.md:145` speaks of fully
booked flights; the cleanup does not delete the Redis key, although `src/README.md:29` says
it clears stale locks (the TTL does); a member found without a row ends the attempt to
reassign instead of trying the next one; a deleted account leaves the seat of its active
booking LOCKED or BOOKED until an administrator writes its status, although
`src/README.md:30` promises reallocation without intervention (of unpaid holds, which a
deletion also takes); seeded waitlist rows are never in Redis (`src/prisma/seed.ts:193`), so
that those passengers are listed, never promoted and cannot join; a customer who has
registered the ADMIN_EMAIL before the first bootstrap is taken for the administrator, and
the system then has none.

### The premises

The code does not keep requests on one seat apart, and without any such assumption it is not
safe: see `race_double_sale` below. What is checked and proved of safety therefore names its
assumptions on the traffic as two constants:

* `Exclusive`: pairs of request kinds never in flight together on one seat. `Premises` asks
  that a cancellation overlaps no other handler on its seat and that the cleanup overlaps
  neither a confirmation nor another cleanup there. Holds still race with holds, with
  confirmations and with the cleanup and its promotions.
* `Prompt`: no key lapses while a handler is on its way to take that seat, from its look at
  the seat (for a promotion, at the waitlist) to the write that marks the seat. Handlers
  take milliseconds, keys minutes. Under confirmations, cancellations and the cleanup keys
  may lapse at any point.
* no administrator writes a seat's status by hand (`"setseat" \notin Ops`).

Each is needed. A confirmation reads LOCKED, waits for Redis and writes CONFIRMED whatever
has happened since, so a cancellation or the cleanup in between loses its write. A
cancellation that is answered late frees a seat and deletes a key that may by then be
another passenger's (`releaseLock` never looks whose it is), after which a third one can
hold the same seat. A cleanup run that overlaps the next writes over what the other has
already passed on. A key that lapses between the two statements of a hold lets a second hold
in. A status written by hand contradicts the bookings at once. So `IInv`, `OneActive`,
`SaleAgrees`, `ConfirmedUnderOwnLock`, `ExpiredOnlyUnlocked` and the refinement say nothing
of these overlaps; what they can lead to is `race_double_sale`, and what they cannot lead to
is `StatusLifecycle`.

The properties that need no premise (`HoldResolves`, `StatusLifecycle`, `OneRowEach`,
`TypeOK`, `NoOrphans`, `NeverRevived`) are checked, or proved, without. Two
properties need more: `SeatStatusExact` that no new hold overlaps a confirmation on its seat
(the late LOCKED of a hold would overwrite BOOKED), and the agreement of the two waitlists
that a join overlaps neither a leave nor a promotion on its flight (the row and the member
are written one after the other).

`StatusLifecycle` is what is left of "cancelled and expired are final" when nothing is
assumed. The code does let a confirmation overwrite a cancellation, so the property speaks
of a booking that has ended and that no handler has still to write after an earlier reading
(`Ended`): from then on nobody gets to write it. Likewise a booking that is CONFIRMED and on
no cleanup's list (`Paid`) is never expired and never listed again.

`Admits` is a guard on the start of a handler only; it stands for the order in which
requests arrive and not for anything the server does.

## 3. Checks

`tlc -config X.cfg M` for every run of `PROJECT.json`. One seat suffices for most runs since
handlers of different seats meet only in the waitlist and in the cleanup's list; two request
slots and one cron run make every pair of handlers overlap (a cleanup run that overlaps the
next is in the proofs, where `Cron` is any set); two ticks, or three, cover a fresh, a
lapsing and an expired hold. The waitlist run has no cleanup: what a promotion does to the
waitlist is the same after a cancellation, and the run with both would have an instance too
large for two seats; promotions by the cleanup, which new holds may overtake, are in `seat_safety`, with
passengers joining, and in the proofs.

| Run | Instance | What it shows |
| --- | --- | --- |
| `seat_safety` | 1 seat, 2 passengers, 3 bookings, `Needed` = the premises | `TypeOK`, the inductive invariant `IInv`, `SaleAgrees`, `ConfirmedUnderOwnLock`, `ExpiredOnlyUnlocked`, that the core implements `SeatInventory`, and `PlaceKept` where a new hold takes the freed seat from under the cleanup's promotion |
| `two_seats` | 2 seats, a second flight on which they can be asked for in error, TTL 2, 2 bookings | `OneActive` while the cleanup works through a list of both seats |
| `seat_liveness` | `Strict`: as the premises, and no new hold overlaps a confirmation | `SeatStatusExact`, and `SeatReturns` under `CalmSpec` |
| `free_traffic` | no premise at all: keys may lapse at any point, an administrator writes statuses | every hold is resolved (`HoldResolves`) under `FairSpec`, and `StatusLifecycle` while confirmations, cancellations and cleanup runs overtake one another |
| `waitlist` | 2 seats, so that two promotions of one list can run at once; 2 passengers of different value, joins apart from leaves and promotions; no cleanup | the inductive invariant `QInv`, `WaitlistInSync`, `OneRowEach`, `PromotedOutranks`, `PlaceKept` |
| `faults` | one fault at any point, administrator writes, Redis loss | `HoldResolves`, `StatusLifecycle` |
| `removals` | 1 seat, 2 passengers, the premises of `waitlist`; accounts and the flight deleted at any point; empty or seeded database | `NoOrphans`, `NeverRevived`, `OneActive`, `WithheldByDeletion` and `GhostsAreDeleted`: what a deletion leaves behind is exactly a withheld seat and a member of the sorted set |
| `back_office` | 2 requests, 2 accounts, 2 flights, 2 addresses, 2 numbers, restarts with or without the bootstrap | `EmailUnique`, `NumberUnique`, `TokenRoleTrue`, `CabinComplete`, the refinement `IdsLiveOnce`, and `GhostTokensEnd` |
| `race_double_sale` | no exclusion | **violated**: `OneConfirmed` |
| `fault_leaks_seat` | one fault | **violated**: `SeatReturns` |
| `promoted_twice` | 2 seats, 2 slots | **violated**: `PromotedOnce` |
| `tie_order` | equal values | **violated**: `EqualsInOrderOfArrival` |

Deadlock is not checked: a server without requests rests, and the bounded tables fill up.
Permutations of the request slots, and in `waitlist` of the two seats, are used as symmetry
in safety runs only.

**Bounds.** `MaxBookings` and `MaxEntries` are the ids that may be issued; an insert beyond
them throws, as a rejected insert does in the code, so that the bound cuts no behaviour
short in an unrealistic way. `MaxFaults` bounds the faults of a behaviour. `TTL` counts
ticks. The age of a booking is kept up to `TTL + 1`, beyond which nothing distinguishes it.
With TTL 1 a hold lives through one tick and is expired after the second, which is the
code's strict comparison. In the back office `MaxAccounts` and `MaxFlights` are ids likewise
(two of each race for one address or number, and one is deleted while the other is made),
`TokenLife` 1 is a token that one tick ends, and `Rows` 1 a cabin of six seats; the proof of
`CompleteCabins` is for any number of rows.

**Faults.** `Throw` is a statement that is rejected and did nothing. A statement that took
effect although its answer was lost needs no action of its own: the handler stops one
statement later, which is `Throw` at that later statement. `Resent` is a Redis command that
ioredis sends again after a reconnect, and that takes effect twice: a SET NX then finds its
own key. `Restart` and `RedisLost` are the process and the data of Redis.

**Fairness.** `FairSpec` asks that time passes, that a handler in flight gets its next
statement served, and that the scheduler runs the cleanup again and again (strong fairness,
since `CleanupFind` is disabled whenever its run is busy or there is nothing to find). No
request is owed, and neither is a fault. `CalmSpec` adds that every seat is left alone again
and again: without it two passengers can keep a seat LOCKED for ever by holding and dropping
it in turn, and the cleanup would not be admitted to a seat that always has an exclusive
request on it. Under `free_traffic`, where nothing is exclusive, that assumption is not
used. The back office owes nothing but time: `GhostTokensEnd` uses weak fairness of the
clock, which is always enabled.

**What the violated runs show.**

1. `race_double_sale`: passenger A's confirmation has passed its checks; A's cancellation (a
   second tab, an impatient retry, an administrator) completes, frees the seat and deletes
   the key; the confirmation writes CONFIRMED over CANCELLED. B meanwhile holds and confirms
   the seat. Two CONFIRMED bookings of one seat, against `src/README.md:3`.
2. `fault_leaks_seat`: `EXPIRED` (or `CANCELLED`) has been written and the statement that
   frees the seat fails. The cleanup looks for LOCKED bookings only, so the seat stays
   LOCKED until an administrator intervenes, against `src/README.md:30`.
3. `promoted_twice`: two seats freed at once read the same top of the sorted set; the
   passenger gets two holds for one place, against the "pops" of `src/README.md:149`.
4. `tie_order`: the score is the CLV alone and Redis orders equal scores by the member
   string, so of two passengers of equal value the one whose id is greater *as a string*
   comes first. Registration gives everyone CLV 0 (`auth/service/auth.service.ts:41`), so
   this is the usual case. `src/README.md:14` asks for CLV alongside timestamps and the
   listing endpoint does order by arrival.

## 4. Proofs

The modules whose names end in `Proofs`, and `ReservationTypes`, are checked by `tlapm`, for
any finite or infinite sets of accounts, flights, seats, requests and cron runs, any TTL of
at least one tick and any number of rows of a cabin. They rest on the named assumptions of
`Domain`, `BookingStore`, `WaitlistStore`, `Handlers`, `ReservationFaults`, `Sessions`,
`Accounts` and `Catalogue` (the shapes of the constants; among them that `Nil` is no kind of
request) and, where the statement says so, on premises about the traffic.

| Theorem | States | Premises |
| --- | --- | --- |
| `TypeCorrect` | `Spec => []TypeOK` | none |
| `OneRowPerPassenger` | `Spec => []OneRowEach` | none |
| `InvariantHolds` | `Spec => []IInv` | `Premises` |
| `NoDoubleBooking` | `Spec => []OneActive` | `Premises` |
| `SaleStatusAgrees` | `Spec => []SaleAgrees` | `Premises` |
| `LifecycleKept` | `Spec => StatusLifecycle` | none |
| `OwnLock` | `Spec => ConfirmedUnderOwnLock` | `Premises` |
| `ExpiredUnlocked` | `Spec => ExpiredOnlyUnlocked` | `Premises` |
| `CoreImplementsInventory` | `Spec => ImplementsInventory` | `Premises` |
| `StatusExact` | `Spec => []SeatStatusExact` | `StrictPremises` |
| `WaitlistInvariantHolds` | `Spec => [](IInv /\ QInv)` | `WaitlistPremises` |
| `CopiesAgree` | `Spec => []WaitlistInSync` | `WaitlistPremises` |
| `NobodyPassedOver` | `Spec => PromotedOutranks` | `WaitlistPremises` |
| `PlacesHonoured` | `Spec => PlaceKept` | `WaitlistPremises` |
| `LifecycleThroughFaults` | `FaultSpec => StatusLifecycle` | none |
| `RemovalTypes` | `RemovalSpec => []RemovalType` | none |
| `OrphansNever` | `RemovalSpec => []NoOrphans` | none |
| `DeletedStaysDeleted` | `RemovalSpec => NeverRevived` | none |
| `CoreInvariantHolds` | `RemovalSpec => [](CoreInv /\ RInv)` | `Premises` |
| `NoDoubleBookingUnderDeletions` | `RemovalSpec => []OneActive` | `Premises` |
| `WithheldOnlyByDeletion` | `RemovalSpec => []WithheldByDeletion` | `Premises` |
| `GhostInvariantHolds` | `RemovalSpec => [](CoreInv /\ RInv /\ GInv)` | `WaitlistPremises` |
| `GhostsOnlyOfDeletion` | `RemovalSpec => []GhostsAreDeleted` | `WaitlistPremises` |
| `AdministrationTypes` | `Spec => []TypeOK` (back office) | none |
| `UniqueEmails`, `UniqueNumbers` | `EmailUnique`, `NumberUnique` | none |
| `TruthfulTokens` | `TokenRoleTrue` | none |
| `CompleteCabins` | `CabinComplete` | none |
| `IdsRefined` | `Spec => IdsLiveOnce` | none |

**Why an invariant is needed, and which.** `OneActive` is not inductive: nothing in it says
that the handler about to insert a booking is alone. A handler that has acquired a seat's
key and not yet marked the seat holds a *token*. `IInv` says:

* a token stands for a live key in its user's name, and a seat has one token at a time
  (`TokenLive`, `TokenUnique`), since SET NX needs the key to be gone;
* before its insert the token's seat has no passenger, after it its booking is active
  (`CreateFree`, `MarkActive`);
* a taken seat reads AVAILABLE only while a token is about to mark it (`OpenTaken`), so that
  whoever passes the check of a taken seat still finds its key alive and fails at SET NX
  (`SeekBlocked`). `Prompt` is what carries this across a tick;
* a hold under a live key is that key's owner's, and its age plus the key's remaining life
  is at most the TTL (`HoldLock`). Hence an expired hold has no live key, hence nobody holds
  a token or seeks its seat when the cleanup arrives (`CleanFree`), and hence the ownerless
  `hasLock` still answers for the right passenger;
* confirmations, cancellations and the cleanup find the booking as they read it
  (`ConfirmActive`, `CancelFree`, `TodoExpired`), by `Separation`: what `Admits` keeps apart
  at the start stays apart while it works.

`IInv` is `CoreInv /\ NoneDeleted`. The first part speaks of bookings that may have been
deleted under the handler that works on them, the second says that in `Reservations` none
is; so the lemmas of `ReservationProofs` about `CoreInv` serve the deletions as well.

`OneActive` then follows at the only step that inserts: the token excludes another active
booking, and the insert happens under it. The step lemmas are one per action. Most actions
touch one seat and move one handler, so frame lemmas (`NothingNew`, `Retreat`, `GiveUp`,
`GoOn`, `Elsewhere`) settle the conjuncts they do not disturb. `BookingMoves` classifies
what a step may do to the bookings table; the action properties and the refinement follow
from it and the invariant. The refinement maps each booking row to a ticket of
`SeatInventory` and forgets keys, handlers, seat statuses and time.

`StatusProofs` adds to `IInv` that BOOKED stands on a taken seat only for a confirmed booking
(`BookedSold`), that LOCKED stands on one only for a hold or while its confirmation has the
seat still to write (`LockedHeld`), and that whoever is about to mark a seat LOCKED does so
for a hold (`MarkHeld`); the last is where `StrictPremises` is used.

`WaitlistSyncProofs` adds `QInv`: the row a handler remembers is still its passenger's, or
gone, and the hold it has just made is that passenger's (`Memories`; ids are not reused,
`RowsIssued`), a member without a row is one that a
leave or a promotion is about to remove (`MemberLeft`), and a row without a member one whose
join is about to add it (`MemberMissing`). `JoinApart`, which `Admits` provides, keeps the
two from meeting. That every flight has a seat, which is a premise because a waitlist request
is kept apart seat by seat, is what `CompleteCabins` proves of the catalogue.

`ConfirmedUnderOwnLock` has two halves. When EXISTS lets a confirmation pass, `HoldLock` says
that the key is its passenger's. It may lapse before CONFIRMED is written, and the booking
still has the seat then (`ConfirmActive`); a key that is there at that moment is again its
passenger's by `HoldLock`, since nobody gets a new one on a taken seat.

`FaultProofs` does without `IInv`, which unrestricted traffic and the loss of Redis break,
and needs no more than `TypeOK`. Its step lemma (`Lowered`) says: a booking moves on only by
a handler that still has its status to write (`Moves`), and who becomes such a handler has
found the booking active, or for the cleanup LOCKED. So nobody becomes one for a booking
that has ended. Locks, seats and time do not occur in it, so no fault disturbs it: each only
takes something away that was still to be written (`Lowers`).

`RemovalProofs` shows that a step either leaves a booking whose it is, deletes it, or makes
it under an unused id for an account and a flight that exist (`Written`). The flight of a
seat in a handler's memory is right (`Placed`), so that a check of the flight is one of the
seat. That much needs no premise on the traffic (`RInv`). Under the premises each statement
keeps `CoreInv` by the lemma that keeps it in `Reservations`; what is new are a deletion
(`Abandoned`, `DeletionInv`: a seat can lose its booking and nothing else changes), a
statement that is rejected because its row has gone, and an item of the cleanup that is
skipped (`Skipped`). Where `IInv` says that a confirmation or a cancellation finds its
booking active, `CoreInv` says active or deleted (`Lost`); where it says that a free seat is
on sale unless a cancellation or the cleanup is about to free it, `CoreInv` adds: or a
booking of it has been deleted. Read at a quiet seat, that is `WithheldByDeletion`.

For the sorted sets `QInv` cannot hold: the seed script writes rows without members, and a
deletion takes rows from under joins and promotions. `GInv` keeps the half that survives: a
member without a row is about to be removed, or its account or flight has gone
(`MemberOwed`). The delicate step is a join whose account is deleted between its row and its
member: it adds a member for nobody, hence the second disjunct of `Trail`. That a leave or a
promotion does not take the row of such a join is `JoinerAlone`, from `JoinApart`.

`CoreInv` and `GInv` are not in `Removals.cfg`, whose run they would make half as long again:
`MCRemovals` extends their module, and with the two added to its INVARIANTS TLC finds them
true of the instance's 1,589,649 states.

`AdministrationProofs` strengthens uniqueness with what is remembered by the requests in
flight (`CallShape`, `SignTrue`): a signature under way names the role that the account has
had since it was made. Since ids are not reused (`TokensOld`), a token of a deleted account
never becomes one of another.

**Only model-checked:** liveness (`SeatReturns`, `HoldResolves`, `GhostTokensEnd`), which is
out of reach of the prover, and the four violations. Every invariant and every action
property that a passing run checks is proved.

## 5. What is not modelled

* **Clock skew** between the application, PostgreSQL and Redis: one tick moves all of them.
  `ExpiredOnlyUnlocked` is where a skewed clock would show.
* **Reads without consequences**: queries, counts, statistics, health.
* **Notifications** (synchronous console output without state), formatting of responses,
  validation of DTOs, password hashing and the signature of tokens (library code), the
  wiring of the framework.
* **Migrations**, which are the schema, and the random names, times and prices of the seed
  script. The script runs alone and clears the tables first, so that only what it leaves
  matters here.
* **Times and places of flights**: nothing in the code depends on them, a departed flight
  can be booked like any other.

## 6. What could come next

1. A tick per clock, with a bound on their difference, to find the drift that the strict
   comparison of the cleanup tolerates.
2. The refinement of `SeatInventory` under deletions, with a step that withdraws a ticket.
3. The weakest premises for `OneActive`: `Premises` is shown to suffice, not to be minimal.
4. A repaired `confirmBooking` and cleanup, with a status compared in the statement that
   overwrites it, shown to need no premise.
