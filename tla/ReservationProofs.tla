--------------------------- MODULE ReservationProofs ---------------------------
(***************************************************************************)
(* The safety of Reservations under its Premises, for every number of       *)
(* passengers, flights, seats, bookings and handlers.                       *)
(***************************************************************************)
EXTENDS ReservationTypes

(* Every handler but h, and its list, is left alone. *)
Others(h) == \A g \in Handler \ {h} : job'[g] = job[g] /\ todo'[g] = todo[g]

LEMMA Working ==
  ASSUME CoreInv, NEW h \in Handler, NEW s \in Seat, WorksOn(h, s)
  PROVE  job[h].kind \in SeatKinds
  <1>1. CASE job[h].seat = s
    <2>1. job[h].pc \in SeatPc
      BY <1>1, DomainAssumption DEF CoreInv, JobShape, Shape
    <2> QED
      BY <2>1 DEF CoreInv, JobShape, Shape, SeatPc, SeatKinds, CleanPc
  <1>2. CASE \E b \in todo[h] : bookings[b].seat = s
    BY <1>2 DEF CoreInv, JobShape, Shape, SeatKinds
  <1> QED
    BY <1>1, <1>2 DEF WorksOn

(* A cancellation is alone on its seat. *)
LEMMA CancelAlone ==
  ASSUME Premises, CoreInv, NEW h \in Handler, NEW g \in Handler, NEW s \in Seat,
         WorksOn(h, s), job[h].kind = "cancel", g # h
  PROVE  ~ WorksOn(g, s)
  BY Working DEF Premises, CoreInv, Separation

(* The cleanup shares a seat only with requests for a hold. *)
LEMMA CleanupAlone ==
  ASSUME Premises, CoreInv, NEW h \in Handler, NEW g \in Handler, NEW s \in Seat,
         WorksOn(h, s), job[h].kind = "cleanup", g # h, WorksOn(g, s)
  PROVE  job[g].kind = "lock"
  <1>1. {job[h].kind, job[g].kind} \notin Exclusive /\ {job[g].kind, job[h].kind} \notin Exclusive
    BY DEF CoreInv, Separation
  <1>2. {"cleanup", "cleanup"} = {"cleanup"}
    OBVIOUS
  <1> QED
    BY <1>1, <1>2, Working DEF Premises, SeatKinds

(* A live lock on another seat is another key. *)
LEMMA KeyType == \A s \in Seat : <<FlightOf[s], s>> \in Flight \X Seat
  BY DomainAssumption

-------------------------------------------------------------------------------
(* What is on a cleanup's list has been a booking. *)
LEMMA ListedUsed ==
  ASSUME CoreInv, NEW h \in Handler, NEW b \in todo[h]
  PROVE  b \in BookingId /\ bookings[b] # NoBooking
  BY DEF CoreInv, TypeOK, HandlersType, TodoExpired, ExpiredLocked, NoBooking

(* A seat's booking, lost or not, is not an id that has never been used. *)
LEMMA SeatUsed ==
  ASSUME NEW b \in BookingId, NEW s \in Seat, bookings[b].seat = s
  PROVE  bookings[b] # NoBooking
  BY DomainAssumption DEF NoBooking

(* Who puts a seat back keeps the booking it ended there. *)
LEMMA EndedKept ==
  ASSUME CoreInv, NEW h \in Handler, Others(h),
         \A b \in BookingId : bookings[b] # NoBooking => bookings'[b].seat = bookings[b].seat,
         \A s \in Seat : On(h, {"cancel_seat", "clean_seat"}, s)' =>
             job'[h].booking \in BookingId /\ bookings'[job'[h].booking].seat = s
  PROVE  EndedThere'
  <1>1. ASSUME NEW g \in Handler \ {h}, NEW s \in Seat,
               On(g, {"cancel_seat", "clean_seat"}, s)'
        PROVE  job'[g].booking \in BookingId /\ bookings'[job'[g].booking].seat = s
    <2>1. job'[g] = job[g] /\ On(g, {"cancel_seat", "clean_seat"}, s)
      BY <1>1 DEF Others, On
    <2>2. job[g].booking \in BookingId /\ bookings[job[g].booking].seat = s
      BY <2>1 DEF CoreInv, EndedThere
    <2> QED
      BY <2>1, <2>2, SeatUsed
  <1> QED
    BY <1>1 DEF EndedThere

(* Admission and what a handler drops keep exclusive kinds apart. *)
LEMMA SeparationKept ==
  ASSUME CoreInv, NEW h \in Handler, Others(h),
         \A b \in BookingId : bookings[b] # NoBooking => bookings'[b].seat = bookings[b].seat,
         \A s \in Seat : WorksOn(h, s)' => WorksOn(h, s) /\ job'[h].kind = job[h].kind
  PROVE  Separation'
  <1>1. \A g \in Handler \ {h}, s \in Seat :
           WorksOn(g, s)' => WorksOn(g, s) /\ job'[g].kind = job[g].kind
    BY ListedUsed DEF Others, WorksOn
  <1>2. \A g \in Handler, s \in Seat :
           WorksOn(g, s)' => WorksOn(g, s) /\ job'[g].kind = job[g].kind
    BY <1>1
  <1> QED
    BY <1>2 DEF CoreInv, Separation

LEMMA ShapeKept ==
  ASSUME CoreInv, NEW h \in Handler, Others(h), Shape(h)'
  PROVE  JobShape'
  BY DEF Others, Shape, JobShape, CoreInv

(* Invariants of a part of the state that the step leaves alone. *)
LEMMA SameBookings ==
  ASSUME CoreInv, UNCHANGED bookings
  PROVE  /\ BookingShape' /\ OneActive'
         /\ UNCHANGED todo => TodoExpired'
         /\ UNCHANGED lock => HoldLock'
         /\ \A s \in Seat : /\ Free(s)' = Free(s)
                             /\ \A b \in BookingId : /\ ActiveOn(b, s)' = ActiveOn(b, s)
                                                      /\ Lost(b, s)' = Lost(b, s)
                                                      /\ ActiveOrLost(b, s)' = ActiveOrLost(b, s)
  BY DEF CoreInv, Free, Lost, ActiveOrLost, BookingShape, OneActive, TodoExpired, HoldLock, ExpiredLocked, Active, ActiveOn,
         Live, HasLock

(* A handler that writes none of the tables and takes on nothing new on a *)
(* seat: it looks, it gives up, or it works on the waitlist only.         *)
LEMMA NothingNew ==
  ASSUME CoreInv, TypeOK', JobShape', Separation', TodoExpired', NEW h \in Handler, Others(h),
         UNCHANGED <<lock, bookings, seats>>,
         \A s \in Seat : /\ On(h, MarkPc, s) => Free(s)
                         /\ On(h, {"cancel_seat", "clean_seat"}, s) =>
                                \E b \in BookingId : Lost(b, s),
         job'[h].pc \notin TokenPc \cup CancelPc \cup {"clean_seat"},
         \A s \in Seat :
            /\ On(h, SeekPc, s)' => On(h, SeekPc, s)
            /\ On(h, ConfirmPc, s)' => /\ On(h, ConfirmPc, s)
                                       /\ job'[h].booking = job[h].booking
                                       /\ job'[h].pc # "confirm_seat"
  PROVE  CoreInv'
  <1>1. BookingShape' /\ OneActive' /\ HoldLock'
    BY SameBookings
  <1>2. \A g \in Handler \ {h} : job'[g] = job[g]
    BY DEF Others
  <1>3. \A s \in Seat : /\ Live(s)' = Live(s) /\ Free(s)' = Free(s)
                        /\ \A b \in BookingId : /\ ActiveOn(b, s)' = ActiveOn(b, s)
                                                 /\ Lost(b, s)' = Lost(b, s)
                                                 /\ ActiveOrLost(b, s)' = ActiveOrLost(b, s)
    BY SameBookings DEF Live, HasLock
  <1>4. TokenLive' /\ TokenUnique' /\ CreateFree' /\ MarkActive'
    BY <1>2, <1>3 DEF CoreInv, TokenLive, TokenUnique, CreateFree, MarkActive, On, TokenPc
  <1>5. OpenTaken'
    BY <1>2, <1>3 DEF CoreInv, OpenTaken, On, Free
  <1>6. ClosedFree'
    BY <1>2, <1>3 DEF CoreInv, ClosedFree, On
  <1>7. SeekBlocked' /\ ConfirmActive'
    BY <1>2, <1>3 DEF CoreInv, SeekBlocked, ConfirmActive, On
  <1>8. CancelFree' /\ CleanFree'
    BY <1>2, <1>3 DEF CoreInv, CancelFree, CleanFree, On, CancelPc
  <1>9. EndedThere'
    BY EndedKept DEF On, CancelPc
  <1> QED
    BY <1>1, <1>4, <1>5, <1>6, <1>7, <1>8, <1>9 DEF CoreInv

LEMMA Retreat ==
  ASSUME CoreInv, TypeOK', NEW h \in Handler, Others(h), Shape(h)',
         UNCHANGED <<lock, bookings, seats, todo>>,
         job[h].pc \notin MarkPc \cup {"cancel_seat", "clean_seat"},
         job'[h].pc \notin TokenPc \cup CancelPc \cup {"clean_seat"},
         \A s \in Seat :
            /\ WorksOn(h, s)' => WorksOn(h, s) /\ job'[h].kind = job[h].kind
            /\ On(h, SeekPc, s)' => On(h, SeekPc, s)
            /\ On(h, ConfirmPc, s)' => /\ On(h, ConfirmPc, s)
                                       /\ job'[h].booking = job[h].booking
                                       /\ job'[h].pc # "confirm_seat"
  PROVE  CoreInv'
  <1>1. JobShape'
    BY ShapeKept
  <1>2. Separation'
    BY SeparationKept
  <1>3. TodoExpired'
    BY SameBookings
  <1> QED
    BY <1>1, <1>2, <1>3, NothingNew DEF On

(* A handler that returns, or goes on with the cleanup's list. *)
LEMMA FinishFacts ==
  ASSUME CoreInv, NEW h \in Handler, Finish(h), UNCHANGED todo
  PROVE  /\ Others(h)
         /\ job'[h].pc \in {"idle", "clean_next"}
         /\ job'[h].seat = Nil
         /\ Shape(h)'
         /\ todo[h] # {} => job'[h].kind = job[h].kind
  <1>1. job \in [Handler -> Job] /\ \A g \in Handler \ {h} : job'[g] = job[g]
    BY DEF Finish, CoreInv, TypeOK, HandlersType, JobsType
  <1>2. job'[h] = IF todo[h] = {} THEN NoJob
                  ELSE [NoJob EXCEPT !.pc = "clean_next", !.kind = "cleanup"]
    BY <1>1 DEF Finish
  <1>3. /\ job'[h].pc = IF todo[h] = {} THEN "idle" ELSE "clean_next"
        /\ job'[h].seat = Nil
        /\ todo[h] # {} => job'[h].kind = "cleanup"
    BY <1>2 DEF NoJob
  <1>4. todo[h] # {} => job[h].kind = "cleanup"
    BY DEF CoreInv, JobShape, Shape
  <1>5. {"idle", "clean_next"} \cap SeatPc = {}
    BY DEF SeatPc, LockPc, ConfirmPc, CancelPc, AssignPc
  <1>6. Shape(h)'
    BY <1>3, <1>5 DEF Shape, LockPc, ConfirmPc, CancelPc, CleanPc, AssignPc
  <1>7. Others(h)
    BY <1>1 DEF Others
  <1>8. job'[h].pc \in {"idle", "clean_next"}
    BY <1>3
  <1> QED
    BY <1>3, <1>4, <1>6, <1>7, <1>8

LEMMA GiveUp ==
  ASSUME CoreInv, TypeOK', NEW h \in Handler, Finish(h), UNCHANGED <<lock, bookings, seats, todo>>,
         job[h].pc \notin MarkPc \cup {"cancel_seat", "clean_seat"}
  PROVE  CoreInv'
  <1>1. \A s \in Seat : WorksOn(h, s)' => WorksOn(h, s) /\ job'[h].kind = job[h].kind
    BY FinishFacts, DomainAssumption DEF WorksOn
  <1>2. job'[h].pc \notin TokenPc \cup CancelPc \cup {"clean_seat"} \cup SeekPc \cup ConfirmPc
    BY FinishFacts DEF TokenPc, CreatePc, MarkPc, CancelPc, SeekPc, ConfirmPc
  <1> QED
    BY <1>1, <1>2, FinishFacts, Retreat DEF On

(* An attempt at a seat that goes on, or only the waitlist's part of it. *)
LEMMA GoOn ==
  ASSUME CoreInv, TypeOK', NEW h \in Handler, Others(h), UNCHANGED <<lock, bookings, seats, todo>>,
         job[h].pc \in (SeekPc \cup {"assign_row"}) \ {"lock_acquire"},
         job'[h].pc \in {"assign_row", "assign_member"} \/
             (job[h].pc \in SeekPc /\ job'[h].pc \in SeekPc \ {"lock_acquire"}),
         job'[h].seat = job[h].seat, job'[h].flight = job[h].flight, job'[h].kind = job[h].kind
  PROVE  CoreInv'
  <1>1. job[h].pc \in AssignPc /\ job'[h].pc \in AssignPc
    BY DEF AssignPc, SeekPc
  <1>2. Shape(h)'
    BY <1>1 DEF CoreInv, JobShape, Shape, AssignPc, SeatPc, LockPc, ConfirmPc, CancelPc, CleanPc
  <1>3. \A s \in Seat : WorksOn(h, s)' => WorksOn(h, s) /\ job'[h].kind = job[h].kind
    BY DEF WorksOn
  <1>4. /\ job'[h].pc \notin TokenPc \cup CancelPc \cup {"clean_seat"} \cup ConfirmPc
        /\ job[h].pc \notin MarkPc \cup {"cancel_seat", "clean_seat"}
    BY DEF TokenPc, CreatePc, MarkPc, CancelPc, SeekPc, ConfirmPc
  <1>5. job'[h].pc \in SeekPc => job[h].pc \in SeekPc
    BY DEF SeekPc
  <1> QED
    BY <1>2, <1>3, <1>4, <1>5, Retreat DEF On

(* A request to the waitlist works on no seat. *)
LEMMA Elsewhere ==
  ASSUME CoreInv, TypeOK', NEW h \in Handler, Others(h), UNCHANGED <<lock, bookings, seats, todo>>,
         job[h].pc \in {"idle"} \cup JoinPc \cup LeavePc,
         job'[h].pc \in JoinPc \cup LeavePc,
         job'[h].seat = Nil,
         job'[h].kind = job[h].kind \/ job[h].pc = "idle"
  PROVE  CoreInv'
  <1>1. job'[h].pc \notin SeatPc \cup CleanPc \cup {"idle"} /\ job[h].pc \notin SeatPc
    BY DEF SeatPc, LockPc, ConfirmPc, CancelPc, CleanPc, AssignPc, JoinPc, LeavePc
  <1>2. job[h].pc = "idle" => todo[h] = {}
    BY DEF CoreInv, JobShape, Shape
  <1>3. Shape(h)'
    BY <1>1, <1>2 DEF CoreInv, JobShape, Shape, SeatPc
  <1>4. \A s \in Seat : WorksOn(h, s)' => WorksOn(h, s) /\ job'[h].kind = job[h].kind
    BY <1>2, DomainAssumption DEF WorksOn
  <1>5. /\ job'[h].pc \notin TokenPc \cup CancelPc \cup {"clean_seat"} \cup SeekPc \cup ConfirmPc
        /\ job[h].pc \notin MarkPc \cup {"cancel_seat", "clean_seat"}
    BY <1>1 DEF SeatPc, LockPc, AssignPc, TokenPc, CreatePc, MarkPc, CancelPc, SeekPc, ConfirmPc
  <1> QED
    BY <1>3, <1>4, <1>5, Retreat DEF On

-------------------------------------------------------------------------------
LEMMA Admitted ==
  ASSUME CoreInv, NEW h \in Handler, NEW k, NEW S, Starts(h, k, S), Others(h), UNCHANGED bookings,
         job'[h].kind = k,
         \A s \in Seat : WorksOn(h, s)' => s \in S
  PROVE  Separation'
  <1>1. \A g \in Handler \ {h}, s \in Seat :
           WorksOn(g, s)' => WorksOn(g, s) /\ job'[g].kind = job[g].kind
    BY DEF Others, WorksOn
  <1>2. \A g \in Handler \ {h}, s \in Seat :
           WorksOn(g, s)' /\ WorksOn(h, s)' => {job'[h].kind, job'[g].kind} \notin Exclusive
    BY <1>1 DEF Starts, Admits, Concerns
  <1>3. \A g \in Handler : {job'[h].kind, job'[g].kind} = {job'[g].kind, job'[h].kind}
    OBVIOUS
  <1>4. \A g1 \in Handler \ {h}, g2 \in Handler \ {h}, s \in Seat :
           g1 # g2 /\ WorksOn(g1, s)' /\ WorksOn(g2, s)' =>
               {job'[g1].kind, job'[g2].kind} \notin Exclusive
    BY <1>1 DEF CoreInv, Separation
  <1> QED
    BY <1>2, <1>3, <1>4 DEF Separation

(* A request that has just been let through to its seat.  A seat read as *)
(* open either has no passenger or hides behind a live lock.             *)
LEMMA StartOn ==
  ASSUME CoreInv, TypeOK', NEW h \in Handler, NEW s \in Seat, NEW k, Starts(h, k, {s}),
         Others(h), UNCHANGED <<lock, bookings, seats, todo>>,
         job'[h].kind = k, job'[h].seat = s, job'[h].flight = FlightOf[s],
         \/ k = "lock" /\ job'[h].pc = "lock_acquire" /\ seats[s] = "AVAILABLE"
         \/ /\ \/ k = "confirm" /\ job'[h].pc = "confirm_lock"
               \/ k = "cancel" /\ job'[h].pc = "cancel_status"
            /\ job'[h].booking \in BookingId /\ ActiveOn(job'[h].booking, s)
  PROVE  CoreInv'
  <1>1. job[h].pc = "idle" /\ todo[h] = {}
    BY DEF Starts, At, CoreInv, JobShape, Shape
  <1>2. Shape(h)'
    BY <1>1 DEF Shape, SeatPc, LockPc, ConfirmPc, CancelPc, AssignPc, CleanPc
  <1>3. JobShape'
    BY <1>2, ShapeKept
  <1>4. Separation'
    <2>1. \A r \in Seat : WorksOn(h, r)' => r \in {s}
      BY <1>1 DEF WorksOn
    <2> QED
      BY <2>1, Admitted
  <1>5. BookingShape' /\ OneActive' /\ TodoExpired' /\ HoldLock'
    BY SameBookings
  <1>6. \A g \in Handler \ {h} : job'[g] = job[g]
    BY DEF Others
  <1>7. \A r \in Seat : /\ Live(r)' = Live(r) /\ Free(r)' = Free(r)
                        /\ \A b \in BookingId : /\ ActiveOn(b, r)' = ActiveOn(b, r)
                                                 /\ Lost(b, r)' = Lost(b, r)
                                                 /\ ActiveOrLost(b, r)' = ActiveOrLost(b, r)
    BY SameBookings DEF Live, HasLock
  <1>8. TokenLive' /\ TokenUnique' /\ CreateFree' /\ MarkActive'
    BY <1>6, <1>7
    DEF CoreInv, TokenLive, TokenUnique, CreateFree, MarkActive, On, TokenPc, CreatePc, MarkPc
  <1>9. OpenTaken' /\ ClosedFree'
    BY <1>1, <1>6, <1>7 DEF CoreInv, OpenTaken, ClosedFree, On, MarkPc
  <1>10. SeekBlocked'
    <2>1. ASSUME NEW b \in BookingId, ActiveOn(b, s), seats[s] = "AVAILABLE"
          PROVE  Live(s)
      BY <2>1 DEF CoreInv, OpenTaken, TokenLive, On, TokenPc
    <2> QED
      BY <1>6, <1>7, <2>1 DEF CoreInv, SeekBlocked, On, SeekPc
  <1>11. ConfirmActive'
    BY <1>6, <1>7 DEF CoreInv, ConfirmActive, On, ConfirmPc, ActiveOrLost
  <1>12. CancelFree'
    BY <1>6, <1>7 DEF CoreInv, CancelFree, On, ActiveOrLost
  <1>14. EndedThere'
    BY EndedKept DEF On
  <1>13. CleanFree'
    BY <1>6, <1>7 DEF CoreInv, CleanFree, On, SeekPc, TokenPc, CreatePc, MarkPc
  <1> QED
    BY <1>3, <1>4, <1>5, <1>8, <1>9, <1>10, <1>11, <1>12, <1>13, <1>14 DEF CoreInv

(* The cleanup has read its list. *)
LEMMA FindInv ==
  ASSUME CoreInv, TypeOK', NEW h \in Handler, CleanupFind(h)
  PROVE  CoreInv'
  <1> DEFINE r == [NoJob EXCEPT !.pc = "clean_next", !.kind = "cleanup"]
  <1>1. job' = [job EXCEPT ![h] = r] /\ todo' = [todo EXCEPT ![h] = ExpiredLocked]
    BY DEF CleanupFind
  <1>2. r.pc = "clean_next" /\ r.kind = "cleanup" /\ r.seat = Nil
    BY DEF NoJob
  <1> HIDE DEF r
  <1>3. Others(h) /\ job'[h] = r /\ todo'[h] = ExpiredLocked
    BY <1>1 DEF Others, CoreInv, TypeOK, HandlersType, JobsType
  <1>4. UNCHANGED <<lock, bookings, seats>>
    BY DEF CleanupFind, locks, store
  <1>5. Shape(h)'
    BY <1>2, <1>3 DEF Shape, SeatPc, LockPc, ConfirmPc, CancelPc, AssignPc, CleanPc
  <1>6. JobShape'
    BY <1>3, <1>5, ShapeKept
  <1>7. Separation'
    <2>1. \A s \in Seat : WorksOn(h, s)' => s \in {bookings[b].seat : b \in ExpiredLocked}
      BY <1>2, <1>3, <1>4, DomainAssumption DEF WorksOn
    <2> QED
      BY <2>1, <1>2, <1>3, <1>4, Admitted DEF CleanupFind
  <1>8. TodoExpired'
    BY <1>3, <1>4 DEF CoreInv, TodoExpired, ExpiredLocked, Others
  <1>9. job[h].pc = "idle" /\ job'[h].pc = "clean_next"
    BY <1>2, <1>3 DEF CleanupFind, Starts, At
  <1> QED
    BY <1>3, <1>4, <1>6, <1>7, <1>8, <1>9, NothingNew
    DEF On, SeekPc, ConfirmPc, TokenPc, CreatePc, MarkPc, CancelPc

-------------------------------------------------------------------------------
(* The memory of a handler that only moves on. *)
LEMMA GotoFacts ==
  ASSUME CoreInv, NEW h \in Handler, NEW p, Goto(h, p)
  PROVE  /\ \A g \in Handler \ {h} : job'[g] = job[g]
         /\ UNCHANGED todo => Others(h)
         /\ job'[h].pc = p
         /\ job'[h].kind = job[h].kind /\ job'[h].user = job[h].user
         /\ job'[h].flight = job[h].flight /\ job'[h].seat = job[h].seat
         /\ job'[h].booking = job[h].booking
  <1>1. job \in [Handler -> Job]
    BY DEF CoreInv, TypeOK, HandlersType, JobsType
  <1> QED
    BY <1>1 DEF Goto, Others, Job

(* Whoever gets the free lock of a seat is the only one to hold it: a token *)
(* needs a live lock, and so does a passenger hidden from those who seek.   *)
LEMMA Acquire ==
  ASSUME CoreInv, TypeOK', NEW h \in Handler, NEW s \in Seat, NEW p,
         On(h, SeekPc, s), ~ Live(s), SetLock(FlightOf[s], s, job[h].user), Goto(h, p),
         UNCHANGED <<bookings, seats, todo>>,
         \/ job[h].pc = "lock_acquire" /\ p = "lock_create"
         \/ job[h].pc = "assign_acquire" /\ p = "assign_create"
  PROVE  CoreInv'
  <1>1. Shape(h)'
    BY GotoFacts
    DEF CoreInv, JobShape, Shape, SeatPc, LockPc, ConfirmPc, CancelPc, AssignPc, CleanPc
  <1>2. JobShape'
    BY <1>1, GotoFacts, ShapeKept
  <1>3. Separation'
    <2>1. \A r \in Seat : WorksOn(h, r)' => WorksOn(h, r)
      BY GotoFacts DEF WorksOn
    <2> QED
      BY <2>1, GotoFacts, SeparationKept
  <1>4. BookingShape' /\ OneActive' /\ TodoExpired'
    BY SameBookings
  <1>5. /\ \A g \in Handler \ {h} : job'[g] = job[g]
        /\ job'[h].pc = p /\ job'[h].seat = s /\ job'[h].user = job[h].user
    BY GotoFacts DEF On
  <1>6. \A r \in Seat : /\ Free(r)' = Free(r)
                        /\ \A b \in BookingId : /\ ActiveOn(b, r)' = ActiveOn(b, r)
                                                 /\ Lost(b, r)' = Lost(b, r)
                                                 /\ ActiveOrLost(b, r)' = ActiveOrLost(b, r)
    BY SameBookings
  <1>7. /\ Live(s)' /\ lock'[<<FlightOf[s], s>>].holder = job[h].user
        /\ \A r \in Seat \ {s} : lock'[<<FlightOf[r], r>>] = lock[<<FlightOf[r], r>>]
    <2>1. lock \in [Flight \X Seat -> Lock]
      BY DEF CoreInv, TypeOK, LocksType
    <2>2. TTL > 0
      BY DomainAssumption
    <2> QED
      BY <2>1, <2>2, KeyType DEF SetLock, Live, HasLock
  <1>8. \A r \in Seat : Live(r) => Live(r)'
    BY <1>7 DEF Live, HasLock
  <1>9. \A g \in Handler : ~ On(g, TokenPc, s)
    BY DEF CoreInv, TokenLive
  <1>10. Free(s)
    BY DEF CoreInv, SeekBlocked, Free
  <1>11. TokenLive'
    BY <1>5, <1>7, <1>8, <1>9 DEF CoreInv, TokenLive, On, TokenPc
  <1>12. TokenUnique'
    BY <1>5, <1>9 DEF CoreInv, TokenUnique, On
  <1>13. CreateFree' /\ MarkActive'
    BY <1>5, <1>6, <1>10 DEF CoreInv, CreateFree, MarkActive, On, MarkPc
  <1>14. OpenTaken' /\ ClosedFree'
    BY <1>5, <1>6 DEF CoreInv, OpenTaken, ClosedFree, On, MarkPc
  <1>15. SeekBlocked'
    BY <1>5, <1>6, <1>8 DEF CoreInv, SeekBlocked, On, SeekPc
  <1>16. HoldLock'
    <2>1. ASSUME NEW b \in BookingId, NEW r \in Seat, ActiveOn(b, r)', Live(r)'
          PROVE  r # s /\ Live(r) /\ ActiveOn(b, r)
      BY <1>6, <1>7, <1>10, <2>1 DEF Free, Live, HasLock
    <2> QED
      BY <1>7, <2>1 DEF CoreInv, HoldLock
  <1>17. ConfirmActive'
    BY <1>5, <1>6, <1>8 DEF CoreInv, ConfirmActive, On, ConfirmPc
  <1>18. CancelFree'
    BY <1>5, <1>6 DEF CoreInv, CancelFree, On
  <1>19. CleanFree'
    BY <1>5, <1>6 DEF CoreInv, CleanFree, On, TokenPc, CreatePc, MarkPc
  <1>20. EndedThere'
    BY <1>5, GotoFacts, EndedKept DEF On
  <1> QED
    BY <1>2, <1>3, <1>4, <1>11, <1>12, <1>13, <1>14, <1>15, <1>16, <1>17, <1>18, <1>19, <1>20
    DEF CoreInv

(* The holder of the lock inserts the booking. *)
LEMMA Create ==
  ASSUME Premises, CoreInv, TypeOK', NEW h \in Handler, NEW s \in Seat, NEW p, NEW b \in BookingId,
         On(h, CreatePc, s), NextBookingId(b), InsertBooking(b, job[h].user, FlightOf[s], s),
         Others(h), job'[h].pc = p, job'[h].booking = b, job'[h].seat = s,
         job'[h].kind = job[h].kind, job'[h].user = job[h].user,
         job'[h].flight = job[h].flight, UNCHANGED <<lock, seats, todo>>,
         \/ job[h].pc = "lock_create" /\ p = "lock_seat"
         \/ job[h].pc = "assign_create" /\ p = "assign_seat"
  PROVE  CoreInv'
  <1>1. \A g \in Handler \ {h} : job'[g] = job[g]
    BY DEF Others
  <1>2. /\ \A c \in BookingId \ {b} : bookings'[c] = bookings[c]
        /\ bookings[b] = NoBooking /\ bookings[b].status = "NONE"
        /\ bookings'[b].status = "LOCKED" /\ bookings'[b].age = 0
        /\ bookings'[b].user = job[h].user
        /\ bookings'[b].flight = FlightOf[s] /\ bookings'[b].seat = s
    <2>1. bookings \in [BookingId -> Booking]
      BY DEF CoreInv, TypeOK, StoreType
    <2> QED
      BY <2>1 DEF InsertBooking, NextBookingId, NoBooking
  <1>3. Shape(h)'
    BY <1>1 DEF CoreInv, JobShape, Shape, On, SeatPc, LockPc, ConfirmPc, CancelPc, AssignPc, CleanPc
  <1>4. JobShape'
    BY <1>3, ShapeKept
  <1>5. \A g \in Handler : b \notin todo[g]
    BY <1>2, ListedUsed
  <1>6. Separation'
    <2>1. \A r \in Seat : WorksOn(h, r)' => WorksOn(h, r)
      BY <1>1, <1>2, <1>5 DEF WorksOn, On, CoreInv, TypeOK, HandlersType
    <2> QED
      BY <1>1, <1>2, <2>1, SeparationKept
  <1>7. BookingShape'
    BY <1>2 DEF CoreInv, BookingShape
  <1>8. /\ ActiveOn(b, s)' /\ \A r \in Seat \ {s} : ~ ActiveOn(b, r)'
        /\ \A c \in BookingId \ {b}, r \in Seat : /\ ActiveOn(c, r)' = ActiveOn(c, r)
                                                  /\ Lost(c, r)' = Lost(c, r)
                                                  /\ ActiveOrLost(c, r)' = ActiveOrLost(c, r)
        /\ \A r \in Seat : ~ ActiveOrLost(b, r) /\ ~ ActiveOn(b, r) /\ ~ Lost(b, r)
        /\ ActiveOrLost(b, s)'
    BY <1>2, SeatUsed DEF ActiveOn, Active, Lost, ActiveOrLost
  <1>9. Free(s) /\ Live(s) /\ lock[<<FlightOf[s], s>>].holder = job[h].user
    BY DEF CoreInv, CreateFree, TokenLive, On, TokenPc
  <1>10. \A r \in Seat \ {s} : Free(r)' = Free(r)
    BY <1>8 DEF Free
  <1>11. \A r \in Seat : Live(r)' = Live(r)
    BY DEF Live, HasLock
  <1>12. \A g \in Handler \ {h} : ~ On(g, TokenPc, s)
    BY DEF CoreInv, TokenUnique, On, TokenPc
  <1>13. WorksOn(h, s)
    BY DEF On, WorksOn
  <1>14. OneActive'
    BY <1>8, <1>9 DEF CoreInv, OneActive, Free
  <1>15. TokenLive' /\ TokenUnique'
    BY <1>1, <1>11 DEF CoreInv, TokenLive, TokenUnique, On, TokenPc, CreatePc, MarkPc
  <1>16. CreateFree' /\ MarkActive'
    BY <1>1, <1>8, <1>10, <1>12 DEF CoreInv, CreateFree, MarkActive, On, TokenPc, CreatePc, MarkPc
  <1>17. OpenTaken'
    BY <1>1, <1>8 DEF CoreInv, OpenTaken, On, MarkPc
  <1>18. ClosedFree'
    BY <1>1, <1>8, <1>10 DEF CoreInv, ClosedFree, On, CreatePc, Free
  <1>19. SeekBlocked'
    BY <1>1, <1>8, <1>9, <1>11 DEF CoreInv, SeekBlocked, On, SeekPc
  <1>20. HoldLock'
    <2>1. ASSUME NEW c \in BookingId \ {b}, NEW r \in Seat, ActiveOn(c, r)',
                 bookings'[c].status = "LOCKED", Live(r)'
          PROVE  /\ bookings'[c].age + lock'[<<FlightOf[r], r>>].ttl <= TTL
                 /\ lock'[<<FlightOf[r], r>>].holder = bookings'[c].user
      BY <1>2, <1>8, <1>11, <2>1 DEF CoreInv, HoldLock
    <2>2. 0 + lock[<<FlightOf[s], s>>].ttl <= TTL
      BY KeyType, DomainAssumption DEF CoreInv, TypeOK, LocksType, Lock
    <2> QED
      BY <1>2, <1>8, <1>9, <2>1, <2>2 DEF HoldLock
  <1>21. ConfirmActive'
    BY <1>1, <1>2, <1>8, <1>11 DEF CoreInv, ConfirmActive, On, ConfirmPc
  <1>22. CancelFree'
    BY <1>1, <1>8, <1>10, <1>13, CancelAlone
    DEF CoreInv, CancelFree, On, JobShape, Shape, CancelPc, WorksOn
  <1>23. CleanFree'
    BY <1>1, <1>8, <1>10 DEF CoreInv, CleanFree, On, TokenPc, CreatePc, MarkPc, SeekPc
  <1>24. TodoExpired'
    BY <1>2, <1>5 DEF CoreInv, TodoExpired, ExpiredLocked
  <1>25. EndedThere'
    BY <1>2, EndedKept DEF On
  <1> QED
    BY <1>4, <1>6, <1>7, <1>14, <1>15, <1>16, <1>17, <1>18, <1>19, <1>20, <1>21, <1>22, <1>23,
       <1>24, <1>25
    DEF CoreInv

(* The handler whose booking has the seat takes it off sale. *)
LEMMA Close ==
  ASSUME Premises, CoreInv, TypeOK', NEW h \in Handler, NEW s \in Seat, NEW v,
         On(h, MarkPc \cup {"confirm_seat"}, s), UpdateSeat(s, v), v # "AVAILABLE",
         Others(h), Shape(h)', UNCHANGED <<lock, bookings, todo>>,
         job'[h].pc \in {"idle", "clean_next", "assign_row"},
         \A r \in Seat : WorksOn(h, r)' => WorksOn(h, r) /\ job'[h].kind = job[h].kind
  PROVE  CoreInv'
  <1>1. \A g \in Handler \ {h} : job'[g] = job[g]
    BY DEF Others
  <1>2. JobShape'
    BY ShapeKept
  <1>3. Separation'
    BY SeparationKept
  <1>4. BookingShape' /\ OneActive' /\ TodoExpired' /\ HoldLock'
    BY SameBookings
  <1>5. seats'[s] = v /\ \A r \in Seat \ {s} : seats'[r] = seats[r]
    BY DEF UpdateSeat, CoreInv, TypeOK, StoreType
  <1>6. \A r \in Seat : /\ Live(r)' = Live(r) /\ Free(r)' = Free(r)
                        /\ \A b \in BookingId : /\ ActiveOn(b, r)' = ActiveOn(b, r)
                                                 /\ Lost(b, r)' = Lost(b, r)
                                                 /\ ActiveOrLost(b, r)' = ActiveOrLost(b, r)
    BY SameBookings DEF Live, HasLock
  <1>7. ~ Free(s) \/ \E b \in BookingId : Lost(b, s)
    BY DEF CoreInv, MarkActive, ConfirmActive, On, ConfirmPc, Free, ActiveOrLost
  <1>8. WorksOn(h, s)
    BY DEF On, WorksOn
  <1>9. \A g \in Handler : ~ On(g, CancelPc, s)
    BY <1>8, CancelAlone
    DEF On, CoreInv, JobShape, Shape, CancelPc, MarkPc, WorksOn
  <1>10. TokenLive' /\ TokenUnique' /\ CreateFree' /\ MarkActive'
    BY <1>1, <1>6
    DEF CoreInv, TokenLive, TokenUnique, CreateFree, MarkActive, On, TokenPc, CreatePc, MarkPc
  <1>11. OpenTaken'
    BY <1>1, <1>5, <1>6 DEF CoreInv, OpenTaken, On
  <1>12. ClosedFree'
    BY <1>1, <1>5, <1>6, <1>7 DEF CoreInv, ClosedFree, On, MarkPc
  <1>13. SeekBlocked' /\ ConfirmActive'
    BY <1>1, <1>6 DEF CoreInv, SeekBlocked, ConfirmActive, On, SeekPc, ConfirmPc
  <1>14. CancelFree'
    BY <1>1, <1>5, <1>6, <1>9 DEF CoreInv, CancelFree, On, CancelPc
  <1>15. CleanFree'
    BY <1>1, <1>5, <1>6 DEF CoreInv, CleanFree, On, SeekPc, TokenPc, CreatePc, MarkPc
  <1>16. EndedThere'
    BY EndedKept DEF On
  <1> QED
    BY <1>2, <1>3, <1>4, <1>10, <1>11, <1>12, <1>13, <1>14, <1>15, <1>16 DEF CoreInv

(* The status write of a confirmation: the hold is still there. *)
LEMMA ConfirmInv ==
  ASSUME Premises, CoreInv, TypeOK', NEW h \in Handler, ConfirmStatus(h),
         bookings[job[h].booking].status # "NONE"
  PROVE  CoreInv'
  <1> DEFINE s == job[h].seat
             c == job[h].booking
  <1>1. /\ job[h].pc = "confirm_status" /\ UpdateStatus(c, "CONFIRMED")
        /\ Goto(h, "confirm_seat") /\ UNCHANGED <<lock, seats, todo>>
    BY DEF ConfirmStatus, At, locks
  <1>2. s \in Seat /\ job[h].kind = "confirm"
    BY <1>1 DEF CoreInv, JobShape, Shape, SeatPc, ConfirmPc
  <1>3. On(h, ConfirmPc, s) /\ WorksOn(h, s)
    BY <1>1 DEF On, ConfirmPc, WorksOn
  <1>4. c \in BookingId /\ ActiveOn(c, s)
    BY <1>2, <1>3 DEF CoreInv, ConfirmActive, ActiveOrLost, Lost
  <1> HIDE DEF s, c
  <1>5. /\ \A b \in BookingId \ {c} : bookings'[b] = bookings[b]
        /\ bookings'[c].status = "CONFIRMED"
        /\ bookings'[c].seat = bookings[c].seat /\ bookings'[c].flight = bookings[c].flight
        /\ bookings'[c].user = bookings[c].user
    BY <1>1, <1>4 DEF UpdateStatus, CoreInv, TypeOK, StoreType, Booking
  <1>6. /\ Others(h) /\ \A g \in Handler \ {h} : job'[g] = job[g]
        /\ job'[h].pc = "confirm_seat" /\ job'[h].kind = "confirm" /\ job'[h].seat = s
        /\ job'[h].booking = c /\ job'[h].flight = job[h].flight
    BY <1>1, <1>2, GotoFacts DEF s, c
  <1>7. \A r \in Seat : /\ \A b \in BookingId : /\ ActiveOn(b, r)' = ActiveOn(b, r)
                                                 /\ Lost(b, r)' = Lost(b, r)
                                                 /\ ActiveOrLost(b, r)' = ActiveOrLost(b, r)
                        /\ Live(r)' = Live(r)
    BY <1>1, <1>4, <1>5 DEF ActiveOn, Active, Lost, ActiveOrLost, Live, HasLock
  <1>8. \A r \in Seat : Free(r)' = Free(r)
    BY <1>7 DEF Free
  <1>9. Shape(h)'
    BY <1>1, <1>6
    DEF s, CoreInv, JobShape, Shape, SeatPc, LockPc, ConfirmPc, CancelPc, AssignPc, CleanPc
  <1>10. JobShape'
    BY <1>6, <1>9, ShapeKept
  <1>11. Separation'
    <2>1. \A r \in Seat : WorksOn(h, r)' => WorksOn(h, r)
      BY <1>1, <1>4, <1>5, <1>6 DEF WorksOn, s, CoreInv, TypeOK, HandlersType
    <2>2. \A b \in BookingId : bookings'[b].seat = bookings[b].seat
      BY <1>5
    <2> QED
      BY <1>2, <1>6, <2>1, <2>2, SeparationKept
  <1>12. BookingShape'
    BY <1>4, <1>5 DEF CoreInv, BookingShape, ActiveOn, Active
  <1>13. OneActive'
    BY <1>7 DEF CoreInv, OneActive
  <1>14. TokenLive' /\ TokenUnique' /\ CreateFree'
    BY <1>1, <1>6, <1>7, <1>8
    DEF CoreInv, TokenLive, TokenUnique, CreateFree, On, TokenPc, CreatePc, MarkPc
  <1>15. MarkActive'
    BY <1>6, <1>7 DEF CoreInv, MarkActive, On, MarkPc
  <1>16. OpenTaken' /\ ClosedFree'
    BY <1>1, <1>6, <1>7, <1>8 DEF CoreInv, OpenTaken, ClosedFree, On, MarkPc
  <1>17. SeekBlocked'
    BY <1>1, <1>6, <1>7 DEF CoreInv, SeekBlocked, On, SeekPc
  <1>18. HoldLock'
    BY <1>1, <1>5, <1>7 DEF CoreInv, HoldLock
  <1>19. ConfirmActive'
    BY <1>1, <1>2, <1>4, <1>5, <1>6, <1>7 DEF CoreInv, ConfirmActive, On, ConfirmPc, ActiveOrLost
  <1>20. CancelFree' /\ CleanFree'
    BY <1>1, <1>6, <1>7, <1>8
    DEF CoreInv, CancelFree, CleanFree, On, SeekPc, TokenPc, CreatePc, MarkPc
  <1>21. TodoExpired'
    <2>1. ASSUME NEW g \in Handler PROVE c \notin todo[g]
      <3>1. CASE g = h
        BY <1>2, <3>1 DEF CoreInv, JobShape, Shape
      <3>2. CASE g # h
        <4>1. SUFFICES ASSUME c \in todo[g] PROVE FALSE
          OBVIOUS
        <4>2. WorksOn(g, s) /\ job[g].kind = "cleanup"
          BY <1>4, <4>1 DEF WorksOn, ActiveOn, CoreInv, JobShape, Shape
        <4> QED
          BY <1>2, <1>3, <3>2, <4>2, CleanupAlone
      <3> QED
        BY <3>1, <3>2
    <2> QED
      BY <1>1, <1>5, <2>1 DEF CoreInv, TodoExpired, ExpiredLocked
  <1>22. EndedThere'
    BY <1>5, <1>6, EndedKept DEF On
  <1> QED
    BY <1>10, <1>11, <1>12, <1>13, <1>14, <1>15, <1>16, <1>17, <1>18, <1>19, <1>20, <1>21, <1>22
    DEF CoreInv

-------------------------------------------------------------------------------
(* The status write that ends a booking c on seat s, by a handler that then *)
(* puts the seat back on sale.  Nobody else can be counting on c: no token, *)
(* no confirmation, no other cancellation and no cleanup's list.            *)
LEMMA EndBooking ==
  ASSUME Premises, CoreInv, TypeOK', NEW h \in Handler, NEW s \in Seat, NEW c \in BookingId, NEW v,
         UpdateStatus(c, v), v \in {"CANCELLED", "EXPIRED"}, ActiveOn(c, s),
         UNCHANGED <<lock, seats>>, Others(h), todo'[h] \subseteq todo[h], c \notin todo'[h],
         Shape(h)', job'[h].seat = s, job'[h].booking = c, job'[h].kind = job[h].kind,
         job[h].pc \notin MarkPc \cup {"cancel_seat", "clean_seat"},
         job'[h].pc = "cancel_seat" \/
             (/\ job'[h].pc = "clean_seat"
              /\ seats[s] # "AVAILABLE"
              /\ \A g \in Handler \ {h} : ~ On(g, SeekPc \cup TokenPc, s)),
         WorksOn(h, s),
         \A g \in Handler \ {h} :
            ~ On(g, MarkPc \cup ConfirmPc \cup CancelPc, s) /\ c \notin todo[g]
  PROVE  CoreInv'
  <1>1. \A g \in Handler \ {h} : job'[g] = job[g] /\ todo'[g] = todo[g]
    BY DEF Others
  <1>2. /\ \A b \in BookingId \ {c} : bookings'[b] = bookings[b]
        /\ bookings'[c].status = v
        /\ bookings'[c].seat = bookings[c].seat /\ bookings'[c].flight = bookings[c].flight
    BY DEF UpdateStatus, CoreInv, TypeOK, StoreType, Booking
  <1>3. /\ \A r \in Seat, b \in BookingId : ActiveOn(b, r)' => ActiveOn(b, r) /\ b # c
        /\ \A r \in Seat, b \in BookingId \ {c} : /\ ActiveOn(b, r)' = ActiveOn(b, r)
                                                  /\ ActiveOrLost(b, r)' = ActiveOrLost(b, r)
        /\ \A r \in Seat, b \in BookingId : Lost(b, r)' = Lost(b, r)
        /\ \A r \in Seat \ {s} : ~ ActiveOn(c, r) /\ ~ ActiveOrLost(c, r)
    BY <1>2 DEF ActiveOn, Active, Lost, ActiveOrLost
  <1>4. \A r \in Seat : Live(r)' = Live(r)
    BY DEF Live, HasLock
  <1>5. Free(s)'
    BY <1>3 DEF Free, CoreInv, OneActive
  <1>6. \A r \in Seat : (Free(r) => Free(r)') /\ (r # s => Free(r)' = Free(r))
    BY <1>3 DEF Free
  <1>7. JobShape'
    BY ShapeKept
  <1>8. Separation'
    <2>1. \A b \in BookingId : bookings'[b].seat = bookings[b].seat
      BY <1>2
    <2>2. todo[h] \subseteq BookingId
      BY DEF CoreInv, TypeOK, HandlersType
    <2>3. \A r \in Seat : WorksOn(h, r)' => WorksOn(h, r)
      BY <2>1, <2>2 DEF WorksOn
    <2> QED
      BY <2>1, <2>3, SeparationKept
  <1>9. BookingShape'
    BY <1>2 DEF CoreInv, BookingShape, ActiveOn, Active
  <1>10. OneActive'
    BY <1>3 DEF CoreInv, OneActive
  <1>11. TokenLive' /\ TokenUnique'
    BY <1>1, <1>4 DEF CoreInv, TokenLive, TokenUnique, On, TokenPc, CreatePc, MarkPc
  <1>12. CreateFree'
    BY <1>1, <1>6 DEF CoreInv, CreateFree, On, CreatePc
  <1>13. MarkActive'
    <2>1. \A g \in Handler, r \in Seat : On(g, MarkPc, r)' => g # h /\ On(g, MarkPc, r) /\ r # s
      BY <1>1 DEF On, MarkPc
    <2> QED
      BY <1>1, <1>3, <2>1 DEF CoreInv, MarkActive
  <1>14. OpenTaken'
    BY <1>1, <1>3 DEF CoreInv, OpenTaken, On
  <1>15. ClosedFree'
    <2> SUFFICES ASSUME NEW r \in Seat, Free(r)', seats'[r] # "AVAILABLE"
                 PROVE  \/ \E g \in Handler : On(g, {"cancel_seat", "clean_seat"}, r)'
                        \/ \E b \in BookingId : Lost(b, r)'
      BY DEF ClosedFree
    <2>1. CASE r = s
      BY <2>1 DEF On
    <2>2. CASE r # s
      <3>1. Free(r) /\ seats[r] # "AVAILABLE"
        BY <1>6, <2>2
      <3>2. \A g \in Handler : On(g, {"cancel_seat", "clean_seat"}, r) =>
               On(g, {"cancel_seat", "clean_seat"}, r)'
        BY <1>1 DEF On
      <3> QED
        BY <1>3, <3>1, <3>2 DEF CoreInv, ClosedFree
    <2> QED
      BY <2>1, <2>2
  <1>16. SeekBlocked'
    BY <1>1, <1>3, <1>4 DEF CoreInv, SeekBlocked, On, SeekPc
  <1>17. HoldLock'
    BY <1>2, <1>3, <1>4 DEF CoreInv, HoldLock
  <1>18. ConfirmActive'
    <2>1. \A g \in Handler, r \in Seat :
             On(g, ConfirmPc, r)' => g # h /\ On(g, ConfirmPc, r) /\ r # s
      BY <1>1 DEF On, ConfirmPc
    <2>2. \A g \in Handler, r \in Seat :
             On(g, ConfirmPc, r)' => job[g].booking # c /\ job'[g] = job[g]
      BY <1>1, <1>3, <2>1 DEF CoreInv, ConfirmActive
    <2> QED
      BY <1>2, <1>3, <1>4, <2>1, <2>2 DEF CoreInv, ConfirmActive
  <1>19. CancelFree'
    <2>1. ASSUME NEW g \in Handler \ {h}, NEW r \in Seat, On(g, CancelPc, r)'
          PROVE  job'[g] = job[g] /\ On(g, CancelPc, r) /\ r # s
      BY <1>1, <2>1 DEF On
    <2>2. ASSUME NEW g \in Handler \ {h}, NEW r \in Seat, On(g, {"cancel_status"}, r)'
          PROVE  (job[g].booking \in BookingId /\ ActiveOrLost(job[g].booking, r))'
      <3>1. On(g, {"cancel_status"}, r) /\ r # s /\ job'[g] = job[g]
        BY <2>1, <2>2 DEF On, CancelPc
      <3>2. job[g].booking \in BookingId /\ ActiveOrLost(job[g].booking, r)
        BY <3>1 DEF CoreInv, CancelFree, On
      <3>3. job[g].booking # c
        BY <1>3, <3>1, <3>2
      <3> QED
        BY <1>2, <3>1, <3>2, <3>3 DEF ActiveOrLost, Lost, ActiveOn, Active
    <2>3. ASSUME NEW g \in Handler, NEW r \in Seat, On(g, {"cancel_seat", "cancel_release"}, r)'
          PROVE  Free(r)'
      <3>1. CASE g = h
        BY <1>5, <2>3, <3>1 DEF On
      <3>2. CASE g # h
        BY <1>1, <1>6, <2>3, <3>2 DEF CoreInv, CancelFree, On
      <3> QED
        BY <3>1, <3>2
    <2>4. ASSUME NEW g \in Handler, NEW r \in Seat, On(g, {"cancel_release"}, r)'
          PROVE  seats'[r] = "AVAILABLE"
      BY <1>1, <2>4 DEF CoreInv, CancelFree, On
    <2>5. \A r \in Seat : ~ On(h, {"cancel_status"}, r)'
      BY DEF On
    <2> QED
      BY <2>2, <2>3, <2>4, <2>5 DEF CancelFree, On
  <1>20. CleanFree'
    BY <1>1, <1>5, <1>6 DEF CoreInv, CleanFree, On, SeekPc, TokenPc, CreatePc, MarkPc
  <1>21. TodoExpired'
    BY <1>1, <1>2 DEF CoreInv, TodoExpired, ExpiredLocked, NoBooking
  <1>22. EndedThere'
    BY <1>2, EndedKept DEF On, ActiveOn
  <1> QED
    BY <1>7, <1>8, <1>9, <1>10, <1>11, <1>12, <1>13, <1>14, <1>15, <1>16, <1>17, <1>18, <1>19,
       <1>20, <1>21, <1>22
    DEF CoreInv

LEMMA CancelStatusInv ==
  ASSUME Premises, CoreInv, TypeOK', NEW h \in Handler, CancelStatus(h),
         bookings[job[h].booking].status # "NONE"
  PROVE  CoreInv'
  <1> DEFINE s == job[h].seat
             c == job[h].booking
  <1>1. /\ job[h].pc = "cancel_status" /\ UpdateStatus(c, "CANCELLED")
        /\ Goto(h, "cancel_seat") /\ UNCHANGED <<lock, seats, todo>>
    BY DEF CancelStatus, At, locks
  <1>2. s \in Seat /\ job[h].kind = "cancel"
    BY <1>1 DEF CoreInv, JobShape, Shape, SeatPc, CancelPc
  <1>3. c \in BookingId /\ ActiveOn(c, s) /\ WorksOn(h, s)
    BY <1>1, <1>2 DEF CoreInv, CancelFree, On, WorksOn, ActiveOrLost, Lost
  <1>4. /\ Others(h) /\ job'[h].pc = "cancel_seat" /\ job'[h].kind = job[h].kind
        /\ job'[h].seat = s /\ job'[h].flight = job[h].flight /\ job'[h].booking = c
    BY <1>1, GotoFacts
  <1>5. Shape(h)'
    BY <1>1, <1>4 DEF CoreInv, JobShape, Shape, SeatPc, LockPc, ConfirmPc, CancelPc, AssignPc, CleanPc
  <1>6. \A g \in Handler \ {h} : ~ WorksOn(g, s)
    BY <1>2, <1>3, CancelAlone
  <1>7. \A g \in Handler \ {h} :
           ~ On(g, MarkPc \cup ConfirmPc \cup CancelPc, s) /\ c \notin todo[g]
    BY <1>3, <1>6 DEF On, WorksOn, ActiveOn
  <1>8. todo[h] = {}
    BY <1>2 DEF CoreInv, JobShape, Shape
  <1>9. todo'[h] \subseteq todo[h] /\ c \notin todo'[h]
    BY <1>1, <1>8
  <1>10. job[h].pc \notin MarkPc \cup {"cancel_seat", "clean_seat"}
    BY <1>1 DEF MarkPc
  <1> HIDE DEF s, c
  <1> QED
    BY <1>1, <1>2, <1>3, <1>4, <1>5, <1>7, <1>9, <1>10, EndBooking

(* The cleanup's next item is an expired hold, whose lock is gone; so is     *)
(* everybody who could have relied on that lock.                             *)
LEMMA CleanupStatusInv ==
  ASSUME Premises, CoreInv, TypeOK', NEW h \in Handler, At(h, "clean_next"),
         NEW c \in todo[h], bookings[c].status # "NONE", UpdateStatus(c, "EXPIRED"),
         todo' = [todo EXCEPT ![h] = @ \ {c}],
         job' = [job EXCEPT ![h].pc = "clean_seat", ![h].booking = c,
                            ![h].flight = bookings[c].flight, ![h].seat = bookings[c].seat],
         UNCHANGED <<locks, seats>>
  PROVE  CoreInv'
  <1>1. /\ UpdateStatus(c, "EXPIRED")
        /\ todo' = [todo EXCEPT ![h] = @ \ {c}]
        /\ job' = [job EXCEPT ![h].pc = "clean_seat", ![h].booking = c,
                              ![h].flight = bookings[c].flight, ![h].seat = bookings[c].seat]
    OBVIOUS
  <1>2. job[h].pc = "clean_next" /\ UNCHANGED <<lock, seats>>
    BY DEF At, locks
  <1> DEFINE s == bookings[c].seat
  <1>15. job'[h].booking = c
    <2>1. job \in [Handler -> Job]
      BY DEF CoreInv, TypeOK, HandlersType, JobsType
    <2> QED
      BY <1>1, <2>1 DEF Job
  <1>3. c \in BookingId /\ bookings[c].status = "LOCKED" /\ bookings[c].age > TTL
    BY DEF CoreInv, TypeOK, HandlersType, TodoExpired, ExpiredLocked
  <1>4. s \in Seat /\ bookings[c].flight = FlightOf[s] /\ ActiveOn(c, s)
    BY <1>3 DEF CoreInv, BookingShape, ActiveOn, Active
  <1>5. ~ Live(s)
    <2>1. lock[<<FlightOf[s], s>>].ttl \in Nat /\ bookings[c].age \in Nat /\ TTL \in Nat
      BY <1>3, <1>4, KeyType, DomainAssumption
      DEF CoreInv, TypeOK, LocksType, StoreType, Lock, Booking
    <2>2. Live(s) => bookings[c].age + lock[<<FlightOf[s], s>>].ttl <= TTL
      BY <1>3, <1>4 DEF CoreInv, HoldLock
    <2> QED
      BY <1>3, <2>1, <2>2
  <1>6. /\ \A g \in Handler \ {h} : job'[g] = job[g] /\ todo'[g] = todo[g]
        /\ job'[h].pc = "clean_seat" /\ job'[h].kind = job[h].kind
        /\ job'[h].seat = s /\ job'[h].flight = FlightOf[s]
        /\ todo'[h] = todo[h] \ {c}
    <2>1. job \in [Handler -> Job] /\ todo \in [Handler -> SUBSET BookingId]
      BY DEF CoreInv, TypeOK, HandlersType, JobsType
    <2> QED
      BY <1>1, <1>4, <2>1 DEF Job
  <1>7. job[h].kind = "cleanup" /\ WorksOn(h, s)
    BY <1>2 DEF CoreInv, JobShape, Shape, CleanPc, WorksOn
  <1> HIDE DEF s
  <1>8. Others(h) /\ Shape(h)'
    BY <1>4, <1>6, <1>7
    DEF Others, Shape, SeatPc, LockPc, ConfirmPc, CancelPc, AssignPc, CleanPc
  <1>9. \A g \in Handler : ~ On(g, SeekPc \cup TokenPc, s)
    BY <1>3, <1>4, <1>5 DEF CoreInv, TokenLive, SeekBlocked, On
  <1>10. seats[s] # "AVAILABLE"
    BY <1>3, <1>4, <1>9 DEF CoreInv, OpenTaken, On, TokenPc
  <1>11. \A g \in Handler \ {h} : WorksOn(g, s) => job[g].kind = "lock"
    BY <1>4, <1>7, CleanupAlone
  <1>12. \A g \in Handler \ {h} : ~ On(g, MarkPc \cup ConfirmPc \cup CancelPc, s)
    BY <1>9, <1>11 DEF On, WorksOn, TokenPc, CoreInv, JobShape, Shape
  <1>13. \A g \in Handler \ {h} : c \notin todo[g]
    BY <1>4, <1>11 DEF WorksOn, ActiveOn, CoreInv, JobShape, Shape
  <1>14. job[h].pc \notin MarkPc \cup {"cancel_seat", "clean_seat"}
    BY <1>2 DEF MarkPc
  <1> QED
    BY <1>1, <1>2, <1>3, <1>4, <1>6, <1>7, <1>8, <1>9, <1>10, <1>12, <1>13, <1>14, <1>15,
       EndBooking

(* The freed seat goes back on sale: nobody has it, and no other cleanup is *)
(* about to open it.                                                        *)
LEMMA Open ==
  ASSUME CoreInv, TypeOK', NEW h \in Handler, NEW s \in Seat, NEW p,
         UpdateSeat(s, "AVAILABLE"), Goto(h, p), UNCHANGED <<lock, bookings, todo>>,
         job[h].seat = s,
         \/ job[h].pc = "cancel_seat" /\ p = "cancel_release"
         \/ job[h].pc = "clean_seat" /\ p = "assign_top",
         \A g \in Handler \ {h} : ~ On(g, {"clean_seat"}, s)
  PROVE  CoreInv'
  <1>1. /\ \A g \in Handler \ {h} : job'[g] = job[g]
        /\ job'[h].pc = p /\ job'[h].seat = s /\ job'[h].kind = job[h].kind
        /\ job'[h].flight = job[h].flight /\ Others(h)
    BY GotoFacts
  <1>2. Free(s)
    BY DEF CoreInv, CancelFree, CleanFree, On
  <1>3. seats'[s] = "AVAILABLE" /\ \A r \in Seat \ {s} : seats'[r] = seats[r]
    BY DEF UpdateSeat, CoreInv, TypeOK, StoreType
  <1>4. \A r \in Seat : /\ Live(r)' = Live(r) /\ Free(r)' = Free(r)
                        /\ \A b \in BookingId : /\ ActiveOn(b, r)' = ActiveOn(b, r)
                                                 /\ Lost(b, r)' = Lost(b, r)
                                                 /\ ActiveOrLost(b, r)' = ActiveOrLost(b, r)
    BY SameBookings DEF Live, HasLock
  <1>5. Shape(h)'
    BY <1>1 DEF CoreInv, JobShape, Shape, SeatPc, LockPc, ConfirmPc, CancelPc, AssignPc, CleanPc
  <1>6. JobShape'
    BY <1>1, <1>5, ShapeKept
  <1>7. Separation'
    <2>1. \A r \in Seat : WorksOn(h, r)' => WorksOn(h, r)
      BY <1>1 DEF WorksOn
    <2> QED
      BY <1>1, <2>1, SeparationKept
  <1>8. BookingShape' /\ OneActive' /\ TodoExpired' /\ HoldLock'
    BY SameBookings
  <1>9. TokenLive' /\ TokenUnique' /\ CreateFree'
    BY <1>1, <1>4 DEF CoreInv, TokenLive, TokenUnique, CreateFree, On, TokenPc, CreatePc, MarkPc
  <1>10. MarkActive'
    BY <1>1, <1>4 DEF CoreInv, MarkActive, On, MarkPc
  <1>11. OpenTaken'
    <2>1. \A b \in BookingId, r \in Seat :
             ActiveOn(b, r)' /\ seats'[r] = "AVAILABLE" =>
                 ActiveOn(b, r) /\ r # s /\ seats[r] = "AVAILABLE"
      BY <1>2, <1>3, <1>4 DEF Free
    <2> QED
      BY <1>1, <2>1 DEF CoreInv, OpenTaken, On
  <1>12. ClosedFree'
    BY <1>1, <1>3, <1>4 DEF CoreInv, ClosedFree, On
  <1>17. EndedThere'
    <2>1. job'[h].booking = job[h].booking
      BY GotoFacts
    <2>2. \A r \in Seat : On(h, {"cancel_seat", "clean_seat"}, r)' => FALSE
      BY <1>1 DEF On
    <2> QED
      BY <1>1, <2>2, EndedKept
  <1>13. SeekBlocked'
    BY <1>1, <1>2, <1>4 DEF CoreInv, SeekBlocked, On, SeekPc, Free
  <1>14. ConfirmActive'
    BY <1>1, <1>4 DEF CoreInv, ConfirmActive, On, ConfirmPc
  <1>15. CancelFree'
    BY <1>1, <1>2, <1>3, <1>4 DEF CoreInv, CancelFree, On
  <1>16. CleanFree'
    <2>1. ASSUME NEW g \in Handler, NEW r \in Seat, On(g, {"clean_seat"}, r)'
          PROVE  g # h /\ r # s /\ On(g, {"clean_seat"}, r)
      BY <1>1, <2>1 DEF On
    <2>2. ASSUME NEW g \in Handler, NEW r \in Seat \ {s}, On(g, SeekPc \cup TokenPc, r)'
          PROVE  On(g, SeekPc \cup TokenPc, r)
      BY <1>1, <2>2 DEF On
    <2>3. ASSUME NEW g \in Handler, NEW r \in Seat, On(g, {"clean_seat"}, r)
          PROVE  Free(r) /\ seats[r] # "AVAILABLE" /\ \A k \in Handler : ~ On(k, SeekPc \cup TokenPc, r)
      BY <2>3 DEF CoreInv, CleanFree
    <2> QED
      BY <1>3, <1>4, <2>1, <2>2, <2>3 DEF CleanFree
  <1> QED
    BY <1>6, <1>7, <1>8, <1>9, <1>10, <1>11, <1>12, <1>13, <1>14, <1>15, <1>16, <1>17
    DEF CoreInv

(* A cancellation drops the lock of its seat, whoever's it is: nobody else *)
(* works there.                                                            *)
LEMMA ReleaseInv ==
  ASSUME Premises, CoreInv, TypeOK', NEW h \in Handler, CancelRelease(h)
  PROVE  CoreInv'
  <1>1. /\ job[h].pc = "cancel_release" /\ ReleaseLock(job[h].flight, job[h].seat)
        /\ Goto(h, "assign_top") /\ UNCHANGED <<bookings, seats, todo>>
    BY DEF CancelRelease, At, store
  <1>2. PICK s \in Seat : /\ job[h].seat = s /\ job[h].flight = FlightOf[s]
                          /\ job[h].kind = "cancel"
    BY <1>1 DEF CoreInv, JobShape, Shape, SeatPc, CancelPc
  <1>3. Free(s)
    BY <1>1, <1>2 DEF CoreInv, CancelFree, On
  <1>4. \A g \in Handler \ {h} : ~ WorksOn(g, s)
    BY <1>2, CancelAlone DEF WorksOn
  <1>5. /\ \A g \in Handler \ {h} : job'[g] = job[g]
        /\ job'[h].pc = "assign_top" /\ job'[h].seat = s /\ job'[h].kind = job[h].kind
        /\ job'[h].flight = job[h].flight /\ Others(h)
    BY <1>1, <1>2, GotoFacts
  <1>6. /\ ~ Live(s)'
        /\ \A r \in Seat \ {s} : lock'[<<FlightOf[r], r>>] = lock[<<FlightOf[r], r>>]
    <2>1. lock' = [lock EXCEPT ![<<FlightOf[s], s>>] = NoLock]
      BY <1>1, <1>2 DEF ReleaseLock
    <2>2. lock \in [Flight \X Seat -> Lock]
      BY DEF CoreInv, TypeOK, LocksType
    <2>3. lock'[<<FlightOf[s], s>>] = NoLock
      BY <1>2, <2>1, <2>2, KeyType
    <2>4. ~ (NoLock.ttl > 0)
      BY DEF NoLock
    <2>5. ~ Live(s)'
      BY <2>3, <2>4 DEF Live, HasLock
    <2>6. ASSUME NEW r \in Seat \ {s}
          PROVE  lock'[<<FlightOf[r], r>>] = lock[<<FlightOf[r], r>>]
      BY <2>1, <2>2, KeyType
    <2> QED
      BY <2>5, <2>6
  <1>7. \A r \in Seat \ {s} : Live(r)' = Live(r)
    BY <1>6 DEF Live, HasLock
  <1>8. \A r \in Seat : /\ Free(r)' = Free(r)
                        /\ \A b \in BookingId : /\ ActiveOn(b, r)' = ActiveOn(b, r)
                                                 /\ Lost(b, r)' = Lost(b, r)
                                                 /\ ActiveOrLost(b, r)' = ActiveOrLost(b, r)
    BY <1>1, SameBookings
  <1>9. \A g \in Handler \ {h} : job[g].seat # s
    BY <1>4 DEF WorksOn
  <1>10. Shape(h)'
    BY <1>1, <1>2, <1>5
    DEF CoreInv, JobShape, Shape, SeatPc, LockPc, ConfirmPc, CancelPc, AssignPc, CleanPc
  <1>11. JobShape'
    BY <1>5, <1>10, ShapeKept
  <1>12. Separation'
    <2>1. \A r \in Seat : WorksOn(h, r)' => WorksOn(h, r)
      BY <1>1, <1>2, <1>5 DEF WorksOn
    <2> QED
      BY <1>1, <1>5, <2>1, SeparationKept
  <1>13. BookingShape' /\ OneActive' /\ TodoExpired'
    BY <1>1, SameBookings
  <1>14. TokenLive' /\ TokenUnique'
    BY <1>5, <1>6, <1>7, <1>9
    DEF CoreInv, TokenLive, TokenUnique, On, TokenPc, CreatePc, MarkPc
  <1>15. CreateFree' /\ MarkActive'
    BY <1>5, <1>8 DEF CoreInv, CreateFree, MarkActive, On, CreatePc, MarkPc
  <1>16. OpenTaken' /\ ClosedFree'
    BY <1>1, <1>5, <1>8 DEF CoreInv, OpenTaken, ClosedFree, On, MarkPc
  <1>17. SeekBlocked'
    BY <1>3, <1>5, <1>7, <1>8, <1>9 DEF CoreInv, SeekBlocked, On, Free
  <1>18. HoldLock'
    BY <1>1, <1>3, <1>6, <1>7, <1>8 DEF CoreInv, HoldLock, Free
  <1>19. ConfirmActive'
    BY <1>1, <1>5, <1>7, <1>8, <1>9 DEF CoreInv, ConfirmActive, On, ConfirmPc
  <1>20. CancelFree'
    BY <1>1, <1>5, <1>8 DEF CoreInv, CancelFree, On
  <1>21. CleanFree'
    BY <1>1, <1>5, <1>8, <1>9 DEF CoreInv, CleanFree, On
  <1>22. EndedThere'
    BY <1>1, <1>5, EndedKept DEF On
  <1> QED
    BY <1>11, <1>12, <1>13, <1>14, <1>15, <1>16, <1>17, <1>18, <1>19, <1>20, <1>21, <1>22
    DEF CoreInv

(* The clock takes a tick of life from a lock and gives it to the age of    *)
(* the hold it protects; it waits for whoever needs the lock's last tick.   *)
LEMMA TickInv ==
  ASSUME Premises, CoreInv, TypeOK', Tick
  PROVE  CoreInv'
  <1>1. /\ LocksElapse /\ BookingsAge /\ UNCHANGED <<seats, job, todo>>
        /\ \A s \in Seat, h \in Handler :
              lock[<<FlightOf[s], s>>].ttl = 1 => ~ Takes(h, s)
    BY DEF Tick, Premises
  <1>2. \A b \in BookingId :
           /\ bookings'[b].status = bookings[b].status /\ bookings'[b].seat = bookings[b].seat
           /\ bookings'[b].flight = bookings[b].flight /\ bookings'[b].user = bookings[b].user
           /\ bookings'[b].age \in {bookings[b].age, bookings[b].age + 1}
           /\ bookings[b].age > TTL => bookings'[b].age > TTL
           /\ bookings[b].status = "NONE" => bookings'[b] = bookings[b]
    <2> TAKE b \in BookingId
    <2>1. bookings[b] \in Booking
      BY DEF CoreInv, TypeOK, StoreType
    <2>2. bookings'[b] = IF bookings[b].status # "NONE" /\ bookings[b].age <= TTL
                         THEN [bookings[b] EXCEPT !.age = @ + 1] ELSE bookings[b]
      BY <1>1 DEF BookingsAge
    <2>3. CASE bookings[b].status # "NONE" /\ bookings[b].age <= TTL
      <3>1. bookings[b].age \in Nat /\ TTL \in Nat
        BY <2>1, DomainAssumption DEF Booking
      <3>2. bookings'[b] = [bookings[b] EXCEPT !.age = @ + 1]
        BY <2>2, <2>3
      <3> QED
        BY <2>1, <2>3, <3>1, <3>2 DEF Booking
    <2>4. CASE ~ (bookings[b].status # "NONE" /\ bookings[b].age <= TTL)
      BY <2>2, <2>4
    <2> QED
      BY <2>3, <2>4
  <1>3. \A s \in Seat : Live(s)' =>
           /\ Live(s)
           /\ lock'[<<FlightOf[s], s>>].holder = lock[<<FlightOf[s], s>>].holder
           /\ lock'[<<FlightOf[s], s>>].ttl = lock[<<FlightOf[s], s>>].ttl - 1
    <2> TAKE s \in Seat
    <2>1. lock[<<FlightOf[s], s>>] \in Lock
      BY KeyType DEF CoreInv, TypeOK, LocksType
    <2>2. lock'[<<FlightOf[s], s>>] =
             IF lock[<<FlightOf[s], s>>].ttl <= 1 THEN NoLock
             ELSE [lock[<<FlightOf[s], s>>] EXCEPT !.ttl = @ - 1]
      BY <1>1, KeyType DEF LocksElapse
    <2>3. CASE lock[<<FlightOf[s], s>>].ttl <= 1
      BY <2>2, <2>3 DEF Live, HasLock, NoLock
    <2>4. CASE ~ (lock[<<FlightOf[s], s>>].ttl <= 1)
      BY <2>1, <2>2, <2>4, DomainAssumption DEF Live, HasLock, Lock
    <2> QED
      BY <2>3, <2>4
  <1>4. \A s \in Seat, h \in Handler : On(h, SeekPc \cup TokenPc, s) /\ Live(s) => Live(s)'
    <2> TAKE s \in Seat, h \in Handler
    <2> HAVE On(h, SeekPc \cup TokenPc, s) /\ Live(s)
    <2>4. Takes(h, s)
      BY DEF Takes, TakePc, LockPc, On, SeekPc, TokenPc, CreatePc, MarkPc
    <2>1. lock[<<FlightOf[s], s>>] \in Lock
      BY KeyType DEF CoreInv, TypeOK, LocksType
    <2>2. lock[<<FlightOf[s], s>>].ttl > 1
      BY <1>1, <2>1, <2>4, DomainAssumption DEF Live, HasLock, Lock
    <2>3. lock'[<<FlightOf[s], s>>] = [lock[<<FlightOf[s], s>>] EXCEPT !.ttl = @ - 1]
      BY <1>1, <2>1, <2>2, KeyType, DomainAssumption DEF LocksElapse, Lock
    <2> QED
      BY <2>1, <2>2, <2>3, DomainAssumption DEF Live, HasLock, Lock
  <1>5. \A s \in Seat : /\ Free(s)' = Free(s)
                        /\ \A b \in BookingId : /\ ActiveOn(b, s)' = ActiveOn(b, s)
                                                 /\ Lost(b, s)' = Lost(b, s)
                                                 /\ ActiveOrLost(b, s)' = ActiveOrLost(b, s)
    BY <1>2 DEF Free, ActiveOn, Active, Lost, ActiveOrLost
  <1>6. \A h \in Handler, s \in Seat : /\ WorksOn(h, s)' = WorksOn(h, s)
                                       /\ job[h].seat = s => WorksOn(h, s)
    BY <1>1, <1>2 DEF WorksOn, CoreInv, TypeOK, HandlersType
  <1>7. JobShape' /\ TokenUnique'
    BY <1>1 DEF CoreInv, JobShape, Shape, TokenUnique, On
  <1>8. BookingShape' /\ OneActive'
    BY <1>2, <1>5 DEF CoreInv, BookingShape, OneActive
  <1>9. Separation'
    BY <1>1, <1>6 DEF CoreInv, Separation
  <1>10. TokenLive'
    BY <1>1, <1>3, <1>4 DEF CoreInv, TokenLive, On
  <1>11. CreateFree' /\ MarkActive' /\ OpenTaken' /\ ClosedFree' /\ CancelFree' /\ CleanFree'
    BY <1>1, <1>5
    DEF CoreInv, CreateFree, MarkActive, OpenTaken, ClosedFree, CancelFree, CleanFree, On
  <1>12. SeekBlocked'
    BY <1>1, <1>4, <1>5 DEF CoreInv, SeekBlocked, On
  <1>13. HoldLock'
    <2> SUFFICES ASSUME NEW b \in BookingId, NEW s \in Seat, ActiveOn(b, s)',
                        bookings'[b].status = "LOCKED", Live(s)'
                 PROVE  /\ bookings'[b].age + lock'[<<FlightOf[s], s>>].ttl <= TTL
                        /\ lock'[<<FlightOf[s], s>>].holder = bookings'[b].user
      BY DEF HoldLock
    <2>1. /\ bookings[b].age + lock[<<FlightOf[s], s>>].ttl <= TTL
          /\ lock[<<FlightOf[s], s>>].holder = bookings[b].user
      BY <1>2, <1>3, <1>5 DEF CoreInv, HoldLock
    <2>2. bookings[b].age \in Nat /\ lock[<<FlightOf[s], s>>].ttl \in Nat /\ TTL \in Nat
      BY KeyType, DomainAssumption DEF CoreInv, TypeOK, LocksType, StoreType, Lock, Booking
    <2> QED
      BY <1>2, <1>3, <2>1, <2>2
  <1>14. ConfirmActive'
    BY <1>1, <1>2, <1>5 DEF CoreInv, ConfirmActive, On
  <1>15. TodoExpired'
    BY <1>1, <1>2 DEF CoreInv, TodoExpired, ExpiredLocked
  <1>16. EndedThere'
    BY <1>1, <1>2 DEF CoreInv, EndedThere, On
  <1> QED
    BY <1>7, <1>8, <1>9, <1>10, <1>11, <1>12, <1>13, <1>14, <1>15, <1>16 DEF CoreInv

-------------------------------------------------------------------------------
LEMMA JobFunction == CoreInv => job \in [Handler -> Job]
  BY DEF CoreInv, TypeOK, HandlersType, JobsType

(* Where a handler is tells which seat and flight it remembers. *)
LEMMA SeatKnown ==
  ASSUME CoreInv, NEW h \in Handler, job[h].pc \in SeatPc
  PROVE  job[h].seat \in Seat /\ job[h].flight = FlightOf[job[h].seat]
  BY DEF CoreInv, JobShape, Shape

LEMMA RequestInv ==
  ASSUME Premises, CoreInv, TypeOK', NEW h \in Handler, BookingRequest(h)
  PROVE  CoreInv'
  <1>1. job \in [Handler -> Job]
    BY JobFunction
  <1>2. UNCHANGED <<lock, bookings, seats, todo>>
    BY DEF BookingRequest, LockCheck, ConfirmCheck, CancelCheck, AdminCancelCheck, locks, store
  <1>3. ASSUME NEW u \in User, NEW f \in Flight, NEW s \in Seat, LockCheck(h, u, f, s)
        PROVE  CoreInv'
    <2> DEFINE r == [NoJob EXCEPT !.pc = "lock_acquire", !.kind = "lock",
                                  !.user = u, !.flight = f, !.seat = s]
    <2>1. r.pc = "lock_acquire" /\ r.kind = "lock" /\ r.flight = f /\ r.seat = s
      BY DEF NoJob
    <2>2. job' = [job EXCEPT ![h] = r]
      BY <1>3 DEF LockCheck
    <2> HIDE DEF r
    <2>3. Others(h) /\ job'[h] = r
      BY <1>1, <1>2, <2>2 DEF Others
    <2>4. Starts(h, "lock", {s}) /\ f = FlightOf[s] /\ seats[s] = "AVAILABLE"
      BY <1>3 DEF LockCheck, SeatOpen
    <2> QED
      BY <1>2, <2>1, <2>3, <2>4, StartOn
  <1>4. ASSUME NEW b \in BookingId, NEW k, NEW p,
               OnBooking(h, b, k, p), Starts(h, k, {bookings[b].seat}), Active(b),
               \/ k = "confirm" /\ p = "confirm_lock"
               \/ k = "cancel" /\ p = "cancel_status"
        PROVE  CoreInv'
    <2> DEFINE r == [NoJob EXCEPT !.pc = p, !.kind = k, !.booking = b,
                                  !.flight = bookings[b].flight, !.seat = bookings[b].seat]
    <2>1. /\ r.pc = p /\ r.kind = k /\ r.booking = b
          /\ r.flight = bookings[b].flight /\ r.seat = bookings[b].seat
      BY DEF NoJob
    <2>2. job' = [job EXCEPT ![h] = r]
      BY <1>4 DEF OnBooking
    <2> HIDE DEF r
    <2>3. Others(h) /\ job'[h] = r
      BY <1>1, <1>2, <2>2 DEF Others
    <2>4. PICK s \in Seat : s = bookings[b].seat /\ bookings[b].flight = FlightOf[s]
      BY <1>4 DEF CoreInv, BookingShape, Active
    <2>5. ActiveOn(b, s)
      BY <1>4, <2>4 DEF ActiveOn
    <2> QED
      BY <1>2, <1>4, <2>1, <2>3, <2>4, <2>5, StartOn
  <1>5. ASSUME NEW u \in User, NEW b \in BookingId, ConfirmCheck(h, u, b)
        PROVE  CoreInv'
    <2>1. Starts(h, "confirm", {bookings[b].seat}) /\ OnBooking(h, b, "confirm", "confirm_lock")
      BY <1>5 DEF ConfirmCheck
    <2>2. Active(b)
      BY <1>5 DEF ConfirmCheck, Confirmable, Active
    <2> QED
      BY <1>4, <2>1, <2>2
  <1>6. ASSUME NEW b \in BookingId, Cancellable(b)
        PROVE  Active(b)
    BY <1>6 DEF Cancellable, Active, CoreInv, TypeOK, StoreType, Booking, BookingStatus
  <1>7. ASSUME NEW b \in BookingId, AdminCancelCheck(h, b) \/ \E u \in User : CancelCheck(h, u, b)
        PROVE  CoreInv'
    BY <1>4, <1>6, <1>7 DEF AdminCancelCheck, CancelCheck
  <1> QED
    BY <1>3, <1>5, <1>7 DEF BookingRequest

LEMMA BookingStepInv ==
  ASSUME Premises, CoreInv, TypeOK', NEW h \in Handler, BookingStep(h),
         job[h].pc \in {"confirm_status", "cancel_status"} =>
             bookings[job[h].booking].status # "NONE"
  PROVE  CoreInv'
  <1>1. CASE LockAcquire(h)
    <2>1. job[h].pc = "lock_acquire" /\ UNCHANGED <<bookings, seats, todo>>
      BY <1>1 DEF LockAcquire, At, store
    <2>2. PICK s \in Seat : s = job[h].seat /\ job[h].flight = FlightOf[s]
      BY <2>1, SeatKnown DEF SeatPc, LockPc
    <2>3. CASE FreeKey(FlightOf[s], s)
      <3>1. SetLock(FlightOf[s], s, job[h].user) /\ Goto(h, "lock_create")
        BY <1>1, <2>2, <2>3 DEF LockAcquire
      <3>2. ~ Live(s) /\ On(h, SeekPc, s)
        BY <2>1, <2>2, <2>3 DEF FreeKey, Live, On, SeekPc
      <3> QED
        BY <2>1, <3>1, <3>2, Acquire
    <2>4. CASE ~ FreeKey(FlightOf[s], s)
      <3>1. Finish(h) /\ UNCHANGED lock
        BY <1>1, <2>2, <2>4 DEF LockAcquire
      <3> QED
        BY <2>1, <3>1, GiveUp DEF MarkPc
    <2> QED
      BY <2>3, <2>4
  <1>2. CASE LockCreate(h)
    <2>1. job[h].pc = "lock_create" /\ UNCHANGED <<lock, seats, todo>>
      BY <1>2 DEF LockCreate, At, locks
    <2>2. PICK s \in Seat : s = job[h].seat /\ job[h].flight = FlightOf[s]
      BY <2>1, SeatKnown DEF SeatPc, LockPc
    <2>3. ASSUME NEW b \in BookingId, NextBookingId(b),
                 InsertBooking(b, job[h].user, job[h].flight, job[h].seat),
                 job' = [job EXCEPT ![h].pc = "lock_seat", ![h].booking = b]
          PROVE  CoreInv'
      <3>1. /\ Others(h)
            /\ job'[h].pc = "lock_seat" /\ job'[h].booking = b /\ job'[h].kind = job[h].kind
            /\ job'[h].user = job[h].user
            /\ job'[h].flight = job[h].flight /\ job'[h].seat = s
        BY <2>1, <2>2, <2>3, JobFunction DEF Job, Others
      <3>2. On(h, CreatePc, s) /\ InsertBooking(b, job[h].user, FlightOf[s], s)
        BY <2>1, <2>2, <2>3 DEF On, CreatePc
      <3> QED
        BY <2>1, <2>3, <3>1, <3>2, Create
    <2>4. CASE Finish(h) /\ UNCHANGED bookings
      BY <2>1, <2>4, GiveUp DEF MarkPc
    <2> QED
      BY <1>2, <2>3, <2>4 DEF LockCreate
  <1>3. CASE LockSeat(h) \/ ConfirmSeat(h)
    <2>1. /\ job[h].pc \in {"lock_seat", "confirm_seat"} /\ Finish(h)
          /\ \E v \in {"LOCKED", "BOOKED"} : UpdateSeat(job[h].seat, v)
          /\ UNCHANGED <<lock, bookings, todo>>
      BY <1>3 DEF LockSeat, ConfirmSeat, At, locks
    <2>2. PICK s \in Seat : s = job[h].seat
      BY <2>1, SeatKnown DEF SeatPc, LockPc, ConfirmPc
    <2>3. On(h, MarkPc \cup {"confirm_seat"}, s)
      BY <2>1, <2>2 DEF On, MarkPc
    <2>4. \A r \in Seat : WorksOn(h, r)' => WorksOn(h, r) /\ job'[h].kind = job[h].kind
      BY <2>1, FinishFacts, DomainAssumption DEF WorksOn
    <2> QED
      BY <2>1, <2>2, <2>3, <2>4, FinishFacts, Close
  <1>4. CASE ConfirmLock(h)
    <2>1. job[h].pc = "confirm_lock" /\ UNCHANGED <<lock, bookings, seats, todo>>
      BY <1>4 DEF ConfirmLock, At, locks, store
    <2>2. CASE Finish(h)
      BY <2>1, <2>2, GiveUp DEF MarkPc
    <2>3. CASE HasLock(job[h].flight, job[h].seat) /\ Goto(h, "confirm_status")
      <3>1. Shape(h)'
        BY <2>1, <2>3, GotoFacts
        DEF CoreInv, JobShape, Shape, SeatPc, LockPc, ConfirmPc, CancelPc, AssignPc, CleanPc
      <3>2. \A s \in Seat : WorksOn(h, s)' => WorksOn(h, s) /\ job'[h].kind = job[h].kind
        BY <2>1, <2>3, GotoFacts DEF WorksOn
      <3> QED
        BY <2>1, <2>3, <3>1, <3>2, GotoFacts, Retreat
        DEF On, SeekPc, ConfirmPc, TokenPc, CreatePc, MarkPc, CancelPc
    <2> QED
      BY <1>4, <2>2, <2>3 DEF ConfirmLock
  <1>5. CASE ConfirmStatus(h)
    BY <1>5, ConfirmInv DEF ConfirmStatus, At
  <1>6. CASE CancelStatus(h)
    BY <1>6, CancelStatusInv DEF CancelStatus, At
  <1>7. CASE CancelSeat(h)
    <2>1. /\ job[h].pc = "cancel_seat" /\ UpdateSeat(job[h].seat, "AVAILABLE")
          /\ Goto(h, "cancel_release") /\ UNCHANGED <<lock, bookings, todo>>
      BY <1>7 DEF CancelSeat, At, locks
    <2>2. PICK s \in Seat : s = job[h].seat
      BY <2>1, SeatKnown DEF SeatPc, CancelPc
    <2>3. \A g \in Handler \ {h} : ~ On(g, {"clean_seat"}, s)
      BY <2>1, <2>2, CancelAlone DEF On, WorksOn, CoreInv, JobShape, Shape, CancelPc
    <2> QED
      BY <2>1, <2>2, <2>3, Open
  <1>8. CASE CancelRelease(h)
    BY <1>8, ReleaseInv
  <1> QED
    BY <1>1, <1>2, <1>3, <1>4, <1>5, <1>6, <1>7, <1>8 DEF BookingStep

LEMMA CleanupSeatInv ==
  ASSUME Premises, CoreInv, TypeOK', NEW h \in Handler, CleanupSeat(h)
  PROVE  CoreInv'
  <1>1. /\ job[h].pc = "clean_seat" /\ UpdateSeat(job[h].seat, "AVAILABLE")
        /\ Goto(h, "assign_top") /\ UNCHANGED <<lock, bookings, todo>>
    BY DEF CleanupSeat, At, locks
  <1>2. PICK s \in Seat : s = job[h].seat
    BY <1>1, SeatKnown DEF SeatPc
  <1>3. \A g \in Handler \ {h} : ~ On(g, {"clean_seat"}, s)
    BY <1>1, <1>2, CleanupAlone DEF On, WorksOn, CoreInv, JobShape, Shape, CleanPc
  <1> QED
    BY <1>1, <1>2, <1>3, Open

LEMMA AssignStepInv ==
  ASSUME Premises, CoreInv, TypeOK', NEW h \in Handler, AssignStep(h)
  PROVE  CoreInv'
  <1>1. CASE AssignTop(h) \/ AssignEntry(h) \/ AssignConfirmed(h)
    <2>1. /\ job[h].pc \in {"assign_top", "assign_entry", "assign_confirmed"}
          /\ UNCHANGED <<lock, bookings, seats, todo>>
      BY <1>1 DEF AssignTop, AssignEntry, AssignConfirmed, At, locks, store
    <2>2. CASE Finish(h)
      BY <2>1, <2>2, GiveUp DEF MarkPc
    <2>3. ASSUME NEW p \in (SeekPc \ {"lock_acquire"}) \cup {"assign_row", "assign_member"},
                 NEW x,
                 \/ Goto(h, p)
                 \/ job' = [job EXCEPT ![h].pc = p, ![h].user = x]
                 \/ job' = [job EXCEPT ![h].pc = p, ![h].entry = x]
          PROVE  CoreInv'
      <3>1. /\ Others(h) /\ job'[h].pc = p /\ job'[h].seat = job[h].seat
            /\ job'[h].flight = job[h].flight /\ job'[h].kind = job[h].kind
        BY <2>1, <2>3, JobFunction DEF Goto, Job, Others
      <3>2. job[h].pc \in SeekPc \ {"lock_acquire"}
        BY <2>1 DEF SeekPc
      <3> QED
        BY <2>1, <2>3, <3>1, <3>2, GoOn
    <2>4. CASE AssignTop(h)
      <3>1. "assign_entry" \in SeekPc \ {"lock_acquire"}
        BY DEF SeekPc
      <3> QED
        BY <2>2, <2>3, <2>4, <3>1 DEF AssignTop
    <2>5. CASE AssignEntry(h)
      <3>1. "assign_confirmed" \in SeekPc \ {"lock_acquire"}
        BY DEF SeekPc
      <3> QED
        BY <2>3, <2>5, <3>1 DEF AssignEntry
    <2>6. CASE AssignConfirmed(h)
      <3>1. "assign_acquire" \in SeekPc \ {"lock_acquire"}
        BY DEF SeekPc
      <3> QED
        BY <2>3, <2>6, <3>1 DEF AssignConfirmed
    <2> QED
      BY <1>1, <2>4, <2>5, <2>6
  <1>2. CASE AssignAcquire(h)
    <2>1. job[h].pc = "assign_acquire" /\ UNCHANGED <<bookings, seats, todo>>
      BY <1>2 DEF AssignAcquire, At, store
    <2>2. PICK s \in Seat : s = job[h].seat /\ job[h].flight = FlightOf[s]
      BY <2>1, SeatKnown DEF SeatPc, AssignPc
    <2>3. CASE FreeKey(FlightOf[s], s)
      <3>1. SetLock(FlightOf[s], s, job[h].user) /\ Goto(h, "assign_create")
        BY <1>2, <2>2, <2>3 DEF AssignAcquire
      <3>2. ~ Live(s) /\ On(h, SeekPc, s)
        BY <2>1, <2>2, <2>3 DEF FreeKey, Live, On, SeekPc
      <3> QED
        BY <2>1, <3>1, <3>2, Acquire
    <2>4. CASE ~ FreeKey(FlightOf[s], s)
      <3>1. Finish(h) /\ UNCHANGED lock
        BY <1>2, <2>2, <2>4 DEF AssignAcquire
      <3> QED
        BY <2>1, <3>1, GiveUp DEF MarkPc
    <2> QED
      BY <2>3, <2>4
  <1>3. CASE AssignCreate(h)
    <2>1. job[h].pc = "assign_create" /\ UNCHANGED <<lock, seats, todo>>
      BY <1>3 DEF AssignCreate, At, locks
    <2>2. PICK s \in Seat : s = job[h].seat /\ job[h].flight = FlightOf[s]
      BY <2>1, SeatKnown DEF SeatPc, AssignPc
    <2>3. ASSUME NEW b \in BookingId, NextBookingId(b),
                 InsertBooking(b, job[h].user, job[h].flight, job[h].seat),
                 job' = [job EXCEPT ![h].pc = "assign_seat", ![h].booking = b]
          PROVE  CoreInv'
      <3>1. /\ Others(h)
            /\ job'[h].pc = "assign_seat" /\ job'[h].booking = b /\ job'[h].kind = job[h].kind
            /\ job'[h].user = job[h].user
            /\ job'[h].flight = job[h].flight /\ job'[h].seat = s
        BY <2>1, <2>2, <2>3, JobFunction DEF Job, Others
      <3>2. On(h, CreatePc, s) /\ InsertBooking(b, job[h].user, FlightOf[s], s)
        BY <2>1, <2>2, <2>3 DEF On, CreatePc
      <3> QED
        BY <2>1, <2>3, <3>1, <3>2, Create
    <2>4. CASE Finish(h) /\ UNCHANGED bookings
      BY <2>1, <2>4, GiveUp DEF MarkPc
    <2> QED
      BY <1>3, <2>3, <2>4 DEF AssignCreate
  <1>4. CASE AssignSeat(h)
    <2>1. /\ job[h].pc = "assign_seat" /\ Goto(h, "assign_row")
          /\ UpdateSeat(job[h].seat, "LOCKED") /\ UNCHANGED <<lock, bookings, todo>>
      BY <1>4 DEF AssignSeat, At, locks
    <2>2. PICK s \in Seat : s = job[h].seat
      BY <2>1, SeatKnown DEF SeatPc, AssignPc
    <2>3. On(h, MarkPc \cup {"confirm_seat"}, s)
      BY <2>1, <2>2 DEF On, MarkPc
    <2>4. \A r \in Seat : WorksOn(h, r)' => WorksOn(h, r) /\ job'[h].kind = job[h].kind
      BY <2>1, GotoFacts DEF WorksOn
    <2>5. Shape(h)'
      BY <2>1, GotoFacts
      DEF CoreInv, JobShape, Shape, SeatPc, LockPc, ConfirmPc, CancelPc, AssignPc, CleanPc
    <2> QED
      BY <2>1, <2>2, <2>3, <2>4, <2>5, GotoFacts, Close
  <1>5. CASE AssignRow(h) \/ AssignMember(h)
    <2>1. /\ job[h].pc \in {"assign_row", "assign_member"}
          /\ UNCHANGED <<lock, bookings, seats, todo>>
          /\ Finish(h) \/ (job[h].pc = "assign_row" /\ Goto(h, "assign_member"))
      BY <1>5 DEF AssignRow, AssignMember, At, locks, store
    <2>2. CASE Finish(h)
      BY <2>1, <2>2, GiveUp DEF MarkPc
    <2>3. CASE job[h].pc = "assign_row" /\ Goto(h, "assign_member")
      BY <2>1, <2>3, GotoFacts, GoOn
    <2> QED
      BY <2>1, <2>2, <2>3
  <1> QED
    BY <1>1, <1>2, <1>3, <1>4, <1>5 DEF AssignStep

LEMMA WaitlistInv ==
  ASSUME CoreInv, TypeOK', NEW h \in Handler, WaitlistRequest(h) \/ WaitlistStep(h)
  PROVE  CoreInv'
  <1>1. CASE WaitlistRequest(h)
    <2>1. job[h].pc = "idle" /\ UNCHANGED <<lock, bookings, seats, todo>>
      BY <1>1 DEF WaitlistRequest, JoinCheck, LeaveCheck, Starts, At, locks, store
    <2>2. ASSUME NEW r, job' = [job EXCEPT ![h] = r], r.pc \in JoinPc \cup LeavePc, r.seat = Nil
          PROVE  CoreInv'
      <3>1. Others(h) /\ job'[h] = r
        BY <2>1, <2>2, JobFunction DEF Others
      <3> QED
        BY <2>1, <2>2, <3>1, Elsewhere
    <2>3. ASSUME NEW u \in User, NEW f \in Flight, JoinCheck(h, u, f)
          PROVE  CoreInv'
      <3> DEFINE r == [NoJob EXCEPT !.pc = "join_confirmed", !.kind = "join",
                                    !.user = u, !.flight = f]
      <3>1. r.pc \in JoinPc \cup LeavePc /\ r.seat = Nil
        BY DEF NoJob, JoinPc
      <3>2. job' = [job EXCEPT ![h] = r]
        BY <2>3 DEF JoinCheck
      <3> QED
        BY <2>2, <3>1, <3>2
    <2>4. ASSUME NEW e \in EntryId, LeaveCheck(h, e)
          PROVE  CoreInv'
      <3> DEFINE r == [NoJob EXCEPT !.pc = "leave_row", !.kind = "leave",
                                    !.user = rows[e].user, !.flight = rows[e].flight,
                                    !.entry = e]
      <3>1. r.pc \in JoinPc \cup LeavePc /\ r.seat = Nil
        BY DEF NoJob, LeavePc
      <3>2. job' = [job EXCEPT ![h] = r]
        BY <2>4 DEF LeaveCheck
      <3> QED
        BY <2>2, <3>1, <3>2
    <2> QED
      BY <1>1, <2>3, <2>4 DEF WaitlistRequest
  <1>2. CASE WaitlistStep(h)
    <2>1. /\ job[h].pc \in JoinPc \cup LeavePc
          /\ UNCHANGED <<lock, bookings, seats, todo>>
          /\ Finish(h) \/ \E p \in JoinPc \cup LeavePc : Goto(h, p)
      BY <1>2
      DEF WaitlistStep, JoinConfirmed, JoinCreate, JoinMember, LeaveRow, LeaveMember, At, locks,
          store, JoinPc, LeavePc
    <2>2. job[h].pc \notin SeatPc
      BY <2>1 DEF SeatPc, LockPc, ConfirmPc, CancelPc, AssignPc, JoinPc, LeavePc
    <2>3. CASE Finish(h)
      BY <2>1, <2>2, <2>3, GiveUp DEF SeatPc, LockPc, CancelPc, AssignPc, MarkPc
    <2>4. ASSUME NEW p \in JoinPc \cup LeavePc, Goto(h, p)
          PROVE  CoreInv'
      <3>1. job'[h].seat = Nil
        BY <2>2, <2>4, GotoFacts DEF CoreInv, JobShape, Shape
      <3> QED
        BY <2>1, <2>4, <3>1, GotoFacts, Elsewhere
    <2> QED
      BY <2>1, <2>3, <2>4
  <1> QED
    BY <1>1, <1>2

(* Nothing the invariant speaks of has changed. *)
LEMMA StutterInv ==
  ASSUME CoreInv, TypeOK', UNCHANGED <<lock, bookings, seats, job, todo>>
  PROVE  CoreInv'
  <1>2. JobShape' /\ BookingShape' /\ Separation' /\ TokenLive' /\ TokenUnique' /\ CreateFree'
    BY DEF CoreInv, JobShape, Shape, BookingShape, Separation, WorksOn, TokenLive, TokenUnique,
           CreateFree, On, Live, HasLock, Free, ActiveOn, Active
  <1>3. MarkActive' /\ OneActive' /\ OpenTaken' /\ ClosedFree' /\ SeekBlocked' /\ HoldLock'
    BY DEF CoreInv, MarkActive, OneActive, OpenTaken, ClosedFree, SeekBlocked, HoldLock, On, Live,
           HasLock, Free, ActiveOn, Active, Lost, ActiveOrLost
  <1>4. ConfirmActive' /\ CancelFree' /\ CleanFree' /\ EndedThere' /\ TodoExpired'
    BY DEF CoreInv, ConfirmActive, CancelFree, CleanFree, EndedThere, TodoExpired, ExpiredLocked,
           On, Live, HasLock, Free, ActiveOn, Active, Lost, ActiveOrLost
  <1> QED
    BY <1>2, <1>3, <1>4 DEF CoreInv

-------------------------------------------------------------------------------
LEMMA InitInv == Init => IInv
  <1> SUFFICES ASSUME Init PROVE IInv
    OBVIOUS
  <1>1. /\ \A h \in Handler : job[h].pc = "idle" /\ job[h].seat = Nil /\ todo[h] = {}
        /\ \A b \in BookingId : bookings[b].status = "NONE" /\ bookings[b] = NoBooking
        /\ \A s \in Seat : seats[s] = "AVAILABLE"
    BY DEF Init, HandlersInit, StoreInit, NoJob, NoBooking
  <1>2. \A h \in Handler, s \in Seat : ~ WorksOn(h, s) /\ job[h].seat # s
    BY <1>1, DomainAssumption DEF WorksOn
  <1>3. \A b \in BookingId, s \in Seat : ~ ActiveOn(b, s)
    BY <1>1 DEF ActiveOn, Active
  <1>4. JobShape
    BY <1>1
    DEF JobShape, Shape, SeatPc, LockPc, ConfirmPc, CancelPc, AssignPc, CleanPc
  <1>5. BookingShape /\ Separation /\ OneActive /\ TodoExpired
    BY <1>1, <1>2, <1>3 DEF BookingShape, Separation, OneActive, TodoExpired
  <1>6. TokenLive /\ TokenUnique /\ CreateFree /\ MarkActive
    BY <1>2 DEF TokenLive, TokenUnique, CreateFree, MarkActive, On
  <1>7. OpenTaken /\ ClosedFree /\ SeekBlocked /\ HoldLock
    BY <1>1, <1>3 DEF OpenTaken, ClosedFree, SeekBlocked, HoldLock
  <1>8. ConfirmActive /\ CancelFree /\ CleanFree /\ EndedThere
    BY <1>2 DEF ConfirmActive, CancelFree, CleanFree, EndedThere, On
  <1> QED
    BY <1>1, <1>4, <1>5, <1>6, <1>7, <1>8, InitTypeOK DEF IInv, CoreInv, NoneDeleted

(* Where nothing is deleted, nobody's booking is lost. *)
LEMMA Intact ==
  ASSUME IInv
  PROVE  /\ CoreInv
         /\ \A b \in BookingId, s \in Seat : ~ Lost(b, s)
         /\ \A h \in Handler, s \in Seat :
               /\ On(h, MarkPc \cup ConfirmPc \cup {"cancel_status"}, s) =>
                      job[h].booking \in BookingId /\ ActiveOn(job[h].booking, s)
               /\ On(h, {"confirm_seat"}, s) => bookings[job[h].booking].status = "CONFIRMED"
         /\ \A s \in Seat : Free(s) /\ seats[s] # "AVAILABLE" =>
               \E h \in Handler : On(h, {"cancel_seat", "clean_seat"}, s)
         /\ \A h \in Handler : todo[h] \subseteq ExpiredLocked
  <1>1. CoreInv
    BY DEF IInv
  <1>2. \A b \in BookingId, s \in Seat : ~ Lost(b, s)
    BY SeatUsed DEF IInv, NoneDeleted, Lost
  <1>3. ASSUME NEW h \in Handler, NEW s \in Seat,
               On(h, MarkPc \cup ConfirmPc \cup {"cancel_status"}, s)
        PROVE  job[h].booking \in BookingId /\ ActiveOn(job[h].booking, s)
    <2>1. job[h].booking \in BookingId /\ ActiveOrLost(job[h].booking, s)
      BY <1>1, <1>3 DEF CoreInv, MarkActive, ConfirmActive, CancelFree, On
    <2> QED
      BY <1>2, <2>1 DEF ActiveOrLost
  <1>4. ASSUME NEW h \in Handler, NEW s \in Seat, On(h, {"confirm_seat"}, s)
        PROVE  bookings[job[h].booking].status = "CONFIRMED"
    <2>1. On(h, ConfirmPc, s) /\ job[h].pc = "confirm_seat"
      BY <1>4 DEF On, ConfirmPc
    <2>2. /\ bookings[job[h].booking].status \in {"CONFIRMED", "NONE"}
          /\ ActiveOn(job[h].booking, s)
      BY <1>1, <1>3, <2>1 DEF CoreInv, ConfirmActive, On
    <2> QED
      BY <2>2 DEF ActiveOn, Active
  <1>5. \A s \in Seat : Free(s) /\ seats[s] # "AVAILABLE" =>
           \E h \in Handler : On(h, {"cancel_seat", "clean_seat"}, s)
    BY <1>1, <1>2 DEF CoreInv, ClosedFree
  <1>6. \A h \in Handler : todo[h] \subseteq ExpiredLocked
    BY <1>1, ListedUsed DEF IInv, NoneDeleted, CoreInv, TodoExpired
  <1> QED
    BY <1>1, <1>2, <1>3, <1>4, <1>5, <1>6

(* What a step may do to the bookings table, under the invariant. *)
Unmoved == \A b \in BookingId : /\ bookings'[b].status = bookings[b].status
                               /\ bookings'[b].seat = bookings[b].seat

Unborn == \A b \in BookingId : bookings[b].status = "NONE" => bookings'[b] = bookings[b]

Held(b, s) ==
    /\ bookings[b].status = "NONE"
    /\ Free(s)
    /\ bookings'[b].status = "LOCKED" /\ bookings'[b].seat = s

Sold(b) ==
    /\ Active(b)
    /\ \/ lock[<<bookings[b].flight, bookings[b].seat>>].holder = bookings[b].user
       \/ ~ HasLock(bookings[b].flight, bookings[b].seat)
       \/ bookings[b].status = "CONFIRMED"
    /\ bookings'[b].status = "CONFIRMED" /\ bookings'[b].seat = bookings[b].seat

Cancelled(b) ==
    /\ Active(b)
    /\ bookings'[b].status = "CANCELLED" /\ bookings'[b].seat = bookings[b].seat

Expired(b) ==
    /\ bookings[b].status = "LOCKED"
    /\ ~ HasLock(bookings[b].flight, bookings[b].seat)
    /\ bookings'[b].status = "EXPIRED" /\ bookings'[b].seat = bookings[b].seat

Moved(b) == (\E s \in Seat : Held(b, s)) \/ Sold(b) \/ Cancelled(b) \/ Expired(b)

LEMMA StatusWrite ==
  ASSUME IInv, NEW b \in BookingId, NEW v, UpdateStatus(b, v)
  PROVE  /\ \A c \in BookingId \ {b} : bookings'[c] = bookings[c]
         /\ bookings'[b].status = v /\ bookings'[b].seat = bookings[b].seat
  BY DEF UpdateStatus, IInv, CoreInv, TypeOK, StoreType, Booking

LEMMA InsertWrite ==
  ASSUME IInv, NEW b \in BookingId, NEW h \in Handler, NextBookingId(b), On(h, CreatePc, job[h].seat),
         InsertBooking(b, job[h].user, job[h].flight, job[h].seat)
  PROVE  /\ \A c \in BookingId \ {b} : bookings'[c] = bookings[c]
         /\ Moved(b)
  <1>1. job[h].seat \in Seat
    BY Intact, SeatKnown DEF On, CreatePc, SeatPc, LockPc, AssignPc
  <1>2. Free(job[h].seat)
    BY <1>1 DEF IInv, CoreInv, CreateFree
  <1>3. bookings \in [BookingId -> Booking]
    BY DEF IInv, CoreInv, TypeOK, StoreType
  <1>4. /\ \A c \in BookingId \ {b} : bookings'[c] = bookings[c]
        /\ bookings'[b].status = "LOCKED" /\ bookings'[b].seat = job[h].seat
    BY <1>3 DEF InsertBooking
  <1> QED
    BY <1>1, <1>2, <1>4 DEF NextBookingId, NoBooking, Moved, Held

LEMMA BookingMoves ==
  ASSUME Premises, IInv, [Next]_vars
  PROVE  \/ Unmoved /\ Unborn
         \/ \E b \in BookingId : /\ Moved(b)
                                 /\ \A c \in BookingId \ {b} : bookings'[c] = bookings[c]
  <1>1. CASE UNCHANGED bookings
    BY <1>1 DEF Unmoved, Unborn
  <1>2. CASE Tick
    <2>1. \A b \in BookingId : bookings[b] \in Booking
      BY DEF IInv, CoreInv, TypeOK, StoreType
    <2> QED
      BY <1>2, <2>1 DEF Tick, BookingsAge, Unmoved, Unborn, Booking
  <1>3. ASSUME NEW h \in Handler, LockCreate(h) \/ AssignCreate(h), ~ UNCHANGED bookings
        PROVE  \E b \in BookingId : /\ Moved(b)
                                    /\ \A c \in BookingId \ {b} : bookings'[c] = bookings[c]
    <2>1. PICK b \in BookingId : /\ NextBookingId(b)
                                 /\ InsertBooking(b, job[h].user, job[h].flight, job[h].seat)
      BY <1>3 DEF LockCreate, AssignCreate
    <2>2. On(h, CreatePc, job[h].seat)
      BY <1>3 DEF LockCreate, AssignCreate, At, On, CreatePc
    <2> QED
      BY <2>1, <2>2, InsertWrite
  <1>4. ASSUME NEW h \in Handler, ConfirmStatus(h)
        PROVE  \E b \in BookingId : /\ Moved(b)
                                    /\ \A c \in BookingId \ {b} : bookings'[c] = bookings[c]
    <2>1. job[h].pc = "confirm_status" /\ UpdateStatus(job[h].booking, "CONFIRMED")
      BY <1>4 DEF ConfirmStatus, At
    <2>2. PICK s \in Seat : s = job[h].seat
      BY <2>1, Intact, SeatKnown DEF SeatPc, ConfirmPc
    <2>3. job[h].booking \in BookingId /\ ActiveOn(job[h].booking, s)
      BY <2>1, <2>2, Intact DEF On, ConfirmPc
    <2>4. PICK b \in BookingId : b = job[h].booking
      BY <2>3
    <2>5. bookings[b].seat = s /\ bookings[b].flight = FlightOf[s] /\ Active(b)
      BY <2>3, <2>4 DEF ActiveOn, Active, IInv, CoreInv, BookingShape
    <2>6. \/ lock[<<bookings[b].flight, bookings[b].seat>>].holder = bookings[b].user
          \/ ~ HasLock(bookings[b].flight, bookings[b].seat)
          \/ bookings[b].status = "CONFIRMED"
      BY <2>3, <2>4, <2>5 DEF IInv, CoreInv, HoldLock, Active, Live
    <2> QED
      BY <2>1, <2>4, <2>5, <2>6, StatusWrite DEF Moved, Sold
  <1>5. ASSUME NEW h \in Handler, CancelStatus(h)
        PROVE  \E b \in BookingId : /\ Moved(b)
                                    /\ \A c \in BookingId \ {b} : bookings'[c] = bookings[c]
    <2>1. job[h].pc = "cancel_status" /\ UpdateStatus(job[h].booking, "CANCELLED")
      BY <1>5 DEF CancelStatus, At
    <2>2. PICK s \in Seat : s = job[h].seat
      BY <2>1, Intact, SeatKnown DEF SeatPc, CancelPc
    <2>3. PICK b \in BookingId : b = job[h].booking /\ ActiveOn(b, s)
      BY <2>1, <2>2, Intact DEF On
    <2> QED
      BY <2>1, <2>3, StatusWrite DEF Moved, Cancelled, ActiveOn
  <1>6. ASSUME NEW h \in Handler, CleanupStatus(h)
        PROVE  \E b \in BookingId : /\ Moved(b)
                                    /\ \A c \in BookingId \ {b} : bookings'[c] = bookings[c]
    <2>1. PICK b \in todo[h] : UpdateStatus(b, "EXPIRED")
      BY <1>6 DEF CleanupStatus
    <2>2. b \in BookingId /\ bookings[b].status = "LOCKED" /\ bookings[b].age > TTL
      BY Intact DEF ExpiredLocked
    <2>3. PICK s \in Seat : s = bookings[b].seat /\ bookings[b].flight = FlightOf[s]
      BY <2>2 DEF IInv, CoreInv, BookingShape
    <2>4. ~ Live(s)
      <3>1. lock[<<FlightOf[s], s>>].ttl \in Nat /\ bookings[b].age \in Nat /\ TTL \in Nat
        BY <2>2, KeyType, DomainAssumption
        DEF IInv, CoreInv, TypeOK, LocksType, StoreType, Lock, Booking
      <3>2. Live(s) => bookings[b].age + lock[<<FlightOf[s], s>>].ttl <= TTL
        BY <2>2, <2>3 DEF IInv, CoreInv, HoldLock, ActiveOn, Active
      <3> QED
        BY <2>2, <3>1, <3>2
    <2> QED
      BY <2>1, <2>2, <2>3, <2>4, StatusWrite DEF Moved, Expired, Live
  <1>7. ASSUME NEW h \in Handler, BookingRequest(h) \/ WaitlistRequest(h) \/ CleanupFind(h)
        PROVE  UNCHANGED bookings
    BY <1>7
    DEF BookingRequest, LockCheck, ConfirmCheck, CancelCheck, AdminCancelCheck, WaitlistRequest,
        JoinCheck, LeaveCheck, CleanupFind, store
  <1>8. ASSUME NEW h \in Handler, Step(h), ~ UNCHANGED bookings
        PROVE  \E b \in BookingId : /\ Moved(b)
                                    /\ \A c \in BookingId \ {b} : bookings'[c] = bookings[c]
    <2>1. CASE BookingStep(h)
      BY <1>3, <1>4, <1>5, <1>8, <2>1
      DEF BookingStep, LockAcquire, LockSeat, ConfirmLock, ConfirmSeat, CancelSeat, CancelRelease,
          store
    <2>2. CASE CleanupStep(h)
      BY <1>6, <1>8, <2>2 DEF CleanupStep, CleanupSeat
    <2>3. CASE AssignStep(h)
      BY <1>3, <1>8, <2>3
      DEF AssignStep, AssignTop, AssignEntry, AssignConfirmed, AssignAcquire, AssignSeat,
          AssignRow, AssignMember, store
    <2>4. CASE WaitlistStep(h)
      BY <1>8, <2>4
      DEF WaitlistStep, JoinConfirmed, JoinCreate, JoinMember, LeaveRow, LeaveMember, store
    <2> QED
      BY <1>8, <2>1, <2>2, <2>3, <2>4 DEF Step
  <1>9. CASE \E s \in Seat, status \in SeatStatus : SetSeat(s, status)
    BY <1>9 DEF SetSeat, Premises
  <1>10. CASE UNCHANGED vars
    BY <1>1, <1>10 DEF vars
  <1> QED
    BY <1>1, <1>2, <1>7, <1>8, <1>9, <1>10 DEF Next, Handler

LEMMA NextInv == Premises /\ IInv /\ [Next]_vars => IInv'
  <1> SUFFICES ASSUME Premises, IInv, [Next]_vars PROVE IInv'
    OBVIOUS
  <1>1. CoreInv /\ TypeOK'
    BY NextTypeOK DEF IInv, CoreInv
  <1>2. NoneDeleted'
    <2>1. CASE Unmoved /\ Unborn
      BY <2>1 DEF IInv, NoneDeleted, Unmoved, Unborn
    <2>2. ASSUME NEW b \in BookingId, Moved(b), \A c \in BookingId \ {b} : bookings'[c] = bookings[c]
          PROVE  NoneDeleted'
      <3>1. bookings'[b].status # "NONE"
        BY <2>2 DEF Moved, Held, Sold, Cancelled, Expired
      <3> QED
        BY <2>2, <3>1 DEF IInv, NoneDeleted
    <2> QED
      BY <2>1, <2>2, BookingMoves
  <1>3. ASSUME Tick PROVE CoreInv'
    BY <1>1, <1>3, TickInv
  <1>4. ASSUME \E h \in Proc : BookingRequest(h) \/ WaitlistRequest(h) PROVE CoreInv'
    BY <1>1, <1>4, RequestInv, WaitlistInv DEF Handler
  <1>5. ASSUME \E h \in Cron : CleanupFind(h) PROVE CoreInv'
    BY <1>1, <1>5, FindInv DEF Handler
  <1>6. ASSUME NEW h \in Handler, Step(h)
        PROVE  CoreInv'
    <2>1. CASE BookingStep(h)
      <3>1. ASSUME job[h].pc \in {"confirm_status", "cancel_status"}
            PROVE  bookings[job[h].booking].status # "NONE"
        <4>1. PICK s \in Seat : s = job[h].seat
          BY <1>1, <3>1, SeatKnown DEF SeatPc, ConfirmPc, CancelPc
        <4>2. ActiveOn(job[h].booking, s)
          BY <3>1, <4>1, Intact DEF On, ConfirmPc
        <4> QED
          BY <4>2 DEF ActiveOn, Active
      <3> QED
        BY <1>1, <2>1, <3>1, BookingStepInv
    <2>2. CASE CleanupStatus(h)
      <3>1. PICK c \in todo[h] :
               /\ UpdateStatus(c, "EXPIRED")
               /\ todo' = [todo EXCEPT ![h] = @ \ {c}]
               /\ job' = [job EXCEPT ![h].pc = "clean_seat", ![h].booking = c,
                                     ![h].flight = bookings[c].flight,
                                     ![h].seat = bookings[c].seat]
        BY <2>2 DEF CleanupStatus
      <3>2. bookings[c].status # "NONE"
        BY Intact DEF ExpiredLocked
      <3> QED
        BY <1>1, <2>2, <3>1, <3>2, CleanupStatusInv DEF CleanupStatus
    <2>3. CASE CleanupSeat(h)
      BY <1>1, <2>3, CleanupSeatInv
    <2> QED
      BY <1>1, <1>6, <2>1, <2>2, <2>3, AssignStepInv, WaitlistInv DEF Step, CleanupStep
  <1>7. ASSUME \E s \in Seat, status \in SeatStatus : SetSeat(s, status) PROVE CoreInv'
    BY <1>7 DEF SetSeat, Premises
  <1>8. ASSUME UNCHANGED vars PROVE CoreInv'
    BY <1>1, <1>8, StutterInv DEF vars
  <1>9. CoreInv'
    BY <1>3, <1>4, <1>5, <1>6, <1>7, <1>8 DEF Next
  <1> QED
    BY <1>2, <1>9 DEF IInv

-------------------------------------------------------------------------------
(* The invariant of the reservation core: tokens, locks and statuses stay  *)
(* in step through every interleaving the premises allow.                  *)
THEOREM InvariantHolds ==
  ASSUME Premises
  PROVE  Spec => []IInv
  <1>1. Init => IInv
    BY InitInv
  <1>2. IInv /\ [Next]_vars => IInv'
    BY NextInv
  <1> QED
    BY <1>1, <1>2, PTL DEF Spec

(* No double booking: lockSeat, the promotion from the waitlist and the   *)
(* cleanup never leave two bookings in force for the same seat.           *)
THEOREM NoDoubleBooking ==
  ASSUME Premises
  PROVE  Spec => []OneActive
  <1>1. IInv => OneActive
    BY DEF IInv, CoreInv
  <1> QED
    BY <1>1, InvariantHolds, PTL

(* A seat nobody is working on is on sale exactly when no booking entitles *)
(* to it: no cancellation, expiry or hold leaves the two tables apart.     *)
THEOREM SaleStatusAgrees ==
  ASSUME Premises
  PROVE  Spec => []SaleAgrees
  <1>1. ASSUME IInv PROVE SaleAgrees
    <2> SUFFICES ASSUME NEW s \in Seat, Quiet(s)
                 PROVE  seats[s] = "AVAILABLE" <=> Free(s)
      BY DEF SaleAgrees, Free
    <2>1. \A h \in Handler : job[h].seat # s
      BY DEF Quiet, Concerns, WorksOn
    <2>2. seats[s] = "AVAILABLE" => Free(s)
      BY <1>1, <2>1 DEF IInv, CoreInv, OpenTaken, On, Free
    <2>3. Free(s) => seats[s] = "AVAILABLE"
      BY <1>1, <2>1, Intact DEF On
    <2> QED
      BY <2>2, <2>3
  <1> QED
    BY <1>1, InvariantHolds, PTL

(* A handler moves by its own step, or starts. *)
LEMMA OwnStep ==
  ASSUME IInv, [Next]_vars, NEW h \in Handler, job'[h] # job[h]
  PROVE  \/ Step(h)
         \/ At(h, "idle") /\ (BookingRequest(h) \/ WaitlistRequest(h) \/ CleanupFind(h))
  <1>0. job \in [Handler -> Job]
    BY JobFunction DEF IInv
  <1>1. ASSUME NEW g \in Handler, \E r : job' = [job EXCEPT ![g] = r]
        PROVE  g = h
    BY <1>0, <1>1
  <1>2. ASSUME NEW g \in Handler, Step(g)
        PROVE  g = h
    <2>1. \E r : job' = [job EXCEPT ![g] = r]
      BY <1>0, <1>2
      DEF Step, BookingStep, LockAcquire, LockCreate, LockSeat, ConfirmLock, ConfirmStatus,
          ConfirmSeat, CancelStatus, CancelSeat, CancelRelease, CleanupStep, CleanupStatus,
          CleanupSeat, AssignStep, AssignTop, AssignEntry, AssignConfirmed, AssignAcquire,
          AssignCreate, AssignSeat, AssignRow, AssignMember, WaitlistStep, JoinConfirmed,
          JoinCreate, JoinMember, LeaveRow, LeaveMember, Goto, Finish
    <2> QED
      BY <1>1, <2>1
  <1>3. ASSUME NEW g \in Handler, BookingRequest(g) \/ WaitlistRequest(g) \/ CleanupFind(g)
        PROVE  g = h /\ At(g, "idle")
    <2>1. At(g, "idle") /\ \E r : job' = [job EXCEPT ![g] = r]
      BY <1>3
      DEF BookingRequest, WaitlistRequest, LockCheck, ConfirmCheck, CancelCheck, AdminCancelCheck,
          JoinCheck, LeaveCheck, CleanupFind, Starts, OnBooking
    <2> QED
      BY <1>1, <2>1
  <1> QED
    BY <1>2, <1>3 DEF Next, Tick, SetSeat, vars, Handler

(* Who is let past the lock check of confirmBooking has found a lock. *)
LEMMA LockFound ==
  ASSUME IInv, [Next]_vars, NEW h \in Handler, At(h, "confirm_lock"),
         job'[h].pc = "confirm_status"
  PROVE  HasLock(job[h].flight, job[h].seat)
  <1>1. Step(h)
    BY OwnStep DEF At
  <1>2. ConfirmLock(h)
    BY <1>1
    DEF At, Step, BookingStep, LockAcquire, LockCreate, LockSeat, ConfirmLock, ConfirmStatus,
        ConfirmSeat, CancelStatus, CancelSeat, CancelRelease, CleanupStep, CleanupStatus,
        CleanupSeat, AssignStep, AssignTop, AssignEntry, AssignConfirmed, AssignAcquire,
        AssignCreate, AssignSeat, AssignRow, AssignMember, WaitlistStep, JoinConfirmed,
        JoinCreate, JoinMember, LeaveRow, LeaveMember
  <1> QED
    BY <1>2, FinishFacts DEF ConfirmLock, IInv

(* confirmBooking asks only whether some lock exists on the seat, and the  *)
(* lock may lapse before the status is written.  Nevertheless the one that *)
(* lets it pass is its passenger's, and nobody else holds one at the write *)
(* that confirms the hold.                                                 *)
THEOREM OwnLock ==
  ASSUME Premises
  PROVE  Spec => ConfirmedUnderOwnLock
  <1> DEFINE Holder(b) == lock[<<bookings[b].flight, bookings[b].seat>>].holder
             Locked(b) == HasLock(bookings[b].flight, bookings[b].seat)
             Own ==
         \A b \in BookingId : bookings[b].status = "LOCKED" =>
            /\ \A h \in Handler :
                   At(h, "confirm_lock") /\ job[h].booking = b /\ job'[h].pc = "confirm_status"
                       => Locked(b) /\ Holder(b) = bookings[b].user
            /\ bookings'[b].status = "CONFIRMED" => (Locked(b) => Holder(b) = bookings[b].user)
  <1>1. ASSUME IInv, [Next]_vars PROVE Own
    <2>1. ASSUME NEW b \in BookingId, bookings[b].status = "LOCKED",
                 bookings'[b].status = "CONFIRMED", Locked(b)
          PROVE  Holder(b) = bookings[b].user
      BY <1>1, <2>1, BookingMoves DEF Unmoved, Moved, Held, Sold, Cancelled, Expired, Active
    <2>2. ASSUME NEW b \in BookingId, bookings[b].status = "LOCKED", NEW h \in Handler,
                 At(h, "confirm_lock"), job[h].booking = b, job'[h].pc = "confirm_status"
          PROVE  Locked(b) /\ Holder(b) = bookings[b].user
      <3>1. HasLock(job[h].flight, job[h].seat)
        BY <1>1, <2>2, LockFound
      <3>2. PICK s \in Seat : s = job[h].seat /\ job[h].flight = FlightOf[s]
        BY <1>1, <2>2, SeatKnown DEF At, SeatPc, ConfirmPc, IInv
      <3>3. ActiveOn(b, s)
        BY <1>1, <2>2, <3>2, Intact DEF On, ConfirmPc, At
      <3>4. bookings[b].seat = s /\ bookings[b].flight = FlightOf[s] /\ Live(s)
        BY <1>1, <3>1, <3>2, <3>3 DEF ActiveOn, Active, IInv, CoreInv, BookingShape, Live
      <3> QED
        BY <1>1, <2>2, <3>3, <3>4 DEF IInv, CoreInv, HoldLock, Live
    <2> QED
      BY <2>1, <2>2
  <1>2. IInv /\ [Next]_vars => [Own]_vars
    BY <1>1
  <1> QED
    BY <1>2, InvariantHolds, PTL DEF Spec, ConfirmedUnderOwnLock

(* The cleanup never expires a hold whose seat is still locked, although it *)
(* looks at the age of the row and not at the lock.                         *)
THEOREM ExpiredUnlocked ==
  ASSUME Premises
  PROVE  Spec => ExpiredOnlyUnlocked
  <1> DEFINE Gone ==
         \A b \in BookingId :
            bookings[b].status = "LOCKED" /\ bookings'[b].status = "EXPIRED" =>
                ~ HasLock(bookings[b].flight, bookings[b].seat)
  <1>1. ASSUME IInv, [Next]_vars PROVE Gone
    BY <1>1, BookingMoves DEF Unmoved, Moved, Held, Sold, Cancelled, Expired, Active
  <1>2. IInv /\ [Next]_vars => [Gone]_vars
    BY <1>1
  <1> QED
    BY <1>2, InvariantHolds, PTL DEF Spec, ExpiredOnlyUnlocked

-------------------------------------------------------------------------------
(* The refinement of the inventory, step by step. *)
LEMMA TicketStates ==
  /\ TicketState["NONE"] = "none" /\ TicketState["LOCKED"] = "held"
  /\ TicketState["CONFIRMED"] = "sold" /\ TicketState["CANCELLED"] = "cancelled"
  /\ TicketState["EXPIRED"] = "expired"
  BY DEF TicketState

LEMMA TicketFree ==
  ASSUME TypeOK, NEW s \in Seat, Free(s)
  PROVE  Inventory!Free(s)
  <1>1. \A b \in BookingId : bookings[b].status \in BookingStatus
    BY DEF TypeOK, StoreType, Booking
  <1>2. \A b \in BookingId :
           TicketState[bookings[b].status] \in {"held", "sold"} => Active(b)
    BY <1>1, TicketStates DEF BookingStatus, Active
  <1> QED
    BY <1>2 DEF Inventory!Free, Inventory!Holders, TicketOf, Free, ActiveOn

LEMMA TicketWrite ==
  ASSUME NEW b \in BookingId, \A c \in BookingId \ {b} : bookings'[c] = bookings[c]
  PROVE  TicketOf' = [TicketOf EXCEPT ![b] = [state |-> TicketState[bookings'[b].status],
                                              seat |-> bookings'[b].seat]]
  BY DEF TicketOf

LEMMA InventoryStep ==
  ASSUME Premises, IInv, [Next]_vars
  PROVE  [Inventory!Next]_TicketOf
  <1>1. CASE Unmoved
    BY <1>1 DEF Unmoved, TicketOf
  <1>2. ASSUME NEW b \in BookingId, Moved(b), \A c \in BookingId \ {b} : bookings'[c] = bookings[c]
        PROVE  [Inventory!Next]_TicketOf
    <2>1. TicketOf' = [TicketOf EXCEPT ![b] = [state |-> TicketState[bookings'[b].status],
                                               seat |-> bookings'[b].seat]]
      BY <1>2, TicketWrite
    <2>2. /\ TicketOf[b].state = TicketState[bookings[b].status]
          /\ TicketOf[b].seat = bookings[b].seat
          /\ TicketOf[b] = [state |-> TicketState[bookings[b].status], seat |-> bookings[b].seat]
      BY DEF TicketOf
    <2>3. ASSUME NEW v, bookings'[b].seat = bookings[b].seat, TicketState[bookings'[b].status] = v
          PROVE  TicketOf' = [TicketOf EXCEPT ![b].state = v]
      BY <2>1, <2>2, <2>3 DEF TicketOf
    <2>4. ASSUME NEW s \in Seat, Held(b, s)
          PROVE  Inventory!Hold(b, s)
      BY <2>1, <2>2, <2>4, TicketFree, TicketStates DEF Held, Inventory!Hold, IInv, CoreInv
    <2>5. CASE Sold(b) /\ bookings[b].status = "LOCKED"
      BY <2>2, <2>3, <2>5, TicketStates DEF Sold, Inventory!Sell, Inventory!Next
    <2>6. CASE Sold(b) /\ bookings[b].status = "CONFIRMED"
      <3>1. \A c \in BookingId : /\ bookings'[c].status = bookings[c].status
                                 /\ bookings'[c].seat = bookings[c].seat
        BY <1>2, <2>6 DEF Sold
      <3> QED
        BY <3>1 DEF TicketOf
    <2>7. CASE Cancelled(b)
      BY <2>2, <2>3, <2>7, TicketStates
      DEF Cancelled, Active, Inventory!Cancel, Inventory!Next
    <2>8. CASE Expired(b)
      BY <2>2, <2>3, <2>8, TicketStates DEF Expired, Inventory!Expire, Inventory!Next
    <2> QED
      BY <1>2, <2>4, <2>5, <2>6, <2>7, <2>8 DEF Moved, Sold, Active, Inventory!Next
  <1> QED
    BY <1>1, <1>2, BookingMoves

(* The reservation core, with its locks, handlers and clock, implements the *)
(* abstract inventory: a seat has at most one passenger at a time, and what *)
(* was sold can only be cancelled.                                          *)
THEOREM CoreImplementsInventory ==
  ASSUME Premises
  PROVE  Spec => ImplementsInventory
  <1>1. Init => Inventory!Init
    <2> SUFFICES ASSUME Init PROVE Inventory!Init
      OBVIOUS
    <2>1. \A b \in BookingId : bookings[b].status = "NONE" /\ bookings[b].seat = Nil
      BY DEF Init, StoreInit, NoBooking
    <2> QED
      BY <2>1, TicketStates DEF Inventory!Init, TicketOf
  <1>2. IInv /\ [Next]_vars => [Inventory!Next]_TicketOf
    BY InventoryStep
  <1> QED
    BY <1>1, <1>2, InvariantHolds, PTL DEF Spec, ImplementsInventory, Inventory!Spec
===============================================================================
